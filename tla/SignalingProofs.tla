--------------------------- MODULE SignalingProofs ---------------------------
(***************************************************************************)
(* The signaling registry is correct for every set of connections and      *)
(* rooms and every capacity, and what it sends lets every client know its  *)
(* room, however slowly it reads.                                          *)
(***************************************************************************)
EXTENDS Signaling, FiniteSetTheorems, WellFoundedInduction, TLAPS

\* The inductive invariant: the registry is in sync, holds open handles only,
\* and its rooms are finite (so that their cardinality is a number).
RoomsFinite == \A r \in RoomName : IsFiniteSet(participants[r])

IInv ==
    /\ TypeOK
    /\ RegistryInSync
    /\ HandlesAreOpen
    /\ RoomsFinite

-----------------------------------------------------------------------------
(* What leave computes, once connRoom_ and rooms_ agree. *)

\* Filtering the one room c is bound to filters c out of every room.
LEMMA RemainingFilters ==
    ASSUME IInv, NEW c \in Conn
    PROVE  /\ Remaining(c) \in [RoomName -> SUBSET Participant]
           /\ \A r \in RoomName :
                 Remaining(c)[r] = {p \in participants[r] : p.conn # c}
<1>1. \A r \in RoomName : Remaining(c)[r] = {p \in participants[r] : p.conn # c}
  BY DEF Remaining, IInv, RegistryInSync, BindingsAgree, TypeOK
<1>2. Remaining(c) \in [RoomName -> SUBSET Participant]
  BY DEF Remaining, IInv, TypeOK
<1>3. QED BY <1>1, <1>2

\* Pruning the one room that c leaves keeps the keys of rooms_ exact.
LEMMA PrunedExact ==
    ASSUME IInv, NEW c \in Conn
    PROVE  Pruned(c) = {r \in RoomName : Remaining(c)[r] # {}}
<1>1. \A r \in RoomName : r # connRoom[c] => Remaining(c)[r] = participants[r]
  BY DEF Remaining
<1>2. \A r \in RoomName : Remaining(c)[r] \subseteq participants[r]
  BY RemainingFilters
<1>3. roomNames = {r \in RoomName : participants[r] # {}}
  BY DEF IInv, RegistryInSync, NoEmptyRooms
<1>4. QED BY <1>1, <1>2, <1>3 DEF Pruned

\* The rooms that leave leaves are finite and within the cap.
LEMMA RemainingSmaller ==
    ASSUME IInv, NEW c \in Conn, NEW r \in RoomName
    PROVE  /\ IsFiniteSet(Remaining(c)[r])
           /\ Cardinality(Remaining(c)[r]) \in Nat
           /\ Cardinality(Remaining(c)[r]) <= kMaxParticipants
<1>1. /\ IsFiniteSet(participants[r])
      /\ Cardinality(participants[r]) <= kMaxParticipants
  BY DEF IInv, RoomsFinite, RegistryInSync, WithinCapacity
<1>2. Remaining(c)[r] \subseteq participants[r]
  BY RemainingFilters
<1>3. /\ IsFiniteSet(Remaining(c)[r])
      /\ Cardinality(Remaining(c)[r]) <= Cardinality(participants[r])
  BY <1>1, <1>2, FS_Subset
<1>4. /\ Cardinality(participants[r]) \in Nat
      /\ Cardinality(Remaining(c)[r]) \in Nat
  BY <1>1, <1>3, FS_CardinalityType
<1>5. QED BY <1>1, <1>3, <1>4, RoomManagerAssumption DEF RoomManagerAssumption

\* Whoever is told that c left is still registered, and is not c.
LEMMA NoticeToSurvivors ==
    ASSUME IInv, NEW c \in Conn, NEW d \in Conn, LeaveNotice(c, d) # <<>>
    PROVE  d \in open /\ d # c
<1>1. connRoom[c] \in RoomName
  BY DEF LeaveNotice, idFor, Entry, IInv, TypeOK
<1>2. PICK p \in Remaining(c)[connRoom[c]] : p.conn = d
  BY DEF LeaveNotice
<1>3. p \in participants[connRoom[c]] /\ p.conn # c
  BY <1>1, <1>2, RemainingFilters
<1>4. QED BY <1>1, <1>2, <1>3 DEF IInv, HandlesAreOpen

-----------------------------------------------------------------------------
(* Every action preserves the invariant. *)

\* OnLeave, OnClose and a refused join leave the same registry behind: all but
\* c, which no longer is bound.
LEMMA RegistryWithout ==
    ASSUME IInv, NEW c \in Conn,
           participants' = Remaining(c),
           roomNames' = Pruned(c),
           connRoom' = [connRoom EXCEPT ![c] = NoRoom],
           UNCHANGED nextId,
           open' \in {open, open \ {c}}
    PROVE  /\ RegistryInSync' /\ RoomsFinite'
           /\ participants' \in [RoomName -> SUBSET Participant]
           /\ roomNames' \in SUBSET RoomName
           /\ connRoom' \in [Conn -> RoomName \cup {NoRoom}]
           /\ nextId' \in 1 .. MaxId + 1
           /\ open' \in SUBSET Conn
           /\ \A r \in RoomName : \A p \in participants'[r] : p.conn \in open'
<1> USE RoomManagerAssumption DEF RoomManagerAssumption
<1>1. /\ participants' \in [RoomName -> SUBSET Participant]
      /\ \A r \in RoomName :
            participants'[r] = {p \in participants[r] : p.conn # c}
  BY RemainingFilters
<1>2. roomNames' = {r \in RoomName : participants'[r] # {}}
  BY PrunedExact
<1>3. connRoom' \in [Conn -> RoomName \cup {NoRoom}]
  BY DEF IInv, TypeOK
<1>4. \A r \in RoomName : \A p \in participants'[r] :
         p \in participants[r] /\ p.conn \in Conn /\ p.conn # c
  BY <1>1 DEF Participant
<1>5. BindingsAgree'
  <2>1. \A r \in RoomName : \A p \in participants'[r] : connRoom'[p.conn] = r
    BY <1>4 DEF IInv, TypeOK, RegistryInSync, BindingsAgree
  <2>2. ASSUME NEW d \in Conn, connRoom'[d] # NoRoom
        PROVE  \E p \in participants'[connRoom'[d]] : p.conn = d
    <3>1. d # c /\ connRoom'[d] = connRoom[d] /\ connRoom[d] \in RoomName
      BY <2>2 DEF IInv, TypeOK
    <3>2. PICK p \in participants[connRoom[d]] : p.conn = d
      BY <2>2, <3>1 DEF IInv, RegistryInSync, BindingsAgree
    <3>3. QED BY <1>1, <3>1, <3>2
  <2>3. QED BY <2>1, <2>2 DEF BindingsAgree
<1>6. ParticipantsDistinct'
  BY <1>4 DEF IInv, RegistryInSync, ParticipantsDistinct
<1>7. WithinCapacity' /\ RoomsFinite'
  BY RemainingSmaller DEF WithinCapacity, RoomsFinite
<1>8. \A r \in RoomName : \A p \in participants'[r] : p.conn \in open'
  BY <1>4 DEF IInv, HandlesAreOpen
<1>9. QED
  BY <1>1, <1>2, <1>3, <1>5, <1>6, <1>7, <1>8
     DEF RegistryInSync, NoEmptyRooms, IInv, TypeOK

LEMMA LeavePreserves ==
    ASSUME IInv, NEW c \in Conn, leave(c), open' \in {open, open \ {c}}
    PROVE  IInv'
<1>1. \A d \in Conn : sent'[d] # <<>> => d \in open'
  BY NoticeToSurvivors DEF leave
<1>2. DOMAIN sent' = Conn
  BY DEF leave
<1>3. QED
  BY <1>1, <1>2, RegistryWithout DEF leave, IInv, TypeOK, HandlesAreOpen

LEMMA RefusedPreserves ==
    ASSUME IInv, NEW c \in open, NEW r \in RoomName, JoinRefused(c, r),
           UNCHANGED open
    PROVE  IInv'
<1>1. c \in Conn
  BY DEF IInv, TypeOK
<1>2. \A d \in Conn : sent'[d] # <<>> => d \in open'
  BY <1>1, NoticeToSurvivors DEF JoinRefused
<1>3. DOMAIN sent' = Conn
  BY DEF JoinRefused
<1>4. QED
  BY <1>1, <1>2, <1>3, RegistryWithout
     DEF JoinRefused, IInv, TypeOK, HandlesAreOpen

\* The newcomer takes the next id and the place that was free.
LEMMA AdmittedPreserves ==
    ASSUME IInv, NEW c \in open, NEW r \in RoomName, JoinAdmitted(c, r),
           UNCHANGED open
    PROVE  IInv'
<1> USE RoomManagerAssumption DEF RoomManagerAssumption
<1> DEFINE new == [id |-> nextId, conn |-> c]
<1>1. c \in Conn /\ nextId \in 1 .. MaxId /\ new \in Participant
  BY DEF IInv, TypeOK, JoinAdmitted, Participant
<1>2. /\ Remaining(c) \in [RoomName -> SUBSET Participant]
      /\ \A s \in RoomName :
            Remaining(c)[s] = {p \in participants[s] : p.conn # c}
  BY <1>1, RemainingFilters
<1>3. /\ participants' \in [RoomName -> SUBSET Participant]
      /\ \A s \in RoomName : participants'[s] =
            IF s = r THEN Remaining(c)[s] \cup {new} ELSE Remaining(c)[s]
  BY <1>1, <1>2 DEF JoinAdmitted
<1>4. \A s \in RoomName : \A p \in participants'[s] :
         \/ p \in participants[s] /\ p.conn \in Conn /\ p.conn # c
         \/ s = r /\ p = new
  BY <1>2, <1>3 DEF Participant
<1>5. /\ connRoom' = [connRoom EXCEPT ![c] = r]
      /\ connRoom' \in [Conn -> RoomName \cup {NoRoom}]
      /\ nextId' = nextId + 1
  BY DEF IInv, TypeOK, JoinAdmitted
<1>6. BindingsAgree'
  <2>1. \A s \in RoomName : \A p \in participants'[s] : connRoom'[p.conn] = s
    BY <1>1, <1>4, <1>5 DEF IInv, TypeOK, RegistryInSync, BindingsAgree
  <2>2. ASSUME NEW d \in Conn, connRoom'[d] # NoRoom
        PROVE  \E p \in participants'[connRoom'[d]] : p.conn = d
    <3>1. CASE d = c
      BY <3>1, <1>1, <1>3, <1>5 DEF IInv, TypeOK
    <3>2. CASE d # c
      <4>1. connRoom'[d] = connRoom[d] /\ connRoom[d] \in RoomName
        BY <2>2, <3>2, <1>5 DEF IInv, TypeOK
      <4>2. PICK p \in participants[connRoom[d]] : p.conn = d
        BY <2>2, <4>1 DEF IInv, RegistryInSync, BindingsAgree
      <4>3. QED BY <1>2, <1>3, <3>2, <4>1, <4>2
    <3>3. QED BY <3>1, <3>2
  <2>3. QED BY <2>1, <2>2 DEF BindingsAgree
<1>7. ParticipantsDistinct'
  <2>1. \A s \in RoomName : \A p \in participants[s] :
           p.id \in Nat /\ p.id < nextId
    BY DEF IInv, TypeOK, Participant, RegistryInSync, ParticipantsDistinct
  <2>2. new.id = nextId /\ new.conn = c
    OBVIOUS
  <2>3. \A s \in RoomName : \A p \in participants'[s] :
           p.id \in Nat /\ p.id < nextId + 1
    BY <1>1, <1>4, <2>1, <2>2
  <2>4. ASSUME NEW s \in RoomName, NEW t \in RoomName,
               NEW p \in participants'[s], NEW q \in participants'[t],
               p.id = q.id \/ p.conn = q.conn
        PROVE  s = t /\ p = q
    <3>1. CASE p \in participants[s] /\ q \in participants[t]
      BY <2>4, <3>1 DEF IInv, RegistryInSync, ParticipantsDistinct
    <3>2. CASE p = new /\ s = r
      BY <1>1, <1>4, <2>1, <2>2, <2>4, <3>2
    <3>3. CASE q = new /\ t = r
      BY <1>1, <1>4, <2>1, <2>2, <2>4, <3>3
    <3>4. QED BY <1>4, <3>1, <3>2, <3>3
  <2>5. QED BY <1>5, <2>3, <2>4 DEF ParticipantsDistinct
<1>8. NoEmptyRooms'
  <2>1. Pruned(c) = {s \in RoomName : Remaining(c)[s] # {}}
    BY <1>1, PrunedExact
  <2>2. roomNames' = Pruned(c) \cup {r}
    BY DEF JoinAdmitted
  <2>3. QED BY <1>3, <2>1, <2>2 DEF NoEmptyRooms
<1>9. ASSUME NEW s \in RoomName
      PROVE  /\ IsFiniteSet(participants'[s])
             /\ Cardinality(participants'[s]) <= kMaxParticipants
  <2>1. /\ IsFiniteSet(Remaining(c)[s])
        /\ Cardinality(Remaining(c)[s]) \in Nat
        /\ Cardinality(Remaining(c)[s]) <= kMaxParticipants
    BY <1>1, RemainingSmaller
  <2>2. CASE s # r
    BY <1>3, <2>1, <2>2
  <2>3. CASE s = r
    <3>1. ~RoomFull(Remaining(c)[s])
      BY <2>3 DEF JoinAdmitted
    <3>2. Cardinality(Remaining(c)[s]) + 1 <= kMaxParticipants
      BY <2>1, <3>1 DEF RoomFull
    <3>3. /\ IsFiniteSet(Remaining(c)[s] \cup {new})
          /\ Cardinality(Remaining(c)[s] \cup {new})
               \in {Cardinality(Remaining(c)[s]), Cardinality(Remaining(c)[s]) + 1}
      BY <2>1, FS_AddElement
    <3>4. QED BY <1>3, <2>1, <2>3, <3>2, <3>3
  <2>4. QED BY <2>2, <2>3
<1>10. /\ \A s \in RoomName : \A p \in participants'[s] : p.conn \in open'
       /\ \A d \in Conn : sent'[d] # <<>> => d \in open'
  <2>1. \A s \in RoomName : \A p \in participants'[s] : p.conn \in open'
    BY <1>4 DEF IInv, HandlesAreOpen
  <2>2. ASSUME NEW d \in Conn, sent'[d] # <<>>, d # c
        PROVE  d \in open'
    <3>1. CASE \E p \in Remaining(c)[r] : p.conn = d
      BY <1>2, <3>1 DEF IInv, HandlesAreOpen
    <3>2. CASE ~\E p \in Remaining(c)[r] : p.conn = d
      <4>1. sent'[d] = LeaveNotice(c, d) \o <<>>
        BY <2>2, <3>2 DEF JoinAdmitted, JoinNotice
      <4>2. LeaveNotice(c, d) # <<>>
        BY <2>2, <4>1
      <4>3. QED BY <1>1, <4>2, NoticeToSurvivors
    <3>3. QED BY <3>1, <3>2
  <2>3. QED BY <2>1, <2>2
<1>11. TypeOK'
  BY <1>1, <1>3, <1>5, PrunedExact DEF JoinAdmitted, IInv, TypeOK
<1>12. QED
  BY <1>6, <1>7, <1>8, <1>9, <1>10, <1>11
     DEF IInv, RegistryInSync, WithinCapacity, RoomsFinite, HandlesAreOpen

\* A relayed frame goes to members of the sender's room only.
LEMMA SignalPreserves ==
    ASSUME IInv, NEW c \in Conn, NEW type, NEW to, NEW claimed,
           OnSignal(c, type, to, claimed)
    PROVE  IInv'
<1>1. \A d \in Conn : sent'[d] # <<>> => d \in open
  <2>1. CASE idFor(c) = 0
    BY <2>1 DEF OnSignal, Only, Silence
  <2>2. CASE idFor(c) # 0
    <3>1. connRoom[c] \in RoomName
      BY <2>2 DEF idFor, Entry, IInv, TypeOK
    <3>2. Recipients(c, to) \subseteq open
      BY <3>1 DEF Recipients, IInv, HandlesAreOpen
    <3>3. QED BY <2>2, <3>2 DEF OnSignal, relay, Only, Silence
  <2>3. QED BY <2>1, <2>2
<1>2. DOMAIN sent' = Conn
  BY DEF OnSignal, relay, Only, Silence
<1>3. QED
  BY <1>1, <1>2
     DEF OnSignal, registry, IInv, TypeOK, RegistryInSync, BindingsAgree,
         ParticipantsDistinct, NoEmptyRooms, WithinCapacity, HandlesAreOpen,
         RoomsFinite

-----------------------------------------------------------------------------
LEMMA InitIInv == Init => IInv
<1> SUFFICES ASSUME Init PROVE IInv
  OBVIOUS
<1> USE RoomManagerAssumption DEF RoomManagerAssumption, Init, FirstId
<1>1. TypeOK
  BY DEF TypeOK, Silence
<1>2. BindingsAgree /\ ParticipantsDistinct /\ NoEmptyRooms /\ HandlesAreOpen
  BY DEF BindingsAgree, ParticipantsDistinct, NoEmptyRooms, HandlesAreOpen,
         Silence
<1>3. WithinCapacity /\ RoomsFinite
  BY FS_EmptySet DEF WithinCapacity, RoomsFinite
<1>4. QED BY <1>1, <1>2, <1>3 DEF IInv, RegistryInSync

LEMMA NextIInv == IInv /\ [Next]_vars => IInv'
<1> SUFFICES ASSUME IInv, [Next]_vars PROVE IInv'
  OBVIOUS
<1>1. ASSUME NEW c \in Conn, Open(c) \/ OnInvalid(c) PROVE IInv'
  BY <1>1
     DEF Open, OnInvalid, Only, Silence, registry, IInv, TypeOK, RegistryInSync,
         BindingsAgree, ParticipantsDistinct, NoEmptyRooms, WithinCapacity,
         HandlesAreOpen, RoomsFinite
<1>2. ASSUME NEW c \in Conn, NEW r \in RoomName, OnJoin(c, r) PROVE IInv'
  BY <1>2, AdmittedPreserves, RefusedPreserves DEF OnJoin
<1>3. ASSUME NEW c \in Conn, OnLeave(c) PROVE IInv'
  BY <1>3, LeavePreserves DEF OnLeave
<1>4. ASSUME NEW c \in Conn, NEW type \in RelayType,
             NEW to \in 0 .. MaxId, NEW claimed \in 0 .. MaxId,
             OnSignal(c, type, to, claimed)
      PROVE  IInv'
  BY <1>4, SignalPreserves
<1>5. ASSUME NEW c \in Conn, OnClose(c) PROVE IInv'
  BY <1>5, LeavePreserves DEF OnClose
<1>6. CASE UNCHANGED vars
  BY <1>6 DEF vars, registry, IInv, TypeOK, RegistryInSync, BindingsAgree,
              ParticipantsDistinct, NoEmptyRooms, WithinCapacity,
              HandlesAreOpen, RoomsFinite
<1>7. QED BY <1>1, <1>2, <1>3, <1>4, <1>5, <1>6 DEF Next

LEMMA Invariance == Spec => []IInv
BY InitIInv, NextIInv, PTL DEF Spec

\* rooms_ and connRoom_ never disagree, ids and handles are registered once, no
\* room is empty and none over the cap, and no handler ever sends to a socket that
\* is not open, nor keeps its handle.
THEOREM RegistryCorrect == Spec => []RegistryInv
<1>1. IInv => RegistryInv
  BY DEF IInv, RegistryInv
<1>2. QED BY <1>1, Invariance, PTL

-----------------------------------------------------------------------------
(* The registry implements Conference. *)

\* Where the vectors hold a connection is where connRoom_ says it is.
LEMMA HoldingIsBinding ==
    IInv => [c \in Conn |-> RoomHolding(c)] = connRoom
<1> SUFFICES ASSUME IInv PROVE [c \in Conn |-> RoomHolding(c)] = connRoom
  OBVIOUS
<1>1. ASSUME NEW c \in Conn PROVE RoomHolding(c) = connRoom[c]
  <2>1. \A r \in RoomName :
           (\E p \in participants[r] : p.conn = c) <=> connRoom[c] = r
    BY RoomManagerAssumption
       DEF RoomManagerAssumption, IInv, RegistryInSync, BindingsAgree
  <2>2. connRoom[c] \in RoomName \cup {NoRoom}
    BY DEF IInv, TypeOK
  <2>3. QED BY <2>1, <2>2, RoomManagerAssumption
               DEF RoomHolding, RoomManagerAssumption
<1>2. connRoom \in [Conn -> RoomName \cup {NoRoom}]
  BY DEF IInv, TypeOK
<1>3. QED BY <1>1, <1>2

\* A room that admits c is one that, c aside, fewer than kMaxParticipants
\* connections are bound to.
LEMMA AdmissionLeavesRoom ==
    ASSUME IInv, NEW c \in Conn, NEW r \in RoomName,
           ~RoomFull(Remaining(c)[r])
    PROVE  Cardinality({m \in Conn : connRoom[m] = r} \ {c}) < kMaxParticipants
<1> DEFINE S == Remaining(c)[r]
           T == {p.conn : p \in S}
<1>1. {m \in Conn : connRoom[m] = r} \ {c} = T
  <2>1. S = {p \in participants[r] : p.conn # c}
    BY RemainingFilters
  <2>2. \A p \in participants[r] : p.conn \in Conn /\ connRoom[p.conn] = r
    BY DEF IInv, TypeOK, Participant, RegistryInSync, BindingsAgree
  <2>3. \A m \in Conn : connRoom[m] = r => \E p \in participants[r] : p.conn = m
    BY RoomManagerAssumption
       DEF RoomManagerAssumption, IInv, RegistryInSync, BindingsAgree
  <2>4. QED BY <2>1, <2>2, <2>3
<1>2. IsFiniteSet(S) /\ Cardinality(S) \in Nat
  BY RemainingSmaller
<1>3. Cardinality(S) < kMaxParticipants
  BY <1>2, RoomManagerAssumption DEF RoomFull, RoomManagerAssumption
<1>4. /\ Cardinality(T) \in Nat
      /\ Cardinality(T) <= Cardinality(S)
  <2>1. [p \in S |-> p.conn] \in Surjection(S, T)
    BY DEF Surjection
  <2>2. IsFiniteSet(T) /\ Cardinality(T) <= Cardinality(S)
    BY <1>2, <2>1, FS_Surjection
  <2>3. QED BY <2>2, FS_CardinalityType
<1> HIDE DEF S, T
<1>5. QED
  BY <1>1, <1>2, <1>3, <1>4, RoomManagerAssumption DEF RoomManagerAssumption

LEMMA InitRefines == Init => Abstract!Init
BY DEF Init, Abstract!Init, RoomHolding

LEMMA StepRefines ==
    IInv /\ IInv' /\ [Next]_vars
        => [Abstract!Next]_([c \in Conn |-> RoomHolding(c)])
<1> SUFFICES ASSUME IInv, IInv', [Next]_vars
             PROVE  Abstract!Next \/ UNCHANGED [c \in Conn |-> RoomHolding(c)]
  OBVIOUS
<1>1. /\ [c \in Conn |-> RoomHolding(c)] = connRoom
      /\ [c \in Conn |-> RoomHolding(c)]' = connRoom'
  <2>1. [c \in Conn |-> RoomHolding(c)] = connRoom
    BY HoldingIsBinding
  <2>2. ([c \in Conn |-> RoomHolding(c)] = connRoom)'
    BY HoldingIsBinding, PTL
  <2>3. QED BY <2>1, <2>2
<1>2. ASSUME NEW c \in Conn, connRoom' = [connRoom EXCEPT ![c] = NoRoom]
      PROVE  Abstract!Next
  BY <1>1, <1>2 DEF Abstract!Next, Abstract!Exit
<1>3. ASSUME NEW c \in Conn, NEW r \in RoomName, JoinAdmitted(c, r)
      PROVE  Abstract!Next
  <2>1. Cardinality({m \in Conn : connRoom[m] = r} \ {c}) < kMaxParticipants
    BY <1>3, AdmissionLeavesRoom DEF JoinAdmitted
  <2>2. connRoom' = [connRoom EXCEPT ![c] = r]
    BY <1>3 DEF JoinAdmitted
  <2>3. Abstract!Enter(c, r)
    BY <1>1, <2>1, <2>2
       DEF Abstract!Enter, Abstract!Occupants, Abstract!Cardinality, Cardinality
  <2>4. QED BY <2>3 DEF Abstract!Next
<1>4. ASSUME UNCHANGED connRoom
      PROVE  UNCHANGED [c \in Conn |-> RoomHolding(c)]
  BY <1>1, <1>4
<1>5. QED
  BY <1>2, <1>3, <1>4
     DEF Next, Open, OnJoin, JoinRefused, OnLeave, leave, OnSignal, OnInvalid,
         OnClose, vars, registry

\* The signaling registry implements the abstract conference: a connection is
\* in one room at a time and no interleaving of requests overfills a room.
THEOREM Refinement == Spec => ImplementsConference
BY InitRefines, StepRefines, Invariance, PTL
   DEF ImplementsConference, Abstract!Spec, Spec

-----------------------------------------------------------------------------
(* Whoever stays is told exactly what changed. *)

\* What idFor and Peers say of a registered connection, and that they say
\* nothing of any other.
LookupsHold ==
    /\ \A r \in RoomName : \A p \in participants[r] :
          /\ idFor(p.conn) = p.id /\ p.id # 0
          /\ Peers(p.conn) = {q.id : q \in participants[r]} \ {p.id}
    /\ \A d \in Conn : connRoom[d] = NoRoom => idFor(d) = 0

LEMMA Lookups == IInv => LookupsHold
<1> SUFFICES ASSUME IInv PROVE LookupsHold
  OBVIOUS
<1>1. ASSUME NEW r \in RoomName, NEW p \in participants[r]
      PROVE  /\ idFor(p.conn) = p.id /\ p.id # 0
             /\ Peers(p.conn) = {q.id : q \in participants[r]} \ {p.id}
  <2>1. connRoom[p.conn] = r /\ r \in roomNames
    BY DEF IInv, RegistryInSync, BindingsAgree, NoEmptyRooms
  <2>2. Entry(p.conn) = {p}
    BY <2>1 DEF Entry, IInv, RegistryInSync, ParticipantsDistinct
  <2>3. p.id # 0
    BY DEF IInv, TypeOK, Participant
  <2>4. QED BY <2>1, <2>2, <2>3 DEF idFor, Peers
<1>2. ASSUME NEW d \in Conn, connRoom[d] = NoRoom PROVE idFor(d) = 0
  BY <1>2, RoomManagerAssumption
     DEF RoomManagerAssumption, idFor, Entry, IInv, TypeOK
<1>3. QED BY <1>1, <1>2 DEF LookupsHold

\* The notices of membership, and the ids of some participants.
Notice == [type : {"peer-joined", "peer-left"}, from : Nat]
IdsOf(ps) == {m.id : m \in ps}

\* Announced of frames sent one after the other.
LEMMA AnnouncedConcat ==
    ASSUME NEW s \in Seq(Notice), NEW t \in Seq(Notice), NEW type
    PROVE  Announced(type, s \o t) = Announced(type, s) \cup Announced(type, t)
<1> DEFINE u == s \o t
<1>1. /\ DOMAIN s = 1 .. Len(s) /\ DOMAIN t = 1 .. Len(t)
      /\ DOMAIN u = 1 .. Len(s) + Len(t)
      /\ Len(s) \in Nat /\ Len(t) \in Nat
      /\ \A i \in 1 .. Len(s) : u[i] = s[i]
      /\ \A i \in 1 .. Len(t) : u[Len(s) + i] = t[i]
  OBVIOUS
<1> HIDE DEF u
<1>2. \A i \in DOMAIN u : i \in 1 .. Len(s) \/ i - Len(s) \in 1 .. Len(t)
  BY <1>1
<1>3. \A x : x \in Announced(type, u) =>
             x \in Announced(type, s) \cup Announced(type, t)
  <2>1. ASSUME NEW i \in DOMAIN u, u[i].type = type
        PROVE  u[i].from \in Announced(type, s) \cup Announced(type, t)
    <3>1. CASE i \in 1 .. Len(s)
      BY <1>1, <2>1, <3>1 DEF Announced
    <3>2. CASE i - Len(s) \in 1 .. Len(t)
      <4>1. u[i] = t[i - Len(s)]
        <5>1. i = Len(s) + (i - Len(s))
          BY <1>1
        <5>2. QED BY <1>1, <3>2, <5>1
      <4>2. QED BY <1>1, <2>1, <3>2, <4>1 DEF Announced
    <3>3. QED BY <1>2, <3>1, <3>2
  <2>2. QED BY <2>1 DEF Announced
<1>4. Announced(type, s) \subseteq Announced(type, u)
  BY <1>1 DEF Announced
<1>5. Announced(type, t) \subseteq Announced(type, u)
  <2>1. \A i \in DOMAIN t : Len(s) + i \in DOMAIN u /\ u[Len(s) + i] = t[i]
    BY <1>1
  <2>2. QED BY <2>1 DEF Announced
<1>6. Announced(type, u) = Announced(type, s) \cup Announced(type, t)
  BY <1>3, <1>4, <1>5
<1>7. QED BY <1>6 DEF u

\* What a notice announces, alone or missing.
LEMMA NoticesOf ==
    ASSUME NEW id, NEW type
    PROVE  /\ Announced(type, <<>>) = {}
           /\ Announced("peer-left", <<PeerLeft(id)>>) = {id}
           /\ Announced("peer-joined", <<PeerLeft(id)>>) = {}
           /\ Announced("peer-left", <<PeerJoined(id)>>) = {}
           /\ Announced("peer-joined", <<PeerJoined(id)>>) = {id}
<1>1. \A f : Announced("peer-left", <<f>>) =
               IF f.type = "peer-left" THEN {f.from} ELSE {}
  BY DEF Announced
<1>2. \A f : Announced("peer-joined", <<f>>) =
               IF f.type = "peer-joined" THEN {f.from} ELSE {}
  BY DEF Announced
<1>3. Announced(type, <<>>) = {}
  BY DEF Announced
<1>4. /\ PeerLeft(id).type = "peer-left" /\ PeerLeft(id).from = id
      /\ PeerJoined(id).type = "peer-joined" /\ PeerJoined(id).from = id
  BY DEF PeerLeft, PeerJoined
<1>5. /\ Announced("peer-left", <<PeerLeft(id)>>) = {id}
      /\ Announced("peer-left", <<PeerJoined(id)>>) = {}
  BY <1>1, <1>4
<1>6. /\ Announced("peer-joined", <<PeerLeft(id)>>) = {}
      /\ Announced("peer-joined", <<PeerJoined(id)>>) = {id}
  BY <1>2, <1>4
<1>7. QED BY <1>3, <1>5, <1>6

\* What c's leaving announces to a d that stays: c's id to those of its room.
LEMMA LeaveNoticeFacts ==
    ASSUME IInv, NEW c \in Conn, NEW r \in RoomName, NEW p \in participants[r],
           p.conn # c
    PROVE  /\ LeaveNotice(c, p.conn) \in Seq(Notice)
           /\ Announced("peer-left", LeaveNotice(c, p.conn))
                = IdsOf(participants[r]) \ IdsOf(Remaining(c)[r])
           /\ Announced("peer-joined", LeaveNotice(c, p.conn)) = {}
           /\ p \in Remaining(c)[r]
           /\ IdsOf(Remaining(c)[r]) \subseteq IdsOf(participants[r])
<1> DEFINE old == IdsOf(participants[r])
           new == IdsOf(Remaining(c)[r])
           notice == LeaveNotice(c, p.conn)
<1>1. \A s \in RoomName :
         Remaining(c)[s] = {q \in participants[s] : q.conn # c}
  BY RemainingFilters
<1>2. connRoom[p.conn] = r
  BY DEF IInv, RegistryInSync, BindingsAgree
<1>3. CASE connRoom[c] = r
  <2>1. PICK pc \in participants[r] : pc.conn = c
    BY <1>3, RoomManagerAssumption
       DEF RoomManagerAssumption, IInv, RegistryInSync, BindingsAgree
  <2>2. idFor(c) = pc.id /\ idFor(c) # 0
    BY <2>1, Lookups DEF LookupsHold
  <2>3. notice = <<PeerLeft(pc.id)>>
    BY <1>1, <1>3, <2>2 DEF LeaveNotice
  <2>4. old \ new = {pc.id}
    <3>1. \A q \in participants[r] : q.conn = c \/ q.id = pc.id => q = pc
      BY <2>1 DEF IInv, RegistryInSync, ParticipantsDistinct
    <3>2. QED BY <1>1, <2>1, <3>1 DEF IdsOf
  <2>5. notice \in Seq(Notice)
    <3>1. PeerLeft(pc.id) \in Notice
      BY DEF IInv, TypeOK, Participant, PeerLeft, Notice
    <3>2. QED BY <2>3, <3>1
  <2>6. /\ Announced("peer-left", notice) = {pc.id}
        /\ Announced("peer-joined", notice) = {}
    BY <2>3, NoticesOf
  <2>7. p \in Remaining(c)[r] /\ new \subseteq old
    BY <1>1 DEF IdsOf
  <2>8. QED BY <2>4, <2>5, <2>6, <2>7
<1>4. CASE connRoom[c] # r
  <2>1. \A q \in participants[r] : q.conn # c
    BY <1>4 DEF IInv, RegistryInSync, BindingsAgree
  <2>2. old = new
    BY <1>1, <2>1
  <2>3. notice = <<>>
    <3>1. SUFFICES ASSUME idFor(c) # 0,
                          NEW q \in Remaining(c)[connRoom[c]], q.conn = p.conn
                   PROVE  FALSE
      BY DEF LeaveNotice
    <3>2. connRoom[c] \in RoomName
      BY <3>1, Lookups DEF LookupsHold, IInv, TypeOK
    <3>3. q \in participants[connRoom[c]]
      BY <1>1, <3>2
    <3>4. QED BY <1>2, <1>4, <3>1, <3>2, <3>3
                 DEF IInv, RegistryInSync, BindingsAgree
  <2>4. notice \in Seq(Notice)
    BY <2>3
  <2>5. /\ Announced("peer-left", notice) = {}
        /\ Announced("peer-joined", notice) = {}
    BY <2>3, NoticesOf
  <2>6. p \in Remaining(c)[r]
    BY <1>1
  <2>7. QED BY <2>2, <2>4, <2>5, <2>6
<1>5. QED BY <1>3, <1>4

LEMMA StepAnnounces ==
    ASSUME IInv, IInv', Next, NEW d \in Conn,
           idFor(d) # 0, idFor(d)' = idFor(d)
    PROVE  /\ Announced("peer-joined", sent'[d]) = Peers(d)' \ Peers(d)
           /\ Announced("peer-left", sent'[d]) = Peers(d) \ Peers(d)'
<1>1. LookupsHold /\ LookupsHold'
  <2>1. LookupsHold
    BY Lookups
  <2>2. LookupsHold'
    BY Lookups, PTL
  <2>3. QED BY <2>1, <2>2
<1>2. connRoom[d] \in RoomName /\ connRoom'[d] \in RoomName
  BY <1>1 DEF LookupsHold, IInv, TypeOK
<1> DEFINE r == connRoom[d]
<1>3. PICK p \in participants[r] : p.conn = d
  BY <1>2, RoomManagerAssumption
     DEF RoomManagerAssumption, IInv, RegistryInSync, BindingsAgree
<1>4. PICK p2 \in participants'[connRoom'[d]] : p2.conn = d
  BY <1>2, RoomManagerAssumption
     DEF RoomManagerAssumption, IInv, RegistryInSync, BindingsAgree
<1>5. /\ idFor(d) = p.id /\ idFor(d)' = p2.id /\ p.id = p2.id
      /\ Peers(d) = IdsOf(participants[r]) \ {p.id}
      /\ Peers(d)' = IdsOf(participants'[connRoom'[d]]) \ {p.id}
  <2>1. idFor(d) = p.id /\ Peers(d) = IdsOf(participants[r]) \ {p.id}
    BY <1>1, <1>2, <1>3 DEF LookupsHold, IdsOf
  <2>2. /\ idFor(d)' = p2.id
        /\ Peers(d)' = IdsOf(participants'[connRoom'[d]]) \ {p2.id}
    BY <1>1, <1>2, <1>4 DEF LookupsHold, IdsOf
  <2>3. QED BY <2>1, <2>2
<1>6. ASSUME NEW c \in Conn, connRoom'[c] = NoRoom PROVE c # d
  BY <1>2, <1>6, RoomManagerAssumption DEF RoomManagerAssumption
<1>7. nextId \in Nat /\ PeerJoined(nextId) \in Notice
  BY DEF IInv, TypeOK, PeerJoined, Notice
\* The registry is as it was, and nothing on the wire says otherwise.
<1>8. ASSUME UNCHANGED registry,
             sent'[d] = <<>> \/ \E f : sent'[d] = <<f>>
                                 /\ f.type \notin {"peer-joined", "peer-left"}
      PROVE  /\ Announced("peer-joined", sent'[d]) = Peers(d)' \ Peers(d)
             /\ Announced("peer-left", sent'[d]) = Peers(d) \ Peers(d)'
  <2>1. Peers(d)' = Peers(d)
    BY <1>5, <1>8 DEF registry
  <2>2. /\ Announced("peer-joined", sent'[d]) = {}
        /\ Announced("peer-left", sent'[d]) = {}
    BY <1>8 DEF Announced
  <2>3. QED BY <2>1, <2>2
\* c has left, by its own request, by its socket, or by a refused join.
<1>9. ASSUME NEW c \in Conn, participants' = Remaining(c),
             connRoom' = [connRoom EXCEPT ![c] = NoRoom],
             c # d => sent'[d] = LeaveNotice(c, d)
      PROVE  /\ Announced("peer-joined", sent'[d]) = Peers(d)' \ Peers(d)
             /\ Announced("peer-left", sent'[d]) = Peers(d) \ Peers(d)'
  <2>1. c # d
    BY <1>6, <1>9 DEF IInv, TypeOK
  <2>2. connRoom'[d] = r /\ sent'[d] = LeaveNotice(c, p.conn)
    BY <1>3, <1>9, <2>1
  <2>3. /\ Announced("peer-left", sent'[d])
             = IdsOf(participants[r]) \ IdsOf(participants'[r])
        /\ Announced("peer-joined", sent'[d]) = {}
        /\ p \in participants'[r]
        /\ IdsOf(participants'[r]) \subseteq IdsOf(participants[r])
    <3>1. /\ r \in RoomName /\ p \in participants[r] /\ p.conn # c
          /\ participants'[r] = Remaining(c)[r]
      BY <1>2, <1>3, <1>9, <2>1
    <3>2. /\ Announced("peer-left", LeaveNotice(c, p.conn))
               = IdsOf(participants[r]) \ IdsOf(Remaining(c)[r])
          /\ Announced("peer-joined", LeaveNotice(c, p.conn)) = {}
          /\ p \in Remaining(c)[r]
          /\ IdsOf(Remaining(c)[r]) \subseteq IdsOf(participants[r])
      BY <3>1, LeaveNoticeFacts
    <3>3. QED BY <2>2, <3>1, <3>2
  <2>4. QED BY <1>5, <2>2, <2>3
\* c has left its room, if it was in one, and entered one with the next id.
<1>10. ASSUME NEW c \in Conn, NEW t \in RoomName, JoinAdmitted(c, t)
       PROVE  /\ Announced("peer-joined", sent'[d]) = Peers(d)' \ Peers(d)
              /\ Announced("peer-left", sent'[d]) = Peers(d) \ Peers(d)'
  <2> DEFINE new == [id |-> nextId, conn |-> c]
             rest == Remaining(c)[r]
  <2>1. /\ participants' = [Remaining(c) EXCEPT ![t] = @ \cup {new}]
        /\ connRoom' = [connRoom EXCEPT ![c] = t]
    BY <1>10 DEF JoinAdmitted
  <2>2. Remaining(c) \in [RoomName -> SUBSET Participant]
    BY RemainingFilters
  <2>3. c # d
    <3>1. SUFFICES ASSUME c = d PROVE FALSE
      OBVIOUS
    <3>2. connRoom'[d] = t /\ new \in participants'[t]
      BY <2>1, <2>2, <3>1 DEF IInv, TypeOK
    <3>3. p2 = new
      BY <1>2, <1>4, <3>1, <3>2 DEF IInv, RegistryInSync, ParticipantsDistinct
    <3>4. p.id < nextId /\ p.id \in Nat /\ nextId \in Nat
      BY <1>2, <1>3
         DEF IInv, TypeOK, Participant, RegistryInSync, ParticipantsDistinct
    <3>5. QED BY <1>5, <3>3, <3>4
  <2>4. /\ connRoom'[d] = r
        /\ sent'[d] = LeaveNotice(c, p.conn) \o JoinNotice(c, t, d)
    BY <1>3, <1>10, <2>1, <2>3 DEF JoinAdmitted, IInv, TypeOK
  <2>5. /\ LeaveNotice(c, p.conn) \in Seq(Notice)
        /\ Announced("peer-left", LeaveNotice(c, p.conn))
             = IdsOf(participants[r]) \ IdsOf(rest)
        /\ Announced("peer-joined", LeaveNotice(c, p.conn)) = {}
        /\ p \in rest /\ IdsOf(rest) \subseteq IdsOf(participants[r])
    BY <1>2, <1>3, <2>3, LeaveNoticeFacts
  <2>6. JoinNotice(c, t, d) = IF t = r THEN <<PeerJoined(nextId)>> ELSE <<>>
    <3>1. CASE t = r
      BY <1>3, <2>5, <3>1 DEF JoinNotice
    <3>2. CASE t # r
      <4>1. ASSUME NEW m \in Remaining(c)[t], m.conn = d PROVE FALSE
        <5>1. m \in participants[t]
          BY RemainingFilters
        <5>2. QED BY <3>2, <4>1, <5>1 DEF IInv, RegistryInSync, BindingsAgree
      <4>2. QED BY <3>2, <4>1 DEF JoinNotice
    <3>3. QED BY <3>1, <3>2
  <2>7. /\ JoinNotice(c, t, d) \in Seq(Notice)
        /\ Announced("peer-left", JoinNotice(c, t, d)) = {}
        /\ Announced("peer-joined", JoinNotice(c, t, d))
             = IF t = r THEN {nextId} ELSE {}
    <3>1. CASE t = r
      <4>1. JoinNotice(c, t, d) = <<PeerJoined(nextId)>>
        BY <2>6, <3>1
      <4>2. JoinNotice(c, t, d) \in Seq(Notice)
        BY <1>7, <4>1
      <4>3. /\ Announced("peer-left", JoinNotice(c, t, d)) = {}
            /\ Announced("peer-joined", JoinNotice(c, t, d)) = {nextId}
        BY <4>1, NoticesOf
      <4>4. QED BY <3>1, <4>2, <4>3
    <3>2. CASE t # r
      <4>1. JoinNotice(c, t, d) = <<>>
        BY <2>6, <3>2
      <4>2. JoinNotice(c, t, d) \in Seq(Notice)
        BY <4>1
      <4>3. /\ Announced("peer-left", JoinNotice(c, t, d)) = {}
            /\ Announced("peer-joined", JoinNotice(c, t, d)) = {}
        BY <4>1, NoticesOf
      <4>4. QED BY <3>2, <4>2, <4>3
    <3>3. QED BY <3>1, <3>2
  <2>8. /\ Announced("peer-left", sent'[d])
             = IdsOf(participants[r]) \ IdsOf(rest)
        /\ Announced("peer-joined", sent'[d]) = IF t = r THEN {nextId} ELSE {}
    <3>1. \A type : Announced(type, sent'[d])
                       = Announced(type, LeaveNotice(c, p.conn))
                           \cup Announced(type, JoinNotice(c, t, d))
      BY <2>4, <2>5, <2>7, AnnouncedConcat
    <3>2. QED BY <2>5, <2>7, <3>1
  <2>9. /\ IdsOf(participants'[r]) =
             IF t = r THEN IdsOf(rest) \cup {nextId} ELSE IdsOf(rest)
        /\ nextId \notin IdsOf(participants[r])
    <3>1. participants'[r] = IF t = r THEN rest \cup {new} ELSE rest
      BY <1>2, <2>1, <2>2
    <3>2. \A m \in participants[r] : m.id # nextId
      BY <1>2
         DEF IInv, TypeOK, Participant, RegistryInSync, ParticipantsDistinct
    <3>3. new.id = nextId
      OBVIOUS
    <3>4. IdsOf(participants'[r]) =
            IF t = r THEN IdsOf(rest) \cup {nextId} ELSE IdsOf(rest)
      BY <3>1, <3>3 DEF IdsOf
    <3>5. nextId \notin IdsOf(participants[r])
      BY <3>2 DEF IdsOf
    <3>6. QED BY <3>4, <3>5
  <2>10. p.id \in IdsOf(rest) /\ IdsOf(rest) \subseteq IdsOf(participants[r])
    BY <2>5 DEF IdsOf
  <2>11. /\ Peers(d) = IdsOf(participants[r]) \ {p.id}
         /\ Peers(d)' = IdsOf(participants'[r]) \ {p.id}
    BY <1>5, <2>4
  <2> HIDE DEF rest
  <2>12. QED BY <2>8, <2>9, <2>10, <2>11
<1>11. ASSUME NEW c \in Conn, Open(c) \/ OnInvalid(c)
       PROVE  /\ Announced("peer-joined", sent'[d]) = Peers(d)' \ Peers(d)
              /\ Announced("peer-left", sent'[d]) = Peers(d) \ Peers(d)'
  BY <1>8, <1>11 DEF Open, OnInvalid, Only, Silence, ErrorFrame
<1>12. ASSUME NEW c \in Conn, NEW type \in RelayType, NEW to, NEW claimed,
              OnSignal(c, type, to, claimed)
       PROVE  /\ Announced("peer-joined", sent'[d]) = Peers(d)' \ Peers(d)
              /\ Announced("peer-left", sent'[d]) = Peers(d) \ Peers(d)'
  <2>1. type \notin {"peer-joined", "peer-left"}
    BY RoomManagerAssumption DEF RoomManagerAssumption
  <2>2. sent'[d] = <<>> \/ \E f : sent'[d] = <<f>>
                              /\ f.type \notin {"peer-joined", "peer-left"}
    BY <1>12, <2>1 DEF OnSignal, relay, Only, Silence, ErrorFrame
  <2>3. QED BY <1>8, <1>12, <2>2 DEF OnSignal
<1>13. QED
  BY <1>9, <1>10, <1>11, <1>12
     DEF Next, OnJoin, JoinRefused, OnLeave, OnClose, leave

\* A client that stays in its room hears of every arrival and departure there
\* exactly once, whoever caused it and by whichever handler.
THEOREM ChangesAreAnnounced == Spec => ChangesAnnounced
<1>1. IInv /\ IInv' /\ [Next]_vars => [\A d \in Conn : MembershipAnnounced(d)]_vars
  BY StepAnnounces DEF MembershipAnnounced
<1>2. QED BY <1>1, Invariance, PTL DEF Spec, ChangesAnnounced

-----------------------------------------------------------------------------
(* What a handler may send to one connection.                              *)

\* A frame that is relayed to d: of a member of d's room, perhaps d itself.
Relayed(d, f) ==
    f.type \in RelayType /\ f.from \in (Peers(d) \cup {idFor(d)}) \ {0}

\* A notice goes only to those who keep their place, a welcome tells the truth,
\* and whoever is told nothing has kept its place or lost it.
Output(d) ==
    \/ idFor(d)' \in {0, idFor(d)} /\ sent'[d] \in {<<>>, <<ErrorFrame>>}
    \/ sent'[d] = <<Joined(idFor(d)', Peers(d)')>> /\ d \in open
    \/ /\ idFor(d) # 0 /\ idFor(d)' = idFor(d)
       /\ \/ \E f : sent'[d] = <<f>> /\ Relayed(d, f) /\ f = [type |-> f.type, from |-> f.from]
          \/ \E x : sent'[d] = <<PeerLeft(x)>>
          \/ \E y : sent'[d] = <<PeerJoined(y)>>
          \/ \E x, y : sent'[d] = <<PeerLeft(x), PeerJoined(y)>>

\* Whoever is still registered as it was keeps its id.
LEMMA KeepsPlace ==
    ASSUME IInv, IInv', NEW r \in RoomName, NEW p \in participants[r], p \in participants'[r]
    PROVE  idFor(p.conn) # 0 /\ idFor(p.conn)' = idFor(p.conn)
<1>1. LookupsHold /\ LookupsHold'
  <2>1. LookupsHold
    BY Lookups
  <2>2. LookupsHold'
    BY Lookups, PTL
  <2>. QED
    BY <2>1, <2>2
<1>. QED
  BY <1>1 DEF LookupsHold

LEMMA SameRegistry ==
    ASSUME UNCHANGED registry, NEW d \in Conn
    PROVE  idFor(d)' = idFor(d) /\ Peers(d)' = Peers(d)
BY DEF registry, idFor, Peers, Entry

\* Whoever is registered, and where.
LEMMA Registered ==
    ASSUME IInv, NEW d \in Conn
    PROVE  \/ connRoom[d] = NoRoom /\ idFor(d) = 0 /\ Peers(d) = {}
           \/ /\ connRoom[d] \in RoomName
              /\ \E p \in participants[connRoom[d]] : p.conn = d
<1>1. CASE connRoom[d] = NoRoom
  BY <1>1, RoomManagerAssumption
     DEF RoomManagerAssumption, idFor, Peers, Entry, IInv, TypeOK
<1>2. CASE connRoom[d] # NoRoom
  BY <1>2 DEF IInv, TypeOK, RegistryInSync, BindingsAgree
<1>. QED
  BY <1>1, <1>2

LEMMA LeaveOutput ==
    ASSUME IInv, IInv', NEW c \in Conn, NEW d \in Conn,
           participants' = Remaining(c), connRoom' = [connRoom EXCEPT ![c] = NoRoom],
           c # d => sent'[d] = LeaveNotice(c, d),
           c = d => sent'[d] \in {LeaveNotice(c, d), <<ErrorFrame>>}
    PROVE  Output(d)
<1>1. CASE c = d
  <2>1. connRoom'[d] = NoRoom
    BY <1>1 DEF IInv, TypeOK
  <2>2. idFor(d)' = 0
    <3>1. LookupsHold'
      BY Lookups, PTL
    <3>. QED
      BY <2>1, <3>1 DEF LookupsHold
  <2>3. LeaveNotice(c, d) = <<>>
    BY <1>1, NoticeToSurvivors
  <2>. QED
    BY <1>1, <2>2, <2>3 DEF Output
<1>2. CASE c # d
  <2>1. \A s \in RoomName : participants'[s] = {p \in participants[s] : p.conn # c}
    BY RemainingFilters
  <2>2. connRoom'[d] = connRoom[d]
    BY <1>2 DEF IInv, TypeOK
  <2>3. CASE connRoom[d] = NoRoom
    <3>1. idFor(d)' = 0
      <4>1. LookupsHold'
        BY Lookups, PTL
      <4>. QED
        BY <2>2, <2>3, <4>1 DEF LookupsHold
    <3>2. LeaveNotice(c, d) = <<>>
      <4>. SUFFICES ASSUME idFor(c) # 0, NEW q \in Remaining(c)[connRoom[c]], q.conn = d
                    PROVE  FALSE
        BY DEF LeaveNotice
      <4>1. connRoom[c] \in RoomName
        BY Registered
      <4>2. q \in participants[connRoom[c]]
        BY <4>1, RemainingFilters
      <4>3. connRoom[d] = connRoom[c]
        BY <4>1, <4>2 DEF IInv, RegistryInSync, BindingsAgree
      <4>. QED
        BY <2>3, <4>1, <4>3, RoomManagerAssumption DEF RoomManagerAssumption
    <3>. QED
      BY <1>2, <3>1, <3>2 DEF Output
  <2>4. CASE connRoom[d] # NoRoom
    <3>1. PICK p \in participants[connRoom[d]] : p.conn = d
      BY <2>4, Registered
    <3>2. connRoom[d] \in RoomName
      BY <2>4, Registered
    <3>3. p \in participants'[connRoom[d]]
      BY <1>2, <2>1, <3>1, <3>2
    <3>4. idFor(d) # 0 /\ idFor(d)' = idFor(d)
      BY <3>1, <3>2, <3>3, KeepsPlace
    <3>5. sent'[d] = <<>> \/ sent'[d] = <<PeerLeft(idFor(c))>>
      BY <1>2 DEF LeaveNotice
    <3>. QED
      BY <3>4, <3>5 DEF Output
  <2>. QED
    BY <2>3, <2>4
<1>. QED
  BY <1>1, <1>2

LEMMA TwoFrames ==
    ASSUME NEW x, NEW y
    PROVE  /\ <<x>> \o <<y>> = <<x, y>>
           /\ <<>> \o <<y>> = <<y>> /\ <<x>> \o <<>> = <<x>> /\ <<>> \o <<>> = <<>>
<1>. DEFINE u == <<x>> \o <<y>>
            v == <<x, y>>
<1>1. <<x>> \in Seq({x, y}) /\ <<y>> \in Seq({x, y}) /\ <<>> \in Seq({x, y})
  OBVIOUS
<1>2. /\ u \in Seq({x, y}) /\ Len(u) = 2 /\ u[1] = x /\ u[2] = y
      /\ v \in Seq({x, y}) /\ Len(v) = 2 /\ v[1] = x /\ v[2] = y
  BY <1>1
<1>3. <<>> \o <<y>> = <<y>> /\ <<x>> \o <<>> = <<x>> /\ <<>> \o <<>> = <<>>
  BY <1>1
<1>. HIDE DEF u, v
<1>4. \A i \in 1 .. 2 : u[i] = v[i]
  BY <1>2
<1>5. u = v
  BY <1>2, <1>4
<1>. QED
  BY <1>3, <1>5 DEF u, v

LEMMA AdmittedOutput ==
    ASSUME IInv, IInv', NEW c \in Conn, c \in open, NEW t \in RoomName, NEW d \in Conn,
           JoinAdmitted(c, t)
    PROVE  Output(d)
<1>. DEFINE new == [id |-> nextId, conn |-> c]
            rest == Remaining(c)[t]
<1>1. /\ participants' = [Remaining(c) EXCEPT ![t] = rest \cup {new}]
      /\ connRoom' = [connRoom EXCEPT ![c] = t]
      /\ sent' = [e \in Conn |->
                    IF e = c THEN <<Joined(nextId, {p.id : p \in rest})>>
                    ELSE LeaveNotice(c, e) \o JoinNotice(c, t, e)]
  BY DEF JoinAdmitted
<1>2. /\ Remaining(c) \in [RoomName -> SUBSET Participant]
      /\ \A s \in RoomName : Remaining(c)[s] = {p \in participants[s] : p.conn # c}
  BY RemainingFilters
<1>3. LookupsHold'
  BY Lookups, PTL
<1>4. CASE c = d
  <2>1. participants'[t] = rest \cup {new}
    BY <1>1, <1>2
  <2>2. /\ idFor(d)' = nextId
        /\ Peers(d)' = {q.id : q \in participants'[t]} \ {nextId}
    <3>1. new \in participants'[t] /\ new.conn = d /\ new.id = nextId
      BY <1>4, <2>1
    <3>. HIDE DEF new
    <3>. QED
      BY <1>3, <3>1 DEF LookupsHold
  <2>3. \A q \in rest : q.id # nextId
    <3>1. \A q \in participants[t] : q.id \in Nat /\ q.id < nextId /\ nextId \in Nat
      BY DEF IInv, TypeOK, Participant, RegistryInSync, ParticipantsDistinct
    <3>2. rest \subseteq participants[t]
      BY <1>2
    <3>3. \A q \in rest : q.id \in Nat /\ q.id < nextId /\ nextId \in Nat
      BY <3>1, <3>2
    <3>. HIDE DEF rest
    <3>. QED
      BY <3>3
  <2>4. Peers(d)' = {p.id : p \in rest}
    <3>1. new.id = nextId
      OBVIOUS
    <3>. HIDE DEF new, rest
    <3>. QED
      BY <2>1, <2>2, <2>3, <3>1
  <2>5. sent'[d] = <<Joined(nextId, {p.id : p \in rest})>>
    BY <1>1, <1>4
  <2>. HIDE DEF rest, new
  <2>. QED
    BY <1>4, <2>2, <2>4, <2>5 DEF Output
<1>5. CASE c # d
  <2>1. connRoom'[d] = connRoom[d]
    BY <1>1, <1>5 DEF IInv, TypeOK
  <2>2. sent'[d] = LeaveNotice(c, d) \o JoinNotice(c, t, d)
    BY <1>1, <1>5
  <2>3. CASE connRoom[d] = NoRoom
    <3>1. idFor(d)' = 0
      BY <1>3, <2>1, <2>3 DEF LookupsHold
    <3>2. \A s \in RoomName : \A q \in Remaining(c)[s] : q.conn # d
      BY <1>2, <2>3, RoomManagerAssumption
         DEF RoomManagerAssumption, IInv, RegistryInSync, BindingsAgree
    <3>3. JoinNotice(c, t, d) = <<>>
      BY <3>2 DEF JoinNotice
    <3>4. LeaveNotice(c, d) = <<>>
      <4>1. idFor(c) # 0 => connRoom[c] \in RoomName
        BY Registered
      <4>. QED
        BY <3>2, <4>1 DEF LeaveNotice
    <3>5. sent'[d] = <<>>
      BY <2>2, <3>3, <3>4
    <3>. QED
      BY <3>1, <3>5 DEF Output
  <2>4. CASE connRoom[d] # NoRoom
    <3>1. PICK p \in participants[connRoom[d]] : p.conn = d
      BY <2>4, Registered
    <3>2. connRoom[d] \in RoomName
      BY <2>4, Registered
    <3>3. p \in participants'[connRoom[d]]
      BY <1>1, <1>2, <1>5, <3>1, <3>2
    <3>4. idFor(d) # 0 /\ idFor(d)' = idFor(d)
      BY <3>1, <3>2, <3>3, KeepsPlace
    <3>5. /\ LeaveNotice(c, d) = <<>> \/ LeaveNotice(c, d) = <<PeerLeft(idFor(c))>>
          /\ JoinNotice(c, t, d) = <<>> \/ JoinNotice(c, t, d) = <<PeerJoined(nextId)>>
      BY DEF LeaveNotice, JoinNotice
    <3>6. \/ sent'[d] = <<>> \/ sent'[d] = <<PeerLeft(idFor(c))>>
          \/ sent'[d] = <<PeerJoined(nextId)>>
          \/ sent'[d] = <<PeerLeft(idFor(c)), PeerJoined(nextId)>>
      BY <2>2, <3>5, TwoFrames
    <3>. QED
      BY <3>4, <3>6 DEF Output
  <2>. QED
    BY <2>3, <2>4
<1>. QED
  BY <1>4, <1>5

LEMMA SignalOutput ==
    ASSUME IInv, IInv', NEW c \in Conn, NEW type \in RelayType, NEW to, NEW claimed,
           OnSignal(c, type, to, claimed), NEW d \in Conn
    PROVE  Output(d)
<1>. DEFINE f == [type |-> type, from |-> idFor(c)]
<1>1. idFor(d)' = idFor(d)
  BY SameRegistry DEF OnSignal
<1>2. CASE sent'[d] \in {<<>>, <<ErrorFrame>>}
  BY <1>1, <1>2 DEF Output
<1>3. CASE sent'[d] \notin {<<>>, <<ErrorFrame>>}
  <2>1. /\ idFor(c) # 0 /\ d \in Recipients(c, to)
        /\ sent'[d] = <<f>>
    BY <1>3 DEF OnSignal, relay, StampedFrom, Only, Silence
  <2>2. PICK pc \in participants[connRoom[c]] : pc.conn = c
    BY <2>1, Registered
  <2>3. PICK pd \in participants[connRoom[c]] : pd.conn = d
    BY <2>1 DEF Recipients
  <2>4. connRoom[c] \in RoomName /\ LookupsHold
    BY <2>1, Registered, Lookups
  <2>5. /\ idFor(c) = pc.id /\ idFor(d) = pd.id /\ pd.id # 0
        /\ Peers(d) = {q.id : q \in participants[connRoom[c]]} \ {pd.id}
    BY <2>2, <2>3, <2>4 DEF LookupsHold
  <2>6. idFor(c) \in Peers(d) \cup {idFor(d)}
    BY <2>2, <2>5
  <2>7. Relayed(d, f) /\ f = [type |-> f.type, from |-> f.from]
    BY <2>1, <2>6 DEF Relayed
  <2>. HIDE DEF f
  <2>. QED
    BY <1>1, <2>1, <2>5, <2>7 DEF Output
<1>. QED
  BY <1>2, <1>3

LEMMA StepOutput ==
    ASSUME IInv, IInv', Next, NEW d \in Conn
    PROVE  Output(d)
<1>1. ASSUME NEW c \in Conn, Open(c) \/ OnInvalid(c) PROVE Output(d)
  <2>1. idFor(d)' = idFor(d)
    BY <1>1, SameRegistry DEF Open, OnInvalid
  <2>2. sent'[d] \in {<<>>, <<ErrorFrame>>}
    BY <1>1 DEF Open, OnInvalid, Only, Silence
  <2>. QED
    BY <2>1, <2>2 DEF Output
<1>2. ASSUME NEW c \in Conn, NEW r \in RoomName, OnJoin(c, r) PROVE Output(d)
  <2>1. CASE JoinAdmitted(c, r)
    BY <1>2, <2>1, AdmittedOutput DEF OnJoin
  <2>2. CASE JoinRefused(c, r)
    BY <2>2, LeaveOutput DEF JoinRefused
  <2>. QED
    BY <1>2, <2>1, <2>2 DEF OnJoin
<1>3. ASSUME NEW c \in Conn, leave(c) PROVE Output(d)
  BY <1>3, LeaveOutput DEF leave
<1>4. ASSUME NEW c \in Conn, NEW type \in RelayType,
             NEW to \in 0 .. MaxId, NEW claimed \in 0 .. MaxId,
             OnSignal(c, type, to, claimed)
      PROVE  Output(d)
  BY <1>4, SignalOutput
<1>. QED
  BY <1>1, <1>2, <1>3, <1>4 DEF Next, OnLeave, OnClose

-----------------------------------------------------------------------------
(* What a client knows after each frame of its stream.                     *)

\* g is the story of a client that knows `known' and reads m frames of s.
Tells(g, known, s, m) ==
    g = [n \in 0 .. m |-> IF n = 0 THEN known ELSE Heard(g[n - 1], s[n])]

GoesOn(g, s, m) == \A n \in 1 .. m : g[n] = Heard(g[n - 1], s[n])

LEMMA LeastNat ==
    ASSUME NEW S \in SUBSET Nat, S # {}
    PROVE  \E x \in S : \A y \in S : x <= y
<1>1. PICK x \in S : \A y \in S : <<y, x>> \notin OpToRel(<, Nat)
  BY NatLessThanWellFounded, WFMin
<1>2. \A y \in S : ~(y < x)
  BY <1>1 DEF OpToRel
<1>. QED
  BY <1>2

\* Every stream tells a story, to any of its frames.
LEMMA StoryExists ==
    ASSUME NEW known, NEW s, NEW m \in Nat
    PROVE  \E g : Tells(g, known, s, m)
<1>. DEFINE Told(k) == \E g : Tells(g, known, s, k)
            S == {k \in Nat : ~Told(k)}
<1>. SUFFICES ASSUME S # {} PROVE FALSE
  OBVIOUS
<1>1. PICK k \in S : \A j \in S : k <= j
  <2>1. S \in SUBSET Nat
    OBVIOUS
  <2>. HIDE DEF S
  <2>. QED
    BY <2>1, LeastNat
<1>2. k \in Nat /\ ~Told(k)
  OBVIOUS
<1>3. CASE k = 0
  <2>. DEFINE g == [n \in 0 .. 0 |-> known]
  <2>1. g = [n \in 0 .. 0 |-> IF n = 0 THEN known ELSE Heard(g[n - 1], s[n])]
    OBVIOUS
  <2>2. Told(0)
    BY <2>1 DEF Tells
  <2>. QED
    BY <1>2, <1>3, <2>2
<1>4. CASE k # 0
  <2>1. k - 1 \in Nat /\ k - 1 \notin S
    BY <1>1, <1>2, <1>4
  <2>2. PICK f : f = [n \in 0 .. k - 1 |->
                        IF n = 0 THEN known ELSE Heard(f[n - 1], s[n])]
    BY <2>1 DEF Tells
  <2>. DEFINE g == [n \in 0 .. k |-> IF n = k THEN Heard(f[k - 1], s[k]) ELSE f[n]]
  <2>3. ASSUME NEW n \in 0 .. k
        PROVE  g[n] = IF n = 0 THEN known ELSE Heard(g[n - 1], s[n])
    <3>1. CASE n = k
      <4>1. g[n] = Heard(f[k - 1], s[k])
        BY <3>1
      <4>2. g[n - 1] = f[k - 1]
        BY <1>2, <1>4, <3>1
      <4>. QED
        BY <1>2, <1>4, <3>1, <4>1, <4>2
    <3>2. CASE n # k
      <4>1. n \in 0 .. k - 1 /\ g[n] = f[n]
        BY <1>2, <3>2
      <4>2. n # 0 => g[n - 1] = f[n - 1]
        BY <1>2, <4>1
      <4>3. f[n] = IF n = 0 THEN known ELSE Heard(f[n - 1], s[n])
        BY <2>2, <4>1
      <4>. HIDE DEF g
      <4>. QED
        BY <4>1, <4>2, <4>3
    <3>. QED
      BY <3>1, <3>2
  <2>4. g = [n \in 0 .. k |-> g[n]]
    OBVIOUS
  <2>. HIDE DEF g
  <2>5. g = [n \in 0 .. k |-> IF n = 0 THEN known ELSE Heard(g[n - 1], s[n])]
    BY <2>3, <2>4
  <2>. QED
    BY <1>2, <2>5 DEF Tells
<1>. QED
  BY <1>3, <1>4

LEMMA RostersTell ==
    ASSUME NEW known, NEW s, NEW m \in Nat, m = Len(s)
    PROVE  Tells(Rosters(known, s), known, s, m)
<1>1. \E g : Tells(g, known, s, m)
  BY StoryExists
<1>2. Rosters(known, s) = CHOOSE g : Tells(g, known, s, m)
  BY DEF Rosters, Tells
<1>. QED
  BY <1>1, <1>2

LEMMA RostersAre ==
    ASSUME NEW known, NEW s, NEW m \in Nat, m = Len(s)
    PROVE  Rosters(known, s)[0] = known /\ GoesOn(Rosters(known, s), s, m)
<1>. DEFINE g == Rosters(known, s)
<1>1. g = [n \in 0 .. m |-> IF n = 0 THEN known ELSE Heard(g[n - 1], s[n])]
  BY RostersTell DEF Tells
<1>. HIDE DEF g
<1>2. g[0] = known /\ \A n \in 1 .. m : g[n] = Heard(g[n - 1], s[n])
  BY <1>1
<1>. QED
  BY <1>2 DEF g, GoesOn

\* Two stories that begin alike and go on alike are one.
LEMMA SameStory ==
    ASSUME NEW m \in Nat, NEW s, NEW g, NEW h, g[0] = h[0],
           GoesOn(g, s, m), GoesOn(h, s, m)
    PROVE  \A n \in 0 .. m : g[n] = h[n]
<1>. DEFINE S == {n \in 0 .. m : g[n] # h[n]}
<1>. SUFFICES ASSUME S # {} PROVE FALSE
  OBVIOUS
<1>1. PICK k \in S : \A j \in S : k <= j
  <2>1. S \in SUBSET Nat
    OBVIOUS
  <2>. HIDE DEF S
  <2>. QED
    BY <2>1, LeastNat
<1>2. k \in 0 .. m /\ g[k] # h[k]
  OBVIOUS
<1>3. k \in 1 .. m
  BY <1>2
<1>4. k - 1 \in 0 .. m /\ k - 1 \notin S
  BY <1>1, <1>3
<1>5. g[k - 1] = h[k - 1]
  BY <1>4
<1>. QED
  BY <1>2, <1>3, <1>5 DEF GoesOn

\* One more frame goes on with the story.
LEMMA OneMore ==
    ASSUME NEW known, NEW X, NEW s \in Seq(X), NEW f \in X
    PROVE  /\ \A n \in 0 .. Len(s) : Rosters(known, s \o <<f>>)[n] = Rosters(known, s)[n]
           /\ Rosters(known, s \o <<f>>)[Len(s) + 1] = Heard(Rosters(known, s)[Len(s)], f)
<1>. DEFINE t == s \o <<f>>
            g == Rosters(known, t)
            h == Rosters(known, s)
            m == Len(s)
<1>1. m \in Nat /\ Len(t) = m + 1 /\ t[m + 1] = f /\ \A n \in 1 .. m : t[n] = s[n]
  OBVIOUS
<1>. HIDE DEF t, m
<1>2. g[0] = known /\ \A n \in 1 .. m + 1 : g[n] = Heard(g[n - 1], t[n])
  <2>1. m + 1 \in Nat
    BY <1>1
  <2>. QED
    BY <1>1, <2>1, RostersAre DEF GoesOn
<1>3. h[0] = known /\ GoesOn(h, s, m)
  BY <1>1, RostersAre DEF m
<1>. HIDE DEF g, h
<1>4. GoesOn(g, s, m)
  BY <1>1, <1>2 DEF GoesOn
<1>5. \A n \in 0 .. m : g[n] = h[n]
  BY <1>1, <1>2, <1>3, <1>4, SameStory
<1>6. g[m + 1] = Heard(h[m], f)
  <2>1. m + 1 \in 1 .. m + 1 /\ (m + 1) - 1 = m /\ m \in 0 .. m
    BY <1>1
  <2>. QED
    BY <1>1, <1>2, <1>5, <2>1
<1>. QED
  BY <1>5, <1>6 DEF g, h, t, m

\* Having read the first frame leaves the rest of the story.
LEMMA OneLess ==
    ASSUME NEW known, NEW X, NEW s \in Seq(X), s # <<>>
    PROVE  /\ Len(Tail(s)) = Len(s) - 1 /\ Len(s) - 1 \in Nat
           /\ \A n \in 1 .. Len(s) - 1 : Tail(s)[n] = s[n + 1]
           /\ \A n \in 0 .. Len(s) - 1 :
                 Rosters(Heard(known, Head(s)), Tail(s))[n] = Rosters(known, s)[n + 1]
<1>. DEFINE t == Tail(s)
            m == Len(s) - 1
            first == Heard(known, Head(s))
            g == Rosters(first, t)
            r == Rosters(known, s)
            h == [n \in 0 .. m |-> r[n + 1]]
<1>1. /\ m \in Nat /\ Len(s) = m + 1 /\ Len(t) = m /\ Head(s) = s[1]
      /\ \A n \in 1 .. m : t[n] = s[n + 1]
  OBVIOUS
<1>. HIDE DEF t, m
<1>2. r[0] = known /\ \A n \in 1 .. m + 1 : r[n] = Heard(r[n - 1], s[n])
  <2>1. m + 1 \in Nat
    BY <1>1
  <2>. QED
    BY <1>1, <2>1, RostersAre DEF GoesOn
<1>. HIDE DEF first
<1>3. g[0] = first /\ GoesOn(g, t, m)
  BY <1>1, RostersAre
<1>. USE DEF first
<1>. HIDE DEF r, g
<1>4. h[0] = first /\ GoesOn(h, t, m)
  <2>1. h[0] = r[1] /\ r[1] = Heard(r[0], s[1])
    <3>1. 0 \in 0 .. m /\ 1 \in 1 .. m + 1 /\ 0 + 1 = 1 /\ 1 - 1 = 0
      BY <1>1
    <3>. QED
      BY <1>2, <3>1
  <2>2. ASSUME NEW n \in 1 .. m PROVE h[n] = Heard(h[n - 1], t[n])
    <3>1. n \in 0 .. m /\ n - 1 \in 0 .. m /\ n + 1 \in 1 .. m + 1
          /\ (n + 1) - 1 = n /\ (n - 1) + 1 = n
      BY <1>1
    <3>2. h[n] = r[n + 1] /\ h[n - 1] = r[n] /\ r[n + 1] = Heard(r[n], s[n + 1])
      BY <1>2, <3>1
    <3>. QED
      BY <1>1, <3>2
  <2>. QED
    BY <1>1, <1>2, <2>1, <2>2 DEF GoesOn
<1>5. \A n \in 0 .. m : g[n] = h[n]
  <2>. HIDE DEF h, first
  <2>. QED
    BY <1>1, <1>3, <1>4, SameStory
<1>6. \A n \in 0 .. m : g[n] = r[n + 1]
  BY <1>5
<1>. QED
  BY <1>1, <1>6 DEF g, r, t, m

-----------------------------------------------------------------------------
(* Streams that can be followed to the truth.                              *)

Frame ==
    [type : {"joined"}, from : Nat, peers : SUBSET Nat]
        \cup [type : RelayType \cup {"peer-joined", "peer-left", "error"}, from : Nat]

\* A client that knows `known' can make sense of f.
Fits(known, f) ==
    /\ f.type \in RelayType => f.from \in (known.peers \cup {known.selfId}) \ {0}
    /\ f.type = "peer-joined" => f.from \notin known.peers \cup {known.selfId}
    /\ f.type = "peer-left" => f.from \in known.peers

Follows(known, s) == \A i \in 1 .. Len(s) : Fits(Rosters(known, s)[i - 1], s[i])

LastRoster(known, s) == Rosters(known, s)[Len(s)]

Truth(d) == [selfId |-> idFor(d), peers |-> Peers(d)]

StreamsInv ==
    /\ wire \in [Conn -> Seq(Frame)]
    /\ roster = [d \in Conn |-> roster[d]]
    /\ \A d \in Conn : /\ Follows(roster[d], wire[d])
                       /\ idFor(d) # 0 => LastRoster(roster[d], wire[d]) = Truth(d)

LEMMA HeardLeft ==
    ASSUME NEW a, NEW P, NEW x
    PROVE  Heard([selfId |-> a, peers |-> P], PeerLeft(x)) = [selfId |-> a, peers |-> P \ {x}]
BY DEF Heard, PeerLeft

LEMMA HeardNew ==
    ASSUME NEW a, NEW P, NEW x
    PROVE  Heard([selfId |-> a, peers |-> P], PeerJoined(x))
             = [selfId |-> a, peers |-> P \cup {x}]
BY DEF Heard, PeerJoined

LEMMA HeardWelcome ==
    ASSUME NEW known, NEW a, NEW P
    PROVE  Heard(known, Joined(a, P)) = [selfId |-> a, peers |-> P]
BY DEF Heard, Joined

LEMMA HeardError ==
    ASSUME NEW known
    PROVE  Heard(known, ErrorFrame) = known
BY DEF Heard, ErrorFrame

LEMMA HeardRelayed ==
    ASSUME NEW known, NEW f, f.type \in RelayType
    PROVE  Heard(known, f) = known
<1>1. f.type # "joined" /\ f.type # "peer-joined" /\ f.type # "peer-left"
  BY RoomManagerAssumption DEF RoomManagerAssumption
<1>. QED
  BY <1>1 DEF Heard

LEMMA OneFrame ==
    ASSUME NEW known, NEW s \in Seq(Frame), NEW f \in Frame,
           Follows(known, s), Fits(LastRoster(known, s), f)
    PROVE  /\ s \o <<f>> \in Seq(Frame)
           /\ Follows(known, s \o <<f>>)
           /\ LastRoster(known, s \o <<f>>) = Heard(LastRoster(known, s), f)
<1>. DEFINE t == s \o <<f>>
            m == Len(s)
<1>1. /\ \A n \in 0 .. m : Rosters(known, t)[n] = Rosters(known, s)[n]
      /\ Rosters(known, t)[m + 1] = Heard(Rosters(known, s)[m], f)
  BY OneMore
<1>2. /\ t \in Seq(Frame) /\ m \in Nat /\ Len(t) = m + 1 /\ t[m + 1] = f
      /\ \A n \in 1 .. m : t[n] = s[n]
  OBVIOUS
<1>3. /\ \A i \in 1 .. m : Fits(Rosters(known, s)[i - 1], s[i])
      /\ Fits(Rosters(known, s)[m], f)
  BY DEF Follows, LastRoster
<1>. HIDE DEF t, m
<1>4. ASSUME NEW i \in 1 .. Len(t) PROVE Fits(Rosters(known, t)[i - 1], t[i])
  <2>1. CASE i \in 1 .. m
    <3>1. i - 1 \in 0 .. m
      BY <1>2, <2>1
    <3>. QED
      BY <1>1, <1>2, <1>3, <2>1, <3>1
  <2>2. CASE i = m + 1
    <3>1. i - 1 = m /\ m \in 0 .. m
      BY <1>2, <2>2
    <3>. QED
      BY <1>1, <1>2, <1>3, <2>2, <3>1
  <2>. QED
    BY <1>2, <2>1, <2>2
<1>5. LastRoster(known, t) = Heard(LastRoster(known, s), f)
  BY <1>1, <1>2 DEF LastRoster, m
<1>. QED
  BY <1>2, <1>4, <1>5 DEF Follows, t

IdIsNumber(d) == idFor(d) \in Nat /\ Peers(d) \in SUBSET Nat /\ idFor(d) \notin Peers(d)

LEMMA IdsAreNumbers ==
    IInv => \A d \in Conn : IdIsNumber(d)
<1>. SUFFICES ASSUME IInv, NEW d \in Conn
              PROVE  idFor(d) \in Nat /\ Peers(d) \in SUBSET Nat /\ idFor(d) \notin Peers(d)
  BY DEF IdIsNumber
<1>1. CASE connRoom[d] = NoRoom
  BY <1>1, Registered, RoomManagerAssumption DEF RoomManagerAssumption, IInv, TypeOK
<1>2. CASE connRoom[d] # NoRoom
  <2>1. PICK p \in participants[connRoom[d]] : p.conn = d
    BY <1>2, Registered
  <2>2. connRoom[d] \in RoomName
    BY <1>2, Registered
  <2>3. idFor(d) = p.id /\ Peers(d) = {q.id : q \in participants[connRoom[d]]} \ {p.id}
    BY <2>1, <2>2, Lookups DEF LookupsHold
  <2>4. \A q \in participants[connRoom[d]] : q.id \in Nat
    BY <2>2 DEF IInv, TypeOK, Participant
  <2>. QED
    BY <2>1, <2>3, <2>4
<1>. QED
  BY <1>1, <1>2

LEMMA IdsStayNumbers ==
    IInv' => (\A d \in Conn : IdIsNumber(d))'
BY IdsAreNumbers, PTL

\* What is appended to the stream of d keeps it one that can be followed, now to
\* the new truth.
LEMMA Appended ==
    ASSUME IInv, IInv', Next, NEW d \in Conn,
           NEW known, NEW s \in Seq(Frame), Follows(known, s),
           idFor(d) # 0 => LastRoster(known, s) = Truth(d)
    PROVE  /\ s \o sent'[d] \in Seq(Frame)
           /\ Follows(known, s \o sent'[d])
           /\ idFor(d)' # 0 => LastRoster(known, s \o sent'[d]) = Truth(d)'
<1>. DEFINE a == idFor(d)
            P == Peers(d)
            b == idFor(d)'
            Q == Peers(d)'
            o == sent'[d]
            k == LastRoster(known, s)
<1>1. a \in Nat /\ P \in SUBSET Nat /\ a \notin P
  BY IdsAreNumbers DEF IdIsNumber
<1>2. b \in Nat /\ Q \in SUBSET Nat /\ b \notin Q
  <2>1. (\A e \in Conn : IdIsNumber(e))'
    BY IdsStayNumbers
  <2>. QED
    BY <2>1 DEF IdIsNumber
<1>3. a # 0 => k = [selfId |-> a, peers |-> P]
  BY DEF Truth
<1>4. Truth(d)' = [selfId |-> b, peers |-> Q]
  BY DEF Truth
<1>5. a # 0 /\ b = a => /\ Announced("peer-joined", o) = Q \ P
                        /\ Announced("peer-left", o) = P \ Q
  BY StepAnnounces
<1>6. Output(d)
  BY StepOutput
<1>7. \A f : f.type \in RelayType =>
          f.type \notin {"joined", "peer-joined", "peer-left", "error"}
  BY RoomManagerAssumption DEF RoomManagerAssumption
<1>8. \A f \in Frame : Fits(k, f) => /\ s \o <<f>> \in Seq(Frame)
                                     /\ Follows(known, s \o <<f>>)
                                     /\ LastRoster(known, s \o <<f>>) = Heard(k, f)
  BY OneFrame
<1>9. \A f : f.type \notin {"peer-joined", "peer-left"} =>
          Announced("peer-joined", <<f>>) = {} /\ Announced("peer-left", <<f>>) = {}
  BY DEF Announced
<1>10. Announced("peer-joined", <<>>) = {} /\ Announced("peer-left", <<>>) = {}
  BY DEF Announced
<1>. HIDE DEF a, P, b, Q, o, k
<1>11. CASE b \in {0, a} /\ o = <<>>
  <2>1. s \o o = s
    BY <1>11
  <2>2. b # 0 => Q = P
    BY <1>5, <1>10, <1>11
  <2>. QED
    BY <1>3, <1>4, <1>11, <2>1, <2>2 DEF b, o, k
<1>12. CASE b \in {0, a} /\ o = <<ErrorFrame>>
  <2>1. ErrorFrame \in Frame /\ ErrorFrame.type = "error"
    BY DEF Frame, ErrorFrame
  <2>2. Fits(k, ErrorFrame)
    BY <1>7, <2>1 DEF Fits
  <2>3. Heard(k, ErrorFrame) = k
    BY HeardError
  <2>4. b # 0 => Q = P
    BY <1>5, <1>9, <1>12, <2>1
  <2>. QED
    BY <1>3, <1>4, <1>8, <1>12, <2>1, <2>2, <2>3, <2>4 DEF b, o
<1>13. CASE o = <<Joined(b, Q)>>
  <2>1. Joined(b, Q) \in Frame /\ Joined(b, Q).type = "joined"
    BY <1>2 DEF Frame, Joined
  <2>2. Fits(k, Joined(b, Q))
    BY <1>7, <2>1 DEF Fits
  <2>3. Heard(k, Joined(b, Q)) = [selfId |-> b, peers |-> Q]
    BY HeardWelcome
  <2>. QED
    BY <1>4, <1>8, <1>13, <2>1, <2>2, <2>3 DEF o
<1>14. ASSUME a # 0, b = a, NEW f, o = <<f>>, f.type \in RelayType,
              f.from \in (P \cup {a}) \ {0}, f = [type |-> f.type, from |-> f.from]
       PROVE  /\ s \o sent'[d] \in Seq(Frame)
              /\ Follows(known, s \o sent'[d])
              /\ idFor(d)' # 0 => LastRoster(known, s \o sent'[d]) = Truth(d)'
  <2>1. f \in Frame
    <3>1. f.from \in Nat
      BY <1>1, <1>14
    <3>. QED
      BY <1>14, <3>1 DEF Frame
  <2>2. Fits(k, f)
    BY <1>3, <1>7, <1>14 DEF Fits
  <2>3. Heard(k, f) = k
    BY <1>14, HeardRelayed
  <2>4. Q = P
    BY <1>5, <1>7, <1>9, <1>14
  <2>. QED
    BY <1>3, <1>4, <1>8, <1>14, <2>1, <2>2, <2>3, <2>4 DEF o
<1>15. ASSUME a # 0, b = a, NEW x, o = <<PeerLeft(x)>>
       PROVE  /\ s \o sent'[d] \in Seq(Frame)
              /\ Follows(known, s \o sent'[d])
              /\ idFor(d)' # 0 => LastRoster(known, s \o sent'[d]) = Truth(d)'
  <2>1. Q \ P = {} /\ P \ Q = {x}
    <3>1. Announced("peer-left", o) = {x} /\ Announced("peer-joined", o) = {}
      BY <1>15, NoticesOf
    <3>. QED
      BY <1>5, <1>15, <3>1
  <2>2. x \in P /\ Q = P \ {x}
    BY <2>1
  <2>3. PeerLeft(x) \in Frame /\ PeerLeft(x).type = "peer-left" /\ PeerLeft(x).from = x
    BY <1>1, <2>2 DEF Frame, PeerLeft
  <2>4. Fits(k, PeerLeft(x))
    BY <1>3, <1>7, <1>15, <2>2, <2>3 DEF Fits
  <2>5. Heard(k, PeerLeft(x)) = [selfId |-> b, peers |-> Q]
    <3>1. Heard([selfId |-> a, peers |-> P], PeerLeft(x)) = [selfId |-> a, peers |-> P \ {x}]
      BY HeardLeft
    <3>. QED
      BY <1>3, <1>15, <2>2, <3>1
  <2>. QED
    BY <1>4, <1>8, <1>15, <2>3, <2>4, <2>5 DEF o
<1>16. ASSUME a # 0, b = a, NEW y, o = <<PeerJoined(y)>>
       PROVE  /\ s \o sent'[d] \in Seq(Frame)
              /\ Follows(known, s \o sent'[d])
              /\ idFor(d)' # 0 => LastRoster(known, s \o sent'[d]) = Truth(d)'
  <2>1. Q \ P = {y} /\ P \ Q = {}
    <3>1. Announced("peer-left", o) = {} /\ Announced("peer-joined", o) = {y}
      BY <1>16, NoticesOf
    <3>. QED
      BY <1>5, <1>16, <3>1
  <2>2. y \in Q /\ y \notin P /\ y # a /\ Q = P \cup {y}
    BY <1>2, <1>16, <2>1
  <2>3. PeerJoined(y) \in Frame /\ PeerJoined(y).type = "peer-joined" /\ PeerJoined(y).from = y
    BY <1>2, <2>2 DEF Frame, PeerJoined
  <2>4. Fits(k, PeerJoined(y))
    BY <1>3, <1>7, <1>16, <2>2, <2>3 DEF Fits
  <2>5. Heard(k, PeerJoined(y)) = [selfId |-> b, peers |-> Q]
    <3>1. Heard([selfId |-> a, peers |-> P], PeerJoined(y))
            = [selfId |-> a, peers |-> P \cup {y}]
      BY HeardNew
    <3>. QED
      BY <1>3, <1>16, <2>2, <3>1
  <2>. QED
    BY <1>4, <1>8, <1>16, <2>3, <2>4, <2>5 DEF o
<1>17. ASSUME a # 0, b = a, NEW x, NEW y, o = <<PeerLeft(x), PeerJoined(y)>>
       PROVE  /\ s \o sent'[d] \in Seq(Frame)
              /\ Follows(known, s \o sent'[d])
              /\ idFor(d)' # 0 => LastRoster(known, s \o sent'[d]) = Truth(d)'
  <2>0. /\ PeerLeft(x).type = "peer-left" /\ PeerLeft(x).from = x
        /\ PeerJoined(y).type = "peer-joined" /\ PeerJoined(y).from = y
    BY DEF PeerLeft, PeerJoined
  <2>1. Q \ P = {y} /\ P \ Q = {x}
    <3>1. \A f, g : f.type = "peer-left" /\ g.type = "peer-joined" =>
             /\ Announced("peer-left", <<f, g>>) = {f.from}
             /\ Announced("peer-joined", <<f, g>>) = {g.from}
      BY DEF Announced
    <3>2. Announced("peer-left", o) = {x} /\ Announced("peer-joined", o) = {y}
      BY <1>17, <2>0, <3>1
    <3>. QED
      BY <1>5, <1>17, <3>2
  <2>2. /\ x \in P /\ y \in Q /\ y \notin P /\ y # a
        /\ Q = (P \ {x}) \cup {y}
    BY <1>2, <1>17, <2>1
  <2>3. PeerLeft(x) \in Frame /\ PeerJoined(y) \in Frame
    BY <1>1, <1>2, <2>2 DEF Frame, PeerLeft, PeerJoined
  <2>4. Fits(k, PeerLeft(x))
    BY <1>3, <1>7, <1>17, <2>0, <2>2 DEF Fits
  <2>5. Heard(k, PeerLeft(x)) = [selfId |-> a, peers |-> P \ {x}]
    <3>1. Heard([selfId |-> a, peers |-> P], PeerLeft(x)) = [selfId |-> a, peers |-> P \ {x}]
      BY HeardLeft
    <3>. QED
      BY <1>3, <1>17, <3>1
  <2>. DEFINE t == s \o <<PeerLeft(x)>>
  <2>6. /\ t \in Seq(Frame) /\ Follows(known, t)
        /\ LastRoster(known, t) = [selfId |-> a, peers |-> P \ {x}]
    BY <1>8, <2>3, <2>4, <2>5
  <2>7. s \o o = t \o <<PeerJoined(y)>>
    <3>1. o = <<PeerLeft(x)>> \o <<PeerJoined(y)>>
      BY <1>17, TwoFrames
    <3>2. \A f, g \in Frame : s \o (<<f>> \o <<g>>) = (s \o <<f>>) \o <<g>>
      OBVIOUS
    <3>. QED
      BY <2>3, <3>1, <3>2
  <2>. HIDE DEF t
  <2>8. Fits(LastRoster(known, t), PeerJoined(y))
    BY <1>7, <2>0, <2>2, <2>6 DEF Fits
  <2>9. /\ t \o <<PeerJoined(y)>> \in Seq(Frame) /\ Follows(known, t \o <<PeerJoined(y)>>)
        /\ LastRoster(known, t \o <<PeerJoined(y)>>) = Heard(LastRoster(known, t), PeerJoined(y))
    BY <2>3, <2>6, <2>8, OneFrame
  <2>10. Heard(LastRoster(known, t), PeerJoined(y)) = [selfId |-> b, peers |-> Q]
    <3>1. Heard([selfId |-> a, peers |-> P \ {x}], PeerJoined(y))
            = [selfId |-> a, peers |-> (P \ {x}) \cup {y}]
      BY HeardNew
    <3>. QED
      BY <1>17, <2>2, <2>6, <3>1
  <2>. QED
    BY <1>4, <2>7, <2>9, <2>10 DEF o
<1>. QED
  BY <1>6, <1>11, <1>12, <1>13, <1>14, <1>15, <1>16, <1>17
     DEF Output, Relayed, a, P, b, Q, o

\* Having read one frame leaves a stream that can be followed, to the same end.
LEMMA OneRead ==
    ASSUME NEW known, NEW s \in Seq(Frame), s # <<>>, Follows(known, s)
    PROVE  /\ Tail(s) \in Seq(Frame)
           /\ Follows(Heard(known, Head(s)), Tail(s))
           /\ LastRoster(Heard(known, Head(s)), Tail(s)) = LastRoster(known, s)
<1>. DEFINE t == Tail(s)
            m == Len(s)
            next == Heard(known, Head(s))
<1>1. /\ Len(t) = m - 1 /\ m - 1 \in Nat /\ m \in Nat
      /\ \A n \in 1 .. m - 1 : t[n] = s[n + 1]
      /\ \A n \in 0 .. m - 1 : Rosters(next, t)[n] = Rosters(known, s)[n + 1]
  BY OneLess
<1>2. \A i \in 1 .. m : Fits(Rosters(known, s)[i - 1], s[i])
  BY DEF Follows
<1>3. t \in Seq(Frame)
  OBVIOUS
<1>. HIDE DEF t, m, next
<1>4. ASSUME NEW i \in 1 .. Len(t) PROVE Fits(Rosters(next, t)[i - 1], t[i])
  <2>1. /\ i \in 1 .. m - 1 /\ i - 1 \in 0 .. m - 1 /\ i + 1 \in 1 .. m
        /\ (i - 1) + 1 = i /\ (i + 1) - 1 = i
    BY <1>1
  <2>2. t[i] = s[i + 1] /\ Rosters(next, t)[i - 1] = Rosters(known, s)[i]
    BY <1>1, <2>1
  <2>3. Fits(Rosters(known, s)[i], s[i + 1])
    BY <1>2, <2>1
  <2>. QED
    BY <2>2, <2>3
<1>5. LastRoster(next, t) = LastRoster(known, s)
  <2>1. m - 1 \in 0 .. m - 1 /\ (m - 1) + 1 = m
    BY <1>1
  <2>2. Rosters(next, t)[m - 1] = Rosters(known, s)[m]
    BY <1>1, <2>1
  <2>. QED
    BY <1>1, <2>2 DEF LastRoster, m
<1>. QED
  BY <1>3, <1>4, <1>5 DEF Follows, t, next

LEMMA ClosedIsNobody ==
    ASSUME IInv, NEW d \in Conn, d \notin open
    PROVE  idFor(d) = 0
BY Registered DEF IInv, HandlesAreOpen

LEMMA StillClosed ==
    IInv' => (\A d \in Conn : d \notin open => idFor(d) = 0)'
<1>1. IInv => \A d \in Conn : d \notin open => idFor(d) = 0
  BY ClosedIsNobody
<1>. QED
  BY <1>1, PTL

LEMMA SilentStream ==
    ASSUME NEW known
    PROVE  Follows(known, <<>>)
BY DEF Follows

LEMMA ServerKeepsStreams ==
    ASSUME IInv, IInv', StreamsInv, ServerStep
    PROVE  StreamsInv'
<1>1. Next
  BY DEF ServerStep
<1>2. ASSUME NEW d \in Conn
      PROVE  /\ wire'[d] \in Seq(Frame)
             /\ Follows(roster'[d], wire'[d])
             /\ idFor(d)' # 0 => LastRoster(roster'[d], wire'[d]) = Truth(d)'
  <2>1. CASE d \in open \cap open'
    <3>1. roster'[d] = roster[d] /\ wire'[d] = wire[d] \o sent'[d]
      BY <2>1 DEF ServerStep, Transmitted
    <3>2. /\ wire[d] \in Seq(Frame) /\ Follows(roster[d], wire[d])
          /\ idFor(d) # 0 => LastRoster(roster[d], wire[d]) = Truth(d)
      BY DEF StreamsInv
    <3>3. /\ wire[d] \o sent'[d] \in Seq(Frame)
          /\ Follows(roster[d], wire[d] \o sent'[d])
          /\ idFor(d)' # 0 => LastRoster(roster[d], wire[d] \o sent'[d]) = Truth(d)'
      BY <1>1, <3>2, Appended
    <3>. QED
      BY <3>1, <3>3
  <2>2. CASE d \notin open \cap open'
    <3>1. wire'[d] = <<>>
      BY <2>2 DEF ServerStep
    <3>2. idFor(d)' = 0
      <4>1. CASE d \notin open'
        BY <4>1, StillClosed
      <4>2. CASE d \notin open
        <5>1. idFor(d) = 0
          BY <4>2, ClosedIsNobody
        <5>2. Output(d)
          BY <1>1, StepOutput
        <5>. QED
          BY <4>2, <5>1, <5>2 DEF Output
      <4>. QED
        BY <2>2, <4>1, <4>2
    <3>3. wire'[d] \in Seq(Frame)
      BY <3>1
    <3>. QED
      BY <3>1, <3>2, <3>3, SilentStream
  <2>. QED
    BY <2>1, <2>2
<1>3. wire' \in [Conn -> Seq(Frame)] /\ roster' = [d \in Conn |-> roster'[d]]
  BY <1>2 DEF ServerStep
<1>. QED
  BY <1>2, <1>3 DEF StreamsInv

LEMMA ReadingKeepsStreams ==
    ASSUME StreamsInv, NEW c \in Conn, Read(c)
    PROVE  StreamsInv'
<1>1. UNCHANGED registry /\ wire[c] # <<>>
  BY DEF Read, vars
<1>2. ASSUME NEW d \in Conn
      PROVE  /\ wire'[d] \in Seq(Frame)
             /\ Follows(roster'[d], wire'[d])
             /\ idFor(d)' # 0 => LastRoster(roster'[d], wire'[d]) = Truth(d)'
  <2>1. idFor(d)' = idFor(d) /\ Truth(d)' = Truth(d)
    BY <1>1, SameRegistry DEF Truth
  <2>2. /\ wire[d] \in Seq(Frame) /\ Follows(roster[d], wire[d])
        /\ idFor(d) # 0 => LastRoster(roster[d], wire[d]) = Truth(d)
    BY DEF StreamsInv
  <2>3. CASE d = c
    <3>1. wire'[d] = Tail(wire[d]) /\ roster'[d] = Heard(roster[d], Head(wire[d]))
      BY <2>3 DEF Read, StreamsInv
    <3>2. /\ Tail(wire[d]) \in Seq(Frame)
          /\ Follows(Heard(roster[d], Head(wire[d])), Tail(wire[d]))
          /\ LastRoster(Heard(roster[d], Head(wire[d])), Tail(wire[d]))
               = LastRoster(roster[d], wire[d])
      BY <1>1, <2>2, <2>3, OneRead
    <3>. QED
      BY <2>1, <2>2, <3>1, <3>2
  <2>4. CASE d # c
    <3>1. wire'[d] = wire[d] /\ roster'[d] = roster[d]
      BY <2>4 DEF Read, StreamsInv
    <3>. QED
      BY <2>1, <2>2, <3>1
  <2>. QED
    BY <2>3, <2>4
<1>3. wire' \in [Conn -> Seq(Frame)] /\ roster' = [d \in Conn |-> roster'[d]]
  BY <1>2 DEF Read, StreamsInv
<1>. QED
  BY <1>2, <1>3 DEF StreamsInv

LEMMA NothingKeepsStreams ==
    ASSUME StreamsInv, UNCHANGED signalingVars
    PROVE  StreamsInv'
<1>1. wire' = wire /\ roster' = roster /\ UNCHANGED registry
  BY DEF signalingVars, vars
<1>2. \A d \in Conn : Truth(d)' = Truth(d) /\ idFor(d)' = idFor(d)
  BY <1>1, SameRegistry DEF Truth
<1>3. wire' \in [Conn -> Seq(Frame)]
  BY <1>1 DEF StreamsInv
<1>4. roster' = [d \in Conn |-> roster'[d]]
  BY <1>1 DEF StreamsInv
<1>5. ASSUME NEW d \in Conn
      PROVE  /\ Follows(roster'[d], wire'[d])
             /\ idFor(d)' # 0 => LastRoster(roster'[d], wire'[d]) = Truth(d)'
  BY <1>1, <1>2 DEF StreamsInv
<1>. QED
  BY <1>3, <1>4, <1>5 DEF StreamsInv

LEMMA StreamsInvariance == SignalingSpec => [](IInv /\ StreamsInv)
<1>1. SignalingInit => IInv /\ StreamsInv
  <2>. SUFFICES ASSUME SignalingInit PROVE IInv /\ StreamsInv
    OBVIOUS
  <2>1. IInv
    BY InitIInv DEF SignalingInit
  <2>2. \A d \in Conn : idFor(d) = 0
    BY <2>1, ClosedIsNobody DEF SignalingInit, Init
  <2>3. StreamsInv
    BY <2>2, SilentStream DEF SignalingInit, StreamsInv
  <2>. QED
    BY <2>1, <2>3
<1>2. IInv /\ StreamsInv /\ [SignalingNext]_signalingVars => (IInv /\ StreamsInv)'
  <2>. SUFFICES ASSUME IInv, StreamsInv, [SignalingNext]_signalingVars
                PROVE  IInv' /\ StreamsInv'
    OBVIOUS
  <2>1. IInv'
    BY NextIInv DEF SignalingNext, ServerStep, Read, signalingVars
  <2>2. CASE ServerStep
    BY <2>1, <2>2, ServerKeepsStreams
  <2>3. ASSUME NEW c \in Conn, Read(c) PROVE StreamsInv'
    BY <2>3, ReadingKeepsStreams
  <2>4. CASE UNCHANGED signalingVars
    BY <2>1, <2>4, NothingKeepsStreams
  <2>. QED
    BY <2>1, <2>2, <2>3, <2>4 DEF SignalingNext
<1>. QED
  BY <1>1, <1>2, PTL DEF SignalingSpec

\* Streams and clients that read at their own pace let the server do nothing it
\* did not do without them, so what holds of the registry holds here.
THEOREM StreamsAddNothing == SignalingSpec => Spec
<1>1. SignalingInit => Init
  BY DEF SignalingInit
<1>2. [SignalingNext]_signalingVars => [Next]_vars
  BY DEF SignalingNext, ServerStep, Read, signalingVars
<1>. QED
  BY <1>1, <1>2, PTL DEF SignalingSpec, Spec

\* However far a client is behind, what is on its stream leads it to its id and
\* to exactly the peers the server has in its room.
THEOREM RostersLeadToTruth == SignalingSpec => []RosterConverges
<1>1. StreamsInv => RosterConverges
  BY DEF StreamsInv, RosterConverges, RosterAfter, LastRoster, Truth
<1>. QED
  BY <1>1, StreamsInvariance, PTL

\* A client can make sense of its stream frame by frame: every notice changes
\* what it knows by then, and every relayed message is from somebody it knows.
THEOREM StreamsCanBeFollowed == SignalingSpec => []ClientsCanFollow
<1>1. StreamsInv => ClientsCanFollow
  <2>. SUFFICES ASSUME StreamsInv, NEW c \in Conn, NEW i \in 1 .. Len(wire[c])
                PROVE  Fits(RosterAfter(c, i - 1), wire[c][i])
    BY DEF ClientsCanFollow, NoSignalFromStranger, NoticesAlternate, Fits
  <2>. QED
    BY DEF StreamsInv, Follows, RosterAfter
<1>. QED
  BY <1>1, StreamsInvariance, PTL
=============================================================================
