---------------------------- MODULE SfuMainProofs ----------------------------
(***************************************************************************)
(* The SFU process leaves no ghost in a Room, and its membership is that of *)
(* a Conference, for every set of clients and rooms, every cap, and every   *)
(* interleaving of the loop thread with the thread of libjuice.             *)
(***************************************************************************)
EXTENDS SfuMain, FiniteSetTheorems, TLAPS

-----------------------------------------------------------------------------
(* The SFU's registry, for every set of threads, participants and rooms,   *)
(* every cap, and any calls in any interleaving.                           *)

\* The inductive invariant: well typed, sound, and with members that can be
\* counted.
MembersFinite == \A o \in Object : IsFiniteSet(members[o])

ServerInv ==
    /\ TypeOK
    /\ RegistrySound
    /\ MembersFinite

-----------------------------------------------------------------------------
USE SFUServerAssumption DEF SFUServerAssumption

LEMMA InitServerInv == Init => ServerInv
<1> SUFFICES ASSUME Init PROVE ServerInv
  OBVIOUS
<1> USE DEF Init
<1>1. TypeOK
  <2>1. members \in [Object -> SUBSET ParticipantId]
    OBVIOUS
  <2>2. call \in [Thread -> {Idle}]
    OBVIOUS
  <2>3. rooms \in [RoomId -> 0 .. created] /\ created \in 0 .. MaxRooms
    OBVIOUS
  <2>4. mu \in Thread \cup {Nobody} /\ undefined \in BOOLEAN
    OBVIOUS
  <2>5. QED BY <2>1, <2>2, <2>3, <2>4 DEF TypeOK
<1>2. RegistrySound /\ MembersFinite
  BY FS_EmptySet DEF RegistrySound, MembersFinite, Object
<1>3. QED BY <1>1, <1>2 DEF ServerInv

\* Room::add never takes a Room over the cap, ...
LEMMA AdmissionKeepsCap ==
    ASSUME ServerInv, NEW o \in Object, NEW id, Admitted(o, id)
    PROVE  /\ IsFiniteSet(members[o] \cup {id})
           /\ Cardinality(members[o] \cup {id}) <= kMaxParticipants
<1>1. IsFiniteSet(members[o])
  BY DEF ServerInv, MembersFinite
<1>2. /\ IsFiniteSet(members[o] \cup {id})
      /\ Cardinality(members[o] \cup {id}) = Cardinality(members[o]) + 1
  BY <1>1, FS_AddElement DEF Admitted
<1>3. Cardinality(members[o]) \in Nat
  BY <1>1, FS_CardinalityType
<1>4. QED
  BY <1>2, <1>3 DEF Admitted

\* ... and taking members out of one never does.
LEMMA FewerKeepCap ==
    ASSUME ServerInv, NEW o \in Object, NEW S, S \subseteq members[o]
    PROVE  IsFiniteSet(S) /\ Cardinality(S) <= kMaxParticipants
<1>1. /\ IsFiniteSet(members[o])
      /\ Cardinality(members[o]) <= kMaxParticipants
  BY DEF ServerInv, MembersFinite, RegistrySound
<1>2. IsFiniteSet(S) /\ Cardinality(S) <= Cardinality(members[o])
  BY <1>1, FS_Subset
<1>3. Cardinality(S) \in Nat /\ Cardinality(members[o]) \in Nat
  BY <1>1, <1>2, FS_CardinalityType
<1>4. QED
  BY <1>1, <1>2, <1>3

-----------------------------------------------------------------------------
(* One lemma for each step that changes the registry or a Room. *)

LEMMA BeginAddPreserves ==
    ASSUME ServerInv, NEW t \in Thread, NEW id \in ParticipantId,
           NEW r \in RoomId, BeginAdd(t, id, r)
    PROVE  ServerInv'
<1>1. /\ rooms' \in [RoomId -> 0 .. created']
      /\ created' \in 0 .. MaxRooms /\ created <= created'
      /\ At("add", id, r, rooms'[r]).room \in 1 .. created'
      /\ call' = [call EXCEPT ![t] = At("add", id, r, rooms'[r])]
      /\ \A s \in RoomId : s # r => rooms'[s] = rooms[s]
      /\ rooms'[r] = rooms[r] \/ rooms'[r] = created + 1
  BY DEF BeginAdd, Step, At, ServerInv, TypeOK
<1>2. UNCHANGED <<members, mu, undefined>>
  BY DEF BeginAdd
<1>3. TypeOK'
  BY <1>1, <1>2 DEF ServerInv, TypeOK, At, Idle
<1>4. RegistrySound'
  BY <1>1, <1>2 DEF ServerInv, TypeOK, RegistrySound
<1>5. QED BY <1>2, <1>3, <1>4 DEF ServerInv, MembersFinite

LEMMA DoAddPreserves ==
    ASSUME ServerInv, NEW t \in Thread, DoAdd(t)
    PROVE  ServerInv'
<1>1. /\ call[t].room \in Object /\ call[t].id \in ParticipantId
      /\ call' = [call EXCEPT ![t] = Idle]
      /\ UNCHANGED <<rooms, created, mu>>
  BY DEF DoAdd, Step, ServerInv, TypeOK, Idle, Object
<1>2. \/ UNCHANGED members
      \/ /\ Admitted(call[t].room, call[t].id)
         /\ members' = [members EXCEPT ![call[t].room] = @ \cup {call[t].id}]
  BY DEF DoAdd
<1>3. undefined' \in BOOLEAN
  BY DEF DoAdd, ServerInv, TypeOK
<1>4. TypeOK'
  BY <1>1, <1>2, <1>3 DEF ServerInv, TypeOK, Idle
<1>5. \A o \in Object : /\ IsFiniteSet(members'[o])
                        /\ Cardinality(members'[o]) <= kMaxParticipants
  BY <1>1, <1>2, AdmissionKeepsCap
     DEF ServerInv, TypeOK, RegistrySound, MembersFinite
<1>6. QED
  BY <1>1, <1>4, <1>5 DEF ServerInv, RegistrySound, MembersFinite, Object

LEMMA BeginRemovePreserves ==
    ASSUME ServerInv, NEW t \in Thread, NEW id \in ParticipantId,
           NEW r \in RoomId, BeginRemove(t, id, r)
    PROVE  ServerInv'
<1>1. CASE rooms[r] = 0
  BY <1>1 DEF BeginRemove, ServerInv, TypeOK, RegistrySound, MembersFinite,
              IdleThread, Object
<1>2. CASE rooms[r] # 0
  <2>1. /\ rooms[r] \in 1 .. created /\ rooms[r] \in Object
        /\ members' = [members EXCEPT ![rooms[r]] = @ \ {id}]
        /\ mu' = t
        /\ call' = [call EXCEPT ![t] = At("size", id, r, rooms[r])]
        /\ UNCHANGED <<rooms, created, undefined>>
    BY <1>2 DEF BeginRemove, Step, ServerInv, TypeOK, Object
  <2>2. TypeOK'
    BY <2>1 DEF ServerInv, TypeOK, At, Idle
  <2>3. \A o \in Object : members'[o] \subseteq members[o]
    BY <2>1 DEF ServerInv, TypeOK
  <2>4. \A o \in Object : /\ IsFiniteSet(members'[o])
                          /\ Cardinality(members'[o]) <= kMaxParticipants
    BY <2>3, FewerKeepCap
  <2>5. QED
    BY <2>1, <2>2, <2>4 DEF ServerInv, RegistrySound, MembersFinite, Object
<1>3. QED BY <1>1, <1>2

LEMMA ReadSizePreserves ==
    ASSUME ServerInv, NEW t \in Thread, ReadSize(t)
    PROVE  ServerInv'
<1>1. /\ call' = [call EXCEPT ![t] = AfterSize(t)]
      /\ mu' \in {Nobody, mu}
      /\ UNCHANGED <<rooms, members, created, undefined>>
  BY DEF ReadSize, Step
<1>2. \/ AfterSize(t) = Idle
      \/ /\ AfterSize(t) = [call[t] EXCEPT !.at = "erase"]
         /\ call[t].at = "size"
  BY DEF AfterSize, ReadSize
<1>3. AfterSize(t) \in {Idle} \cup
          [at : {"add", "size", "erase", "forward", "onRemb"},
           id : ParticipantId, roomId : RoomId, room : 1 .. created]
  BY <1>2 DEF ServerInv, TypeOK, Idle
<1>4. TypeOK'
  BY <1>1, <1>3 DEF ServerInv, TypeOK
<1>5. QED
  BY <1>1, <1>4 DEF ServerInv, RegistrySound, MembersFinite, Object

LEMMA EraseRoomPreserves ==
    ASSUME ServerInv, NEW t \in Thread, EraseRoom(t)
    PROVE  ServerInv'
<1>1. /\ rooms' = [rooms EXCEPT ![call[t].roomId] = 0]
      /\ members' = [members EXCEPT ![call[t].room] = {}]
      /\ mu' = Nobody
      /\ call' = [call EXCEPT ![t] = Idle]
      /\ UNCHANGED <<created, undefined>>
  BY DEF EraseRoom, Step
<1>2. TypeOK'
  <2>1. rooms' \in [RoomId -> 0 .. created]
    <3>1. rooms \in [RoomId -> 0 .. created] /\ created \in Nat
      BY DEF ServerInv, TypeOK
    <3>2. 0 \in 0 .. created
      BY <3>1
    <3>3. QED BY <1>1, <3>1, <3>2
  <2>2. members' \in [Object -> SUBSET ParticipantId]
    BY <1>1 DEF ServerInv, TypeOK
  <2>3. call' \in [Thread -> {Idle} \cup
                   [at : {"add", "size", "erase", "forward", "onRemb"},
                    id : ParticipantId, roomId : RoomId, room : 1 .. created]]
    BY <1>1 DEF ServerInv, TypeOK
  <2>4. QED BY <1>1, <2>1, <2>2, <2>3 DEF ServerInv, TypeOK
<1>3. \A o \in Object : members'[o] \subseteq members[o]
  BY <1>1 DEF ServerInv, TypeOK
<1>4. \A o \in Object : /\ IsFiniteSet(members'[o])
                        /\ Cardinality(members'[o]) <= kMaxParticipants
  BY <1>3, FewerKeepCap
<1>5. \A r, s \in RoomId : rooms'[r] = rooms'[s] /\ rooms'[r] # 0 => r = s
  BY <1>1 DEF ServerInv, TypeOK, RegistrySound
<1>6. QED
  BY <1>2, <1>4, <1>5 DEF ServerInv, RegistrySound, MembersFinite, Object

LEMMA UsePreserves ==
    ASSUME ServerInv, NEW t \in Thread,
           \/ \E id \in ParticipantId, r \in RoomId, use \in {"forward", "onRemb"} :
                 BeginUse(t, use, id, r)
           \/ DoUse(t)
    PROVE  ServerInv'
<1>1. CASE DoUse(t)
  <2>1. /\ call' = [call EXCEPT ![t] = Idle]
        /\ undefined' \in BOOLEAN
        /\ UNCHANGED <<rooms, members, created, mu>>
    BY <1>1 DEF DoUse, Step
  <2>2. QED
    BY <2>1 DEF ServerInv, TypeOK, RegistrySound, MembersFinite, Object,
                Idle
<1>2. ASSUME NEW id \in ParticipantId, NEW r \in RoomId,
             NEW use \in {"forward", "onRemb"}, BeginUse(t, use, id, r)
      PROVE  ServerInv'
  <2>1. /\ call' = [call EXCEPT ![t] = At(use, id, r, rooms[r])]
        /\ rooms[r] \in 1 .. created
        /\ UNCHANGED <<rooms, members, created, mu, undefined>>
    BY <1>2 DEF BeginUse, Step, ServerInv, TypeOK
  <2>2. TypeOK'
    BY <2>1 DEF ServerInv, TypeOK, At, Idle
  <2>3. QED
    BY <2>1, <2>2 DEF ServerInv, RegistrySound, MembersFinite, Object
<1>3. QED BY <1>1, <1>2

-----------------------------------------------------------------------------
LEMMA NextServerInv == ServerInv /\ [Next]_server => ServerInv'
<1> SUFFICES ASSUME ServerInv, [Next]_server PROVE ServerInv'
  OBVIOUS
<1>1. CASE UNCHANGED server
  BY <1>1 DEF server, ServerInv, TypeOK, RegistrySound, MembersFinite, Object
<1>2. ASSUME NEW t \in Thread, ThreadStep(t) PROVE ServerInv'
  BY <1>2, BeginAddPreserves, DoAddPreserves, BeginRemovePreserves,
     ReadSizePreserves, EraseRoomPreserves, UsePreserves
     DEF ThreadStep
<1>3. QED BY <1>1, <1>2 DEF Next

LEMMA ServerInvariance == Spec => []ServerInv
BY InitServerInv, NextServerInv, PTL DEF Spec

\* No Room goes over the cap through whatever pointer a thread holds, and no
\* Room is reached by two ids, whatever calls any threads make.
THEOREM RegistryIsSound == Spec => []RegistrySound
<1>1. ServerInv => RegistrySound
  BY DEF ServerInv
<1>2. QED BY <1>1, ServerInvariance, PTL

-----------------------------------------------------------------------------
(* Who holds mu_, and what it keeps true.                                  *)

\* Between the removal and the erasure the thread holds mu_, so the id still
\* leads to the Room it found there.
RemovalHoldsLock ==
    \A t \in Thread : call[t].at \in {"size", "erase"} =>
        mu = t /\ rooms[call[t].roomId] = call[t].room

\* t is at work on the Room o.
Tends(t, o) == call[t].at \in {"add", "size", "erase"} /\ call[t].room = o

BusyInv == RemovalHoldsLock /\ EmptyRoomsAreBusy

\* What a step leaves empty and does not tend was empty before, and tended by
\* another thread.
LEMMA OthersTend ==
    ASSUME ServerInv, BusyInv, NEW t \in Thread, NEW new, Step(t, new),
           NEW r \in RoomId, rooms[r] # 0, members[rooms[r]] = {},
           ~Tends(t, rooms[r]), rooms'[r] = rooms[r]
    PROVE  \E u \in Thread : /\ call'[u].at \in {"add", "size", "erase"}
                             /\ call'[u].room = rooms'[r]
<1>1. PICK u \in Thread : Tends(u, rooms[r])
  BY DEF BusyInv, EmptyRoomsAreBusy, Tends
<1>2. call'[u] = call[u]
  BY <1>1 DEF Step, ServerInv, TypeOK
<1>3. QED BY <1>1, <1>2 DEF Tends

\* An idle thread, or one that uses a Room, tends none.
LEMMA IdleTendsNone ==
    ASSUME NEW t \in Thread, NEW o, call[t] = Idle \/ call[t].at \in {"forward", "onRemb"}
    PROVE  ~Tends(t, o)
BY DEF Tends, Idle

LEMMA BeginAddKeepsBusy ==
    ASSUME ServerInv, BusyInv, NEW t \in Thread, NEW id \in ParticipantId,
           NEW q \in RoomId, BeginAdd(t, id, q)
    PROVE  BusyInv'
<1>1. /\ Step(t, At("add", id, q, rooms'[q])) /\ call[t] = Idle
      /\ rooms'[q] # 0 /\ mu = Nobody
      /\ \A r \in RoomId \ {q} : rooms'[r] = rooms[r]
      /\ UNCHANGED <<members, mu>>
  BY DEF BeginAdd, ServerInv, TypeOK, IdleThread, CanLock
<1>2. call'[t] = At("add", id, q, rooms'[q]) /\ \A u \in Thread \ {t} : call'[u] = call[u]
  BY <1>1 DEF Step, ServerInv, TypeOK
<1>3. RemovalHoldsLock'
  BY <1>1, <1>2 DEF BusyInv, RemovalHoldsLock, At
<1>4. ASSUME NEW r \in RoomId, rooms'[r] # 0, members'[rooms'[r]] = {}
      PROVE  \E u \in Thread : /\ call'[u].at \in {"add", "size", "erase"}
                               /\ call'[u].room = rooms'[r]
  <2>1. CASE r = q
    BY <1>2, <2>1 DEF At
  <2>2. CASE r # q
    BY <1>1, <1>4, <2>2, IdleTendsNone, OthersTend
  <2>3. QED BY <2>1, <2>2
<1>5. QED BY <1>3, <1>4 DEF BusyInv, EmptyRoomsAreBusy

LEMMA DoAddKeepsBusy ==
    ASSUME ServerInv, BusyInv, NEW t \in Thread, DoAdd(t)
    PROVE  BusyInv'
<1>1. /\ call[t].at = "add" /\ call[t].room \in Object /\ Step(t, Idle)
      /\ UNCHANGED <<rooms, mu>>
  BY DEF DoAdd, ServerInv, TypeOK, Idle, Object
<1>2. call'[t] = Idle /\ \A u \in Thread \ {t} : call'[u] = call[u]
  BY <1>1 DEF Step, ServerInv, TypeOK
<1>3. RemovalHoldsLock'
  BY <1>1, <1>2 DEF BusyInv, RemovalHoldsLock, Idle
<1>4. call[t].room \in Live => members'[call[t].room] # {}
  <2>1. CASE Admitted(call[t].room, call[t].id) /\ call[t].room \in Live
    BY <1>1, <2>1 DEF DoAdd, ServerInv, TypeOK
  <2>2. CASE ~Admitted(call[t].room, call[t].id) /\ call[t].room \in Live
    <3>1. members[call[t].room] # {}
      BY <2>2, FS_EmptySet DEF Admitted
    <3>2. QED BY <2>2, <3>1 DEF DoAdd
  <2>3. QED BY <2>1, <2>2
<1>5. \A o \in Object : members[o] \subseteq members'[o]
  BY <1>1 DEF DoAdd, ServerInv, TypeOK
<1>6. ASSUME NEW r \in RoomId, rooms'[r] # 0, members'[rooms'[r]] = {}
      PROVE  \E u \in Thread : /\ call'[u].at \in {"add", "size", "erase"}
                               /\ call'[u].room = rooms'[r]
  <2>1. rooms[r] \in Object /\ rooms[r] \in Live
    BY <1>1, <1>6 DEF ServerInv, TypeOK, Object, Live
  <2>2. members[rooms[r]] = {} /\ ~Tends(t, rooms[r])
    BY <1>1, <1>4, <1>5, <1>6, <2>1 DEF Tends
  <2>3. QED BY <1>1, <1>6, <2>2, OthersTend
<1>7. QED BY <1>3, <1>6 DEF BusyInv, EmptyRoomsAreBusy

LEMMA BeginRemoveKeepsBusy ==
    ASSUME ServerInv, BusyInv, NEW t \in Thread, NEW id \in ParticipantId,
           NEW q \in RoomId, BeginRemove(t, id, q)
    PROVE  BusyInv'
<1>1. CASE rooms[q] = 0
  BY <1>1 DEF BeginRemove, BusyInv, RemovalHoldsLock, EmptyRoomsAreBusy
<1>2. CASE rooms[q] # 0
  <2>1. /\ Step(t, At("size", id, q, rooms[q])) /\ call[t] = Idle
        /\ mu = Nobody /\ mu' = t /\ UNCHANGED rooms
        /\ members' = [members EXCEPT ![rooms[q]] = @ \ {id}]
    BY <1>2 DEF BeginRemove, IdleThread, CanLock
  <2>2. /\ call'[t] = At("size", id, q, rooms[q])
        /\ \A u \in Thread \ {t} : call'[u] = call[u]
    BY <2>1 DEF Step, ServerInv, TypeOK
  <2>3. RemovalHoldsLock'
    BY <2>1, <2>2 DEF BusyInv, RemovalHoldsLock, At
  <2>4. ASSUME NEW r \in RoomId, rooms'[r] # 0, members'[rooms'[r]] = {}
        PROVE  \E u \in Thread : /\ call'[u].at \in {"add", "size", "erase"}
                                 /\ call'[u].room = rooms'[r]
    <3>1. CASE rooms[r] = rooms[q]
      BY <2>1, <2>2, <3>1 DEF At
    <3>2. CASE rooms[r] # rooms[q]
      <4>1. rooms[r] \in Object
        BY <2>1, <2>4 DEF ServerInv, TypeOK, Object
      <4>2. members[rooms[r]] = {}
        BY <2>1, <2>4, <3>2, <4>1 DEF ServerInv, TypeOK
      <4>3. QED BY <2>1, <2>4, <4>2, IdleTendsNone, OthersTend
    <3>3. QED BY <3>1, <3>2
  <2>5. QED BY <2>3, <2>4 DEF BusyInv, EmptyRoomsAreBusy
<1>3. QED BY <1>1, <1>2

LEMMA ReadSizeKeepsBusy ==
    ASSUME ServerInv, BusyInv, NEW t \in Thread, ReadSize(t)
    PROVE  BusyInv'
<1>1. /\ call[t].at = "size" /\ Step(t, AfterSize(t)) /\ UNCHANGED <<rooms, members>>
      /\ call[t] \in [at : {"add", "size", "erase", "forward", "onRemb"},
                      id : ParticipantId, roomId : RoomId, room : 1 .. created]
  BY DEF ReadSize, ServerInv, TypeOK, Idle
<1>2. call'[t] = AfterSize(t) /\ \A u \in Thread \ {t} : call'[u] = call[u]
  BY <1>1 DEF Step, ServerInv, TypeOK
<1>3. mu = t /\ rooms[call[t].roomId] = call[t].room
  BY <1>1 DEF BusyInv, RemovalHoldsLock
<1>4. CASE members[call[t].room] = {}
  <2>1. /\ AfterSize(t).at = "erase" /\ AfterSize(t).room = call[t].room
        /\ AfterSize(t).roomId = call[t].roomId /\ AfterSize(t) # Idle
    BY <1>1, <1>4 DEF AfterSize, Idle
  <2>2. mu' = t
    BY <1>3, <2>1 DEF ReadSize
  <2>3. RemovalHoldsLock'
    BY <1>1, <1>2, <1>3, <2>1, <2>2 DEF BusyInv, RemovalHoldsLock
  <2>4. EmptyRoomsAreBusy'
    BY <1>1, <1>2, <2>1 DEF BusyInv, EmptyRoomsAreBusy
  <2>5. QED BY <2>3, <2>4 DEF BusyInv
<1>5. CASE members[call[t].room] # {}
  <2>1. AfterSize(t) = Idle
    BY <1>5 DEF AfterSize
  <2>2. RemovalHoldsLock'
    BY <1>1, <1>2, <1>3, <2>1 DEF BusyInv, RemovalHoldsLock, Idle
  <2>3. EmptyRoomsAreBusy'
    BY <1>1, <1>2, <1>5, <2>1 DEF BusyInv, EmptyRoomsAreBusy
  <2>4. QED BY <2>2, <2>3 DEF BusyInv
<1>6. QED BY <1>4, <1>5

LEMMA EraseRoomKeepsBusy ==
    ASSUME ServerInv, BusyInv, NEW t \in Thread, EraseRoom(t)
    PROVE  BusyInv'
<1>1. /\ call[t].at = "erase" /\ Step(t, Idle)
      /\ rooms' = [rooms EXCEPT ![call[t].roomId] = 0]
      /\ members' = [members EXCEPT ![call[t].room] = {}]
      /\ call[t].roomId \in RoomId
  BY DEF EraseRoom, ServerInv, TypeOK, Idle
<1>2. call'[t] = Idle /\ \A u \in Thread \ {t} : call'[u] = call[u]
  BY <1>1 DEF Step, ServerInv, TypeOK
<1>3. mu = t /\ rooms[call[t].roomId] = call[t].room
  BY <1>1 DEF BusyInv, RemovalHoldsLock
<1>4. RemovalHoldsLock'
  BY <1>2, <1>3 DEF BusyInv, RemovalHoldsLock, Idle
<1>5. ASSUME NEW r \in RoomId, rooms'[r] # 0, members'[rooms'[r]] = {}
      PROVE  \E u \in Thread : /\ call'[u].at \in {"add", "size", "erase"}
                               /\ call'[u].room = rooms'[r]
  <2>1. r # call[t].roomId /\ rooms'[r] = rooms[r] /\ rooms[r] # 0
    BY <1>1, <1>5 DEF ServerInv, TypeOK
  <2>2. rooms[r] # call[t].room
    BY <1>1, <1>3, <2>1 DEF ServerInv, RegistrySound
  <2>3. members[rooms[r]] = {} /\ ~Tends(t, rooms[r])
    BY <1>1, <1>5, <2>1, <2>2 DEF ServerInv, TypeOK, Tends
  <2>4. QED BY <1>1, <2>1, <2>3, OthersTend
<1>6. QED BY <1>4, <1>5 DEF BusyInv, EmptyRoomsAreBusy

LEMMA UntendedKeepsBusy ==
    ASSUME ServerInv, BusyInv, NEW t \in Thread, NEW new, Step(t, new),
           UNCHANGED <<rooms, members, mu>>, new.at \notin {"add", "size", "erase"},
           call[t] = Idle \/ call[t].at \in {"forward", "onRemb"}
    PROVE  BusyInv'
<1>1. call'[t] = new /\ \A u \in Thread \ {t} : call'[u] = call[u]
  BY DEF Step, ServerInv, TypeOK
<1>2. RemovalHoldsLock'
  BY <1>1 DEF BusyInv, RemovalHoldsLock
<1>3. EmptyRoomsAreBusy'
  BY IdleTendsNone, OthersTend DEF EmptyRoomsAreBusy
<1>4. QED BY <1>2, <1>3 DEF BusyInv

LEMMA UseKeepsBusy ==
    ASSUME ServerInv, BusyInv, NEW t \in Thread,
           \/ \E id \in ParticipantId, r \in RoomId, use \in {"forward", "onRemb"} :
                 BeginUse(t, use, id, r)
           \/ DoUse(t)
    PROVE  BusyInv'
<1>1. CASE DoUse(t)
  <2>1. Step(t, Idle) /\ Idle.at \notin {"add", "size", "erase"}
    BY <1>1 DEF DoUse, Idle
  <2>2. QED BY <1>1, <2>1, UntendedKeepsBusy DEF DoUse
<1>2. ASSUME NEW id \in ParticipantId, NEW r \in RoomId,
             NEW use \in {"forward", "onRemb"}, BeginUse(t, use, id, r)
      PROVE  BusyInv'
  <2>1. /\ Step(t, At(use, id, r, rooms[r]))
        /\ At(use, id, r, rooms[r]).at \notin {"add", "size", "erase"}
    BY <1>2 DEF BeginUse, At
  <2>2. QED BY <1>2, <2>1, UntendedKeepsBusy DEF BeginUse, IdleThread
<1>3. QED BY <1>1, <1>2

LEMMA InitBusy == Init => BusyInv
BY DEF Init, BusyInv, RemovalHoldsLock, EmptyRoomsAreBusy, Idle

LEMMA NextBusy == ServerInv /\ BusyInv /\ [Next]_server => BusyInv'
<1> SUFFICES ASSUME ServerInv, BusyInv, [Next]_server PROVE BusyInv'
  OBVIOUS
<1>1. CASE UNCHANGED server
  BY <1>1 DEF server, BusyInv, RemovalHoldsLock, EmptyRoomsAreBusy
<1>2. ASSUME NEW t \in Thread, ThreadStep(t) PROVE BusyInv'
  BY <1>2, BeginAddKeepsBusy, DoAddKeepsBusy, BeginRemoveKeepsBusy,
     ReadSizeKeepsBusy, EraseRoomKeepsBusy, UseKeepsBusy
     DEF ThreadStep
<1>3. QED BY <1>1, <1>2 DEF Next

\* An empty Room that an id still leads to is one some thread is about to add to
\* or is reclaiming, whatever calls any threads make: none is forgotten
\* (SFUServer.h:7).
THEOREM EmptyRoomsStayBusy == Spec => []EmptyRoomsAreBusy
<1>1. BusyInv => EmptyRoomsAreBusy
  BY DEF BusyInv
<1>2. QED BY <1>1, InitBusy, NextBusy, ServerInvariance, PTL DEF Spec

-----------------------------------------------------------------------------
(* The process, whose two threads make the calls. *)

USE SfuMainAssumption DEF SfuMainAssumption

\* What the parts of a client's state say of each other: a client is alive
\* from its join to the start of its close handler.
ClientsAgree ==
    \A c \in Client :
        /\ alive[c] => /\ socket[c] = "open" /\ transport[c] = "up"
                       /\ room[c] # NoRoom
        /\ transport[c] = "up" => room[c] # NoRoom /\ socket[c] # "closed"
        /\ socket[c] = "open" /\ room[c] # NoRoom => alive[c]
        /\ socket[c] = "new" => room[c] = NoRoom

\* Whoever is in a Room is alive, and in the Room of the room it joined.
MembersAlive ==
    \A o \in Object : \A c \in members[o] : alive[c] /\ rooms[room[c]] = o

\* The division of labour that makes the registry safe: only the loop adds and
\* removes, so what it has found out of a room stays true until it acts on it.
ThreadsKeepRoles ==
    /\ call[Loop] # Idle =>
          /\ call[Loop].at \in {"add", "size", "erase"}
          /\ rooms[call[Loop].roomId] = call[Loop].room
          /\ call[Loop].at = "add" =>
                alive[call[Loop].id] /\ room[call[Loop].id] = call[Loop].roomId
          /\ call[Loop].at = "erase" => members[call[Loop].room] = {}
    /\ call[Media] # Idle => call[Media].at = "forward"

MainInv ==
    /\ ServerInv
    /\ MainTypeOK
    /\ ClientsAgree
    /\ MembersAlive
    /\ ThreadsKeepRoles

-----------------------------------------------------------------------------
LEMMA InitMainInv == MainInit => MainInv
<1> SUFFICES ASSUME MainInit PROVE MainInv
  OBVIOUS
<1>1. ServerInv
  BY InitServerInv DEF MainInit
<1>2. MainTypeOK
  <2>1. deferred \in Seq({Register(c) : c \in Client} \cup
                         {SendIce(c) : c \in Client})
    BY DEF MainInit
  <2>2. QED BY <1>1, <2>1 DEF MainInit, MainTypeOK, ServerInv
<1>3. ClientsAgree /\ MembersAlive /\ ThreadsKeepRoles
  BY DEF MainInit, Init, ClientsAgree, MembersAlive, ThreadsKeepRoles, Object
<1>4. QED BY <1>1, <1>2, <1>3 DEF MainInv

\* The room of a client that is alive, or whose agent is up, is a room.
LEMMA RoomOfClient ==
    ASSUME MainInv, NEW c \in Client, alive[c] \/ transport[c] = "up"
    PROVE  room[c] \in RoomId
BY DEF MainInv, ClientsAgree, MainTypeOK

\* What is deferred is a registration or a send of a client.
LEMMA HeadOfDeferred ==
    ASSUME MainInv, deferred # <<>>
    PROVE  /\ Head(deferred).client \in Client
           /\ Tail(deferred) \in Seq({Register(c) : c \in Client} \cup
                                     {SendIce(c) : c \in Client})
<1> DEFINE Task == {Register(c) : c \in Client} \cup {SendIce(c) : c \in Client}
<1>1. deferred \in Seq(Task)
  BY DEF MainInv, MainTypeOK
<1>2. \A task \in Task : task.client \in Client
  BY DEF Register, SendIce
<1> HIDE DEF Task
<1>3. Head(deferred) \in Task /\ Tail(deferred) \in Seq(Task)
  BY <1>1
<1>4. QED BY <1>2, <1>3 DEF Task

\* Every step of the process is one of the server, or leaves it alone.
LEMMA MainStepIsServerStep ==
    ASSUME MainInv, [MainNext]_sfuMain
    PROVE  [Next]_server
<1> USE DEF Next, ThreadStep
<1>1. CASE UNCHANGED server
  BY <1>1
<1>2. ASSUME NEW t \in Thread, InServer(t) PROVE [Next]_server
  BY <1>2 DEF InServer
<1>3. CASE RunRegister
  <2>1. Head(deferred).client \in Client
    BY <1>3, HeadOfDeferred DEF RunRegister
  <2>2. Admissible(Head(deferred).client) =>
           room[Head(deferred).client] \in RoomId
    BY <2>1, RoomOfClient DEF Admissible, Reachable
  <2>3. QED BY <1>3, <2>1, <2>2 DEF RunRegister, Client
<1>4. ASSUME NEW c \in Client, Close(c) PROVE [Next]_server
  <2>1. CASE room[c] = NoRoom
    BY <1>4, <2>1 DEF Close
  <2>2. CASE room[c] # NoRoom
    <3>1. room[c] \in RoomId
      BY <2>2 DEF MainInv, MainTypeOK
    <3>2. QED BY <1>4, <2>2, <3>1 DEF Close, Client
  <2>3. QED BY <2>1, <2>2
<1>5. ASSUME NEW c \in Client, Packet(c) PROVE [Next]_server
  <2>1. room[c] \in RoomId
    BY <1>5, RoomOfClient DEF Packet
  <2>2. QED BY <1>5, <2>1 DEF Packet, Client
<1>6. QED
  BY <1>1, <1>2, <1>3, <1>4, <1>5
     DEF MainNext, LoopStep, RunSend, Reset, OpenSocket, Join, IceConnected,
         IceCandidate, sfuMain

-----------------------------------------------------------------------------
(* The type of main.cpp's own state. *)

LEMMA DeferKeepsType ==
    ASSUME MainInv, NEW c \in Client
    PROVE  /\ Append(deferred, Register(c)) \in
                 Seq({Register(d) : d \in Client} \cup {SendIce(d) : d \in Client})
           /\ Append(deferred, SendIce(c)) \in
                 Seq({Register(d) : d \in Client} \cup {SendIce(d) : d \in Client})
<1> DEFINE Task == {Register(d) : d \in Client} \cup {SendIce(d) : d \in Client}
<1>1. deferred \in Seq(Task)
  BY DEF MainInv, MainTypeOK
<1>2. Register(c) \in Task /\ SendIce(c) \in Task
  OBVIOUS
<1> HIDE DEF Task
<1>3. /\ Append(deferred, Register(c)) \in Seq(Task)
      /\ Append(deferred, SendIce(c)) \in Seq(Task)
  BY <1>1, <1>2
<1>4. QED BY <1>3 DEF Task

LEMMA StepKeepsMainType ==
    ASSUME MainInv, [MainNext]_sfuMain
    PROVE  MainTypeOK' /\ ServerInv'
<1>1. ServerInv'
  BY MainStepIsServerStep, NextServerInv DEF MainInv
<1> DEFINE Task == {Register(d) : d \in Client} \cup {SendIce(d) : d \in Client}
<1>2. /\ socket \in [Client -> {"new", "open", "closing", "closed"}]
      /\ room \in [Client -> RoomId \cup {NoRoom}]
      /\ alive \in [Client -> BOOLEAN]
      /\ transport \in [Client -> {"none", "up", "destroyed"}]
      /\ notices \in [Client -> 0 .. MaxNotices]
      /\ joinedSfu \in [Client -> BOOLEAN]
      /\ deferred \in Seq(Task)
  BY DEF MainInv, MainTypeOK
<1> DEFINE Goal ==
      /\ socket' \in [Client -> {"new", "open", "closing", "closed"}]
      /\ room' \in [Client -> RoomId \cup {NoRoom}]
      /\ alive' \in [Client -> BOOLEAN]
      /\ transport' \in [Client -> {"none", "up", "destroyed"}]
      /\ notices' \in [Client -> 0 .. MaxNotices]
      /\ joinedSfu' \in [Client -> BOOLEAN]
      /\ deferred' \in Seq(Task)
<1>3. /\ \A c \in Client : Append(deferred, Register(c)) \in Seq(Task)
      /\ \A c \in Client : Append(deferred, SendIce(c)) \in Seq(Task)
      /\ deferred # <<>> => Tail(deferred) \in Seq(Task)
  BY DeferKeepsType, HeadOfDeferred
<1> HIDE DEF Task
<1>4. ASSUME UNCHANGED <<connection, deferred>> PROVE Goal
  BY <1>2, <1>4 DEF connection
<1>5. ASSUME NEW c \in Client, OpenSocket(c) PROVE Goal
  BY <1>2, <1>5 DEF OpenSocket
<1>6. ASSUME NEW c \in Client, NEW r \in RoomId, Join(c, r) PROVE Goal
  BY <1>2, <1>6 DEF Join
<1>7. ASSUME NEW c \in Client, Close(c) PROVE Goal
  BY <1>2, <1>7 DEF Close
<1>8. ASSUME NEW c \in Client, Reset(c) PROVE Goal
  BY <1>2, <1>8 DEF Reset
<1>9. ASSUME RunRegister PROVE Goal
  BY <1>2, <1>3, <1>9 DEF RunRegister
<1>10. ASSUME RunSend PROVE Goal
  BY <1>2, <1>3, <1>10 DEF RunSend, connection
<1>11. ASSUME NEW c \in Client, IceConnected(c) PROVE Goal
  BY <1>2, <1>3, <1>11 DEF IceConnected
<1>12. ASSUME NEW c \in Client, IceCandidate(c) PROVE Goal
  BY <1>2, <1>3, <1>12 DEF IceCandidate, connection
<1>13. Goal
  BY <1>4, <1>5, <1>6, <1>7, <1>8, <1>9, <1>10, <1>11, <1>12
     DEF MainNext, LoopStep, InServer, Packet, sfuMain
<1>14. QED BY <1>1, <1>13 DEF MainTypeOK, ServerInv, Task

-----------------------------------------------------------------------------
(* Every step keeps clients, Rooms and threads in agreement. *)

Agreement == ClientsAgree /\ MembersAlive /\ ThreadsKeepRoles

\* A client that has not joined is in no Room, nor is one that is closing.
LEMMA OnlyAliveAreMembers ==
    ASSUME MainInv, NEW c \in Client, ~alive[c], NEW o \in Object
    PROVE  c \notin members[o]
BY DEF MainInv, MembersAlive

LEMMA SocketStepsAgree ==
    ASSUME MainInv, NEW c \in Client,
           OpenSocket(c) \/ (\E r \in RoomId : Join(c, r)) \/ Reset(c)
    PROVE  Agreement'
<1>1. /\ \A d \in Client : d # c =>
             /\ socket'[d] = socket[d] /\ room'[d] = room[d]
             /\ alive'[d] = alive[d] /\ transport'[d] = transport[d]
      /\ UNCHANGED server
      /\ ~alive[c]
      /\ call[Loop] = Idle
  <2>1. CASE OpenSocket(c)
    BY <2>1 DEF MainInv, MainTypeOK, ClientsAgree, OpenSocket, LoopReady, IdleThread
  <2>2. ASSUME NEW r \in RoomId, Join(c, r) PROVE <1>1!:
    <3>1. UNCHANGED <<server, socket>> /\ call[Loop] = Idle
      BY <2>2 DEF Join, LoopReady, IdleThread
    <3>2. ~alive[c]
      BY <2>2 DEF MainInv, ClientsAgree, Join
    <3>3. \A d \in Client : d # c =>
             /\ room'[d] = room[d] /\ transport'[d] = transport[d]
             /\ alive'[d] = alive[d]
      BY <2>2 DEF Join, MainInv, MainTypeOK
    <3>4. QED BY <3>1, <3>2, <3>3
  <2>3. CASE Reset(c)
    BY <2>3 DEF MainInv, MainTypeOK, ClientsAgree, Reset, LoopReady, IdleThread
  <2>4. QED BY <2>1, <2>2, <2>3
<1>2. ClientsAgree'
  <2>1. CASE OpenSocket(c)
    BY <1>1, <2>1 DEF MainInv, MainTypeOK, ClientsAgree, OpenSocket
  <2>2. ASSUME NEW r \in RoomId, Join(c, r) PROVE ClientsAgree'
    BY <1>1, <2>2 DEF MainInv, MainTypeOK, ClientsAgree, Join
  <2>3. CASE Reset(c)
    BY <1>1, <2>3 DEF MainInv, MainTypeOK, ClientsAgree, Reset
  <2>4. QED BY <2>1, <2>2, <2>3
<1>3. MembersAlive'
  <2>1. \A o \in Object : c \notin members[o]
    BY <1>1, OnlyAliveAreMembers
  <2>2. members \in [Object -> SUBSET Client]
    BY DEF MainInv, ServerInv, TypeOK, Client
  <2>3. \A o \in Object : \A d \in members[o] :
           d \in Client /\ d # c /\ alive[d] /\ rooms[room[d]] = o
    BY <2>1, <2>2 DEF MainInv, MembersAlive
  <2>4. QED BY <1>1, <2>3 DEF MembersAlive, server
<1>4. ThreadsKeepRoles'
  BY <1>1 DEF MainInv, ThreadsKeepRoles, server
<1>5. QED BY <1>2, <1>3, <1>4 DEF Agreement

\* The steps that change neither a client nor the membership.
LEMMA OtherStepsAgree ==
    ASSUME MainInv,
           \/ UNCHANGED sfuMain
           \/ RunSend
           \/ \E c \in Client : IceConnected(c) \/ IceCandidate(c) \/ Packet(c)
           \/ InServer(Media)
    PROVE  Agreement'
<1>1. /\ UNCHANGED <<socket, room, alive, transport, rooms, members>>
      /\ call'[Loop] = call[Loop]
      /\ call'[Media] # Idle => call'[Media].at = "forward"
  <2>1. call \in [Thread -> {Idle} \cup
                   [at : {"add", "size", "erase", "forward", "onRemb"},
                    id : ParticipantId, roomId : RoomId, room : 1 .. created]]
    BY DEF MainInv, ServerInv, TypeOK
  <2>2. CASE UNCHANGED sfuMain \/ RunSend
    BY <2>2 DEF sfuMain, server, connection, RunSend, MainInv, ThreadsKeepRoles
  <2>3. ASSUME NEW c \in Client, IceConnected(c) \/ IceCandidate(c)
        PROVE  <1>1!:
    BY <2>3 DEF server, connection, IceConnected, IceCandidate, MainInv,
                ThreadsKeepRoles
  <2>4. ASSUME NEW c \in Client, Packet(c) PROVE <1>1!:
    BY <2>1, <2>4 DEF Packet, BeginUse, Step, At, connection
  <2>5. CASE InServer(Media)
    <3>1. call[Media] # Idle => call[Media].at = "forward"
      BY DEF MainInv, ThreadsKeepRoles
    <3>2. DoUse(Media)
      BY <2>5, <3>1
         DEF InServer, DoAdd, ReadSize, EraseRoom, Idle
    <3>3. QED BY <2>1, <2>5, <3>2 DEF InServer, DoUse, Step, connection
  <2>6. QED BY <2>2, <2>3, <2>4, <2>5
<1>2. QED
  BY <1>1 DEF MainInv, Agreement, ClientsAgree, MembersAlive, ThreadsKeepRoles

\* The deferred registration, which may make a Room.
LEMMA RegisterAgrees ==
    ASSUME MainInv, RunRegister
    PROVE  Agreement'
<1> DEFINE c == Head(deferred).client
<1>1. c \in Client
  BY HeadOfDeferred DEF RunRegister
<1>2. CASE ~Admissible(c)
  BY <1>2 DEF RunRegister, server, MainInv, Agreement, ClientsAgree, MembersAlive,
              ThreadsKeepRoles
<1>3. CASE Admissible(c)
  <2>1. /\ BeginAdd(Loop, c, room[c])
        /\ alive[c] /\ room[c] \in RoomId
        /\ UNCHANGED <<socket, room, alive, transport>>
    BY <1>1, <1>3, RoomOfClient DEF RunRegister, Admissible, Reachable
  <2> HIDE DEF c
  <2>2. /\ rooms \in [RoomId -> 0 .. created] /\ created \in Nat
        /\ members \in [Object -> SUBSET Client]
        /\ DOMAIN call = Thread
    BY DEF MainInv, ServerInv, TypeOK, Client
  <2>3. /\ UNCHANGED members
        /\ call' = [call EXCEPT ![Loop] = At("add", c, room[c], rooms'[room[c]])]
        /\ \A r \in RoomId : rooms[r] # 0 => rooms'[r] = rooms[r]
    BY <2>1, <2>2 DEF BeginAdd, Step
  <2>4. ClientsAgree'
    BY <2>1 DEF MainInv, ClientsAgree
  <2>5. MembersAlive'
    <3>1. ASSUME NEW o \in Object, NEW d \in members[o]
          PROVE  alive[d] /\ rooms'[room[d]] = o
      <4>1. d \in Client /\ alive[d] /\ rooms[room[d]] = o
        BY <2>2 DEF MainInv, MembersAlive
      <4>2. room[d] \in RoomId
        BY <4>1, RoomOfClient
      <4>3. QED BY <2>3, <4>1, <4>2 DEF Object
    <3>2. QED BY <2>1, <2>3, <3>1 DEF MembersAlive
  <2>6. ThreadsKeepRoles'
    BY <2>1, <2>2, <2>3 DEF At, MainInv, ThreadsKeepRoles
  <2>7. QED BY <2>4, <2>5, <2>6 DEF Agreement
<1>4. QED BY <1>2, <1>3

\* The close handler takes the client out of its Room as it ceases to be alive.
LEMMA CloseAgrees ==
    ASSUME MainInv, NEW c \in Client, Close(c)
    PROVE  Agreement'
<1>1. /\ \A d \in Client : d # c => socket'[d] = socket[d]
      /\ \A d \in Client : d # c => alive'[d] = alive[d]
      /\ UNCHANGED <<room, transport, rooms>>
      /\ socket[c] = "open" /\ call[Loop] = Idle
      /\ members \in [Object -> SUBSET Client]
      /\ DOMAIN call = Thread
  <2>1. \A d \in Client : d # c => alive'[d] = alive[d]
    BY DEF Close, MainInv, MainTypeOK
  <2>2. QED
    BY <2>1 DEF Close, BeginRemove, LoopReady, IdleThread, server, MainInv,
                MainTypeOK, ServerInv, TypeOK, Client
<1>2. CASE room[c] = NoRoom
  <2>1. UNCHANGED <<server, alive>> /\ socket'[c] = "closed" /\ ~alive[c]
    BY <1>2 DEF Close, MainInv, MainTypeOK, ClientsAgree
  <2>2. ClientsAgree'
    BY <1>1, <1>2, <2>1 DEF MainInv, ClientsAgree
  <2>3. QED
    BY <1>1, <2>1, <2>2
       DEF MainInv, Agreement, MembersAlive, ThreadsKeepRoles, server
<1>3. CASE room[c] # NoRoom
  <2>1. /\ BeginRemove(Loop, c, room[c])
        /\ socket'[c] = "closing" /\ ~alive'[c]
        /\ room[c] \in RoomId
    BY <1>3 DEF Close, MainInv, MainTypeOK
  <2>2. ClientsAgree'
    BY <1>1, <1>3, <2>1 DEF MainInv, ClientsAgree
  <2>3. \A o \in Object : members'[o] = members[o] \ {c}
    <3>1. \A o \in Object : c \in members[o] => rooms[room[c]] = o
      BY DEF MainInv, MembersAlive
    <3>2. CASE rooms[room[c]] = 0
      BY <1>1, <2>1, <3>1, <3>2 DEF BeginRemove, Object
    <3>3. CASE rooms[room[c]] # 0
      BY <1>1, <2>1, <3>1, <3>3 DEF BeginRemove
    <3>4. QED BY <3>2, <3>3
  <2>4. MembersAlive'
    BY <1>1, <2>3 DEF MainInv, MembersAlive
  <2>5. ThreadsKeepRoles'
    <3>1. \/ call' = call
          \/ call' = [call EXCEPT ![Loop] = At("size", c, room[c], rooms[room[c]])]
      BY <2>1 DEF BeginRemove, Step
    <3>2. call'[Media] = call[Media]
      BY <1>1, <3>1
    <3>3. \/ call'[Loop] = Idle
          \/ call'[Loop] = At("size", c, room[c], rooms[room[c]])
      BY <1>1, <3>1
    <3>4. QED BY <1>1, <3>2, <3>3 DEF At, MainInv, ThreadsKeepRoles
  <2>6. QED BY <2>2, <2>4, <2>5 DEF Agreement
<1>4. QED BY <1>2, <1>3

\* What the loop thread does inside the server.
LEMMA LoopInServerAgrees ==
    ASSUME MainInv, InServer(Loop)
    PROVE  Agreement'
<1> DEFINE k == call[Loop]
<1>1. /\ UNCHANGED <<socket, room, alive, transport>>
      /\ rooms \in [RoomId -> 0 .. created]
      /\ members \in [Object -> SUBSET Client]
      /\ call \in [Thread -> {Idle} \cup
                   [at : {"add", "size", "erase", "forward", "onRemb"},
                    id : ParticipantId, roomId : RoomId, room : 1 .. created]]
  BY DEF InServer, connection, MainInv, ServerInv, TypeOK, Client
<1>2. ClientsAgree'
  BY <1>1 DEF MainInv, ClientsAgree
<1>3. k # Idle
  BY DEF InServer, DoAdd, ReadSize, EraseRoom, DoUse, Idle
<1>4. /\ k.at \in {"add", "size", "erase"} /\ rooms[k.roomId] = k.room
      /\ k.at = "add" => alive[k.id] /\ room[k.id] = k.roomId
      /\ k.at = "erase" => members[k.room] = {}
      /\ k.id \in Client /\ k.roomId \in RoomId /\ k.room \in 1 .. created
  BY <1>1, <1>3 DEF MainInv, ThreadsKeepRoles, Client
<1>5. call[Media] # Idle => call[Media].at = "forward"
  BY DEF MainInv, ThreadsKeepRoles
<1>6. \A o \in Object : \A d \in members[o] :
         d \in Client /\ alive[d] /\ room[d] \in RoomId /\ rooms[room[d]] = o
  BY <1>1, RoomOfClient DEF MainInv, MembersAlive
<1>7. CASE DoAdd(Loop)
  <2>1. /\ call' = [call EXCEPT ![Loop] = Idle] /\ k.at = "add"
        /\ UNCHANGED rooms
        /\ \/ members' = members
           \/ members' = [members EXCEPT ![k.room] = @ \cup {k.id}]
    BY <1>7 DEF DoAdd, Step
  <2>2. MembersAlive'
    BY <1>1, <1>4, <1>6, <2>1 DEF MembersAlive
  <2>3. ThreadsKeepRoles'
    BY <1>1, <1>5, <2>1 DEF ThreadsKeepRoles
  <2>4. QED BY <1>2, <2>2, <2>3 DEF Agreement
<1>8. CASE ReadSize(Loop)
  <2>1. /\ call' = [call EXCEPT ![Loop] = AfterSize(Loop)]
        /\ UNCHANGED <<rooms, members>>
    BY <1>8 DEF ReadSize, Step
  <2>2. \/ AfterSize(Loop) = Idle
        \/ /\ AfterSize(Loop) = [k EXCEPT !.at = "erase"]
           /\ members[k.room] = {}
    BY DEF AfterSize
  <2>3. ThreadsKeepRoles'
    <3>1. call'[Media] = call[Media] /\ call'[Loop] = AfterSize(Loop)
      BY <1>1, <2>1
    <3>2. CASE AfterSize(Loop) = Idle
      BY <1>5, <3>1, <3>2 DEF ThreadsKeepRoles
    <3>3. CASE AfterSize(Loop) = [k EXCEPT !.at = "erase"] /\ members[k.room] = {}
      <4>1. /\ AfterSize(Loop).at = "erase"
            /\ AfterSize(Loop).roomId = k.roomId
            /\ AfterSize(Loop).room = k.room
        BY <1>1, <1>3, <3>3
      <4>2. QED BY <1>4, <1>5, <2>1, <3>1, <3>3, <4>1 DEF ThreadsKeepRoles
    <3>4. QED BY <2>2, <3>2, <3>3
  <2>4. MembersAlive'
    BY <1>1, <2>1 DEF MainInv, MembersAlive
  <2>5. QED BY <1>2, <2>3, <2>4 DEF Agreement
<1>9. CASE EraseRoom(Loop)
  <2>1. /\ call' = [call EXCEPT ![Loop] = Idle] /\ k.at = "erase"
        /\ rooms' = [rooms EXCEPT ![k.roomId] = 0]
        /\ members' = [members EXCEPT ![k.room] = {}]
    BY <1>9 DEF EraseRoom, Step
  <2>2. ThreadsKeepRoles'
    BY <1>1, <1>5, <2>1 DEF ThreadsKeepRoles
  <2>3. UNCHANGED members
    BY <1>1, <1>4, <2>1
  <2>4. \A o \in Object : \A d \in members[o] : room[d] # k.roomId
    BY <1>4, <1>6, <2>1
  <2>5. MembersAlive'
    BY <1>1, <1>6, <2>1, <2>3, <2>4 DEF MembersAlive
  <2>6. QED BY <1>2, <2>2, <2>5 DEF Agreement
<1>10. QED
  BY <1>4, <1>7, <1>8, <1>9 DEF InServer, DoUse

LEMMA NextMainInv == MainInv /\ [MainNext]_sfuMain => MainInv'
<1> SUFFICES ASSUME MainInv, [MainNext]_sfuMain PROVE MainInv'
  OBVIOUS
<1>1. Agreement'
  BY SocketStepsAgree, OtherStepsAgree, RegisterAgrees, CloseAgrees,
     LoopInServerAgrees
     DEF MainNext, LoopStep
<1>2. QED BY <1>1, StepKeepsMainType DEF MainInv, Agreement

LEMMA MainInvariance == MainSpec => []MainInv
BY InitMainInv, NextMainInv, PTL DEF MainSpec

\* Nor does it lose an empty Room.
LEMMA MainBusyInvariance == MainSpec => []BusyInv
<1>1. MainInit => BusyInv
  BY InitBusy DEF MainInit
<1>2. MainInv /\ BusyInv /\ [MainNext]_sfuMain => BusyInv'
  BY NextBusy, MainStepIsServerStep DEF MainInv
<1>3. QED BY <1>1, <1>2, MainInvariance, PTL DEF MainSpec

\* The process and the server it drives are well typed, no Room is ever over the
\* cap or reached by two ids, and none that is empty is forgotten.
THEOREM ServerIsSound == MainSpec => []ServerSound
<1>1. MainInv /\ BusyInv => ServerSound
  BY DEF MainInv, ServerInv, BusyInv, ServerSound
<1>2. QED BY <1>1, MainInvariance, MainBusyInvariance, PTL

\* No Room holds the raw pointer of a transport that is not up, nor a client that
\* is anywhere but in the room it joined.
LEMMA NoGhostsEver == MainInv => NoGhosts
<1>1. MainInv => members \in [Object -> SUBSET Client]
  BY DEF MainInv, ServerInv, TypeOK, Client
<1>2. QED BY <1>1 DEF MainInv, NoGhosts, ClientsAgree, MembersAlive

\* A registration that has begun is of a client whose close handler has not,
\* and the transport of a closed connection is gone.
LEMMA GoneIsGone == MainInv => GoneForGood
BY DEF MainInv, GoneForGood, ClientsAgree, ThreadsKeepRoles, Idle

\* A deferred candidate is not sent on a closed socket.
LEMMA SendsAreSafe == MainInv => SendsOnOpenSocket
<1> SUFFICES ASSUME MainInv, deferred # <<>>, NEW c \in SendsTo(Head(deferred))
             PROVE  socket[c] = "open"
  BY DEF SendsOnOpenSocket
<1>1. c \in Client
  BY HeadOfDeferred DEF SendsTo
<1>2. alive[c]
  BY DEF SendsTo, Reachable
<1>3. QED BY <1>1, <1>2 DEF MainInv, ClientsAgree

\* A client whose socket is closed is in no Room and on its way into none, and
\* nothing is sent to it, whatever the threads did when and whoever else there is.
THEOREM ClosedIsGoneEver == MainSpec => []ClosedIsGone
<1>1. MainInv => ClosedIsGone
  BY NoGhostsEver, GoneIsGone, SendsAreSafe DEF ClosedIsGone
<1>2. QED BY <1>1, MainInvariance, PTL

-----------------------------------------------------------------------------
(* Erased Rooms are empty. *)

LEMMA ErasureIsOfEmpty ==
    MainInv /\ [MainNext]_sfuMain
        => [\A o \in Live \ Live' : members[o] = {}]_server
<1> SUFFICES ASSUME MainInv, [MainNext]_sfuMain, ~UNCHANGED server,
                    NEW o \in Live \ Live'
             PROVE  members[o] = {}
  OBVIOUS
<1>1. PICK r \in RoomId : rooms[r] = o /\ o # 0 /\ rooms'[r] # o
  BY DEF Live
<1>2. PICK t \in Thread : EraseRoom(t)
  <2>1. Next
    BY MainStepIsServerStep
  <2>2. rooms \in [RoomId -> 0 .. created]
    BY DEF MainInv, ServerInv, TypeOK
  <2>3. QED
    BY <1>1, <2>1, <2>2
       DEF Next, ThreadStep, BeginAdd, DoAdd, BeginRemove, ReadSize, BeginUse,
           DoUse
<1>3. t = Loop /\ members[call[Loop].room] = {} /\ rooms[call[Loop].roomId] = call[Loop].room
  BY <1>2 DEF EraseRoom, MainInv, ThreadsKeepRoles, Idle
<1>4. r = call[Loop].roomId
  BY <1>1, <1>2, <1>3 DEF EraseRoom, MainInv, ServerInv, TypeOK
<1>5. QED BY <1>1, <1>3, <1>4

\* removeParticipant, which the library alone does not protect from an add on
\* another thread, here never destroys a Room that holds a participant.
THEOREM OnlyEmptyRoomsGo == MainSpec => OnlyEmptyRoomsErased
<1>1. MainSpec => [][\A o \in Live \ Live' : members[o] = {}]_server
  BY ErasureIsOfEmpty, MainInvariance, PTL DEF MainSpec
<1>2. QED BY <1>1 DEF OnlyEmptyRoomsErased

-----------------------------------------------------------------------------
(* The process implements Conference. *)

Holdings == [c \in Client |-> RoomHolding(c)]

\* Where a client is held is the room it joined, if it is a member at all.
HoldingsFollow ==
    \A c \in Client :
        /\ \A o \in Object : c \in members[o] =>
              RoomHolding(c) = room[c] /\ room[c] \in RoomId /\ rooms[room[c]] = o
        /\ (\A o \in Object : c \notin members[o]) => RoomHolding(c) = NoRoom

LEMMA HoldingIsMembership == MainInv => HoldingsFollow
<1> SUFFICES ASSUME MainInv, NEW c \in Client
             PROVE  HoldingsFollow!(c)
  BY DEF HoldingsFollow
<1>1. \A r \in RoomId : rooms[r] # 0 => rooms[r] \in Object
  <2>1. rooms \in [RoomId -> 0 .. created] /\ created \in 0 .. MaxRooms
    BY DEF MainInv, ServerInv, TypeOK
  <2>2. \A n \in 0 .. created : n # 0 => n \in 1 .. MaxRooms
    BY <2>1, SFUServerAssumption DEF SFUServerAssumption
  <2>3. \A r \in RoomId : rooms[r] \in 0 .. created
    BY <2>1
  <2>4. QED BY <2>2, <2>3 DEF Object
<1>2. ASSUME NEW o \in Object, c \in members[o]
      PROVE  RoomHolding(c) = room[c] /\ room[c] \in RoomId /\ rooms[room[c]] = o
  <2>1. room[c] \in RoomId /\ rooms[room[c]] = o /\ o # 0
    BY <1>2, RoomOfClient DEF MainInv, MembersAlive, Object
  <2>2. \A r \in RoomId : rooms[r] # 0 /\ c \in members[rooms[r]] => r = room[c]
    BY <1>1, <2>1 DEF MainInv, MembersAlive, ServerInv, RegistrySound
  <2>3. QED BY <1>2, <2>1, <2>2 DEF RoomHolding
<1>3. ASSUME \A o \in Object : c \notin members[o] PROVE RoomHolding(c) = NoRoom
  BY <1>1, <1>3 DEF RoomHolding
<1>4. QED BY <1>2, <1>3

\* Nobody moves as long as no Room changes and no member changes its room.
LEMMA HoldingsStay ==
    ASSUME MainInv, MainInv',
           \A o \in Object : members'[o] = members[o],
           \A o \in Object : \A c \in members[o] : room'[c] = room[c]
    PROVE  UNCHANGED Holdings
<1>1. HoldingsFollow
  BY HoldingIsMembership
<1>2. HoldingsFollow'
  BY HoldingIsMembership, PTL
<1>3. ASSUME NEW c \in Client PROVE RoomHolding(c)' = RoomHolding(c)
  <2>1. CASE \E o \in Object : c \in members[o]
    <3>1. PICK o \in Object : c \in members[o] /\ c \in members'[o]
      BY <2>1
    <3>2. RoomHolding(c) = room[c]
      BY <1>1, <3>1 DEF HoldingsFollow
    <3>3. RoomHolding(c)' = room'[c]
      BY <1>2, <3>1 DEF HoldingsFollow
    <3>4. QED BY <3>1, <3>2, <3>3
  <2>2. CASE \A o \in Object : c \notin members[o]
    <3>1. RoomHolding(c) = NoRoom
      BY <1>1, <2>2 DEF HoldingsFollow
    <3>2. RoomHolding(c)' = NoRoom
      BY <1>2, <2>2 DEF HoldingsFollow
    <3>3. QED BY <3>1, <3>2
  <2>3. QED BY <2>1, <2>2
<1>4. QED BY <1>3 DEF Holdings

\* Those who are held in the room whose Room is o are its members.
LEMMA OccupantsAreMembers ==
    ASSUME MainInv, NEW r \in RoomId, rooms[r] # 0
    PROVE  {m \in Client : RoomHolding(m) = r} = members[rooms[r]]
<1>1. rooms[r] \in Object /\ members \in [Object -> SUBSET Client]
  BY SFUServerAssumption
     DEF SFUServerAssumption, MainInv, ServerInv, TypeOK, Object, Client
<1>2. HoldingsFollow
  BY HoldingIsMembership
<1>3. ASSUME NEW m \in Client, RoomHolding(m) = r PROVE m \in members[rooms[r]]
  <2>1. PICK o \in Object : m \in members[o]
    BY <1>2, <1>3 DEF HoldingsFollow
  <2>2. QED BY <1>2, <1>3, <2>1 DEF HoldingsFollow
<1>4. ASSUME NEW m \in members[rooms[r]] PROVE m \in Client /\ RoomHolding(m) = r
  <2>1. m \in Client
    BY <1>1
  <2>2. RoomHolding(m) = room[m] /\ room[m] \in RoomId /\ rooms[room[m]] = rooms[r]
    BY <1>1, <1>2, <1>4, <2>1 DEF HoldingsFollow
  <2>3. QED BY <2>1, <2>2 DEF MainInv, ServerInv, RegistrySound
<1>5. QED BY <1>3, <1>4

\* The steps that move a client are the end of an add and the start of a close.
LEMMA AddEnters ==
    ASSUME MainInv, MainInv', InServer(Loop), DoAdd(Loop)
    PROVE  Abstract!Next \/ UNCHANGED Holdings
<1>1. PICK id \in Client, r \in RoomId, o \in Object :
        /\ id = call[Loop].id /\ o = call[Loop].room
        /\ alive[id] /\ room[id] = r /\ rooms[r] = o /\ o # 0
        /\ members \in [Object -> SUBSET Client]
  BY SFUServerAssumption
     DEF SFUServerAssumption, DoAdd, MainInv, ThreadsKeepRoles, ServerInv, TypeOK,
         Object, Client, Idle
<1>2. UNCHANGED <<room, rooms>>
  BY DEF InServer, DoAdd, connection
<1>3. CASE members' = members
  BY <1>2, <1>3, HoldingsStay
<1>4. CASE members' # members
  <2>1. Admitted(o, id) /\ members' = [members EXCEPT ![o] = @ \cup {id}]
    BY <1>1, <1>4 DEF DoAdd
  <2>2. HoldingsFollow /\ HoldingsFollow'
    BY HoldingIsMembership, PTL
  <2>3. RoomHolding(id)' = r
    BY <1>1, <1>2, <2>1, <2>2 DEF HoldingsFollow
  <2>4. ASSUME NEW c \in Client, c # id PROVE RoomHolding(c)' = RoomHolding(c)
    <3>1. \A p \in Object : c \in members'[p] <=> c \in members[p]
      BY <1>1, <2>1, <2>4
    <3>2. CASE \E p \in Object : c \in members[p]
      BY <1>2, <2>2, <3>1, <3>2 DEF HoldingsFollow
    <3>3. CASE \A p \in Object : c \notin members[p]
      BY <2>2, <3>1, <3>3 DEF HoldingsFollow
    <3>4. QED BY <3>2, <3>3
  <2>5. Holdings' = [Holdings EXCEPT ![id] = r]
    <3>1. Holdings' = [c \in Client |-> RoomHolding(c)']
      BY DEF Holdings
    <3>2. \A c \in Client :
             RoomHolding(c)' = IF c = id THEN r ELSE RoomHolding(c)
      BY <2>3, <2>4
    <3>3. QED BY <1>1, <3>1, <3>2 DEF Holdings
  <2>6. {m \in Client : Holdings[m] = r} = members[o]
    BY <1>1, OccupantsAreMembers DEF Holdings
  <2>7. Cardinality({m \in Client : Holdings[m] = r} \ {id}) < kMaxParticipants
    <3>1. members[o] \ {id} = members[o]
      BY <2>1 DEF Admitted
    <3>2. QED BY <2>1, <2>6, <3>1 DEF Admitted
  <2>8. Abstract!Enter(id, r)
    BY <2>5, <2>7 DEF Abstract!Enter, Abstract!Occupants, Abstract!Cardinality,
                      Cardinality, Holdings
  <2>9. QED BY <1>1, <2>8 DEF Abstract!Next
<1>5. QED BY <1>3, <1>4

LEMMA CloseExits ==
    ASSUME MainInv, MainInv', NEW c \in Client, Close(c)
    PROVE  Abstract!Next \/ UNCHANGED Holdings
<1>1. HoldingsFollow /\ HoldingsFollow'
  BY HoldingIsMembership, PTL
<1>2. /\ UNCHANGED <<room, rooms>>
      /\ members \in [Object -> SUBSET Client]
      /\ room[c] \in RoomId \cup {NoRoom}
  BY DEF Close, BeginRemove, server, MainInv, MainTypeOK, ServerInv, TypeOK, Client
<1>3. CASE members' = members
  BY <1>2, <1>3, HoldingsStay
<1>4. CASE members' # members
  <2>1. members' = [members EXCEPT ![rooms[room[c]]] = @ \ {c}]
    BY <1>4 DEF Close, BeginRemove, server
  <2>2. ~alive'[c]
    BY <1>4 DEF Close, server, MainInv, MainTypeOK
  <2>3. \A o \in Object : c \notin members'[o]
    BY <2>2 DEF MainInv, MembersAlive
  <2>4. RoomHolding(c)' = NoRoom
    BY <1>1, <2>3 DEF HoldingsFollow
  <2>5. ASSUME NEW d \in Client, d # c PROVE RoomHolding(d)' = RoomHolding(d)
    <3>1. \A p \in Object : d \in members'[p] <=> d \in members[p]
      BY <1>2, <2>1, <2>5
    <3>2. CASE \E p \in Object : d \in members[p]
      BY <1>1, <1>2, <3>1, <3>2 DEF HoldingsFollow
    <3>3. CASE \A p \in Object : d \notin members[p]
      BY <1>1, <3>1, <3>3 DEF HoldingsFollow
    <3>4. QED BY <3>2, <3>3
  <2>6. Holdings' = [Holdings EXCEPT ![c] = NoRoom]
    BY <2>4, <2>5 DEF Holdings
  <2>7. QED BY <2>6 DEF Abstract!Next, Abstract!Exit, Holdings
<1>5. QED BY <1>3, <1>4

LEMMA MainInitRefines == MainInit => Abstract!Init
<1> SUFFICES ASSUME MainInit PROVE Abstract!Init
  OBVIOUS
<1>1. \A c \in Client : RoomHolding(c) = NoRoom
  BY DEF MainInit, Init, RoomHolding
<1>2. QED BY <1>1 DEF Abstract!Init

LEMMA MainStepRefines ==
    MainInv /\ MainInv' /\ [MainNext]_sfuMain
        => [Abstract!Next]_([c \in Client |-> RoomHolding(c)])
<1> SUFFICES ASSUME MainInv, MainInv', [MainNext]_sfuMain
             PROVE  Abstract!Next \/ UNCHANGED Holdings
  BY DEF Holdings
<1>1. CASE InServer(Loop) /\ DoAdd(Loop)
  BY <1>1, AddEnters
<1>2. ASSUME NEW c \in Client, Close(c) PROVE Abstract!Next \/ UNCHANGED Holdings
  BY <1>2, CloseExits
<1>3. ASSUME UNCHANGED members, UNCHANGED room
      PROVE  UNCHANGED Holdings
  BY <1>3, HoldingsStay
<1>4. ASSUME NEW c \in Client, NEW r \in RoomId, Join(c, r)
      PROVE  UNCHANGED Holdings
  <2>1. members \in [Object -> SUBSET Client] /\ UNCHANGED members /\ ~alive[c]
    BY <1>4 DEF Join, server, MainInv, ServerInv, TypeOK, Client, ClientsAgree
  <2>2. \A o \in Object : \A d \in members[o] : d \in Client /\ d # c
    BY <2>1, OnlyAliveAreMembers
  <2>3. \A d \in Client : d # c => room'[d] = room[d]
    BY <1>4 DEF Join, MainInv, MainTypeOK
  <2>4. QED BY <2>1, <2>2, <2>3, HoldingsStay
<1>5. CASE InServer(Loop) /\ EraseRoom(Loop)
  <2>1. members[call[Loop].room] = {} /\ members \in [Object -> SUBSET Client]
    BY <1>5 DEF EraseRoom, MainInv, ThreadsKeepRoles, ServerInv, TypeOK, Client,
                Idle
  <2>2. UNCHANGED <<members, room>>
    BY <1>5, <2>1 DEF EraseRoom, InServer, connection
  <2>3. QED BY <1>3, <2>2
<1>6. CASE InServer(Media)
  <2>1. DoUse(Media)
    BY <1>6 DEF InServer, DoAdd, ReadSize, EraseRoom, MainInv, ThreadsKeepRoles,
                Idle
  <2>2. UNCHANGED <<members, room>>
    BY <1>6, <2>1 DEF DoUse, InServer, connection
  <2>3. QED BY <1>3, <2>2
<1>7. CASE RunRegister
  BY <1>3, <1>7 DEF RunRegister, BeginAdd, server
<1>8. QED
  BY <1>1, <1>2, <1>3, <1>4, <1>5, <1>6, <1>7
     DEF MainNext, LoopStep, InServer, RunSend, Reset, OpenSocket, IceConnected,
         IceCandidate, Packet, ReadSize, DoUse, BeginUse, sfuMain, server,
         connection

\* Membership of the SFU process is that of a conference: a client is in one
\* room at most, none is overfilled, and members come and go one at a time.
THEOREM MainRefinement == MainSpec => ImplementsConference
BY MainInitRefines, MainStepRefines, MainInvariance, PTL
   DEF ImplementsConference, Abstract!Spec, MainSpec
=============================================================================
