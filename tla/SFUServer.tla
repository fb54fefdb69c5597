------------------------------ MODULE SFUServer ------------------------------
(***************************************************************************)
(* The room registry of the SFU, SFUServer.cpp, with the membership of its *)
(* Rooms, driven by any number of threads.                                 *)
(*                                                                         *)
(* A step ends where the code lets another thread in.  The registry is     *)
(* guarded by SFUServer::mu_ and each Room by its own mutex, but a Room*   *)
(* leaves the registry's critical section: addParticipant, routePacket and *)
(* onRemb look the room up, unlock, and only then use it.  Rooms are       *)
(* therefore objects with an identity, and a use of one that has been      *)
(* erased meanwhile is undefined: `undefined' says that a step has done    *)
(* so, and nothing is known of the program from there on.                  *)
(*                                                                         *)
(* Bitrates and keyframes, which never decide who is in a room, are the    *)
(* subject of module Room.                                                 *)
(***************************************************************************)
EXTENDS Naturals, FiniteSets

CONSTANTS
    Thread,             \* the threads that drive the server
    ParticipantId,
    RoomId,
    Nobody,             \* no thread: mu_ is free
    kMaxParticipants,   \* Room.h:41
    MaxRooms            \* bound: Room objects created in a behaviour

ASSUME SFUServerAssumption ==
    /\ Nobody \notin Thread
    /\ kMaxParticipants \in Nat \ {0}
    /\ MaxRooms \in Nat

VARIABLES
    rooms,      \* rooms_: the object a room id maps to, 0 for an absent key
    members,    \* members[o]: the keys of o.participants_
    created,    \* the objects 1 .. created have been allocated
    mu,         \* the thread that holds SFUServer::mu_ between its steps
    call,       \* call[t]: where t is in its call, with its local variables
    undefined   \* a destroyed Room has been used

server == <<rooms, members, created, mu, call, undefined>>

-----------------------------------------------------------------------------
Object == 1 .. MaxRooms
Live == {rooms[r] : r \in RoomId} \ {0}

Idle == [at |-> "idle"]
At(place, id, roomId, room) ==
    [at |-> place, id |-> id, roomId |-> roomId, room |-> room]

IdleThread(t) == call[t] = Idle
Step(t, next) == call' = [call EXCEPT ![t] = next]

\* mu_ can be locked.
CanLock == mu = Nobody

-----------------------------------------------------------------------------
(* SFUServer::addParticipant: the room is found or made under mu_ ...      *)

BeginAdd(t, id, roomId) ==
    /\ ~undefined /\ IdleThread(t) /\ CanLock
    /\ IF rooms[roomId] # 0
       THEN /\ Step(t, At("add", id, roomId, rooms[roomId]))
            /\ UNCHANGED <<rooms, created>>
       ELSE /\ created < MaxRooms
            /\ created' = created + 1
            /\ rooms' = [rooms EXCEPT ![roomId] = created + 1]
            /\ Step(t, At("add", id, roomId, created + 1))
    /\ UNCHANGED <<members, mu, undefined>>

\* ... and Room::add runs after it is released.
Admitted_late(o, id) ==                      \* slip: the cap is off by one
    /\ id \notin members[o]
    /\ Cardinality(members[o]) <= kMaxParticipants

Admitted(o, id) ==
    /\ id \notin members[o]
    /\ Cardinality(members[o]) < kMaxParticipants

DoAdd(t) ==
    /\ ~undefined /\ call[t].at = "add"
    /\ LET o == call[t].room
       IN  IF o \in Live
           THEN /\ members' = IF Admitted(o, call[t].id)
                              THEN [members EXCEPT ![o] = @ \cup {call[t].id}]
                              ELSE members
                /\ UNCHANGED undefined
           ELSE undefined' = TRUE /\ UNCHANGED members
    /\ Step(t, Idle)
    /\ UNCHANGED <<rooms, created, mu>>

-----------------------------------------------------------------------------
(* SFUServer::removeParticipant holds mu_ throughout, but the Room's own   *)
(* mutex only within Room::remove and within Room::size.                   *)

BeginRemove(t, id, roomId) ==
    /\ ~undefined /\ IdleThread(t) /\ CanLock
    /\ IF rooms[roomId] = 0
       THEN UNCHANGED <<members, mu, call>>
       ELSE /\ members' = [members EXCEPT ![rooms[roomId]] = @ \ {id}]
            /\ mu' = t
            /\ Step(t, At("size", id, roomId, rooms[roomId]))
    /\ UNCHANGED <<rooms, created, undefined>>

AfterSize_keeps(t) == Idle                   \* slip: no room is reclaimed

\* slip: the size is not looked at
AfterSize_always(t) == [call[t] EXCEPT !.at = "erase"]

AfterSize(t) ==
    IF members[call[t].room] = {}
    THEN [call[t] EXCEPT !.at = "erase"]
    ELSE Idle

ReadSize(t) ==
    /\ ~undefined /\ call[t].at = "size"
    /\ Step(t, AfterSize(t))
    /\ mu' = IF AfterSize(t) = Idle THEN Nobody ELSE mu
    /\ UNCHANGED <<rooms, members, created, undefined>>

\* The Room goes with its key, and with it whoever is in it by now.
EraseRoom(t) ==
    /\ ~undefined /\ call[t].at = "erase"
    /\ rooms' = [rooms EXCEPT ![call[t].roomId] = 0]
    /\ members' = [members EXCEPT ![call[t].room] = {}]
    /\ mu' = Nobody
    /\ Step(t, Idle)
    /\ UNCHANGED <<created, undefined>>

-----------------------------------------------------------------------------
(* routePacket and onRemb: findRoom under mu_, then Room::forward or       *)
(* Room::onRemb without it.  A packet for an unknown room is dropped; what *)
(* a Room does with one is the subject of module Room.                     *)

BeginUse(t, use, id, roomId) ==
    /\ ~undefined /\ IdleThread(t) /\ CanLock
    /\ rooms[roomId] # 0
    /\ Step(t, At(use, id, roomId, rooms[roomId]))
    /\ UNCHANGED <<rooms, members, created, mu, undefined>>

DoUse(t) ==
    /\ ~undefined /\ call[t].at \in {"forward", "onRemb"}
    /\ undefined' = (call[t].room \notin Live)
    /\ Step(t, Idle)
    /\ UNCHANGED <<rooms, members, created, mu>>

-----------------------------------------------------------------------------
Init ==
    /\ rooms = [r \in RoomId |-> 0]
    /\ members = [o \in Object |-> {}]
    /\ created = 0
    /\ mu = Nobody
    /\ call = [t \in Thread |-> Idle]
    /\ undefined = FALSE

ThreadStep(t) ==
    \/ \E id \in ParticipantId, r \in RoomId :
          \/ BeginAdd(t, id, r)
          \/ BeginRemove(t, id, r)
          \/ \E use \in {"forward", "onRemb"} : BeginUse(t, use, id, r)
    \/ DoAdd(t)
    \/ ReadSize(t)
    \/ EraseRoom(t)
    \/ DoUse(t)

Next == \E t \in Thread : ThreadStep(t)

\* A call that has begun goes on: its thread is scheduled.
Spec == Init /\ [][Next]_server
             /\ \A t \in Thread : WF_server(DoAdd(t) \/ ReadSize(t) \/
                                            EraseRoom(t) \/ DoUse(t))

-----------------------------------------------------------------------------
(* Properties. *)

\* Every variable holds values of its type.
TypeOK ==
    /\ rooms \in [RoomId -> 0 .. created]
    /\ members \in [Object -> SUBSET ParticipantId]
    /\ created \in 0 .. MaxRooms
    /\ mu \in Thread \cup {Nobody}
    /\ undefined \in BOOLEAN
    /\ call \in [Thread -> {Idle} \cup
                 [at : {"add", "size", "erase", "forward", "onRemb"},
                  id : ParticipantId, roomId : RoomId, room : 1 .. created]]

\* No Room ever holds more than the cap, whoever joins it through whatever
\* pointer, and two room ids never lead to one Room.
RegistrySound ==
    /\ \A o \in Object : Cardinality(members[o]) <= kMaxParticipants
    /\ \A r, s \in RoomId : rooms[r] = rooms[s] /\ rooms[r] # 0 => r = s

\* Rooms are "destroyed when their last participant leaves" (SFUServer.h:7),
\* whatever the threads do: an empty Room in the registry is one that some
\* thread is about to add to, or is in the middle of reclaiming.
EmptyRoomsAreBusy ==
    \A r \in RoomId : rooms[r] # 0 /\ members[rooms[r]] = {} =>
        \E t \in Thread : /\ call[t].at \in {"add", "size", "erase"}
                          /\ call[t].room = rooms[r]

\* And it does not stay that way: a Room that is empty is reclaimed, or
\* somebody comes.  (After undefined behaviour all bets are off.)
EmptyRoomsGo ==
    \A r \in RoomId :
        rooms[r] # 0 /\ members[rooms[r]] = {}
            ~> rooms[r] = 0 \/ members[rooms[r]] # {} \/ undefined

\* SFUServer.h:14 says that the server may be driven from many threads.  It
\* would follow that no thread uses a Room that another has destroyed, ...
NoUseOfDestroyedRoom == ~undefined

\* ... and that removeParticipant "destroys the room when it becomes empty"
\* (SFUServer.h:44), never one that holds a participant.  Neither follows for
\* any two threads; the second does where one thread makes all the calls that
\* add and remove (module SfuMain).
OnlyEmptyRoomsErased ==
    [][\A o \in Live \ Live' : members[o] = {}]_server
=============================================================================
