----------------------------- MODULE RoomManager -----------------------------
(***************************************************************************)
(* The signaling server: the room registry of RoomManager.cpp and the      *)
(* WebSocket handlers of main.cpp that drive it.  All handlers run on one   *)
(* event loop, so each is one action.  What a handler hands to send_ or    *)
(* ws->send is its output `sent'; module Signaling puts it on the wire.    *)
(*                                                                         *)
(* The map rooms_ is split in its keys, roomNames, and its values,         *)
(* participants, so that a room left behind empty can be seen.  A room's   *)
(* vector is a set: only the order of the "peers" list depends on it.      *)
(***************************************************************************)
EXTENDS Naturals, FiniteSets, Sequences

CONSTANTS
    Conn,               \* the WebSocket handles the server may see
    RoomName,           \* the non-empty room names
    NoRoom,             \* what connRoom_ says of a handle it does not hold
    RelayType,          \* the types that are relayed: "offer", "answer", "ice"
    kMaxParticipants,   \* RoomManager.h:38
    MaxId               \* bound: ids handed out before a behaviour stops

ASSUME RoomManagerAssumption ==
    /\ NoRoom \notin RoomName
    /\ RelayType \cap {"joined", "peer-joined", "peer-left", "error"} = {}
    /\ kMaxParticipants \in Nat \ {0}
    /\ MaxId \in Nat

VARIABLES
    participants,   \* rooms_[r].participants, a set of [id, conn]
    roomNames,      \* the keys of rooms_
    connRoom,       \* connRoom_, total: NoRoom for an absent key
    nextId,         \* nextId_
    open,           \* the sockets uWebSockets has open
    sent            \* sent[c]: the frames the last handler sent to c

registry == <<participants, roomNames, connRoom, nextId>>
vars == <<registry, open, sent>>

-----------------------------------------------------------------------------
(* The frames the server sends. *)

Joined(id, peers) == [type |-> "joined", from |-> id, peers |-> peers]
PeerJoined(id)    == [type |-> "peer-joined", from |-> id]
PeerLeft(id)      == [type |-> "peer-left", from |-> id]
ErrorFrame        == [type |-> "error", from |-> 0]

Silence == [d \in Conn |-> <<>>]
Only(c, frame) == [Silence EXCEPT ![c] = <<frame>>]

-----------------------------------------------------------------------------
(* Lookups. *)

\* The participant c is registered as: none, or one.
Entry(c) == IF connRoom[c] \in roomNames
            THEN {p \in participants[connRoom[c]] : p.conn = c}
            ELSE {}

idFor(c) == IF Entry(c) = {} THEN 0 ELSE (CHOOSE p \in Entry(c) : TRUE).id

\* The ids of those who share c's room.
Peers(c) == IF Entry(c) = {}
            THEN {}
            ELSE {p.id : p \in participants[connRoom[c]]} \ {idFor(c)}

-----------------------------------------------------------------------------
(* RoomManager::leave, as the parts of its result: rooms_ without c, the   *)
(* keys that stay, and the notice each survivor is sent.                   *)

Remaining(c) ==
    [r \in RoomName |-> IF r = connRoom[c]
                        THEN {p \in participants[r] : p.conn # c}
                        ELSE participants[r]]

Pruned_kept(c) == roomNames                  \* slip: no room is ever pruned
Pruned(c) == {r \in roomNames : r = connRoom[c] => Remaining(c)[r] # {}}

LeaveNotice_silent(c, d) == <<>>             \* slip: nobody is told

LeaveNotice(c, d) ==
    IF /\ idFor(c) # 0
       /\ \E p \in Remaining(c)[connRoom[c]] : p.conn = d
    THEN <<PeerLeft(idFor(c))>>
    ELSE <<>>

leave(c) ==
    /\ participants' = Remaining(c)
    /\ roomNames' = Pruned(c)
    /\ connRoom' = [connRoom EXCEPT ![c] = NoRoom]
    /\ sent' = [d \in Conn |-> LeaveNotice(c, d)]
    /\ UNCHANGED nextId

-----------------------------------------------------------------------------
(* RoomManager::join.  A prior binding is dropped before the new room is   *)
(* looked at, so a refused join ends with c in no room.                    *)

RoomFull_late(members) == Cardinality(members) > kMaxParticipants  \* slip
RoomFull(members) == Cardinality(members) >= kMaxParticipants

JoinNotice(c, r, d) ==
    IF \E p \in Remaining(c)[r] : p.conn = d
    THEN <<PeerJoined(nextId)>>
    ELSE <<>>

JoinAdmitted(c, r) ==
    /\ nextId <= MaxId
    /\ ~RoomFull(Remaining(c)[r])
    /\ participants' =
         [Remaining(c) EXCEPT ![r] = @ \cup {[id |-> nextId, conn |-> c]}]
    /\ roomNames' = Pruned(c) \cup {r}
    /\ connRoom' = [connRoom EXCEPT ![c] = r]
    /\ nextId' = nextId + 1
    /\ sent' = [d \in Conn |->
                  IF d = c
                  THEN <<Joined(nextId, {p.id : p \in Remaining(c)[r]})>>
                  ELSE LeaveNotice(c, d) \o JoinNotice(c, r, d)]

JoinRefused(c, r) ==
    /\ RoomFull(Remaining(c)[r])
    /\ participants' = Remaining(c)
    /\ roomNames' = Pruned(c)
    /\ connRoom' = [connRoom EXCEPT ![c] = NoRoom]
    /\ sent' = [d \in Conn |-> IF d = c THEN <<ErrorFrame>>
                                        ELSE LeaveNotice(c, d)]
    /\ UNCHANGED nextId

-----------------------------------------------------------------------------
(* RoomManager::relay. *)

Recipients(c, to) ==
    {p.conn : p \in {q \in participants[connRoom[c]] :
                       IF to # 0 THEN q.id = to ELSE q.conn # c}}

\* main.cpp overwrites the "from" the client claimed.
StampedFrom_claimed(c, claimed) == claimed   \* slip: the client's word is taken
StampedFrom(c, claimed) == idFor(c)

relay(c, type, to, claimed) ==
    LET receivers == Recipients(c, to)
        frame == [type |-> type, from |-> StampedFrom(c, claimed)]
    IN  sent' = IF to # 0 /\ receivers = {}
                THEN Only(c, ErrorFrame)
                ELSE [d \in Conn |-> IF d \in receivers THEN <<frame>> ELSE <<>>]

-----------------------------------------------------------------------------
(* The handlers of signaling-server/main.cpp. *)

Open(c) ==
    /\ c \notin open
    /\ open' = open \cup {c}
    /\ sent' = Silence
    /\ UNCHANGED registry

OnJoin(c, r) ==
    /\ c \in open
    /\ JoinAdmitted(c, r) \/ JoinRefused(c, r)
    /\ UNCHANGED open

OnLeave(c) ==
    /\ c \in open
    /\ leave(c)
    /\ UNCHANGED open

OnSignal(c, type, to, claimed) ==
    /\ c \in open
    /\ IF idFor(c) = 0
       THEN sent' = Only(c, ErrorFrame)
       ELSE relay(c, type, to, claimed)
    /\ UNCHANGED <<registry, open>>

\* A binary frame, malformed JSON, an unknown type or an empty room name.  (A
\* field of the wrong JSON type, as in main.cpp:95, 99 and 121, is not answered:
\* it throws, nothing catches it, and the server ends.  That is left out.)
OnInvalid(c) ==
    /\ c \in open
    /\ sent' = Only(c, ErrorFrame)
    /\ UNCHANGED <<registry, open>>

OnClose(c) ==
    /\ c \in open
    /\ leave(c)
    /\ open' = open \ {c}

-----------------------------------------------------------------------------
FirstId == 1

Init ==
    /\ participants = [r \in RoomName |-> {}]
    /\ roomNames = {}
    /\ connRoom = [c \in Conn |-> NoRoom]
    /\ nextId = FirstId
    /\ open = {}
    /\ sent = Silence

Next ==
    \E c \in Conn :
        \/ Open(c)
        \/ \E r \in RoomName : OnJoin(c, r)
        \/ OnLeave(c)
        \/ \E type \in RelayType, to, claimed \in 0 .. MaxId :
              OnSignal(c, type, to, claimed)
        \/ OnInvalid(c)
        \/ OnClose(c)

Spec == Init /\ [][Next]_vars

-----------------------------------------------------------------------------
(* Properties. *)

Participant == [id : 1 .. MaxId, conn : Conn]

\* Every variable holds values of its type; an id is never the reserved 0
\* (RoomManager.h:119).
TypeOK ==
    /\ participants \in [RoomName -> SUBSET Participant]
    /\ roomNames \in SUBSET RoomName
    /\ connRoom \in [Conn -> RoomName \cup {NoRoom}]
    /\ nextId \in 1 .. MaxId + 1
    /\ open \in SUBSET Conn
    /\ DOMAIN sent = Conn

\* rooms_ and connRoom_ are kept in sync (RoomManager.h:123): a participant
\* is registered in the room its connection is bound to, and a bound
\* connection is registered there.
BindingsAgree ==
    /\ \A r \in RoomName : \A p \in participants[r] : connRoom[p.conn] = r
    /\ \A c \in Conn : connRoom[c] # NoRoom =>
          \E p \in participants[connRoom[c]] : p.conn = c

\* No two participants of the server, in one room or in two, share an id or a
\* connection, and no id is one that is still to be handed out.
ParticipantsDistinct ==
    /\ \A r, s \in RoomName : \A p \in participants[r], q \in participants[s] :
          p.id = q.id \/ p.conn = q.conn => r = s /\ p = q
    /\ \A r \in RoomName : \A p \in participants[r] : p.id < nextId

\* rooms_ has a key exactly for the rooms somebody is in: join creates no room
\* it does not fill, and leave prunes the room it empties.
NoEmptyRooms == roomNames = {r \in RoomName : participants[r] # {}}

\* No room goes over the cap, however joins, moves and leaves interleave.
WithinCapacity ==
    \A r \in RoomName : Cardinality(participants[r]) <= kMaxParticipants

RegistryInSync ==
    /\ BindingsAgree
    /\ ParticipantsDistinct
    /\ NoEmptyRooms
    /\ WithinCapacity

\* The registry holds raw WebSocket pointers: one that outlived its socket
\* would be dereferenced by the next notice to that room.  So every registered
\* connection is open, and no handler sends to a connection that is not.
HandlesAreOpen ==
    /\ \A r \in RoomName : \A p \in participants[r] : p.conn \in open
    /\ \A c \in Conn : sent[c] # <<>> => c \in open

\* What the registry is at any time between two handlers: its maps agree, it
\* holds nobody who is gone, and no handler has spoken to anybody who is
\* (RoomManager.h:123).
RegistryInv == TypeOK /\ RegistryInSync /\ HandlesAreOpen

Announced(type, frames) ==
    {frames[i].from : i \in {j \in DOMAIN frames : frames[j].type = type}}

\* Whoever keeps its place in a room is told exactly how the room changed: a
\* peer-joined for each id that appeared and a peer-left for each that went,
\* also when a peer moves or joins again in the same room.
MembershipAnnounced(d) ==
    idFor(d) # 0 /\ idFor(d)' = idFor(d) =>
        /\ Announced("peer-joined", sent'[d]) = Peers(d)' \ Peers(d)
        /\ Announced("peer-left", sent'[d]) = Peers(d) \ Peers(d)'
ChangesAnnounced == [][\A d \in Conn : MembershipAnnounced(d)]_vars

\* The registry, read as a map from connections to rooms, behaves as the
\* abstract Conference: one room at a time, never one too many.
RoomHolding(c) ==
    IF \E r \in RoomName : \E p \in participants[r] : p.conn = c
    THEN CHOOSE r \in RoomName : \E p \in participants[r] : p.conn = c
    ELSE NoRoom

Abstract == INSTANCE Conference WITH
    Member <- Conn, Room <- RoomName, Nowhere <- NoRoom,
    Capacity <- kMaxParticipants,
    where <- [c \in Conn |-> RoomHolding(c)]

ImplementsConference == Abstract!Spec
=============================================================================
