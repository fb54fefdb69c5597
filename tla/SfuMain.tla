------------------------------- MODULE SfuMain -------------------------------
(***************************************************************************)
(* The SFU process, sfu-server/main.cpp: SFUServer driven by two threads.  *)
(*                                                                         *)
(*   Loop   the uWebSockets thread.  It opens and closes sockets, handles  *)
(*          their messages, and runs what was handed to Loop::defer.  Only *)
(*          it adds participants to the SFU and removes them.              *)
(*   Media  the thread of libjuice, which reports candidates and states of *)
(*          the ICE agents and routes every packet through the SFU.        *)
(*                                                                         *)
(* A client of the model is one connection; its id, drawn from nextId, is  *)
(* never used again, so a client that comes back is another client.  The   *)
(* offer and the candidates of a client only lead its ICE agent to connect *)
(* and leave main.cpp's own state alone.                                   *)
(*                                                                         *)
(* libjuice and uWebSockets are external.  Of libjuice the model takes     *)
(* that destroying an agent waits for its callback in progress, and that   *)
(* none comes after; of uWebSockets, that deferred functions run on the    *)
(* loop thread, in order, between two handlers.                            *)
(***************************************************************************)
EXTENDS SFUServer, Sequences

CONSTANTS
    Loop, Media,        \* the two threads
    NoRoom,             \* the room of a client that has named none
    MaxNotices          \* bound: "connected" reports of one ICE agent

Client == ParticipantId     \* main.cpp:142, the id handed to addParticipant

ASSUME SfuMainAssumption ==
    /\ Loop # Media
    /\ Thread = {Loop, Media}
    /\ NoRoom \notin RoomId
    /\ MaxNotices \in Nat \ {0}

VARIABLES
    socket,     \* socket[c]: "new", "open", "closing" in its handler, "closed"
    room,       \* ClientState::room; NoRoom while psd->state is null
    alive,      \* ClientState::alive
    transport,  \* ClientState::transport: "none", "up" or "destroyed"
    notices,    \* how often c's agent has reported a connection
    joinedSfu,  \* the flag shared by the callbacks of one client
    deferred    \* the functions given to Loop::defer and not yet run

connection == <<socket, room, alive, transport, notices, joinedSfu>>
sfuMain == <<server, connection, deferred>>

-----------------------------------------------------------------------------
Register(c)  == [does |-> "register", client |-> c]
SendIce(c)   == [does |-> "send", client |-> c]

\* The loop thread is between two handlers.
LoopReady == /\ ~undefined /\ IdleThread(Loop)
             /\ \A c \in Client : socket[c] # "closing"

\* A callback of c's agent is on the media thread.
InCallback(c) == ~IdleThread(Media) /\ call[Media].id = c

-----------------------------------------------------------------------------
(* The socket handlers. *)

OpenSocket(c) ==
    /\ LoopReady
    /\ socket[c] = "new"
    /\ socket' = [socket EXCEPT ![c] = "open"]
    /\ UNCHANGED <<server, room, alive, transport, notices, joinedSfu, deferred>>

\* "join": a second one, or one whose agent cannot be set up, changes nothing.
Join(c, r) ==
    /\ LoopReady
    /\ socket[c] = "open"
    /\ room[c] = NoRoom
    /\ room' = [room EXCEPT ![c] = r]
    /\ alive' = [alive EXCEPT ![c] = TRUE]
    /\ transport' = [transport EXCEPT ![c] = "up"]
    /\ UNCHANGED <<server, socket, notices, joinedSfu, deferred>>

\* The close handler, which "leave" runs too through ws->end.  A client that
\* has not joined has nothing to undo; else its participant is removed, ...
Close(c) ==
    /\ LoopReady
    /\ socket[c] = "open"
    /\ IF room[c] = NoRoom
       THEN /\ socket' = [socket EXCEPT ![c] = "closed"]
            /\ UNCHANGED <<server, alive>>
       ELSE /\ socket' = [socket EXCEPT ![c] = "closing"]
            /\ alive' = [alive EXCEPT ![c] = FALSE]
            /\ BeginRemove(Loop, c, room[c])
    /\ UNCHANGED <<room, transport, notices, joinedSfu, deferred>>

\* ... and when removeParticipant has returned psd->state is reset, which
\* destroys the transport and with it the agent.
Reset(c) ==
    /\ ~undefined /\ IdleThread(Loop)
    /\ socket[c] = "closing"
    /\ ~InCallback(c)
    /\ socket' = [socket EXCEPT ![c] = "closed"]
    /\ transport' = [transport EXCEPT ![c] = "destroyed"]
    /\ UNCHANGED <<server, room, alive, notices, joinedSfu, deferred>>

-----------------------------------------------------------------------------
(* The deferred functions hold a weak_ptr to the client's state, which     *)
(* locks as long as psd->state has not been reset.                         *)

Reachable(c) == transport[c] # "destroyed" /\ alive[c]

Admissible_late(c) == ~joinedSfu[c]          \* slip: a client that has gone gets in
Admissible_inverted(c) == Reachable(c) /\ joinedSfu[c]   \* slip: exchange(true) negated
Admissible(c) == Reachable(c) /\ ~joinedSfu[c]

RunRegister ==
    /\ LoopReady
    /\ deferred # <<>> /\ Head(deferred).does = "register"
    /\ deferred' = Tail(deferred)
    /\ LET c == Head(deferred).client
       IN  IF Admissible(c)
           THEN /\ joinedSfu' = [joinedSfu EXCEPT ![c] = TRUE]
                /\ BeginAdd(Loop, c, room[c])
           ELSE UNCHANGED <<joinedSfu, server>>
    /\ UNCHANGED <<socket, room, alive, transport, notices>>

\* Whose socket the function sends on, if it sends.
SendsTo(task) ==
    IF task.does = "send" /\ Reachable(task.client) THEN {task.client} ELSE {}

RunSend ==
    /\ LoopReady
    /\ deferred # <<>> /\ Head(deferred).does = "send"
    /\ deferred' = Tail(deferred)
    /\ UNCHANGED <<server, connection>>

-----------------------------------------------------------------------------
(* The callbacks of the agents, on the media thread. *)

\* Connected, and then Completed, each defer a registration.
IceConnected(c) ==
    /\ ~undefined /\ IdleThread(Media)
    /\ transport[c] = "up"
    /\ notices[c] < MaxNotices
    /\ notices' = [notices EXCEPT ![c] = @ + 1]
    /\ deferred' = Append(deferred, Register(c))
    /\ UNCHANGED <<server, socket, room, alive, transport, joinedSfu>>

\* Candidates are sent from the loop.  (Bound: one of a client is waiting.)
IceCandidate(c) ==
    /\ ~undefined /\ IdleThread(Media)
    /\ transport[c] = "up"
    /\ \A i \in 1 .. Len(deferred) : deferred[i] # SendIce(c)
    /\ deferred' = Append(deferred, SendIce(c))
    /\ UNCHANGED <<server, connection>>

\* Packets come once the agent is connected, whether or not the loop has
\* registered the client yet.
Packet(c) ==
    /\ transport[c] = "up"
    /\ notices[c] > 0
    /\ BeginUse(Media, "forward", c, room[c])
    /\ UNCHANGED <<connection, deferred>>

InServer(t) ==
    /\ DoAdd(t) \/ ReadSize(t) \/ EraseRoom(t) \/ DoUse(t)
    /\ UNCHANGED <<connection, deferred>>

-----------------------------------------------------------------------------
MainInit ==
    /\ Init
    /\ socket = [c \in Client |-> "new"]
    /\ room = [c \in Client |-> NoRoom]
    /\ alive = [c \in Client |-> FALSE]
    /\ transport = [c \in Client |-> "none"]
    /\ notices = [c \in Client |-> 0]
    /\ joinedSfu = [c \in Client |-> FALSE]
    /\ deferred = <<>>

LoopStep ==
    \/ RunRegister
    \/ RunSend
    \/ InServer(Loop)
    \/ \E c \in Client : Reset(c)

MainNext ==
    \/ LoopStep
    \/ InServer(Media)
    \/ \E c \in Client :
          \/ OpenSocket(c)
          \/ \E r \in RoomId : Join(c, r)
          \/ Close(c)
          \/ IceConnected(c)
          \/ IceCandidate(c)
          \/ Packet(c)

MainSpec == MainInit /\ [][MainNext]_sfuMain

\* app.run() comes back to the deferred functions and finishes what it has
\* begun, a packet that is being routed gets routed, and destroying an agent
\* gets its turn between the callbacks.  Nothing makes a client act.
FairSpec == /\ MainSpec
            /\ WF_sfuMain(LoopStep)
            /\ WF_sfuMain(InServer(Media))
            /\ \A c \in Client : SF_sfuMain(Reset(c))

-----------------------------------------------------------------------------
(* Properties. *)

\* Every variable of main.cpp holds values of its type.
MainTypeOK ==
    /\ TypeOK
    /\ socket \in [Client -> {"new", "open", "closing", "closed"}]
    /\ room \in [Client -> RoomId \cup {NoRoom}]
    /\ alive \in [Client -> BOOLEAN]
    /\ transport \in [Client -> {"none", "up", "destroyed"}]
    /\ notices \in [Client -> 0 .. MaxNotices]
    /\ joinedSfu \in [Client -> BOOLEAN]
    /\ deferred \in Seq({Register(c) : c \in Client} \cup
                        {SendIce(c) : c \in Client})

\* The sink of a participant is a raw pointer to its transport (main.cpp:142),
\* called by whoever sends to the room.  So whoever is in a Room has an open
\* socket and a transport that is up, and is in the one room it joined:
\* however notices, deferred functions, packets and closings interleave, no
\* ghost is left in a Room.
NoGhosts ==
    \A o \in Object : \A c \in members[o] :
        /\ socket[c] = "open"
        /\ transport[c] = "up"
        /\ rooms[room[c]] = o

\* main.cpp:134 has add serialized with the close handler "so add never races
\* remove": a client whose close handler has begun is on its way out for good,
\* no registration of it being under way, and once it is closed the transport
\* it had is gone.
GoneForGood ==
    \A c \in Client :
        /\ socket[c] \in {"closing", "closed"} =>
              ~(call[Loop].at = "add" /\ call[Loop].id = c)
        /\ socket[c] = "closed" => transport[c] # "up"

\* A deferred function never sends on a socket that has been closed.
SendsOnOpenSocket ==
    LoopReady /\ deferred # <<>> =>
        \A c \in SendsTo(Head(deferred)) : socket[c] = "open"

\* Once its socket is closed a client is nowhere: in no Room, on its way into
\* none, and nothing is sent to it.
ClosedIsGone == NoGhosts /\ GoneForGood /\ SendsOnOpenSocket

\* The registry of the SFU as the process drives it: the cap holds through
\* whatever pointer a client is added, each id has a Room of its own
\* (SFUServer.cpp:17), and a Room that is empty is being filled or reclaimed.
ServerSound == MainTypeOK /\ RegistrySound /\ EmptyRoomsAreBusy

\* Membership of the SFU, two threads and all, behaves as the abstract
\* Conference.
RoomHolding(c) ==
    IF \E r \in RoomId : rooms[r] # 0 /\ c \in members[rooms[r]]
    THEN CHOOSE r \in RoomId : rooms[r] # 0 /\ c \in members[rooms[r]]
    ELSE NoRoom

Abstract == INSTANCE Conference WITH
    Member <- Client, Room <- RoomId, Nowhere <- NoRoom,
    Capacity <- kMaxParticipants,
    where <- [c \in Client |-> RoomHolding(c)]

ImplementsConference == Abstract!Spec

\* A client whose agent has connected is registered with the SFU
\* (main.cpp:134): its first notice is not lost between the two threads, unless
\* the client goes or finds its room full on the way.
HasPlace(c) ==
    /\ room[c] # NoRoom
    /\ rooms[room[c]] # 0 => Cardinality(members[rooms[room[c]]]) < kMaxParticipants

ConnectedIsRegistered ==
    \A c \in Client :
        notices[c] = 1 /\ ~joinedSfu[c]
            ~> \/ RoomHolding(c) # NoRoom
               \/ socket[c] # "open" \/ ~HasPlace(c)
               \/ undefined

\* A close handler that has begun ends: it never waits on a callback that
\* waits on it.
CloseCompletes ==
    \A c \in Client : socket[c] = "closing" ~> socket[c] = "closed" \/ undefined

\* What a client leaves behind is cleared away: its close handler ends, and an
\* empty Room goes.
ClosingCleansUp == EmptyRoomsGo /\ CloseCompletes
=============================================================================
