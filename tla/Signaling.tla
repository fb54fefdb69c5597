------------------------------ MODULE Signaling ------------------------------
(***************************************************************************)
(* The signaling server of RoomManager, its clients, and the ordered byte  *)
(* streams between them.  A server step appends the frames it sends to the *)
(* recipients' streams; a client reads its stream one frame at a time with *)
(* SignalingClient::runRecvLoop and learns, from the callbacks that makes, *)
(* its own id and who shares its room.                                     *)
(*                                                                         *)
(* Any frame a client may have sent can reach the server in any state of   *)
(* the client, so the other direction needs no stream: the requests of     *)
(* RoomManager cover every delay.  A client that joins again on the same   *)
(* link takes onJoined as the start of a new roster.                       *)
(***************************************************************************)
EXTENDS RoomManager

CONSTANT MaxUnread      \* bound: frames a client may leave unread

VARIABLES
    wire,       \* wire[c]: frames sent to c that it has not read
    roster      \* roster[c]: what c's callbacks have told it

signalingVars == <<vars, wire, roster>>

\* selfId_ and the peers announced by onPeerJoined less those of onPeerLeft.
NewRoster == [selfId |-> 0, peers |-> {}]

-----------------------------------------------------------------------------
(* SignalingClient::runRecvLoop, the dispatch of one frame. *)

Heard(known, frame) ==
    CASE frame.type = "joined" ->
           [selfId |-> frame.from, peers |-> frame.peers]
      [] frame.type = "peer-joined" ->
           [known EXCEPT !.peers = @ \cup {frame.from}]
      [] frame.type = "peer-left" ->
           [known EXCEPT !.peers = @ \ {frame.from}]
      [] OTHER -> known         \* onOffer, onAnswer, onIceCandidate, onError

Read(c) ==
    /\ c \in open
    /\ wire[c] # <<>>
    /\ roster' = [roster EXCEPT ![c] = Heard(@, Head(wire[c]))]
    /\ wire' = [wire EXCEPT ![c] = Tail(@)]
    /\ UNCHANGED vars

\* ws->send on the server's loop keeps the order of the calls.
Transmitted_late(old, frames) == frames \o old    \* slip: out of order
Transmitted(old, frames) == old \o frames

ServerStep ==
    /\ Next
    /\ wire' = [c \in Conn |-> IF c \in open \cap open'
                               THEN Transmitted(wire[c], sent'[c])
                               ELSE <<>>]
    /\ \A c \in Conn : Len(wire'[c]) <= MaxUnread
    /\ roster' = [c \in Conn |-> IF c \in open' THEN roster[c] ELSE NewRoster]

SignalingInit ==
    /\ Init
    /\ wire = [c \in Conn |-> <<>>]
    /\ roster = [c \in Conn |-> NewRoster]

SignalingNext == ServerStep \/ \E c \in Conn : Read(c)

SignalingSpec == SignalingInit /\ [][SignalingNext]_signalingVars

-----------------------------------------------------------------------------
(* Properties. *)

\* What a client that knows `known' will know after each of the frames.
Rosters(known, frames) ==
    LET after[n \in 0 .. Len(frames)] ==
            IF n = 0 THEN known ELSE Heard(after[n - 1], frames[n])
    IN  after

\* What c will know once it has read the first n frames of its stream.
RosterAfter(c, n) == Rosters(roster[c], wire[c])[n]

\* Every client in a room is on its way to the truth: when it has read what is
\* already on its stream, it knows its id and exactly the peers the server has
\* in its room, whatever joins, moves, leaves and losses of links came between.
RosterConverges ==
    \A c \in Conn : idFor(c) # 0 =>
        RosterAfter(c, Len(wire[c])) = [selfId |-> idFor(c), peers |-> Peers(c)]

\* A client never gets an offer, answer or candidate from somebody it does not
\* know when it reads it: the peer-joined of the sender comes before, its
\* peer-left after, and the from the server stamps is the sender's own
\* (main.cpp:122).  (A client may address itself.)
NoSignalFromStranger ==
    \A c \in Conn : \A i \in 1 .. Len(wire[c]) :
        wire[c][i].type \in RelayType =>
            LET known == RosterAfter(c, i - 1)
            IN  wire[c][i].from \in (known.peers \cup {known.selfId}) \ {0}

\* The frames of one stream tell a story that can be told: a peer-joined is of
\* a peer not yet known, a peer-left is of a peer that is.
NoticesAlternate ==
    \A c \in Conn : \A i \in 1 .. Len(wire[c]) :
        LET known == RosterAfter(c, i - 1)
        IN  /\ wire[c][i].type = "peer-joined" =>
                  wire[c][i].from \notin known.peers \cup {known.selfId}
            /\ wire[c][i].type = "peer-left" => wire[c][i].from \in known.peers

\* A client can make sense of its stream frame by frame, however fast it reads:
\* every notice changes the roster it has by then, and every relayed message is
\* from somebody on it (SignalingClient.cpp:341).
ClientsCanFollow == NoSignalFromStranger /\ NoticesAlternate
=============================================================================
