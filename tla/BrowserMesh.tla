----------------------------- MODULE BrowserMesh -----------------------------
(***************************************************************************)
(* The browser client, web/public/app.js, and its relay, web/server.js:    *)
(* each page of a room keeps one RTCPeerConnection to every other page.    *)
(*                                                                         *)
(* A WebSocket message starts an async handler, which runs up to its next  *)
(* await; the handlers of one page interleave there.  What a handler waits *)
(* for belongs to one connection, so its place is kept with it: task[c][d] *)
(* is what page c awaits of its connection to d.  Closing a connection      *)
(* leaves whoever awaits it waiting for ever.                              *)
(*                                                                         *)
(* The rooms of the server never meet: one is modelled.  A page that comes *)
(* back has a new socket, thus a new id, and is another client here.       *)
(* RTCPeerConnection is external.  The model takes from it that it does    *)
(* what it is asked in order, and reports candidates once its local        *)
(* description is set; one candidate stands for all of a connection.       *)
(***************************************************************************)
EXTENDS Sequences, SequencesExt, FiniteSets, Naturals

CONSTANTS
    Pages,          \* bound: the pages that come to the room
    Departing,      \* bound: the pages that may leave it or lose their link
    Trickling,      \* bound: the pages that report candidates
    NoPeer          \* what peers.get says of an id that is absent

\* The ids the server hands out, one to each socket (nextId).
Client == 1 .. Pages

\* A connection: which descriptions are set, whether a candidate of the other's
\* is taken, and whether its own were told.
Pc == [local : BOOLEAN, remote : BOOLEAN, reaches : BOOLEAN, told : BOOLEAN]

ASSUME MeshAssumption ==
    Pages \in Nat /\ NoPeer \notin Pc

VARIABLES
    page,       \* page[c]: "lobby", "call", "left", or "cut" off by its link
    up,         \* up[c]: what the page sent and the server has not read
    down,       \* down[c]: what the server sent and the page has not read
    room,       \* the keys of the room's Map, in the order they were set
    pc,         \* pc[c][d]: peers.get(d).pc on page c
    task,       \* task[c][d]: what a handler awaits of pc[c][d]
    loop,       \* loop[c]: the peers the "joined" handler has yet to offer to
    missed,     \* history: missed[c], who left while c's loop was yet to come
    abandoned   \* history: abandoned[c], whom c's loop never came to

relay == <<up, down, room>>
connections == <<pc, task, loop>>
history == <<missed, abandoned>>
meshVars == <<page, relay, connections, history>>

-----------------------------------------------------------------------------
JoinFrame           == [type |-> "join"]
CloseFrame          == [type |-> "close"]
SignalTo(d, what)   == [type |-> "signal", to |-> d, what |-> what]
JoinedFrame(peers)  == [type |-> "joined", peers |-> peers]
PeerJoined(c)       == [type |-> "peer-joined", id |-> c]
PeerLeft(c)         == [type |-> "peer-left", id |-> c]
SignalFrom(c, what) == [type |-> "signal", from |-> c, what |-> what]

-----------------------------------------------------------------------------
(* web/server.js: one message, or the close of a socket, at a time.        *)

\* send: to a socket that is open.
Sent(frames) == [d \in Client |-> IF page[d] = "call"
                                  THEN down[d] \o frames[d]
                                  ELSE down[d]]

ToOthers(c, frame) ==
    [d \in Client |-> IF d \in ToSet(room) \ {c} THEN <<frame>> ELSE <<>>]

OnJoin(c) ==
    /\ down' = Sent([ToOthers(c, PeerJoined(c)) EXCEPT ![c] = <<JoinedFrame(room)>>])
    /\ room' = Append(room, c)

OnSignal(c, m) ==
    /\ down' = Sent([d \in Client |->
                       IF d = m.to /\ d \in ToSet(room)
                       THEN <<SignalFrom(c, m.what)>> ELSE <<>>])
    /\ UNCHANGED room

\* Map.delete: whoever came later moves up.
Without(c) == IF c \in ToSet(room)
              THEN RemoveAt(room, CHOOSE i \in DOMAIN room : room[i] = c)
              ELSE room

\* slip: only the newer pages are told
OnClose_newer(c) ==
    /\ down' = Sent([d \in Client |->
                       IF d \in ToSet(room) \ {c} /\ \E i, j \in DOMAIN room :
                             i < j /\ room[i] = c /\ room[j] = d
                       THEN <<PeerLeft(c)>> ELSE <<>>])
    /\ room' = Without(c)

OnClose(c) ==
    /\ down' = IF c \in ToSet(room)
               THEN Sent(ToOthers(c, PeerLeft(c)))
               ELSE down
    /\ room' = Without(c)

Serve(c) ==
    /\ up[c] # <<>>
    /\ up' = [up EXCEPT ![c] = Tail(@)]
    /\ LET m == Head(up[c])
       IN  \/ m.type = "join" /\ OnJoin(c)
           \/ m.type = "signal" /\ OnSignal(c, m)
           \/ m.type = "close" /\ OnClose(c)
    /\ UNCHANGED <<page, connections, history>>

-----------------------------------------------------------------------------
(* Entering and leaving the call.                                          *)

\* connectSignaling; sockets get their ids in the order they come, and the page
\* asks to join as soon as its socket is open.
connectSignaling(c) ==
    /\ page[c] = "lobby"
    /\ \A d \in Client : d < c => page[d] # "lobby"
    /\ page' = [page EXCEPT ![c] = "call"]
    /\ up' = [up EXCEPT ![c] = <<JoinFrame>>]
    /\ UNCHANGED <<down, room, connections, history>>

leave(c) ==
    /\ page[c] = "call"
    /\ c \in Departing
    /\ page' = [page EXCEPT ![c] = "left"]
    /\ up' = [up EXCEPT ![c] = Append(@, CloseFrame)]
    /\ down' = [down EXCEPT ![c] = <<>>]
    /\ pc' = [pc EXCEPT ![c] = [d \in Client |-> NoPeer]]
    /\ task' = [task EXCEPT ![c] = [d \in Client |-> "none"]]
    /\ loop' = [loop EXCEPT ![c] = <<>>]
    /\ UNCHANGED <<room, history>>

\* The link breaks; some of what the page sent still arrives.  The page has no
\* onclose handler and stays as it is.
LinkLost(c) ==
    /\ page[c] = "call"
    /\ c \in Departing
    /\ page' = [page EXCEPT ![c] = "cut"]
    /\ \E n \in 0 .. Len(up[c]) :
          up' = [up EXCEPT ![c] = Append(SubSeq(@, 1, n), CloseFrame)]
    /\ down' = [down EXCEPT ![c] = <<>>]
    /\ UNCHANGED <<room, connections, history>>

-----------------------------------------------------------------------------
(* The message handlers of a page, each up to its first await.             *)

NewPc == [local |-> FALSE, remote |-> FALSE, reaches |-> FALSE, told |-> FALSE]
getPeer(c, d) == IF pc[c][d] = NoPeer THEN NewPc ELSE pc[c][d]

\* Takes the frame of a given type off c's socket.
Receive(c, type) ==
    /\ page[c] = "call"
    /\ down[c] # <<>> /\ Head(down[c]).type = type
    /\ down' = [down EXCEPT ![c] = Tail(@)]

\* makeOffer up to its await, for the first of those to offer to.
StartOffer(c, todo) ==
    /\ loop' = [loop EXCEPT ![c] = todo]
    /\ IF todo = <<>>
       THEN UNCHANGED <<pc, task>>
       ELSE /\ pc' = [pc EXCEPT ![c][Head(todo)] = getPeer(c, Head(todo))]
            /\ task' = [task EXCEPT ![c][Head(todo)] = "offer"]

\* slip: the loop is left after its first peer
ReadJoined_first(c) ==
    /\ Receive(c, "joined")
    /\ StartOffer(c, IF Head(down[c]).peers = <<>> THEN <<>>
                     ELSE <<Head(Head(down[c]).peers)>>)
    /\ UNCHANGED <<page, up, room, history>>

ReadJoined(c) ==
    /\ Receive(c, "joined")
    /\ StartOffer(c, Head(down[c]).peers)
    /\ UNCHANGED <<page, up, room, history>>

\* slip: those who are there offer as well
ReadPeerJoined_offers(c) ==
    /\ Receive(c, "peer-joined")
    /\ loop[c] = <<>>
    /\ StartOffer(c, <<Head(down[c]).id>>)
    /\ UNCHANGED <<page, up, room, history>>

ReadPeerJoined(c) ==
    /\ Receive(c, "peer-joined")
    /\ UNCHANGED <<page, up, room, connections, history>>

\* The connection is closed, and if the loop awaits it, the loop ends there.
ReadPeerLeft(c) ==
    /\ Receive(c, "peer-left")
    /\ LET d == Head(down[c]).id
           current == loop[c] # <<>> /\ Head(loop[c]) = d
       IN  /\ pc' = [pc EXCEPT ![c][d] = NoPeer]
           /\ task' = [task EXCEPT ![c][d] = "none"]
           /\ loop' = [loop EXCEPT ![c] = IF current THEN <<>> ELSE @]
           /\ abandoned' = IF current
                           THEN [abandoned EXCEPT ![c] = ToSet(Tail(loop[c]))]
                           ELSE abandoned
           /\ missed' = IF ~current /\ d \in ToSet(loop[c])
                        THEN [missed EXCEPT ![c] = @ \cup {d}]
                        ELSE missed
    /\ UNCHANGED <<page, up, room>>

\* onSignal.  A candidate is taken if the remote description is set or is being
\* set before it, and is dropped with a warning otherwise.
Awaited(what) == IF what = "offer" THEN "remoteOffer" ELSE "remoteAnswer"

ReadSignal(c) ==
    /\ Receive(c, "signal")
    /\ LET d == Head(down[c]).from
           what == Head(down[c]).what
           p == getPeer(c, d)
           ready == p.remote \/ task[c][d] \in {"remoteOffer", "remoteAnswer"}
       IN  IF what = "candidate"
           THEN /\ pc' = [pc EXCEPT ![c][d] = [p EXCEPT !.reaches = @ \/ ready]]
                /\ UNCHANGED task
           ELSE /\ pc' = [pc EXCEPT ![c][d] = p]
                /\ task' = [task EXCEPT ![c][d] = Awaited(what)]
    /\ UNCHANGED <<page, up, room, loop, history>>

-----------------------------------------------------------------------------
(* The handlers after their awaits, and the candidates.                    *)

\* The offer is made and set; it is sent, and the next peer's turn comes.
OfferMade(c) ==
    /\ page[c] = "call"
    /\ loop[c] # <<>>
    /\ LET d == Head(loop[c])
           rest == Tail(loop[c])
           done == [pc[c] EXCEPT ![d].local = TRUE]
       IN  /\ task[c][d] = "offer"
           /\ up' = [up EXCEPT ![c] = Append(@, SignalTo(d, "offer"))]
           /\ loop' = [loop EXCEPT ![c] = rest]
           /\ IF rest = <<>>
              THEN /\ pc' = [pc EXCEPT ![c] = done]
                   /\ task' = [task EXCEPT ![c][d] = "none"]
              ELSE /\ pc' = [pc EXCEPT ![c] =
                               [done EXCEPT ![Head(rest)] = getPeer(c, Head(rest))]]
                   /\ task' = [task EXCEPT ![c][d] = "none",
                                           ![c][Head(rest)] = "offer"]
    /\ UNCHANGED <<page, down, room, history>>

\* setRemoteDescription is done: an offer is answered.
RemoteSet(c, d) ==
    /\ page[c] = "call"
    /\ task[c][d] \in {"remoteOffer", "remoteAnswer"}
    /\ pc' = [pc EXCEPT ![c][d].remote = TRUE]
    /\ task' = [task EXCEPT ![c][d] =
                  IF @ = "remoteOffer" THEN "answer" ELSE "none"]
    /\ UNCHANGED <<page, relay, loop, history>>

AnswerMade(c, d) ==
    /\ page[c] = "call"
    /\ task[c][d] = "answer"
    /\ pc' = [pc EXCEPT ![c][d].local = TRUE]
    /\ task' = [task EXCEPT ![c][d] = "none"]
    /\ up' = [up EXCEPT ![c] = Append(@, SignalTo(d, "answer"))]
    /\ UNCHANGED <<page, down, room, loop, history>>

\* pc.onicecandidate.
CanTell_early(c, d) == pc[c][d] # NoPeer     \* slip: candidates overtake the offer
CanTell(c, d) == pc[c][d] # NoPeer /\ pc[c][d].local

IceCandidate(c, d) ==
    /\ page[c] = "call"
    /\ c \in Trickling
    /\ CanTell(c, d)
    /\ ~pc[c][d].told
    /\ pc' = [pc EXCEPT ![c][d].told = TRUE]
    /\ up' = [up EXCEPT ![c] = Append(@, SignalTo(d, "candidate"))]
    /\ UNCHANGED <<page, down, room, task, loop, history>>

-----------------------------------------------------------------------------
MeshInit ==
    /\ page = [c \in Client |-> "lobby"]
    /\ up = [c \in Client |-> <<>>]
    /\ down = [c \in Client |-> <<>>]
    /\ room = <<>>
    /\ pc = [c \in Client |-> [d \in Client |-> NoPeer]]
    /\ task = [c \in Client |-> [d \in Client |-> "none"]]
    /\ loop = [c \in Client |-> <<>>]
    /\ missed = [c \in Client |-> {}]
    /\ abandoned = [c \in Client |-> {}]

Handle(c) ==
    \/ ReadJoined(c) \/ ReadPeerJoined(c) \/ ReadPeerLeft(c) \/ ReadSignal(c)
    \/ OfferMade(c)
    \/ \E d \in Client : RemoteSet(c, d) \/ AnswerMade(c, d)

MeshNext ==
    \E c \in Client :
        \/ Serve(c)
        \/ connectSignaling(c) \/ leave(c) \/ LinkLost(c)
        \/ Handle(c)
        \/ \E d \in Client : IceCandidate(c, d)

MeshSpec == MeshInit /\ [][MeshNext]_meshVars

\* The server's loop and each page's get to what is waiting for them, and the
\* browser finds a candidate.  Nobody has to join or to leave.
FairMesh ==
    /\ MeshSpec
    /\ \A c \in Client :
          /\ WF_meshVars(Serve(c))
          /\ WF_meshVars(Handle(c))
          /\ \A d \in Client : WF_meshVars(IceCandidate(c, d))

-----------------------------------------------------------------------------
(* Properties. *)

\* Every variable holds values of its type; nobody is in the room twice, and no
\* page is connected with itself.
MeshTypeOK ==
    /\ page \in [Client -> {"lobby", "call", "left", "cut"}]
    /\ room \in Seq(Client) /\ IsInjective(room)
    /\ pc \in [Client -> [Client -> Pc \cup {NoPeer}]]
    /\ task \in [Client -> [Client ->
          {"none", "offer", "remoteOffer", "answer", "remoteAnswer"}]]
    /\ loop \in [Client -> Seq(Client)]
    /\ \A c \in Client : pc[c][c] = NoPeer
    /\ DOMAIN up = Client /\ DOMAIN down = Client

\* "Glare is avoided by a simple rule: the newer participant initiates the
\* offer" (app.js:6): an offer always finds a connection that has no
\* description and makes none, an answer one that waits for it, and a candidate
\* one that will take it, so the warning of app.js:205 never comes.
Fits(c, d, what) ==
    LET fresh == pc[c][d] = NoPeer
    IN  CASE what = "offer" ->
               /\ fresh \/ ~(pc[c][d].local \/ pc[c][d].remote)
               /\ task[c][d] = "none"
          [] what = "answer" ->
               /\ ~fresh /\ pc[c][d].local /\ ~pc[c][d].remote
               /\ task[c][d] = "none"
          [] what = "candidate" ->
               ~fresh /\ (pc[c][d].remote
                            \/ task[c][d] \in {"remoteOffer", "remoteAnswer"})

SignalsFit ==
    \A c \in Client :
        page[c] = "call" /\ down[c] # <<>> /\ Head(down[c]).type = "signal" =>
            Fits(c, Head(down[c]).from, Head(down[c]).what)

\* "peer-left handles teardown; nothing required here" (app.js:173): a page in
\* the call keeps a connection to somebody who is gone only until the
\* peer-left comes, unless it came while the "joined" loop had not yet got to
\* that peer, who is then offered to all the same.
Leaving(c, d) == \E i \in DOMAIN down[c] : down[c][i] = PeerLeft(d)

PeersAreHere ==
    \A c, d \in Client :
        page[c] = "call" /\ pc[c][d] # NoPeer =>
            d \in ToSet(room) \/ Leaving(c, d) \/ d \in missed[c]

\* A page's connections are to pages of its room.
MeshInv == MeshTypeOK /\ PeersAreHere

\* c has both descriptions and, if d reports any, a candidate of d.
Linked(c, d) == /\ pc[c][d] # NoPeer
                /\ pc[c][d].local /\ pc[c][d].remote
                /\ d \in Trickling => pc[c][d].reaches

Together(c, d) == /\ {c, d} \subseteq ToSet(room)
                  /\ page[c] = "call" /\ page[d] = "call"

\* "Each participant connects directly to every other" (app.js:3): two pages
\* that stay in the room come to be linked, unless the loop of one broke off
\* before it came to the other.
PairsConnect ==
    \A d \in Client : \A c \in 1 .. d - 1 :
        Together(c, d) ~> \/ Linked(c, d) /\ Linked(d, c)
                          \/ ~Together(c, d)
                          \/ d \in abandoned[c] \/ c \in abandoned[d]
=============================================================================
