---------------------------- MODULE SignalingClient ----------------------------
(***************************************************************************)
(* SignalingClient.cpp as group_call.cpp uses it, up to the socket handler *)
(* of sfu-server/main.cpp that answers: the life of the link, and how each *)
(* side's ICE candidates come to the other over it.                        *)
(*                                                                         *)
(* Three threads use the client.  The owner calls connect and disconnect;  *)
(* the agent's thread (libjuice) reports candidates and sends them; the    *)
(* receive thread runs runRecvLoop and the callbacks.  A step is what one  *)
(* of them does between two reads or writes of connected_, stopping_, fd_  *)
(* or the link that another can see.                                       *)
(*                                                                         *)
(* The socket is external: frames arrive in order until the link is lost,  *)
(* with some prefix of what was under way.  So is uWebSockets' idleTimeout: *)
(* the server pings a link that says nothing, and closes it if it stays    *)
(* silent.  `undefined' says that the program has been terminated, by the  *)
(* assignment to a thread that is still joinable.                          *)
(***************************************************************************)
EXTENDS Naturals, Sequences

CONSTANTS
    Candidate,      \* the candidates of the client's agent
    MaxConnects,    \* bound: calls of connect
    MaxLosses,      \* bound: losses of a link
    MaxPings        \* bound: pings of the server

ASSUME ClientAssumption ==
    /\ Candidate # {}
    /\ MaxConnects \in Nat /\ MaxLosses \in Nat /\ MaxPings \in Nat

VARIABLES
    connected,  \* connected_
    stopping,   \* stopping_
    fd,         \* fd_ >= 0
    owner,      \* where the owner is in connect or disconnect
    recv,       \* where the receive thread is; "none" if there is none to join
    agent,      \* where the agent's thread is, and with which candidate
    gathered,   \* the candidates in localDescription()
    offer,      \* the description onJoined is about to send
    link,       \* "none", "up" or "down"
    toSfu,      \* frames under way to the server
    toClient,   \* frames under way to the client
    sfu,        \* the server's state of this connection
    hears,      \* the client's agent has the SFU's candidate
    budget,     \* connects, losses and pings so far
    quiet,      \* history: disconnect has returned, and no connect since
    undefined   \* the program has been terminated

client == <<connected, stopping, fd, owner, recv, agent, gathered, offer>>
wire == <<link, toSfu, toClient>>
server == <<sfu>>
vars == <<client, wire, server, hears, budget, quiet, undefined>>

-----------------------------------------------------------------------------
Join == [type |-> "join"]
Leave == [type |-> "leave"]
Offer(cands) == [type |-> "offer", cands |-> cands]
Ice(k) == [type |-> "ice", cand |-> k]
Joined == [type |-> "joined"]
Ping == [type |-> "ping"]
Answer(cand) == [type |-> "answer", cand |-> cand]
SfuIce == [type |-> "ice"]

NewSession == [joined |-> FALSE, knows |-> {}, gathered |-> FALSE,
               deferred |-> FALSE, silent |-> FALSE]

\* sendTextFrame after its check of fd_: what is written on a dead link is lost.
Written(frame) == IF link = "up" THEN Append(toSfu, frame) ELSE toSfu

\* sendMutex_ is free: only the agent's thread is ever seen inside.
MutexFree == agent.at # "writing"

-----------------------------------------------------------------------------
(* connect, on the owner's thread.                                         *)

\* The checks, the resets, and the socket with its handshake.  If there is no
\* socket fd_ stays as it was; if the handshake fails it is closed.
connect ==
    /\ ~undefined /\ owner = "idle" /\ ~connected
    /\ budget.connects < MaxConnects
    /\ budget' = [budget EXCEPT !.connects = @ + 1]
    /\ stopping' = FALSE
    /\ quiet' = FALSE
    /\ \/ /\ fd' = TRUE /\ link' = "up"
          /\ toSfu' = <<>> /\ toClient' = <<>>
          /\ sfu' = NewSession
          /\ owner' = "connecting"
       \/ /\ fd' \in {fd, FALSE}
          /\ UNCHANGED <<wire, server, owner>>
    /\ UNCHANGED <<connected, recv, agent, gathered, offer, hears, undefined>>

StoreConnected(from, to) ==
    /\ ~undefined /\ owner = from
    /\ owner' = to
    /\ connected' = TRUE
    /\ UNCHANGED <<stopping, fd, recv, agent, gathered, offer, wire, server, hears,
                   budget, quiet, undefined>>

\* recvThread_ is assigned: its old value must not be joinable.
StartThread(from, to) ==
    /\ ~undefined /\ owner = from
    /\ IF recv = "none"
       THEN recv' = "loop" /\ owner' = to /\ UNCHANGED undefined
       ELSE undefined' = TRUE /\ UNCHANGED <<recv, owner>>
    /\ UNCHANGED <<connected, stopping, fd, agent, gathered, offer, wire, server, hears,
                   budget, quiet>>

\* Slip: the thread is started first.
ConnectStep_swapped == \/ StartThread("connecting", "stored")
                       \/ StoreConnected("stored", "joining room")
ConnectStep == \/ StoreConnected("connecting", "stored")
               \/ StartThread("stored", "joining room")

\* A join that cannot be written takes the link down again.
SendJoin ==
    /\ ~undefined /\ owner = "joining room" /\ MutexFree
    /\ \/ /\ fd
          /\ toSfu' = Written(Join) /\ owner' = "idle"
       \/ /\ ~fd \/ link = "down"
          /\ owner' = "disconnect" /\ UNCHANGED toSfu
    /\ UNCHANGED <<connected, stopping, fd, recv, agent, gathered, offer, link, toClient,
                   server, hears, budget, quiet, undefined>>

-----------------------------------------------------------------------------
(* disconnect, on the owner's thread, as the destructor calls it too.       *)

disconnect ==
    /\ ~undefined /\ owner = "idle"
    /\ owner' = "disconnect"
    /\ UNCHANGED <<connected, stopping, fd, recv, agent, gathered, offer, wire, server,
                   hears, budget, quiet, undefined>>

\* stopping_.exchange(true); a leave is sent if the link seems to be there.
\* Whoever finds it set has only the thread to wait for.
Stop ==
    /\ ~undefined /\ owner = "disconnect"
    /\ stopping' = TRUE
    /\ owner' = IF stopping THEN "waiting"
                ELSE IF connected THEN "leaving" ELSE "closing"
    /\ UNCHANGED <<connected, fd, recv, agent, gathered, offer, wire, server, hears,
                   budget, quiet, undefined>>

SendLeave ==
    /\ ~undefined /\ owner = "leaving" /\ MutexFree
    /\ toSfu' = IF fd THEN Written(Leave) ELSE toSfu
    /\ owner' = "closing"
    /\ UNCHANGED <<connected, stopping, fd, recv, agent, gathered, offer, link, toClient,
                   server, hears, budget, quiet, undefined>>

\* closeSocket: the shutdown ends the receive loop's read.
closeSocket ==
    /\ fd' = FALSE
    /\ link' = IF fd /\ link = "up" THEN "down" ELSE link
    /\ toClient' = IF link' = "down" THEN <<>> ELSE toClient

Close ==
    /\ ~undefined /\ owner = "closing"
    /\ closeSocket
    /\ owner' = "joining"
    /\ UNCHANGED <<connected, stopping, recv, agent, gathered, offer, toSfu, server,
                   hears, budget, quiet, undefined>>

\* The thread is joined; with stopping_ found set, that is all there is to do.
Joinable_left == TRUE                        \* slip: nobody waits
Joinable == recv \in {"none", "ended"}

JoinThread ==
    /\ ~undefined /\ owner \in {"joining", "waiting"}
    /\ Joinable
    /\ recv' = IF recv = "ended" THEN "none" ELSE recv
    /\ connected' = IF owner = "joining" THEN FALSE ELSE connected
    /\ owner' = "idle"
    /\ quiet' = TRUE
    /\ UNCHANGED <<stopping, fd, agent, gathered, offer, wire, server, hears, budget,
                   undefined>>

-----------------------------------------------------------------------------
(* The agent's thread: onLocalCandidate calls sendIceCandidate.            *)

Gather(k) ==
    /\ ~undefined /\ agent.at = "idle" /\ k \notin gathered
    /\ gathered' = gathered \cup {k}
    /\ agent' = [at |-> "found", cand |-> k]
    /\ UNCHANGED <<connected, stopping, fd, owner, recv, offer, wire, server, hears,
                   budget, quiet, undefined>>

\* sendMessage refuses before and after the link; sendTextFrame looks at fd_.
CheckLink ==
    /\ ~undefined /\ agent.at = "found"
    /\ agent' = [agent EXCEPT !.at = IF connected /\ fd THEN "writing" ELSE "idle"]
    /\ UNCHANGED <<connected, stopping, fd, owner, recv, gathered, offer, wire, server,
                   hears, budget, quiet, undefined>>

WriteIce ==
    /\ ~undefined /\ agent.at = "writing"
    /\ toSfu' = Written(Ice(agent.cand))
    /\ agent' = [agent EXCEPT !.at = "idle"]
    /\ UNCHANGED <<connected, stopping, fd, owner, recv, gathered, offer, link, toClient,
                   server, hears, budget, quiet, undefined>>

-----------------------------------------------------------------------------
(* The receive thread.                                                     *)

\* stopping_ is looked at before each read.
NextFrame ==
    /\ ~undefined /\ recv = "loop" /\ ~stopping
    /\ recv' = "reading"
    /\ UNCHANGED <<connected, stopping, fd, owner, agent, gathered, offer, wire, server,
                   hears, budget, quiet, undefined>>

Received(type) ==
    /\ ~undefined /\ recv = "reading"
    /\ toClient # <<>> /\ Head(toClient).type = type
    /\ toClient' = Tail(toClient)

\* onJoined takes the description with what is gathered so far (which is taken
\* to succeed: group_call.cpp:198 sends nothing otherwise), ...
Snapshot_none == {}                          \* slip: the description of the start
Snapshot == gathered

OnJoined ==
    /\ Received("joined")
    /\ offer' = Snapshot
    /\ recv' = "offering"
    /\ UNCHANGED <<connected, stopping, fd, owner, agent, gathered, link, toSfu, server,
                   hears, budget, quiet, undefined>>

\* ... and sends it.
SendOffer ==
    /\ ~undefined /\ recv = "offering" /\ MutexFree
    /\ toSfu' = IF connected /\ fd THEN Written(Offer(offer)) ELSE toSfu
    /\ offer' = {}
    /\ recv' = "loop"
    /\ UNCHANGED <<connected, stopping, fd, owner, agent, gathered, link, toClient,
                   server, hears, budget, quiet, undefined>>

\* onAnswer and onIceCandidate hand what they are told to the agent.
OnAnswer ==
    /\ Received("answer")
    /\ hears' = (hears \/ Head(toClient).cand)
    /\ recv' = "loop"
    /\ UNCHANGED <<connected, stopping, fd, owner, agent, gathered, offer, link, toSfu,
                   server, budget, quiet, undefined>>

OnIce ==
    /\ Received("ice")
    /\ hears' = TRUE
    /\ recv' = "loop"
    /\ UNCHANGED <<connected, stopping, fd, owner, agent, gathered, offer, link, toSfu,
                   server, budget, quiet, undefined>>

\* "server pings are informational": no pong is sent.
OnPing ==
    /\ Received("ping")
    /\ recv' = "loop"
    /\ UNCHANGED <<connected, stopping, fd, owner, agent, gathered, offer, link, toSfu,
                   server, hears, budget, quiet, undefined>>

\* The loop ends when it is to stop or the link has nothing more to give.
EndLoop ==
    /\ ~undefined
    /\ \/ recv = "loop" /\ stopping
       \/ recv = "reading" /\ link = "down" /\ toClient = <<>>
    /\ connected' = FALSE
    /\ recv' = IF stopping THEN "ended" ELSE "reporting"
    /\ UNCHANGED <<stopping, fd, owner, agent, gathered, offer, wire, server, hears,
                   budget, quiet, undefined>>

\* onError, unless disconnect has come in between; the callback may itself call
\* disconnect, which on this thread does not wait for it.
Report ==
    /\ ~undefined /\ recv = "reporting"
    /\ \/ recv' = "ended" /\ UNCHANGED stopping
       \/ ~stopping /\ stopping' = TRUE /\ recv' = "closing"
    /\ UNCHANGED <<connected, fd, owner, agent, gathered, offer, wire, server, hears,
                   budget, quiet, undefined>>

Detached_joins == recv = "ended"             \* slip: it waits for itself
Detached == TRUE

CloseOwn ==
    /\ ~undefined /\ recv = "closing"
    /\ Detached
    /\ closeSocket
    /\ connected' = FALSE
    /\ recv' = "ended"
    /\ UNCHANGED <<stopping, owner, agent, gathered, offer, toSfu, server, hears, budget,
                   quiet, undefined>>

-----------------------------------------------------------------------------
(* The server, sfu-server/main.cpp, for this connection.                   *)

ToSfu(type) == /\ ~undefined /\ link = "up"
               /\ toSfu # <<>> /\ Head(toSfu).type = type
               /\ toSfu' = Tail(toSfu)

\* A join names a room, and the SFU's agent starts: of the answers "error" of
\* sfu-server/main.cpp:114, 155 and 173 the client only tells the user.
SfuJoin ==
    /\ ToSfu("join")
    /\ sfu' = [sfu EXCEPT !.joined = TRUE, !.silent = FALSE]
    /\ toClient' = IF sfu.joined THEN toClient ELSE Append(toClient, Joined)
    /\ UNCHANGED <<client, link, hears, budget, quiet, undefined>>

\* Whatever comes before the join is dropped.
SfuIceIn ==
    /\ ToSfu("ice")
    /\ sfu' = [sfu EXCEPT !.silent = FALSE,
                          !.knows = IF sfu.joined THEN @ \cup {Head(toSfu).cand} ELSE @]
    /\ UNCHANGED <<client, link, toClient, hears, budget, quiet, undefined>>

Reply == Answer(sfu.gathered)

SfuOffer ==
    /\ ToSfu("offer")
    /\ IF sfu.joined
       THEN /\ sfu' = [sfu EXCEPT !.silent = FALSE, !.knows = @ \cup Head(toSfu).cands]
            /\ toClient' = Append(toClient, Reply)
       ELSE sfu' = [sfu EXCEPT !.silent = FALSE] /\ UNCHANGED toClient
    /\ UNCHANGED <<client, link, hears, budget, quiet, undefined>>

SfuLeave ==
    /\ ToSfu("leave")
    /\ link' = IF sfu.joined THEN "down" ELSE link
    /\ UNCHANGED <<client, toClient, server, hears, budget, quiet, undefined>>

\* The SFU's agent finds a candidate, on the media thread, ...

SfuGather ==
    /\ ~undefined /\ link = "up" /\ sfu.joined /\ ~sfu.gathered
    /\ sfu' = [sfu EXCEPT !.gathered = TRUE, !.deferred = TRUE]
    /\ UNCHANGED <<client, wire, hears, budget, quiet, undefined>>

\* ... and the loop sends it.
SfuSendIce ==
    /\ ~undefined /\ link = "up" /\ sfu.deferred
    /\ sfu' = [sfu EXCEPT !.deferred = FALSE]
    /\ toClient' = Append(toClient, SfuIce)
    /\ UNCHANGED <<client, link, toSfu, hears, budget, quiet, undefined>>

\* idleTimeout of uWebSockets: a ping, and an end if nothing comes.
SendPing ==
    /\ ~undefined /\ link = "up" /\ toSfu = <<>> /\ ~sfu.silent
    /\ budget.pings < MaxPings
    /\ budget' = [budget EXCEPT !.pings = @ + 1]
    /\ sfu' = [sfu EXCEPT !.silent = TRUE]
    /\ toClient' = Append(toClient, Ping)
    /\ UNCHANGED <<client, link, toSfu, hears, quiet, undefined>>

IdleTimeout ==
    /\ ~undefined /\ link = "up" /\ toSfu = <<>> /\ sfu.silent
    /\ \A i \in DOMAIN toClient : toClient[i] # Ping
    /\ link' = "down"
    /\ UNCHANGED <<client, toSfu, toClient, server, hears, budget, quiet, undefined>>

\* The network loses the link, and some of what was under way.
LoseLink ==
    /\ ~undefined /\ link = "up" /\ budget.losses < MaxLosses
    /\ budget' = [budget EXCEPT !.losses = @ + 1]
    /\ link' = "down"
    /\ \E n \in 0 .. Len(toClient) : toClient' = SubSeq(toClient, 1, n)
    /\ UNCHANGED <<client, toSfu, server, hears, quiet, undefined>>

-----------------------------------------------------------------------------
Init ==
    /\ connected = FALSE /\ stopping = FALSE /\ fd = FALSE
    /\ owner = "idle" /\ recv = "none"
    /\ agent = [at |-> "idle", cand |-> CHOOSE k \in Candidate : TRUE]
    /\ gathered = {} /\ offer = {}
    /\ link = "none" /\ toSfu = <<>> /\ toClient = <<>>
    /\ sfu = NewSession /\ hears = FALSE
    /\ budget = [connects |-> 0, losses |-> 0, pings |-> 0]
    /\ quiet = FALSE /\ undefined = FALSE

OwnerStep == \/ ConnectStep \/ SendJoin
             \/ Stop \/ SendLeave \/ Close \/ JoinThread
RecvStep == \/ NextFrame \/ OnJoined \/ SendOffer \/ OnAnswer \/ OnIce \/ OnPing
            \/ EndLoop \/ Report \/ CloseOwn
AgentStep == CheckLink \/ WriteIce
SfuStep == \/ SfuJoin \/ SfuIceIn \/ SfuOffer \/ SfuLeave \/ SfuSendIce

Next == \/ connect \/ disconnect
        \/ OwnerStep \/ RecvStep \/ AgentStep \/ SfuStep
        \/ \E k \in Candidate : Gather(k)
        \/ SfuGather \/ SendPing \/ IdleTimeout \/ LoseLink

Spec == Init /\ [][Next]_vars

\* The threads go on with what they have begun and the server's loop reads what
\* has come.  Nobody has to connect, and no agent has to find anything.
FairSpec == Spec /\ WF_vars(OwnerStep) /\ WF_vars(RecvStep)
                 /\ WF_vars(AgentStep) /\ WF_vars(SfuStep)

-----------------------------------------------------------------------------
(* Properties. *)

\* Every variable holds values of its type.
TypeOK ==
    /\ {connected, stopping, fd, hears, quiet, undefined} \subseteq BOOLEAN
    /\ owner \in {"idle", "connecting", "stored", "joining room", "disconnect",
                  "leaving", "closing", "joining", "waiting"}
    /\ recv \in {"none", "loop", "reading", "offering", "reporting", "closing", "ended"}
    /\ agent \in [at : {"idle", "found", "writing"}, cand : Candidate]
    /\ gathered \in SUBSET Candidate /\ offer \in SUBSET gathered
    /\ link \in {"none", "up", "down"}
    /\ sfu.knows \in SUBSET gathered
    /\ \A i \in DOMAIN toSfu : toSfu[i].type \in {"join", "leave", "offer", "ice"}
    /\ \A i \in DOMAIN toClient : toClient[i].type \in {"joined", "answer", "ice", "ping"}

\* "True once connect() has succeeded and the link is still up"
\* (SignalingClient.h:91): whenever the owner is in neither call, connected_
\* has a receive thread behind it that has not ended, and that will take it
\* back.  The order of store and start in connect decides it.
ConnectedIsTended ==
    ~undefined /\ owner = "idle" /\ connected =>
        recv \in {"loop", "reading", "offering"}

\* The client knows its link, whichever thread looks.
LinkInv == TypeOK /\ ConnectedIsTended

\* When disconnect has returned to the owner no callback runs and none comes
\* until the next connect, though the thread may have ended by itself or called
\* disconnect in onError: what the callbacks use may be destroyed
\* (SignalingClient.h:86).
SilentAfterDisconnect == quiet => recv = "none"

\* Each candidate of the client is known to the SFU, in the offer or by its own
\* frame, as long as the link is there, whether the agent found it before the
\* link, while connect ran, or between onJoined's snapshot and its offer
\* (group_call.cpp:171, :195); one sent before the join was read is dropped, and
\* must be in the offer.
Usable == link = "up" /\ owner = "idle" /\ connected

OffersReach ==
    \A k \in Candidate : k \in gathered /\ Usable ~> k \in sfu.knows \/ ~Usable \/ undefined

\* The same the other way: a candidate that the SFU's agent found is in the
\* answer, or comes after it.
AnswersReach == sfu.gathered /\ Usable ~> hears \/ ~Usable \/ undefined

\* The candidates of both agents come to the other.
CandidatesReach == OffersReach /\ AnswersReach

\* disconnect returns, "safe to call repeatedly" (SignalingClient.h:85): the
\* receive loop does not sleep in its read when its socket is closed.
DisconnectReturns ==
    owner \in {"disconnect", "leaving", "closing", "joining", "waiting"}
        ~> owner = "idle" \/ undefined

\* A link that is lost is noticed: connected_ is taken back.
LossNoticed == link = "down" /\ connected ~> ~connected \/ undefined

\* The end of a link is seen through on the client's side, whoever began it.
LinkEnds == DisconnectReturns /\ LossNoticed
=============================================================================
