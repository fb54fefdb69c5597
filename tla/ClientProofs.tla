---------------------------- MODULE ClientProofs ----------------------------
(***************************************************************************)
(* The two clients.                                                        *)
(*                                                                         *)
(* SignalingClient: three threads and a link that may be lost at any time: *)
(* the client knows its link, and is silent once disconnect has returned,  *)
(* for any number of connects, losses and candidates.                      *)
(*                                                                         *)
(* BrowserMesh: any number of pages.  What two pages may find themselves   *)
(* in the middle of is the invariant Pair, over the four streams between   *)
(* them; first come the facts on streams that every action needs, then one *)
(* lemma for each action.                                                  *)
(***************************************************************************)
EXTENDS SignalingClient, BrowserMesh, SequenceTheorems, TLAPS

-----------------------------------------------------------------------------
(* The native client.                                                      *)

Tended == {"loop", "reading", "offering"}

\* ConnectedIsTended speaks of an idle owner; inductive is the same at every
\* point of the owner's calls but one, between the two stores of connect.
TendedInv == ~undefined /\ connected => owner = "stored" \/ recv \in Tended

\* No thread is started before quiet has been taken back.
SilentInv ==
    /\ SilentAfterDisconnect
    /\ owner \in {"connecting", "stored"} => ~quiet

-----------------------------------------------------------------------------
LEMMA TendedStep == TendedInv /\ [Next]_vars => TendedInv'
<1>. SUFFICES ASSUME TendedInv, [Next]_vars PROVE TendedInv'
  OBVIOUS
<1>. USE DEF TendedInv, Tended
<1>1. CASE connect \/ disconnect
  BY <1>1 DEF connect, disconnect
<1>2. CASE ConnectStep
  BY <1>2 DEF ConnectStep, StoreConnected, StartThread
<1>3. CASE SendJoin \/ Stop \/ SendLeave
  BY <1>3 DEF SendJoin, Stop, SendLeave
<1>4. CASE Close
  BY <1>4 DEF Close, closeSocket
<1>5. CASE JoinThread
  BY <1>5 DEF JoinThread, Joinable
<1>6. CASE NextFrame \/ OnJoined \/ SendOffer \/ OnAnswer \/ OnIce \/ OnPing
  BY <1>6 DEF NextFrame, OnJoined, SendOffer, OnAnswer, OnIce, OnPing, Received
<1>7. CASE EndLoop \/ Report \/ CloseOwn
  BY <1>7 DEF EndLoop, Report, CloseOwn
<1>8. CASE AgentStep \/ \E k \in Candidate : Gather(k)
  BY <1>8 DEF AgentStep, CheckLink, WriteIce, Gather
<1>9. CASE SfuStep
  BY <1>9 DEF SfuStep, SfuJoin, SfuIceIn, SfuOffer, SfuLeave, SfuSendIce, client
<1>10. CASE SfuGather \/ SendPing \/ IdleTimeout \/ LoseLink
  BY <1>10 DEF SfuGather, SendPing, IdleTimeout, LoseLink, client
<1>11. CASE UNCHANGED vars
  BY <1>11 DEF vars, client
<1>. QED
  BY <1>1, <1>2, <1>3, <1>4, <1>5, <1>6, <1>7, <1>8, <1>9, <1>10, <1>11
     DEF Next, OwnerStep, RecvStep

LEMMA SilentStep == SilentInv /\ [Next]_vars => SilentInv'
<1>. SUFFICES ASSUME SilentInv, [Next]_vars PROVE SilentInv'
  OBVIOUS
<1>. USE DEF SilentInv, SilentAfterDisconnect
<1>1. CASE connect \/ disconnect
  <2>1. CASE connect
    <3>1. ~quiet'
      BY <2>1 DEF connect
    <3>. QED
      BY <3>1
  <2>2. CASE disconnect
    BY <2>2 DEF disconnect
  <2>. QED
    BY <1>1, <2>1, <2>2
<1>2. CASE ConnectStep
  <2>1. CASE StoreConnected("connecting", "stored")
    BY <2>1 DEF StoreConnected
  <2>2. CASE StartThread("stored", "joining room")
    BY <2>2 DEF StartThread
  <2>. QED
    BY <1>2, <2>1, <2>2 DEF ConnectStep
<1>3. CASE SendJoin \/ Stop \/ SendLeave
  <2>1. CASE SendJoin
    BY <2>1 DEF SendJoin
  <2>2. CASE Stop
    BY <2>2 DEF Stop
  <2>3. CASE SendLeave
    BY <2>3 DEF SendLeave
  <2>. QED
    BY <1>3, <2>1, <2>2, <2>3
<1>4. CASE Close
  BY <1>4 DEF Close, closeSocket
<1>5. CASE JoinThread
  BY <1>5 DEF JoinThread, Joinable
<1>6. CASE NextFrame \/ OnJoined \/ SendOffer \/ OnAnswer \/ OnIce \/ OnPing
  BY <1>6 DEF NextFrame, OnJoined, SendOffer, OnAnswer, OnIce, OnPing, Received
<1>7. CASE EndLoop \/ Report \/ CloseOwn
  BY <1>7 DEF EndLoop, Report, CloseOwn
<1>8. CASE AgentStep \/ \E k \in Candidate : Gather(k)
  BY <1>8 DEF AgentStep, CheckLink, WriteIce, Gather
<1>9. CASE SfuStep
  BY <1>9 DEF SfuStep, SfuJoin, SfuIceIn, SfuOffer, SfuLeave, SfuSendIce, client
<1>10. CASE SfuGather \/ SendPing \/ IdleTimeout \/ LoseLink
  BY <1>10 DEF SfuGather, SendPing, IdleTimeout, LoseLink, client
<1>11. CASE UNCHANGED vars
  BY <1>11 DEF vars, client
<1>. QED
  BY <1>1, <1>2, <1>3, <1>4, <1>5, <1>6, <1>7, <1>8, <1>9, <1>10, <1>11
     DEF Next, OwnerStep, RecvStep

-----------------------------------------------------------------------------
(* Types.  The candidates in a frame under way are ones the agent has found. *)

Session == [joined : BOOLEAN, knows : SUBSET gathered, gathered : BOOLEAN,
            deferred : BOOLEAN, silent : BOOLEAN]

UpFrame(known) ==
    {Join, Leave} \cup {Offer(cands) : cands \in SUBSET known} \cup {Ice(k) : k \in known}

DownFrame == {Joined, Ping, SfuIce} \cup {Answer(b) : b \in BOOLEAN}

ClientTypes ==
    /\ connected \in BOOLEAN /\ stopping \in BOOLEAN /\ fd \in BOOLEAN
    /\ hears \in BOOLEAN /\ quiet \in BOOLEAN /\ undefined \in BOOLEAN
    /\ owner \in {"idle", "connecting", "stored", "joining room", "disconnect",
                  "leaving", "closing", "joining", "waiting"}
    /\ recv \in {"none", "loop", "reading", "offering", "reporting", "closing", "ended"}
    /\ link \in {"none", "up", "down"}

CandidateTypes ==
    /\ agent \in [at : {"idle", "found", "writing"}, cand : Candidate]
    /\ agent.at # "idle" => agent.cand \in gathered
    /\ gathered \in SUBSET Candidate /\ offer \in SUBSET gathered
    /\ sfu \in Session
    /\ toSfu \in Seq(UpFrame(gathered))
    /\ toClient \in Seq(DownFrame)

LEMMA UpFrames ==
    ASSUME NEW known, NEW f \in UpFrame(known)
    PROVE  /\ f.type \in {"join", "leave", "offer", "ice"}
           /\ f.type = "offer" => f.cands \in SUBSET known
           /\ f.type = "ice" => f.cand \in known
BY DEF UpFrame, Join, Leave, Offer, Ice

LEMMA DownFrames ==
    ASSUME NEW f \in DownFrame
    PROVE  /\ f.type \in {"joined", "answer", "ice", "ping"}
           /\ f.type = "answer" => f.cand \in BOOLEAN
BY DEF DownFrame, Joined, Ping, SfuIce, Answer

LEMMA MoreFrames ==
    ASSUME NEW S, NEW T, S \subseteq T, NEW s \in Seq(S)
    PROVE  s \in Seq(T)
OBVIOUS

\* Frames are appended to and taken from the two streams, or lost.
LEMMA Streams ==
    ASSUME NEW S, NEW s \in Seq(S), NEW f \in S
    PROVE  /\ Append(s, f) \in Seq(S)
           /\ s # <<>> => Head(s) \in S /\ Tail(s) \in Seq(S)
OBVIOUS

LEMMA NoFrames == \A S : <<>> \in Seq(S)
OBVIOUS

LEMMA FramePrefixes ==
    ASSUME NEW S, NEW s \in Seq(S), NEW n \in 0 .. Len(s)
    PROVE  SubSeq(s, 1, n) \in Seq(S)
OBVIOUS

LEMMA TypesSuffice == ClientTypes /\ CandidateTypes => TypeOK
<1>. SUFFICES ASSUME ClientTypes, CandidateTypes PROVE TypeOK
  OBVIOUS
<1>1. \A i \in DOMAIN toSfu : toSfu[i].type \in {"join", "leave", "offer", "ice"}
  BY UpFrames DEF CandidateTypes
<1>2. \A i \in DOMAIN toClient : toClient[i].type \in {"joined", "answer", "ice", "ping"}
  BY DownFrames DEF CandidateTypes
<1>3. sfu.knows \in SUBSET gathered
  BY DEF CandidateTypes, Session
<1>. QED
  BY <1>1, <1>2, <1>3 DEF ClientTypes, CandidateTypes, TypeOK

LEMMA InitTypes == Init => ClientTypes /\ CandidateTypes
<1>. SUFFICES ASSUME Init PROVE ClientTypes /\ CandidateTypes
  OBVIOUS
<1>1. (CHOOSE k \in Candidate : TRUE) \in Candidate
  BY ClientAssumption
<1>2. sfu \in Session
  BY DEF Init, Session, NewSession
<1>3. ClientTypes
  BY DEF Init, ClientTypes
<1>4. agent \in [at : {"idle", "found", "writing"}, cand : Candidate]
  BY <1>1 DEF Init
<1>5. CandidateTypes
  BY <1>2, <1>4 DEF Init, CandidateTypes
<1>. QED
  BY <1>3, <1>5

LEMMA TypesStay ==
    ASSUME ClientTypes, UNCHANGED <<client, hears, quiet, undefined>>,
           link' = link \/ link' = "down"
    PROVE  ClientTypes'
<1>1. UNCHANGED <<connected, stopping, fd, owner, recv, hears, quiet, undefined>>
  BY DEF client
<1>2. link' \in {"none", "up", "down"}
  BY DEF ClientTypes
<1>. QED
  BY <1>1, <1>2 DEF ClientTypes

LEMMA ClientTypesStep ==
    ASSUME ClientTypes, CandidateTypes, [Next]_vars
    PROVE  ClientTypes'
<1>. USE DEF ClientTypes
<1>1. CASE connect \/ disconnect
  BY <1>1 DEF connect, disconnect, wire
<1>2. CASE ConnectStep
  BY <1>2 DEF ConnectStep, StoreConnected, StartThread, wire
<1>3. CASE SendJoin \/ Stop \/ SendLeave
  BY <1>3 DEF SendJoin, Stop, SendLeave, wire
<1>4. CASE Close
  BY <1>4 DEF Close, closeSocket
<1>5. CASE JoinThread
  BY <1>5 DEF JoinThread, Joinable, wire
<1>6. CASE NextFrame \/ OnJoined \/ SendOffer \/ OnPing
  <2>1. CASE NextFrame
    BY <2>1 DEF NextFrame, wire
  <2>2. CASE OnJoined
    BY <2>2 DEF OnJoined, Received
  <2>3. CASE SendOffer
    BY <2>3 DEF SendOffer, wire
  <2>4. CASE OnPing
    BY <2>4 DEF OnPing, Received
  <2>. QED
    BY <1>6, <2>1, <2>2, <2>3, <2>4
<1>7. CASE OnAnswer \/ OnIce
  <2>1. CASE OnAnswer
    <3>1. Head(toClient) \in DownFrame /\ Head(toClient).type = "answer"
      <4>1. toClient \in Seq(DownFrame) /\ toClient # <<>>
        BY <2>1 DEF OnAnswer, Received, CandidateTypes
      <4>2. Joined \in DownFrame
        BY DEF DownFrame
      <4>. QED
        BY <2>1, <4>1, <4>2, Streams DEF OnAnswer, Received
    <3>2. Head(toClient).cand \in BOOLEAN
      BY <3>1, DownFrames
    <3>. QED
      BY <2>1, <3>2 DEF OnAnswer, Received
  <2>2. CASE OnIce
    BY <2>2 DEF OnIce, Received
  <2>. QED
    BY <1>7, <2>1, <2>2
<1>8. CASE EndLoop \/ Report \/ CloseOwn
  <2>1. CASE EndLoop
    BY <2>1 DEF EndLoop, wire
  <2>2. CASE Report
    BY <2>2 DEF Report, wire
  <2>3. CASE CloseOwn
    BY <2>3 DEF CloseOwn, closeSocket
  <2>. QED
    BY <1>8, <2>1, <2>2, <2>3
<1>9. CASE AgentStep \/ \E k \in Candidate : Gather(k)
  <2>1. CASE CheckLink
    BY <2>1 DEF CheckLink, wire
  <2>2. CASE WriteIce
    BY <2>2 DEF WriteIce
  <2>3. ASSUME NEW k \in Candidate, Gather(k) PROVE ClientTypes'
    BY <2>3 DEF Gather, wire
  <2>. QED
    BY <1>9, <2>1, <2>2, <2>3 DEF AgentStep
<1>10. CASE SfuStep \/ SfuGather \/ SendPing \/ IdleTimeout \/ LoseLink
  <2>. HIDE DEF ClientTypes
  <2>1. CASE SfuJoin
    <3>1. UNCHANGED <<client, hears, quiet, undefined>> /\ link' = link
      BY <2>1 DEF SfuJoin
    <3>. QED
      BY <3>1, TypesStay
  <2>2. CASE SfuIceIn
    <3>1. UNCHANGED <<client, hears, quiet, undefined>> /\ link' = link
      BY <2>2 DEF SfuIceIn
    <3>. QED
      BY <3>1, TypesStay
  <2>3. CASE SfuOffer
    <3>1. UNCHANGED <<client, hears, quiet, undefined>> /\ link' = link
      BY <2>3 DEF SfuOffer
    <3>. QED
      BY <3>1, TypesStay
  <2>4. CASE SfuSendIce
    <3>1. UNCHANGED <<client, hears, quiet, undefined>> /\ link' = link
      BY <2>4 DEF SfuSendIce
    <3>. QED
      BY <3>1, TypesStay
  <2>5. CASE SfuLeave
    <3>1. UNCHANGED <<client, hears, quiet, undefined>> /\ (link' = link \/ link' = "down")
      BY <2>5 DEF SfuLeave
    <3>. QED
      BY <3>1, TypesStay
  <2>6. CASE SfuGather
    <3>1. UNCHANGED <<client, hears, quiet, undefined>> /\ link' = link
      BY <2>6 DEF SfuGather, wire
    <3>. QED
      BY <3>1, TypesStay
  <2>7. CASE SendPing
    <3>1. UNCHANGED <<client, hears, quiet, undefined>> /\ link' = link
      BY <2>7 DEF SendPing
    <3>. QED
      BY <3>1, TypesStay
  <2>8. CASE IdleTimeout
    <3>1. UNCHANGED <<client, hears, quiet, undefined>> /\ link' = "down"
      BY <2>8 DEF IdleTimeout
    <3>. QED
      BY <3>1, TypesStay
  <2>9. CASE LoseLink
    <3>1. UNCHANGED <<client, hears, quiet, undefined>> /\ link' = "down"
      BY <2>9 DEF LoseLink
    <3>. QED
      BY <3>1, TypesStay
  <2>. QED
    BY <1>10, <2>1, <2>2, <2>3, <2>4, <2>5, <2>6, <2>7, <2>8, <2>9 DEF SfuStep
<1>11. CASE UNCHANGED vars
  <2>1. UNCHANGED <<client, hears, quiet, undefined>> /\ link' = link
    BY <1>11 DEF vars, wire
  <2>. QED
    BY <2>1, TypesStay
<1>. HIDE DEF ClientTypes
<1>. QED
  BY <1>1, <1>2, <1>3, <1>4, <1>5, <1>6, <1>7, <1>8, <1>9, <1>10, <1>11
     DEF Next, OwnerStep, RecvStep

LEMMA CandidateTypesStep ==
    ASSUME ClientTypes, CandidateTypes, [Next]_vars
    PROVE  CandidateTypes'
<1>. USE DEF CandidateTypes
<1>1. /\ Join \in UpFrame(gathered) /\ Leave \in UpFrame(gathered)
      /\ \A c \in SUBSET gathered : Offer(c) \in UpFrame(gathered)
      /\ \A k \in gathered : Ice(k) \in UpFrame(gathered)
  BY DEF UpFrame
<1>2. /\ Joined \in DownFrame /\ Ping \in DownFrame /\ SfuIce \in DownFrame
      /\ \A b \in BOOLEAN : Answer(b) \in DownFrame
  BY DEF DownFrame
<1>3. \A f \in UpFrame(gathered) : Append(toSfu, f) \in Seq(UpFrame(gathered))
  BY Streams
<1>4. \A f \in DownFrame : Append(toClient, f) \in Seq(DownFrame)
  BY Streams
<1>5. toSfu # <<>> => Head(toSfu) \in UpFrame(gathered) /\ Tail(toSfu) \in Seq(UpFrame(gathered))
  BY <1>1, Streams
<1>6. toClient # <<>> => Head(toClient) \in DownFrame /\ Tail(toClient) \in Seq(DownFrame)
  BY <1>2, Streams
<1>7. \A f \in UpFrame(gathered) : Written(f) \in Seq(UpFrame(gathered))
  BY <1>3 DEF Written
<1>8. CASE connect
  <2>1. NewSession \in Session
    BY DEF NewSession, Session
  <2>2. UNCHANGED <<agent, gathered, offer>> /\ Session' = Session
    BY <1>8 DEF connect, Session
  <2>3. sfu' \in Session /\ toSfu' \in Seq(UpFrame(gathered)) /\ toClient' \in Seq(DownFrame)
    <3>1. CASE sfu' = NewSession /\ toSfu' = <<>> /\ toClient' = <<>>
      BY <2>1, <3>1
    <3>2. CASE UNCHANGED <<sfu, toSfu, toClient>>
      BY <3>2
    <3>. QED
      BY <1>8, <3>1, <3>2 DEF connect, wire, server
  <2>. QED
    BY <2>2, <2>3
<1>9. CASE UNCHANGED <<agent, gathered, offer, sfu>> /\ toSfu' \in Seq(UpFrame(gathered))
           /\ toClient' \in Seq(DownFrame)
  BY <1>9 DEF Session
<1>10. ASSUME disconnect \/ ConnectStep \/ Stop \/ JoinThread \/ NextFrame \/ EndLoop \/ Report
       PROVE  CandidateTypes'
  <2>1. UNCHANGED <<agent, gathered, offer, sfu, toSfu, toClient>>
    BY <1>10 DEF disconnect, ConnectStep, StoreConnected, StartThread, Stop, JoinThread,
       NextFrame, EndLoop, Report, wire, server
  <2>. QED
    BY <1>9, <2>1
<1>11. ASSUME SendJoin \/ SendLeave PROVE CandidateTypes'
  <2>1. UNCHANGED <<agent, gathered, offer, sfu, toClient>>
    BY <1>11 DEF SendJoin, SendLeave, server
  <2>2. toSfu' \in Seq(UpFrame(gathered))
    BY <1>1, <1>7, <1>11 DEF SendJoin, SendLeave
  <2>. QED
    BY <1>9, <2>1, <2>2
<1>12. ASSUME Close \/ CloseOwn PROVE CandidateTypes'
  <2>1. UNCHANGED <<agent, gathered, offer, sfu, toSfu>>
    BY <1>12 DEF Close, CloseOwn, server
  <2>2. toClient' = toClient \/ toClient' = <<>>
    BY <1>12 DEF Close, CloseOwn, closeSocket
  <2>3. toClient' \in Seq(DownFrame)
    BY <2>2, NoFrames
  <2>4. toSfu' \in Seq(UpFrame(gathered))
    BY <2>1
  <2>. QED
    BY <1>9, <2>1, <2>3, <2>4
<1>13. ASSUME OnAnswer \/ OnIce \/ OnPing PROVE CandidateTypes'
  <2>1. UNCHANGED <<agent, gathered, offer, sfu, toSfu>>
    BY <1>13 DEF OnAnswer, OnIce, OnPing, server
  <2>2. toClient' \in Seq(DownFrame)
    BY <1>6, <1>13 DEF OnAnswer, OnIce, OnPing, Received
  <2>. QED
    BY <1>9, <2>1, <2>2
<1>14. CASE OnJoined
  <2>1. UNCHANGED <<agent, gathered, sfu, toSfu>> /\ offer' = gathered /\ Session' = Session
    BY <1>14 DEF OnJoined, Snapshot, server, Session
  <2>2. toClient' \in Seq(DownFrame)
    BY <1>6, <1>14 DEF OnJoined, Received
  <2>. QED
    BY <2>1, <2>2
<1>15. CASE SendOffer
  <2>1. UNCHANGED <<agent, gathered, sfu, toClient>> /\ offer' = {} /\ Session' = Session
    BY <1>15 DEF SendOffer, server, Session
  <2>2. toSfu' \in Seq(UpFrame(gathered))
    BY <1>1, <1>7, <1>15 DEF SendOffer
  <2>. QED
    BY <2>1, <2>2
<1>16. CASE CheckLink
  <2>1. UNCHANGED <<gathered, offer, sfu, toSfu, toClient>> /\ Session' = Session
    BY <1>16 DEF CheckLink, wire, server, Session
  <2>2. /\ agent.cand \in gathered /\ agent'.cand = agent.cand
        /\ agent' \in [at : {"idle", "found", "writing"}, cand : Candidate]
    BY <1>16 DEF CheckLink
  <2>. QED
    BY <2>1, <2>2
<1>17. CASE WriteIce
  <2>1. UNCHANGED <<gathered, offer, sfu, toClient>> /\ Session' = Session
    BY <1>17 DEF WriteIce, server, Session
  <2>2. /\ agent.cand \in gathered /\ agent'.at = "idle"
        /\ agent' \in [at : {"idle", "found", "writing"}, cand : Candidate]
    BY <1>17 DEF WriteIce
  <2>3. toSfu' \in Seq(UpFrame(gathered))
    BY <1>1, <1>7, <1>17, <2>2 DEF WriteIce
  <2>. QED
    BY <2>1, <2>2, <2>3
<1>18. ASSUME NEW k \in Candidate, Gather(k) PROVE CandidateTypes'
  <2>1. /\ gathered' = gathered \cup {k} /\ agent' = [at |-> "found", cand |-> k]
        /\ UNCHANGED <<offer, sfu, toSfu, toClient>>
    BY <1>18 DEF Gather, wire, server
  <2>2. sfu' \in Session'
    BY <2>1 DEF Session
  <2>3. UpFrame(gathered) \subseteq UpFrame(gathered')
    BY <2>1 DEF UpFrame
  <2>4. toSfu' \in Seq(UpFrame(gathered'))
    BY <2>1, <2>3, MoreFrames
  <2>. QED
    BY <2>1, <2>2, <2>4
<1>19. ASSUME SfuJoin \/ SfuIceIn \/ SfuOffer \/ SfuLeave PROVE CandidateTypes'
  <2>1. /\ UNCHANGED <<agent, gathered, offer>> /\ Session' = Session
        /\ toSfu # <<>> /\ toSfu' = Tail(toSfu)
    BY <1>19 DEF SfuJoin, SfuIceIn, SfuOffer, SfuLeave, ToSfu, client, Session
  <2>2. /\ Head(toSfu).type = "offer" => Head(toSfu).cands \in SUBSET gathered
        /\ Head(toSfu).type = "ice" => Head(toSfu).cand \in gathered
    BY <1>5, <2>1, UpFrames
  <2>3. sfu' \in Session
    <3>1. CASE SfuJoin
      BY <3>1 DEF SfuJoin, Session
    <3>2. CASE SfuIceIn
      <4>1. Head(toSfu).cand \in gathered
        BY <2>2, <3>2 DEF SfuIceIn, ToSfu
      <4>2. PICK knows \in SUBSET gathered :
               sfu' = [sfu EXCEPT !.silent = FALSE, !.knows = knows]
        <5>1. sfu.knows \in SUBSET gathered
          BY DEF Session
        <5>. QED
          BY <3>2, <4>1, <5>1 DEF SfuIceIn
      <4>. QED
        BY <4>2 DEF Session
    <3>3. CASE SfuOffer
      <4>1. Head(toSfu).cands \in SUBSET gathered
        BY <2>2, <3>3 DEF SfuOffer, ToSfu
      <4>. QED
        BY <3>3, <4>1 DEF SfuOffer, Session
    <3>4. CASE SfuLeave
      BY <3>4 DEF SfuLeave, server
    <3>. QED
      BY <1>19, <3>1, <3>2, <3>3, <3>4
  <2>4. toClient' \in Seq(DownFrame)
    <3>1. Reply \in DownFrame
      BY <1>2 DEF Reply, Session
    <3>2. CASE SfuJoin
      <4>1. toClient' = toClient \/ toClient' = Append(toClient, Joined)
        BY <3>2 DEF SfuJoin
      <4>. QED
        BY <1>2, <1>4, <4>1
    <3>3. CASE SfuIceIn \/ SfuLeave
      BY <3>3 DEF SfuIceIn, SfuLeave
    <3>4. CASE SfuOffer
      <4>1. toClient' = toClient \/ toClient' = Append(toClient, Reply)
        BY <3>4 DEF SfuOffer
      <4>. QED
        BY <1>4, <3>1, <4>1
    <3>. QED
      BY <1>19, <3>2, <3>3, <3>4
  <2>. QED
    BY <1>5, <2>1, <2>3, <2>4
<1>20. ASSUME SfuSendIce \/ SfuGather \/ SendPing PROVE CandidateTypes'
  <2>1. UNCHANGED <<agent, gathered, offer, toSfu>> /\ Session' = Session
    BY <1>20 DEF SfuSendIce, SfuGather, SendPing, client, wire, Session
  <2>2. sfu' \in Session
    BY <1>20 DEF SfuSendIce, SfuGather, SendPing, Session
  <2>3. toClient' \in Seq(DownFrame)
    BY <1>2, <1>4, <1>20 DEF SfuSendIce, SfuGather, SendPing, wire
  <2>. QED
    BY <2>1, <2>2, <2>3
<1>21. ASSUME IdleTimeout \/ LoseLink PROVE CandidateTypes'
  <2>1. UNCHANGED <<agent, gathered, offer, sfu, toSfu>>
    BY <1>21 DEF IdleTimeout, LoseLink, client, server
  <2>2. toClient' \in Seq(DownFrame)
    <3>1. CASE IdleTimeout
      BY <3>1 DEF IdleTimeout
    <3>2. CASE LoseLink
      <4>1. PICK n \in 0 .. Len(toClient) : toClient' = SubSeq(toClient, 1, n)
        BY <3>2 DEF LoseLink
      <4>. QED
        BY <4>1, FramePrefixes
    <3>. QED
      BY <1>21, <3>1, <3>2
  <2>. QED
    BY <1>9, <2>1, <2>2
<1>22. CASE UNCHANGED vars
  <2>1. UNCHANGED <<agent, gathered, offer, sfu, toSfu, toClient>>
    BY <1>22 DEF vars, client, wire, server
  <2>. QED
    BY <1>9, <2>1
<1>. QED
  BY <1>8, <1>10, <1>11, <1>12, <1>13, <1>14, <1>15, <1>16, <1>17, <1>18, <1>19, <1>20,
     <1>21, <1>22 DEF Next, OwnerStep, RecvStep, AgentStep, SfuStep

-----------------------------------------------------------------------------
\* Whenever the owner is in neither call, connected_ has a receive thread behind
\* it that will take it back: what the order of store and start in connect is
\* for (SignalingClient.cpp:206, SignalingClient.h:91).
THEOREM ConnectedIsTrue == Spec => []LinkInv
<1>1. Init => TendedInv
  BY DEF Init, TendedInv
<1>2. ClientTypes /\ CandidateTypes /\ TendedInv => LinkInv
  <2>1. TendedInv => ConnectedIsTended
    BY DEF TendedInv, ConnectedIsTended, Tended
  <2>. QED
    BY <2>1, TypesSuffice DEF LinkInv
<1>. QED
  BY <1>1, <1>2, InitTypes, ClientTypesStep, CandidateTypesStep, TendedStep, PTL DEF Spec

\* When disconnect has returned no callback runs and none comes until the next
\* connect (SignalingClient.h:86).
THEOREM DisconnectedIsSilent == Spec => []SilentAfterDisconnect
<1>1. Init => SilentInv
  BY DEF Init, SilentInv, SilentAfterDisconnect
<1>2. SilentInv => SilentAfterDisconnect
  BY DEF SilentInv
<1>. QED
  BY <1>1, <1>2, SilentStep, PTL DEF Spec

-----------------------------------------------------------------------------
(* The browser mesh.  Frames and streams.                                  *)

What == {"offer", "answer", "candidate"}
Description == {"offer", "answer"}

PageFrame == [type : {"join", "close"}]
             \cup [type : {"signal"}, to : Client, what : What]
RelayFrame == [type : {"joined"}, peers : Seq(Client)]
               \cup [type : {"peer-joined", "peer-left"}, id : Client]
               \cup [type : {"signal"}, from : Client, what : What]

StreamTypes ==
    /\ up \in [Client -> Seq(PageFrame)]
    /\ down \in [Client -> Seq(RelayFrame)]
    /\ missed \in [Client -> SUBSET Client]

InRoom(c) == c \in ToSet(room)

\* What a frame to a page tells it of d, other than that d is gone.
Names(f, d) == \/ f.type = "joined" /\ d \in ToSet(f.peers)
               \/ f.type = "peer-joined" /\ d = f.id
               \/ f.type = "signal" /\ d = f.from

WritesTo(c, d) ==
    \E i \in 1 .. Len(up[c]) : up[c][i].type = "signal" /\ up[c][i].to = d
NamedIn(c, d) == \E i \in 1 .. Len(down[c]) : Names(down[c][i], d)

Greeted(c) == \E i \in 1 .. Len(down[c]) : down[c][i].type = "joined"
Greets(c, d) ==
    \E i \in 1 .. Len(down[c]) :
        down[c][i].type = "joined" /\ d \in ToSet(down[c][i].peers)

\* The last that is on the way to c of d is not that it is gone.
Remembered(c, d) ==
    \E i \in 1 .. Len(down[c]) :
        /\ Names(down[c][i], d)
        /\ \A j \in 1 .. Len(down[c]) : j > i => down[c][j] # PeerLeft(d)

\* A signal of d comes after d is gone.
Late(c, d) ==
    \E i, j \in 1 .. Len(down[c]) :
        /\ i < j /\ down[c][i] = PeerLeft(d)
        /\ down[c][j].type = "signal" /\ down[c][j].from = d

\* A signal of c to d is on its way.
Flying(c, d, w) ==
    \/ \E i \in 1 .. Len(up[c]) : up[c][i] = SignalTo(d, w)
    \/ \E i \in 1 .. Len(down[d]) : down[d][i] = SignalFrom(c, w)
Describing(c, d) == \E w \in Description : Flying(c, d, w)

\* At most one description is.
OneDescription(c, d) ==
    /\ \A i, j \in 1 .. Len(up[c]) : \A w, x \in Description :
          up[c][i] = SignalTo(d, w) /\ up[c][j] = SignalTo(d, x) => i = j
    /\ \A i, j \in 1 .. Len(down[d]) : \A w, x \in Description :
          down[d][i] = SignalFrom(c, w) /\ down[d][j] = SignalFrom(c, x) => i = j
    /\ \A i \in 1 .. Len(up[c]), j \in 1 .. Len(down[d]) : \A w, x \in Description :
          ~(up[c][i] = SignalTo(d, w) /\ down[d][j] = SignalFrom(c, x))

\* A candidate of c to d is on its way with no description before it.
Stray(c, d) ==
    \/ \E i \in 1 .. Len(up[c]) :
          /\ up[c][i] = SignalTo(d, "candidate")
          /\ \A j \in 1 .. i - 1 : \A w \in Description : up[c][j] # SignalTo(d, w)
          /\ \A j \in 1 .. Len(down[d]) : \A w \in Description :
                down[d][j] # SignalFrom(c, w)
    \/ \E i \in 1 .. Len(down[d]) :
          /\ down[d][i] = SignalFrom(c, "candidate")
          /\ \A j \in 1 .. i - 1 : \A w \in Description :
                down[d][j] # SignalFrom(c, w)

-----------------------------------------------------------------------------
(* A page's connections.                                                   *)

Has(c, d)    == pc[c][d] # NoPeer
Local(c, d)  == pc[c][d] # NoPeer /\ pc[c][d].local
Remote(c, d) == pc[c][d] # NoPeer /\ pc[c][d].remote

Blank(c) == /\ loop[c] = <<>>
            /\ \A d \in Client : ~Has(c, d) /\ task[c][d] = "none"
Joining(c) ==
    page[c] = "lobby" \/ \E i \in 1 .. Len(up[c]) : up[c][i].type = "join"
Departed(c) == page[c] \in {"left", "cut"} /\ up[c] = <<>> /\ ~InRoom(c)

\* c has yet to offer to d.
Offers(c, d) == d \in ToSet(loop[c]) \/ Greets(c, d)

Undescribed(c, d) == ~Local(c, d) /\ ~Remote(c, d)
Fresh(c, d) == Undescribed(c, d) /\ task[c][d] = "none"
Waits(c, d) == Local(c, d) /\ ~Remote(c, d) /\ task[c][d] = "none"
Ready(c, d) == Remote(c, d) \/ task[c][d] \in {"remoteOffer", "remoteAnswer"}

-----------------------------------------------------------------------------
(* The invariant.                                                          *)

\* What a page sends in the course of its life, and what it may be sent.
Life(c) ==
    /\ page[c] = "lobby" => up[c] = <<>> /\ ~InRoom(c)
    /\ \A i \in 1 .. Len(up[c]) :
          /\ up[c][i].type = "join" => i = 1 /\ ~InRoom(c)
          /\ up[c][i].type = "signal" => InRoom(c)
          /\ up[c][i].type = "close" => i = Len(up[c]) /\ page[c] \in {"left", "cut"}
    /\ page[c] \in {"left", "cut"} =>
          \/ up[c] = <<>> /\ ~InRoom(c)
          \/ up[c] # <<>> /\ up[c][Len(up[c])].type = "close"
    /\ page[c] = "call" /\ ~InRoom(c) => up[c] = <<JoinFrame>>
    /\ down[c] # <<>> => page[c] = "call" /\ InRoom(c)

Greeting(c) ==
    \A i \in 1 .. Len(down[c]) : down[c][i].type = "joined" =>
        /\ i = 1
        /\ IsInjective(down[c][i].peers) /\ c \notin ToSet(down[c][i].peers)

\* A page that has not been greeted has no connections.
Idle(c) ==
    \/ page[c] = "lobby"
    \/ page[c] = "call" /\ ~InRoom(c)
    \/ Greeted(c)
    => Blank(c)

\* The loop awaits its first; a handler that awaits has a connection.
Turns(c) ==
    page[c] = "call" =>
        /\ IsInjective(loop[c]) /\ c \notin ToSet(loop[c])
        /\ loop[c] # <<>> => task[c][loop[c][1]] = "offer"
        /\ \A d \in Client :
              /\ task[c][d] = "offer" => loop[c] # <<>> /\ d = loop[c][1]
              /\ task[c][d] # "none" => Has(c, d)

\* Who has not joined is not known to anybody, and nobody hears of itself.
Newcomer(d) ==
    Joining(d) =>
        \A c \in Client : /\ ~NamedIn(c, d) /\ ~WritesTo(c, d)
                          /\ d \notin ToSet(loop[c])
                          /\ ~Has(c, d) /\ task[c][d] = "none"
Selfless(c) ==
    ~WritesTo(c, c) /\ \A w \in What : ~Flying(c, c, w)

\* Whom a page knows is there, or the page is about to hear.
Presence(c, d) ==
    page[c] = "call" =>
        /\ Remembered(c, d) => InRoom(d)
        /\ d \in ToSet(loop[c]) \/ Has(c, d) =>
              InRoom(d) \/ Leaving(c, d) \/ d \in missed[c]
Departure(c, d) == ~Late(c, d) /\ (Leaving(c, d) => Departed(d))

\* c has yet to offer to d, and neither has heard of the other.
Untouched(c, d) ==
    page[c] = "call" /\ Offers(c, d) =>
        /\ \A w \in What : ~Flying(c, d, w) /\ ~Flying(d, c, w)
        /\ Undescribed(c, d) /\ task[c][d] \in {"none", "offer"}
        /\ page[d] = "call" => /\ ~Has(d, c) /\ task[d][c] = "none"
                               /\ ~Offers(d, c)
\* An offer of c to d is on its way ...
Offered(c, d) ==
    Flying(c, d, "offer") =>
        /\ \A w \in What : ~Flying(d, c, w)
        /\ page[d] = "call" => Fresh(d, c)
        /\ page[c] = "call" /\ page[d] = "call" => Waits(c, d)
\* ... d answers it ...
Answering(c, d) ==
    page[d] = "call" /\ task[d][c] \in {"remoteOffer", "answer"} =>
        /\ ~Describing(d, c)
        /\ page[c] = "call" => Waits(c, d)
\* ... and the answer is on its way.
Answered(c, d) ==
    page[c] = "call" /\ Flying(d, c, "answer") => Waits(c, d)

\* What c has described, d is told or was told, and candidates come after.
Described(c, d) ==
    page[c] = "call" /\ page[d] = "call" /\ Local(c, d) =>
        Describing(c, d) \/ Ready(d, c)
Led(c, d) == page[d] = "call" /\ Stray(c, d) => Ready(d, c)

Pair(c, d) == /\ Untouched(c, d) /\ Offered(c, d) /\ Answering(c, d)
              /\ Answered(c, d) /\ Described(c, d)
              /\ OneDescription(c, d) /\ Led(c, d)

StreamInv == \A c \in Client : Life(c) /\ Greeting(c)
PageInv == \A c \in Client : Idle(c) /\ Turns(c) /\ Newcomer(c) /\ Selfless(c)
KnownInv == \A c, d \in Client : Presence(c, d) /\ Departure(c, d)
PairInv == \A c, d \in Client : Pair(c, d)

MeshIInv == MeshTypeOK /\ StreamTypes /\ StreamInv /\ PageInv /\ KnownInv /\ PairInv

-----------------------------------------------------------------------------
(* Sequences.                                                              *)

LEMMA Appended ==
    ASSUME NEW S, NEW s \in Seq(S), NEW e \in S
    PROVE  /\ Append(s, e) \in Seq(S)
           /\ s \o <<e>> = Append(s, e)
           /\ s \o <<>> = s
           /\ Len(Append(s, e)) = Len(s) + 1
           /\ Len(s) \in Nat
           /\ \A i \in 1 .. Len(s) : Append(s, e)[i] = s[i]
           /\ Append(s, e)[Len(s) + 1] = e
  BY AppendProperties, AppendIsConcat, ConcatEmptySeq, LenProperties

LEMMA Taken ==
    ASSUME NEW S, NEW s \in Seq(S), s # <<>>
    PROVE  /\ Tail(s) \in Seq(S)
           /\ Head(s) = s[1] /\ s[1] \in S
           /\ Len(s) \in Nat /\ Len(s) >= 1
           /\ Len(Tail(s)) = Len(s) - 1
           /\ \A i \in 1 .. Len(s) - 1 : Tail(s)[i] = s[i + 1]
<1>1. Len(s) \in Nat \ {0}
  BY EmptySeq
<1>2. Head(s) = s[1] /\ s[1] \in S
  BY <1>1, ElementOfSeq
<1>. QED BY <1>1, <1>2, HeadTailProperties

LEMMA Members ==
    ASSUME NEW S, NEW s \in Seq(S)
    PROVE  /\ ToSet(s) = {s[i] : i \in 1 .. Len(s)}
           /\ ToSet(s) \subseteq S
           /\ DOMAIN s = 1 .. Len(s) /\ Len(s) \in Nat
  BY LenProperties, ElementOfSeq DEF ToSet

\* Without leaves out c and nothing else.
LEMMA Removed ==
    ASSUME NEW S, NEW s \in Seq(S), IsInjective(s), NEW k \in 1 .. Len(s)
    PROVE  /\ RemoveAt(s, k) \in Seq(S)
           /\ IsInjective(RemoveAt(s, k))
           /\ ToSet(RemoveAt(s, k)) = ToSet(s) \ {s[k]}
<1>. DEFINE t == RemoveAt(s, k)
            a == SubSeq(s, 1, k - 1)
            b == SubSeq(s, k + 1, Len(s))
<1>1. Len(s) \in Nat /\ \A i \in 1 .. Len(s) : s[i] \in S
  BY Members, ElementOfSeq
<1>2. a \in Seq(S) /\ Len(a) = k - 1 /\ \A i \in 1 .. k - 1 : a[i] = s[i]
  <2>1. a \in Seq(S) /\ Len(a) = (IF 1 <= k - 1 THEN k - 1 - 1 + 1 ELSE 0)
        /\ \A i \in 1 .. k - 1 - 1 + 1 : a[i] = s[1 + i - 1]
    BY <1>1, SubSeqProperties
  <2>. QED BY <2>1, <1>1
<1>3. b \in Seq(S) /\ Len(b) = Len(s) - k /\ \A i \in 1 .. Len(s) - k : b[i] = s[k + i]
  <2>1. b \in Seq(S) /\ Len(b) = (IF k + 1 <= Len(s) THEN Len(s) - (k + 1) + 1 ELSE 0)
        /\ \A i \in 1 .. Len(s) - (k + 1) + 1 : b[i] = s[k + 1 + i - 1]
    BY <1>1, SubSeqProperties
  <2>. QED BY <2>1, <1>1
<1>4. t = a \o b
  BY DEF RemoveAt
<1>. HIDE DEF a, b, t
<1>5. /\ t \in Seq(S) /\ Len(t) = Len(a) + Len(b)
      /\ \A i \in 1 .. Len(a) + Len(b) : t[i] = IF i <= Len(a) THEN a[i] ELSE b[i - Len(a)]
  BY <1>2, <1>3, <1>4, ConcatProperties
<1>6. /\ Len(t) = Len(s) - 1
      /\ \A i \in 1 .. Len(s) - 1 : t[i] = IF i < k THEN s[i] ELSE s[i + 1]
  <2>1. Len(t) = Len(s) - 1
    BY <1>5, <1>1, <1>2, <1>3
  <2>2. ASSUME NEW i \in 1 .. Len(s) - 1 PROVE t[i] = IF i < k THEN s[i] ELSE s[i + 1]
    <3>1. CASE i < k
      <4>1. i \in 1 .. Len(a) + Len(b) /\ i <= Len(a) /\ i \in 1 .. k - 1
        BY <3>1, <1>1, <1>2, <1>3
      <4>2. t[i] = a[i] /\ a[i] = s[i]
        BY <4>1, <1>2, <1>5
      <4>. QED BY <4>2, <3>1
    <3>2. CASE ~(i < k)
      <4>0. i \in 1 .. Len(a) + Len(b) /\ ~(i <= Len(a))
        BY <3>2, <1>1, <1>2, <1>3
      <4>1. t[i] = b[i - Len(a)]
        BY <4>0, <1>5
      <4>2. i - (k - 1) \in 1 .. Len(s) - k /\ k + (i - (k - 1)) = i + 1
        BY <3>2, <1>1
      <4>3. b[i - (k - 1)] = s[i + 1]
        BY <4>2, <1>3
      <4>. QED BY <4>1, <4>3, <3>2, <1>2
    <3>. QED BY <3>1, <3>2
  <2>. QED BY <2>1, <2>2
<1>7. \A i, j \in 1 .. Len(s) : s[i] = s[j] => i = j
  BY Members DEF IsInjective
<1>8. IsInjective(t)
  <2>1. DOMAIN t = 1 .. Len(s) - 1
    BY <1>5, <1>6, Members
  <2>2. ASSUME NEW i \in 1 .. Len(s) - 1, NEW j \in 1 .. Len(s) - 1, t[i] = t[j]
        PROVE  i = j
    <3>1. i \in 1 .. Len(s) /\ i + 1 \in 1 .. Len(s) /\ j \in 1 .. Len(s) /\ j + 1 \in 1 .. Len(s)
      BY <1>1
    <3>2. CASE i < k /\ j < k
      BY <2>2, <3>1, <3>2, <1>6, <1>7
    <3>3. CASE i < k /\ ~(j < k)
      <4>1. s[i] = s[j + 1]
        BY <2>2, <3>3, <1>6
      <4>. QED BY <4>1, <3>1, <3>3, <1>7
    <3>4. CASE ~(i < k) /\ j < k
      <4>1. s[i + 1] = s[j]
        BY <2>2, <3>4, <1>6
      <4>. QED BY <4>1, <3>1, <3>4, <1>7
    <3>5. CASE ~(i < k) /\ ~(j < k)
      <4>1. s[i + 1] = s[j + 1]
        BY <2>2, <3>5, <1>6
      <4>2. i + 1 = j + 1
        BY <4>1, <3>1, <1>7
      <4>. QED BY <4>2
    <3>. QED BY <3>2, <3>3, <3>4, <3>5
  <2>. QED BY <2>1, <2>2 DEF IsInjective
<1>9. ToSet(t) = ToSet(s) \ {s[k]}
  <2>1. ToSet(t) = {t[i] : i \in 1 .. Len(s) - 1} /\ ToSet(s) = {s[i] : i \in 1 .. Len(s)}
    BY <1>5, <1>6, Members
  <2>2. ASSUME NEW i \in 1 .. Len(s) - 1 PROVE t[i] \in ToSet(s) \ {s[k]}
    <3>1. i \in 1 .. Len(s) /\ i + 1 \in 1 .. Len(s) /\ k \in 1 .. Len(s)
      BY <1>1
    <3>2. CASE i < k
      BY <3>1, <3>2, <1>6, <1>7, <2>1
    <3>3. CASE ~(i < k)
      <4>1. t[i] = s[i + 1] /\ i + 1 # k
        BY <3>3, <1>6
      <4>. QED BY <4>1, <3>1, <1>7, <2>1
    <3>. QED BY <3>2, <3>3
  <2>3. ASSUME NEW i \in 1 .. Len(s), s[i] # s[k] PROVE s[i] \in ToSet(t)
    <3>1. i # k
      BY <2>3
    <3>2. CASE i < k
      <4>1. i \in 1 .. Len(s) - 1
        BY <3>2, <1>1
      <4>. QED BY <4>1, <3>2, <1>6, <2>1
    <3>3. CASE i > k
      <4>1. i - 1 \in 1 .. Len(s) - 1 /\ ~(i - 1 < k) /\ (i - 1) + 1 = i
        BY <3>3, <1>1
      <4>2. t[i - 1] = s[i]
        BY <4>1, <1>6
      <4>. QED BY <4>1, <4>2, <2>1
    <3>. QED BY <3>1, <3>2, <3>3
  <2>. QED BY <2>1, <2>2, <2>3
<1>. QED BY <1>5, <1>8, <1>9 DEF t

-----------------------------------------------------------------------------
(* Frames.                                                                 *)

LEMMA PageFrames ==
    /\ JoinFrame \in PageFrame /\ JoinFrame.type = "join"
    /\ CloseFrame \in PageFrame /\ CloseFrame.type = "close"
    /\ \A d \in Client, w \in What :
          /\ SignalTo(d, w) \in PageFrame
          /\ SignalTo(d, w).type = "signal"
          /\ SignalTo(d, w).to = d /\ SignalTo(d, w).what = w
    /\ \A m \in PageFrame :
          /\ m.type \in {"join", "close", "signal"}
          /\ m.type = "signal" => /\ m.to \in Client /\ m.what \in What
                                  /\ m = SignalTo(m.to, m.what)
  BY DEF PageFrame, JoinFrame, CloseFrame, SignalTo

LEMMA RelayFrames ==
    /\ \A s \in Seq(Client) : /\ JoinedFrame(s) \in RelayFrame
                              /\ JoinedFrame(s).type = "joined"
                              /\ JoinedFrame(s).peers = s
    /\ \A d \in Client :
          /\ PeerJoined(d) \in RelayFrame
          /\ PeerJoined(d).type = "peer-joined" /\ PeerJoined(d).id = d
          /\ PeerLeft(d) \in RelayFrame
          /\ PeerLeft(d).type = "peer-left" /\ PeerLeft(d).id = d
    /\ \A d \in Client, w \in What :
          /\ SignalFrom(d, w) \in RelayFrame
          /\ SignalFrom(d, w).type = "signal"
          /\ SignalFrom(d, w).from = d /\ SignalFrom(d, w).what = w
    /\ \A m \in RelayFrame :
          /\ m.type \in {"joined", "peer-joined", "peer-left", "signal"}
          /\ m.type = "joined" => m.peers \in Seq(Client)
          /\ m.type = "peer-left" => m.id \in Client /\ m = PeerLeft(m.id)
          /\ m.type = "peer-joined" => m.id \in Client
          /\ m.type = "signal" => /\ m.from \in Client /\ m.what \in What
                                  /\ m = SignalFrom(m.from, m.what)
<1>1. \A s \in Seq(Client) : /\ JoinedFrame(s) \in RelayFrame
                             /\ JoinedFrame(s).type = "joined"
                             /\ JoinedFrame(s).peers = s
  BY DEF RelayFrame, JoinedFrame
<1>2. \A d \in Client :
          /\ PeerJoined(d) \in RelayFrame
          /\ PeerJoined(d).type = "peer-joined" /\ PeerJoined(d).id = d
          /\ PeerLeft(d) \in RelayFrame
          /\ PeerLeft(d).type = "peer-left" /\ PeerLeft(d).id = d
  BY DEF RelayFrame, PeerJoined, PeerLeft
<1>3. \A d \in Client, w \in What :
          /\ SignalFrom(d, w) \in RelayFrame
          /\ SignalFrom(d, w).type = "signal"
          /\ SignalFrom(d, w).from = d /\ SignalFrom(d, w).what = w
  BY DEF RelayFrame, SignalFrom
<1>4. ASSUME NEW m \in RelayFrame
      PROVE  /\ m.type \in {"joined", "peer-joined", "peer-left", "signal"}
             /\ m.type = "joined" => m.peers \in Seq(Client)
             /\ m.type = "peer-left" => m.id \in Client /\ m = PeerLeft(m.id)
             /\ m.type = "peer-joined" => m.id \in Client
             /\ m.type = "signal" => /\ m.from \in Client /\ m.what \in What
                                     /\ m = SignalFrom(m.from, m.what)
  <2>1. CASE m \in [type : {"joined"}, peers : Seq(Client)]
    BY <2>1
  <2>2. CASE m \in [type : {"peer-joined", "peer-left"}, id : Client]
    BY <2>2 DEF PeerLeft
  <2>3. CASE m \in [type : {"signal"}, from : Client, what : What]
    BY <2>3 DEF SignalFrom
  <2>. QED BY <2>1, <2>2, <2>3 DEF RelayFrame
<1>. QED BY <1>1, <1>2, <1>3, <1>4

-----------------------------------------------------------------------------
(* A page writes to another.                                               *)

Writes(a, b, w) ==
    /\ up' = [up EXCEPT ![a] = Append(@, SignalTo(b, w))]
    /\ UNCHANGED <<page, down, room>>

LEMMA FrameWritten ==
    ASSUME StreamTypes, NEW a \in Client, NEW b \in Client, NEW w \in What,
           Writes(a, b, w)
    PROVE  /\ up' \in [Client -> Seq(PageFrame)] /\ down' = down
           /\ \A c \in Client \ {a} : up'[c] = up[c]
           /\ up[a] \in Seq(PageFrame) /\ Len(up[a]) \in Nat
           /\ up'[a] = Append(up[a], SignalTo(b, w))
           /\ Len(up'[a]) = Len(up[a]) + 1
           /\ \A i \in 1 .. Len(up[a]) : up'[a][i] = up[a][i]
           /\ up'[a][Len(up[a]) + 1] = SignalTo(b, w)
<1>1. up[a] \in Seq(PageFrame) /\ SignalTo(b, w) \in PageFrame
  BY PageFrames DEF StreamTypes
<1>2. /\ Append(up[a], SignalTo(b, w)) \in Seq(PageFrame)
      /\ Len(Append(up[a], SignalTo(b, w))) = Len(up[a]) + 1
      /\ Len(up[a]) \in Nat
      /\ \A i \in 1 .. Len(up[a]) : Append(up[a], SignalTo(b, w))[i] = up[a][i]
      /\ Append(up[a], SignalTo(b, w))[Len(up[a]) + 1] = SignalTo(b, w)
  BY <1>1, Appended
<1>. HIDE DEF What
<1>. QED BY <1>1, <1>2 DEF Writes, StreamTypes

LEMMA WritingShows ==
    ASSUME StreamTypes, NEW a \in Client, NEW b \in Client, NEW w \in What,
           Writes(a, b, w), NEW c \in Client, NEW d \in Client
    PROVE  /\ \A x \in What : Flying(c, d, x)' <=>
                  Flying(c, d, x) \/ (c = a /\ d = b /\ x = w)
           /\ WritesTo(c, d)' => WritesTo(c, d) \/ (c = a /\ d = b)
           /\ Joining(c)' => Joining(c)
<1>. DEFINE n == Len(up[a])
<1>1. /\ up' \in [Client -> Seq(PageFrame)] /\ down' = down
      /\ \A e \in Client \ {a} : up'[e] = up[e]
      /\ n \in Nat /\ Len(up'[a]) = n + 1
      /\ \A i \in 1 .. n : up'[a][i] = up[a][i]
      /\ up'[a][n + 1] = SignalTo(b, w)
  BY FrameWritten
<1>0. page' = page
  BY DEF Writes
<1>2. \A i \in 1 .. n + 1 : i \in 1 .. n \/ i = n + 1
  BY <1>1
<1>3. ASSUME NEW x \in What
      PROVE  Flying(c, d, x)' <=> Flying(c, d, x) \/ (c = a /\ d = b /\ x = w)
  <2>1. SignalTo(d, x) = SignalTo(b, w) <=> d = b /\ x = w
    BY DEF SignalTo
  <2>2. CASE c # a
    BY <2>2, <1>1 DEF Flying
  <2>3. CASE c = a
    <3>1. (\E i \in 1 .. n + 1 : up'[a][i] = SignalTo(d, x)) <=>
             (\E i \in 1 .. n : up[a][i] = SignalTo(d, x)) \/ (d = b /\ x = w)
      <4>1. ASSUME NEW i \in 1 .. n + 1, up'[a][i] = SignalTo(d, x)
            PROVE  (\E j \in 1 .. n : up[a][j] = SignalTo(d, x)) \/ (d = b /\ x = w)
        BY <4>1, <1>1, <1>2, <2>1
      <4>2. ASSUME NEW i \in 1 .. n, up[a][i] = SignalTo(d, x)
            PROVE  \E j \in 1 .. n + 1 : up'[a][j] = SignalTo(d, x)
        <5>1. i \in 1 .. n + 1
          BY <1>1
        <5>. QED BY <4>2, <5>1, <1>1
      <4>3. d = b /\ x = w => \E j \in 1 .. n + 1 : up'[a][j] = SignalTo(d, x)
        <5>1. n + 1 \in 1 .. n + 1
          BY <1>1
        <5>. QED BY <5>1, <1>1
      <4>. QED BY <4>1, <4>2, <4>3
    <3>. QED BY <2>3, <3>1, <1>1 DEF Flying
  <2>. QED BY <2>2, <2>3
<1>4. WritesTo(c, d)' => WritesTo(c, d) \/ (c = a /\ d = b)
  <2>1. SignalTo(b, w).to = b
    BY DEF SignalTo
  <2>. QED BY <2>1, <1>1, <1>2 DEF WritesTo
<1>5. Joining(c)' => Joining(c)
  <2>1. SignalTo(b, w).type = "signal"
    BY DEF SignalTo
  <2>. QED BY <2>1, <1>0, <1>1, <1>2 DEF Joining
<1>. QED BY <1>3, <1>4, <1>5

LEMMA WritingKeepsLife ==
    ASSUME StreamTypes, StreamInv, NEW a \in Client, NEW b \in Client, NEW w \in What,
           Writes(a, b, w), page[a] = "call", InRoom(a)
    PROVE  StreamInv'
<1>. DEFINE n == Len(up[a])
<1>1. /\ up' \in [Client -> Seq(PageFrame)] /\ down' = down
      /\ \A e \in Client \ {a} : up'[e] = up[e]
      /\ n \in Nat /\ Len(up'[a]) = n + 1
      /\ \A i \in 1 .. n : up'[a][i] = up[a][i]
      /\ up'[a][n + 1] = SignalTo(b, w)
  BY FrameWritten
<1>0. page' = page /\ room' = room
  BY DEF Writes
<1>2. \A i \in 1 .. n + 1 : i \in 1 .. n \/ i = n + 1
  BY <1>1
<1>3. SignalTo(b, w).type = "signal"
  BY DEF SignalTo
<1>4. ASSUME NEW c \in Client PROVE Life(c)'
  <2>1. Life(c)
    BY DEF StreamInv
  <2>2. CASE c # a
    BY <2>1, <2>2, <1>0, <1>1 DEF Life, InRoom
  <2>3. CASE c = a
    <3>1. \A i \in 1 .. n + 1 :
             /\ up'[a][i].type = "join" => i = 1 /\ ~InRoom(a)
             /\ up'[a][i].type = "signal" => InRoom(a)
             /\ up'[a][i].type # "close"
      BY <2>1, <2>3, <1>1, <1>2, <1>3 DEF Life
    <3>. QED BY <3>1, <2>1, <2>3, <1>0, <1>1 DEF Life, InRoom
  <2>. QED BY <2>2, <2>3
<1>5. ASSUME NEW c \in Client PROVE Greeting(c)'
  BY <1>0, <1>1 DEF StreamInv, Greeting
<1>. QED BY <1>4, <1>5 DEF StreamInv

LEMMA WritingKeepsOrder ==
    ASSUME StreamTypes, NEW a \in Client, NEW b \in Client, NEW w \in What,
           Writes(a, b, w), NEW c \in Client, NEW d \in Client,
           OneDescription(c, d),
           c = a /\ d = b /\ w \in Description => ~Describing(a, b)
    PROVE  OneDescription(c, d)'
<1>. DEFINE n == Len(up[a])
<1>1. /\ up' \in [Client -> Seq(PageFrame)] /\ down' = down
      /\ \A e \in Client \ {a} : up'[e] = up[e]
      /\ n \in Nat /\ Len(up'[a]) = n + 1
      /\ \A i \in 1 .. n : up'[a][i] = up[a][i]
      /\ up'[a][n + 1] = SignalTo(b, w)
  BY FrameWritten
<1>2. \A i \in 1 .. n + 1 : i \in 1 .. n \/ i = n + 1
  BY <1>1
<1>3. CASE c # a
  <2>1. up'[c] = up[c] /\ down'[d] = down[d]
    BY <1>3, <1>1
  <2>. QED BY <2>1 DEF OneDescription
<1>4. CASE c = a
  <2>1. \A x : SignalTo(d, x) = SignalTo(b, w) => d = b /\ x = w
    BY DEF SignalTo
  <2>2. \A x \in Description : SignalTo(d, x) = SignalTo(b, w) =>
           /\ \A i \in 1 .. n : \A y \in Description : up[a][i] # SignalTo(d, y)
           /\ \A j \in 1 .. Len(down[d]) : \A y \in Description : down[d][j] # SignalFrom(a, y)
    BY <2>1, <1>4 DEF Describing, Flying
  <2>3. ASSUME NEW i \in 1 .. n + 1, NEW j \in 1 .. n + 1,
               NEW x \in Description, NEW y \in Description,
               up'[a][i] = SignalTo(d, x), up'[a][j] = SignalTo(d, y)
        PROVE  i = j
    <3>1. CASE i \in 1 .. n /\ j \in 1 .. n
      <4>1. up[c][i] = SignalTo(d, x) /\ up[c][j] = SignalTo(d, y)
        BY <3>1, <2>3, <1>1, <1>4
      <4>. QED BY <4>1, <3>1, <1>4 DEF OneDescription
    <3>2. CASE i = n + 1 /\ j \in 1 .. n
      <4>1. SignalTo(d, x) = SignalTo(b, w) /\ up[a][j] = SignalTo(d, y)
        BY <3>2, <2>3, <1>1
      <4>. QED BY <4>1, <3>2, <2>2
    <3>3. CASE i \in 1 .. n /\ j = n + 1
      <4>1. SignalTo(d, y) = SignalTo(b, w) /\ up[a][i] = SignalTo(d, x)
        BY <3>3, <2>3, <1>1
      <4>. QED BY <4>1, <3>3, <2>2
    <3>. QED BY <3>1, <3>2, <3>3, <1>2
  <2>4. ASSUME NEW i \in 1 .. n + 1, NEW j \in 1 .. Len(down[d]),
               NEW x \in Description, NEW y \in Description,
               up'[a][i] = SignalTo(d, x), down[d][j] = SignalFrom(a, y)
        PROVE  FALSE
    <3>1. CASE i \in 1 .. n
      <4>1. up[c][i] = SignalTo(d, x) /\ down[d][j] = SignalFrom(c, y)
        BY <3>1, <2>4, <1>1, <1>4
      <4>. QED BY <4>1, <3>1, <1>4 DEF OneDescription
    <3>2. CASE i = n + 1
      <4>1. SignalTo(d, x) = SignalTo(b, w)
        BY <3>2, <2>4, <1>1
      <4>. QED BY <4>1, <2>4, <2>2
    <3>. QED BY <3>1, <3>2, <1>2
  <2>5. \A i, j \in 1 .. n + 1 : \A x, y \in Description :
           up'[a][i] = SignalTo(d, x) /\ up'[a][j] = SignalTo(d, y) => i = j
    BY <2>3
  <2>6. \A i, j \in 1 .. Len(down[d]) : \A x, y \in Description :
           down[d][i] = SignalFrom(a, x) /\ down[d][j] = SignalFrom(a, y) => i = j
    BY <1>4 DEF OneDescription
  <2>7. \A i \in 1 .. n + 1, j \in 1 .. Len(down[d]) : \A x, y \in Description :
           ~(up'[a][i] = SignalTo(d, x) /\ down[d][j] = SignalFrom(a, y))
    BY <2>4
  <2>8. Len(up'[a]) = n + 1 /\ down' = down
    BY <1>1
  <2>. HIDE DEF n
  <2>. QED BY <2>5, <2>6, <2>7, <2>8, <1>4 DEF OneDescription
<1>. QED BY <1>3, <1>4

LEMMA WritingStrays ==
    ASSUME StreamTypes, NEW a \in Client, NEW b \in Client, NEW w \in What,
           Writes(a, b, w), NEW c \in Client, NEW d \in Client, Stray(c, d)'
    PROVE  Stray(c, d) \/ (c = a /\ d = b /\ w = "candidate" /\ ~Describing(a, b))
<1>. DEFINE n == Len(up[a])
<1>1. /\ up' \in [Client -> Seq(PageFrame)] /\ down' = down
      /\ \A e \in Client \ {a} : up'[e] = up[e]
      /\ n \in Nat /\ Len(up'[a]) = n + 1
      /\ \A i \in 1 .. n : up'[a][i] = up[a][i]
      /\ up'[a][n + 1] = SignalTo(b, w)
  BY FrameWritten
<1>2. \A i \in 1 .. n + 1 : i \in 1 .. n \/ i = n + 1
  BY <1>1
<1>3. CASE c # a
  BY <1>3, <1>1 DEF Stray
<1>4. CASE c = a /\ \E i \in 1 .. Len(down[d]) :
          /\ down[d][i] = SignalFrom(c, "candidate")
          /\ \A j \in 1 .. i - 1 : \A x \in Description :
                down[d][j] # SignalFrom(c, x)
  BY <1>4 DEF Stray
<1>5. ASSUME c = a, NEW i \in 1 .. n + 1,
             up'[a][i] = SignalTo(d, "candidate"),
             \A j \in 1 .. i - 1 : \A x \in Description : up'[a][j] # SignalTo(d, x),
             \A j \in 1 .. Len(down[d]) : \A x \in Description :
                down[d][j] # SignalFrom(a, x)
      PROVE  Stray(c, d) \/ (c = a /\ d = b /\ w = "candidate" /\ ~Describing(a, b))
  <2>1. CASE i \in 1 .. n
    <3>1. \A j \in 1 .. i - 1 : j \in 1 .. n
      BY <2>1, <1>1
    <3>2. /\ i \in 1 .. Len(up[c]) /\ up[c][i] = SignalTo(d, "candidate")
          /\ \A j \in 1 .. i - 1 : \A x \in Description : up[c][j] # SignalTo(d, x)
      BY <2>1, <3>1, <1>5, <1>1
    <3>. QED BY <3>2, <1>5 DEF Stray
  <2>2. CASE i = n + 1
    <3>0. SignalTo(d, "candidate") = SignalTo(b, w)
      BY <2>2, <1>5, <1>1
    <3>1. d = b /\ w = "candidate"
      <4>1. /\ SignalTo(d, "candidate").to = d /\ SignalTo(d, "candidate").what = "candidate"
            /\ SignalTo(b, w).to = b /\ SignalTo(b, w).what = w
        BY DEF SignalTo
      <4>. QED BY <3>0, <4>1
    <3>2. ASSUME NEW j \in 1 .. n, NEW x \in Description PROVE up[a][j] # SignalTo(d, x)
      <4>1. j \in 1 .. i - 1 /\ up'[a][j] = up[a][j]
        BY <2>2, <1>1
      <4>2. up'[a][j] # SignalTo(d, x)
        BY <4>1, <1>5
      <4>. QED BY <4>1, <4>2
    <3>3. \A j \in 1 .. Len(down[b]) : \A x \in Description : down[b][j] # SignalFrom(a, x)
      BY <3>1, <1>5
    <3>4. ~Describing(a, b)
      BY <3>1, <3>2, <3>3 DEF Describing, Flying
    <3>. QED BY <3>1, <3>4, <1>5
  <2>. QED BY <2>1, <2>2, <1>2
<1>6. CASE c = a /\ \E i \in 1 .. n + 1 :
          /\ up'[a][i] = SignalTo(d, "candidate")
          /\ \A j \in 1 .. i - 1 : \A x \in Description : up'[a][j] # SignalTo(d, x)
          /\ \A j \in 1 .. Len(down[d]) : \A x \in Description :
                down[d][j] # SignalFrom(a, x)
  BY <1>6, <1>5
<1>. QED BY <1>1, <1>3, <1>4, <1>6 DEF Stray

-----------------------------------------------------------------------------
(* A page takes the next frame.                                            *)

Reads(a, m) ==
    /\ down[a] # <<>> /\ m = Head(down[a])
    /\ down' = [down EXCEPT ![a] = Tail(@)]
    /\ UNCHANGED <<page, up, room>>

LEMMA TakenDown ==
    ASSUME StreamTypes, NEW a \in Client, NEW m, Reads(a, m)
    PROVE  /\ down' \in [Client -> Seq(RelayFrame)] /\ up' = up
           /\ \A c \in Client \ {a} : down'[c] = down[c]
           /\ m = down[a][1] /\ m \in RelayFrame
           /\ Len(down[a]) \in Nat /\ Len(down[a]) >= 1
           /\ Len(down'[a]) = Len(down[a]) - 1
           /\ \A i \in 1 .. Len(down[a]) - 1 : down'[a][i] = down[a][i + 1]
           /\ \A i \in 2 .. Len(down[a]) :
                 i - 1 \in 1 .. Len(down'[a]) /\ down'[a][i - 1] = down[a][i]
<1>1. down[a] \in Seq(RelayFrame) /\ down[a] # <<>>
  BY DEF StreamTypes, Reads
<1>2. /\ Tail(down[a]) \in Seq(RelayFrame)
      /\ Head(down[a]) = down[a][1] /\ down[a][1] \in RelayFrame
      /\ Len(down[a]) \in Nat /\ Len(down[a]) >= 1
      /\ Len(Tail(down[a])) = Len(down[a]) - 1
      /\ \A i \in 1 .. Len(down[a]) - 1 : Tail(down[a])[i] = down[a][i + 1]
  BY <1>1, Taken
<1>3. /\ down' \in [Client -> Seq(RelayFrame)] /\ up' = up
      /\ \A c \in Client \ {a} : down'[c] = down[c]
      /\ down'[a] = Tail(down[a]) /\ m = down[a][1]
  BY <1>1, <1>2 DEF Reads, StreamTypes
<1>4. ASSUME NEW i \in 2 .. Len(down[a])
      PROVE  i - 1 \in 1 .. Len(down'[a]) /\ down'[a][i - 1] = down[a][i]
  <2>1. i - 1 \in 1 .. Len(down[a]) - 1 /\ (i - 1) + 1 = i
    BY <1>2
  <2>. QED BY <2>1, <1>2, <1>3
<1>. QED BY <1>2, <1>3, <1>4

LEMMA ReadingShows ==
    ASSUME StreamTypes, NEW a \in Client, NEW m, Reads(a, m),
           NEW c \in Client, NEW d \in Client
    PROVE  /\ \A x \in What : /\ Flying(c, d, x)' => Flying(c, d, x)
                              /\ Flying(c, d, x) => \/ Flying(c, d, x)'
                                                    \/ d = a /\ m = SignalFrom(c, x)
                              /\ m = SignalFrom(c, x) => Flying(c, a, x)
           /\ NamedIn(c, d)' => NamedIn(c, d)
           /\ Names(m, d) => NamedIn(a, d)
           /\ Greets(c, d)' => Greets(c, d)
           /\ Greeted(c)' => Greeted(c)
           /\ m.type = "joined" => Greeted(a)
           /\ m.type = "joined" /\ d \in ToSet(m.peers) => Greets(a, d)
<1>. DEFINE n == Len(down[a])
<1>1. /\ up' = up
      /\ \A e \in Client \ {a} : down'[e] = down[e]
      /\ m = down[a][1]
      /\ n \in Nat /\ n >= 1 /\ Len(down'[a]) = n - 1
      /\ \A i \in 1 .. n - 1 : down'[a][i] = down[a][i + 1]
      /\ \A i \in 2 .. n : i - 1 \in 1 .. n - 1 /\ down'[a][i - 1] = down[a][i]
  <2>. HIDE DEF n
  <2>1. n = Len(down[a])
    BY DEF n
  <2>. QED BY <2>1, TakenDown
<1>. HIDE DEF n
<1>2. n = Len(down[a])
  BY DEF n
<1>3. (\A i \in 1 .. n - 1 : i + 1 \in 1 .. n) /\ 1 \in 1 .. n
      /\ \A i \in 1 .. n : i = 1 \/ i \in 2 .. n
  BY <1>1
<1>4. ASSUME NEW x \in What
      PROVE  /\ Flying(c, d, x)' => Flying(c, d, x)
             /\ Flying(c, d, x) => Flying(c, d, x)' \/ (d = a /\ m = SignalFrom(c, x))
             /\ m = SignalFrom(c, x) => Flying(c, a, x)
  <2>1. CASE d # a
    <3>1. up'[c] = up[c] /\ down'[d] = down[d]
      BY <2>1, <1>1
    <3>2. Flying(c, d, x)' <=> Flying(c, d, x)
      BY <3>1 DEF Flying
    <3>3. m = SignalFrom(c, x) => Flying(c, a, x)
      BY <1>1, <1>2, <1>3 DEF Flying
    <3>. QED BY <3>2, <3>3
  <2>2. CASE d = a
    <3>1. up'[c] = up[c]
      BY <1>1
    <3>2. ASSUME NEW i \in 1 .. n - 1, down'[a][i] = SignalFrom(c, x)
          PROVE  \E j \in 1 .. n : down[a][j] = SignalFrom(c, x)
      BY <3>2, <1>1, <1>3
    <3>3. ASSUME NEW i \in 1 .. n, down[a][i] = SignalFrom(c, x)
          PROVE  m = SignalFrom(c, x) \/ \E j \in 1 .. n - 1 : down'[a][j] = SignalFrom(c, x)
      BY <3>3, <1>1, <1>3
    <3>4. m = SignalFrom(c, x) => Flying(c, a, x)
      BY <1>1, <1>2, <1>3 DEF Flying
    <3>5. Flying(c, a, x)' <=> \/ \E i \in 1 .. Len(up[c]) : up[c][i] = SignalTo(a, x)
                               \/ \E i \in 1 .. n - 1 : down'[a][i] = SignalFrom(c, x)
      BY <3>1, <1>1 DEF Flying
    <3>6. Flying(c, a, x) <=> \/ \E i \in 1 .. Len(up[c]) : up[c][i] = SignalTo(a, x)
                              \/ \E i \in 1 .. n : down[a][i] = SignalFrom(c, x)
      BY <1>2 DEF Flying
    <3>. QED BY <2>2, <3>2, <3>3, <3>4, <3>5, <3>6
  <2>. QED BY <2>1, <2>2
<1>5. NamedIn(c, d)' => NamedIn(c, d)
  <2>1. CASE c # a
    <3>1. down'[c] = down[c]
      BY <2>1, <1>1
    <3>. QED BY <3>1 DEF NamedIn
  <2>2. CASE c = a
    BY <2>2, <1>1, <1>2, <1>3 DEF NamedIn
  <2>. QED BY <2>1, <2>2
<1>6. Names(m, d) => NamedIn(a, d)
  BY <1>1, <1>2, <1>3 DEF NamedIn
<1>7. Greets(c, d)' => Greets(c, d)
  <2>1. CASE c # a
    <3>1. down'[c] = down[c]
      BY <2>1, <1>1
    <3>. QED BY <3>1 DEF Greets
  <2>2. CASE c = a
    <3>1. ASSUME NEW i \in 1 .. n - 1,
                 down'[a][i].type = "joined", d \in ToSet(down'[a][i].peers)
          PROVE  Greets(a, d)
      <4>1. i + 1 \in 1 .. n /\ down[a][i + 1] = down'[a][i]
        BY <1>1, <1>3
      <4>. QED BY <3>1, <4>1, <1>2 DEF Greets
    <3>. QED BY <2>2, <3>1, <1>1 DEF Greets
  <2>. QED BY <2>1, <2>2
<1>8. Greeted(c)' => Greeted(c)
  <2>1. CASE c # a
    <3>1. down'[c] = down[c]
      BY <2>1, <1>1
    <3>. QED BY <3>1 DEF Greeted
  <2>2. CASE c = a
    BY <2>2, <1>1, <1>2, <1>3 DEF Greeted
  <2>. QED BY <2>1, <2>2
<1>9. m.type = "joined" => Greeted(a) /\ (d \in ToSet(m.peers) => Greets(a, d))
  BY <1>1, <1>2, <1>3 DEF Greeted, Greets
<1>. QED BY <1>4, <1>5, <1>6, <1>7, <1>8, <1>9

LEMMA ReadingForgets ==
    ASSUME StreamTypes, NEW a \in Client, NEW m, Reads(a, m),
           NEW c \in Client, NEW d \in Client
    PROVE  /\ Remembered(c, d)' => Remembered(c, d)
           /\ Names(m, d) => Remembered(a, d) \/ Leaving(a, d)'
           /\ Leaving(c, d)' => Leaving(c, d)
           /\ Leaving(c, d) => Leaving(c, d)' \/ (c = a /\ m = PeerLeft(d))
           /\ Late(c, d)' => Late(c, d)
           /\ m = PeerLeft(d) /\ ~Late(a, d) /\ up[d] = <<>> =>
                 \A x \in What : ~Flying(d, a, x)
<1>. DEFINE n == Len(down[a])
<1>1. /\ up' = up
      /\ \A e \in Client \ {a} : down'[e] = down[e]
      /\ m = down[a][1]
      /\ n \in Nat /\ n >= 1 /\ Len(down'[a]) = n - 1
      /\ \A i \in 1 .. n - 1 : down'[a][i] = down[a][i + 1]
      /\ \A i \in 2 .. n : i - 1 \in 1 .. n - 1 /\ down'[a][i - 1] = down[a][i]
  <2>. HIDE DEF n
  <2>1. n = Len(down[a])
    BY DEF n
  <2>. QED BY <2>1, TakenDown
<1>. HIDE DEF n
<1>2. n = Len(down[a])
  BY DEF n
<1>3. (\A i \in 1 .. n - 1 : i + 1 \in 1 .. n) /\ 1 \in 1 .. n
      /\ \A i \in 1 .. n : i = 1 \/ i \in 2 .. n
  BY <1>1
<1>4. \A e \in Client : Leaving(e, d) <=> \E i \in 1 .. Len(down[e]) : down[e][i] = PeerLeft(d)
  <2>1. \A e \in Client : down[e] \in Seq(RelayFrame)
    BY DEF StreamTypes
  <2>2. \A e \in Client : DOMAIN down[e] = 1 .. Len(down[e])
    BY <2>1, Members
  <2>. QED BY <2>2 DEF Leaving
<1>5. \A e \in Client : Leaving(e, d)' <=>
         \E i \in 1 .. Len(down'[e]) : down'[e][i] = PeerLeft(d)
  <2>1. \A e \in Client : down'[e] \in Seq(RelayFrame)
    BY TakenDown
  <2>2. \A e \in Client : DOMAIN (down'[e]) = 1 .. Len(down'[e])
    BY <2>1, Members
  <2>. QED BY <2>2 DEF Leaving
<1>6. Remembered(c, d)' => Remembered(c, d)
  <2>1. CASE c # a
    <3>1. down'[c] = down[c]
      BY <2>1, <1>1
    <3>. QED BY <3>1 DEF Remembered
  <2>2. CASE c = a
    <3>1. SUFFICES ASSUME NEW i \in 1 .. n - 1, Names(down'[a][i], d),
                          \A j \in 1 .. n - 1 : j > i => down'[a][j] # PeerLeft(d)
                   PROVE  Remembered(a, d)
      <4>1. Remembered(a, d)' <=>
              \E i \in 1 .. Len(down'[a]) :
                 /\ Names(down'[a][i], d)
                 /\ \A j \in 1 .. Len(down'[a]) : j > i => down'[a][j] # PeerLeft(d)
        BY DEF Remembered, Names
      <4>. QED BY <4>1, <2>2, <1>1
    <3>2. i + 1 \in 1 .. n /\ Names(down[a][i + 1], d)
      BY <3>1, <1>1, <1>3
    <3>3. ASSUME NEW j \in 1 .. n, j > i + 1 PROVE down[a][j] # PeerLeft(d)
      <4>1. j \in 2 .. n /\ j - 1 > i
        BY <3>3, <1>1
      <4>. QED BY <4>1, <3>1, <1>1
    <3>. QED BY <3>2, <3>3, <1>2 DEF Remembered
  <2>. QED BY <2>1, <2>2
<1>7. Names(m, d) => Remembered(a, d) \/ Leaving(a, d)'
  <2>1. SUFFICES ASSUME Names(m, d), ~Leaving(a, d)' PROVE Remembered(a, d)
    OBVIOUS
  <2>2. ASSUME NEW j \in 1 .. n, j > 1 PROVE down[a][j] # PeerLeft(d)
    <3>1. j \in 2 .. n
      BY <2>2, <1>1
    <3>. QED BY <3>1, <2>1, <1>1, <1>5
  <2>. QED BY <2>1, <2>2, <1>1, <1>2, <1>3 DEF Remembered
<1>8. /\ Leaving(c, d)' => Leaving(c, d)
      /\ Leaving(c, d) => Leaving(c, d)' \/ (c = a /\ m = PeerLeft(d))
  <2>1. CASE c # a
    <3>1. down'[c] = down[c]
      BY <2>1, <1>1
    <3>. QED BY <3>1, <1>4, <1>5
  <2>2. CASE c = a
    <3>1. Leaving(c, d)' => Leaving(c, d)
      <4>1. ASSUME NEW i \in 1 .. n - 1, down'[a][i] = PeerLeft(d) PROVE Leaving(a, d)
        BY <4>1, <1>1, <1>2, <1>3, <1>4
      <4>. QED BY <4>1, <2>2, <1>1, <1>5
    <3>2. ASSUME NEW i \in 1 .. n, down[a][i] = PeerLeft(d), i # 1
          PROVE  Leaving(c, d)'
      <4>1. i \in 2 .. n
        BY <3>2, <1>1
      <4>2. i - 1 \in 1 .. Len(down'[a]) /\ down'[a][i - 1] = PeerLeft(d)
        BY <4>1, <3>2, <1>1
      <4>. QED BY <4>2, <2>2, <1>5
    <3>. QED BY <2>2, <3>1, <3>2, <1>1, <1>2, <1>4
  <2>. QED BY <2>1, <2>2
<1>9. Late(c, d)' => Late(c, d)
  <2>1. CASE c # a
    <3>1. down'[c] = down[c]
      BY <2>1, <1>1
    <3>. QED BY <3>1 DEF Late
  <2>2. CASE c = a
    <3>1. SUFFICES ASSUME NEW i \in 1 .. n - 1, NEW j \in 1 .. n - 1, i < j,
                          down'[a][i] = PeerLeft(d),
                          down'[a][j].type = "signal" /\ down'[a][j].from = d
                   PROVE  Late(a, d)
      BY <2>2, <1>1 DEF Late
    <3>2. i + 1 \in 1 .. n /\ j + 1 \in 1 .. n /\ i + 1 < j + 1
      BY <3>1, <1>3
    <3>. QED BY <3>1, <3>2, <1>1, <1>2 DEF Late
  <2>. QED BY <2>1, <2>2
<1>10. ASSUME m = PeerLeft(d), ~Late(a, d), up[d] = <<>>, NEW x \in What, Flying(d, a, x)
       PROVE  FALSE
  <2>1. PICK i \in 1 .. n : down[a][i] = SignalFrom(d, x)
    <3>1. Len(up[d]) = 0
      BY <1>10
    <3>. QED BY <3>1, <1>10, <1>2 DEF Flying
  <2>2. SignalFrom(d, x).type = "signal" /\ SignalFrom(d, x).from = d /\ PeerLeft(d).type = "peer-left"
    BY DEF SignalFrom, PeerLeft
  <2>3. i # 1
    BY <2>1, <2>2, <1>10, <1>1
  <2>4. 1 < i
    BY <2>3, <1>1
  <2>. QED BY <2>1, <2>2, <2>4, <1>10, <1>1, <1>2, <1>3 DEF Late
<1>. QED BY <1>6, <1>7, <1>8, <1>9, <1>10

LEMMA ReadingKeepsLife ==
    ASSUME StreamTypes, StreamInv, NEW a \in Client, NEW m, Reads(a, m)
    PROVE  /\ StreamInv' /\ ~Greeted(a)'
           /\ m.type = "joined" => IsInjective(m.peers) /\ a \notin ToSet(m.peers)
<1>. DEFINE n == Len(down[a])
<1>1. /\ up' = up
      /\ \A e \in Client \ {a} : down'[e] = down[e]
      /\ m = down[a][1]
      /\ n \in Nat /\ n >= 1 /\ Len(down'[a]) = n - 1
      /\ \A i \in 1 .. n - 1 : down'[a][i] = down[a][i + 1]
  <2>. HIDE DEF n
  <2>1. n = Len(down[a])
    BY DEF n
  <2>. QED BY <2>1, TakenDown
<1>2. page' = page /\ room' = room /\ down[a] # <<>>
  BY DEF Reads
<1>. HIDE DEF n
<1>3. n = Len(down[a])
  BY DEF n
<1>4. \A i \in 1 .. n - 1 : i + 1 \in 1 .. n /\ i + 1 # 1
  BY <1>1
<1>5. \A i \in 1 .. n - 1 : down'[a][i].type # "joined"
  BY <1>1, <1>3, <1>4 DEF StreamInv, Greeting
<1>6. ASSUME NEW c \in Client PROVE Life(c)'
  <2>1. down'[c] # <<>> => down[c] # <<>>
    BY <1>1, <1>2
  <2>. QED BY <2>1, <1>1, <1>2 DEF StreamInv, Life, InRoom
<1>7. ASSUME NEW c \in Client PROVE Greeting(c)'
  <2>1. CASE c # a
    <3>1. down'[c] = down[c]
      BY <2>1, <1>1
    <3>. QED BY <3>1 DEF StreamInv, Greeting
  <2>2. CASE c = a
    BY <2>2, <1>5, <1>1 DEF Greeting
  <2>. QED BY <2>1, <2>2
<1>8. ~Greeted(a)'
  BY <1>5, <1>1 DEF Greeted
<1>9. m.type = "joined" => IsInjective(m.peers) /\ a \notin ToSet(m.peers)
  <2>1. 1 \in 1 .. n
    BY <1>1
  <2>. QED BY <2>1, <1>1, <1>3 DEF StreamInv, Greeting
<1>. QED BY <1>6, <1>7, <1>8, <1>9 DEF StreamInv

LEMMA ReadingKeepsOrder ==
    ASSUME StreamTypes, NEW a \in Client, NEW m, Reads(a, m),
           NEW c \in Client, NEW d \in Client, OneDescription(c, d)
    PROVE  /\ OneDescription(c, d)'
           /\ d = a => \A x \in Description : m = SignalFrom(c, x) => ~Describing(c, a)'
           /\ Stray(c, d)' => Stray(c, d) \/ (d = a /\ \E x \in Description : m = SignalFrom(c, x))
           /\ m = SignalFrom(c, "candidate") => Stray(c, a)
<1>. DEFINE n == Len(down[a])
<1>1. /\ up' = up
      /\ \A e \in Client \ {a} : down'[e] = down[e]
      /\ m = down[a][1]
      /\ n \in Nat /\ n >= 1 /\ Len(down'[a]) = n - 1
      /\ \A i \in 1 .. n - 1 : down'[a][i] = down[a][i + 1]
      /\ \A i \in 2 .. n : i - 1 \in 1 .. n - 1 /\ down'[a][i - 1] = down[a][i]
  <2>. HIDE DEF n
  <2>1. n = Len(down[a])
    BY DEF n
  <2>. QED BY <2>1, TakenDown
<1>. HIDE DEF n
<1>2. n = Len(down[a])
  BY DEF n
<1>3. (\A i \in 1 .. n - 1 : i + 1 \in 1 .. n) /\ 1 \in 1 .. n
      /\ \A i \in 1 .. n : i = 1 \/ i \in 2 .. n
  BY <1>1
<1>4. m = SignalFrom(c, "candidate") => Stray(c, a)
  <2>1. \A j : j \in 1 .. 1 - 1 => FALSE
    OBVIOUS
  <2>. QED BY <2>1, <1>1, <1>2, <1>3 DEF Stray
<1>5. CASE d # a
  <2>1. up'[c] = up[c] /\ down'[d] = down[d]
    BY <1>5, <1>1
  <2>2. OneDescription(c, d)'
    BY <2>1 DEF OneDescription
  <2>3. Stray(c, d)' => Stray(c, d)
    BY <2>1 DEF Stray
  <2>. QED BY <1>4, <1>5, <2>2, <2>3
<1>6. CASE d = a
  <2>0. up'[c] = up[c]
    BY <1>1
  <2>1. ASSUME NEW i \in 1 .. n - 1, NEW j \in 1 .. n - 1, NEW w \in Description, NEW x \in Description,
               down'[a][i] = SignalFrom(c, w), down'[a][j] = SignalFrom(c, x)
        PROVE  i = j
    <3>1. /\ i + 1 \in 1 .. n /\ j + 1 \in 1 .. n
          /\ down[a][i + 1] = SignalFrom(c, w) /\ down[a][j + 1] = SignalFrom(c, x)
      BY <2>1, <1>1, <1>3
    <3>2. i + 1 = j + 1
      BY <3>1, <1>2, <1>6 DEF OneDescription
    <3>. QED BY <3>2
  <2>2. ASSUME NEW i \in 1 .. Len(up[c]), NEW j \in 1 .. n - 1, NEW w \in Description, NEW x \in Description,
               up[c][i] = SignalTo(a, w), down'[a][j] = SignalFrom(c, x)
        PROVE  FALSE
    <3>1. j + 1 \in 1 .. n /\ down[a][j + 1] = SignalFrom(c, x)
      BY <2>2, <1>1, <1>3
    <3>. QED BY <3>1, <2>2, <1>2, <1>6 DEF OneDescription
  <2>3. OneDescription(c, a)'
    BY <2>0, <2>1, <2>2, <1>1, <1>6 DEF OneDescription
  <2>4. ASSUME NEW x \in Description, m = SignalFrom(c, x), NEW w \in Description, Flying(c, a, w)'
        PROVE  FALSE
    <3>1. CASE \E i \in 1 .. Len(up[c]) : up[c][i] = SignalTo(a, w)
      <4>1. PICK i \in 1 .. Len(up[c]) : up[c][i] = SignalTo(a, w)
        BY <3>1
      <4>2. 1 \in 1 .. Len(down[a]) /\ down[a][1] = SignalFrom(c, x)
        BY <2>4, <1>1, <1>2, <1>3
      <4>. QED BY <4>1, <4>2, <1>6 DEF OneDescription
    <3>2. CASE \E i \in 1 .. n - 1 : down'[a][i] = SignalFrom(c, w)
      <4>1. PICK i \in 1 .. n - 1 : down'[a][i] = SignalFrom(c, w)
        BY <3>2
      <4>2. i + 1 \in 1 .. n /\ down[a][i + 1] = SignalFrom(c, w) /\ i + 1 # 1
        BY <4>1, <1>1, <1>3
      <4>3. down[a][1] = SignalFrom(c, x)
        BY <2>4, <1>1
      <4>. QED BY <4>2, <4>3, <1>2, <1>3, <1>6 DEF OneDescription
    <3>. QED BY <3>1, <3>2, <2>4, <2>0, <1>1 DEF Flying
  <2>5. ASSUME Stray(c, a)', \A x \in Description : m # SignalFrom(c, x) PROVE Stray(c, a)
    <3>1. CASE \E i \in 1 .. n - 1 :
                  /\ down'[a][i] = SignalFrom(c, "candidate")
                  /\ \A j \in 1 .. i - 1 : \A x \in Description : down'[a][j] # SignalFrom(c, x)
      <4>1. PICK i \in 1 .. n - 1 :
                  /\ down'[a][i] = SignalFrom(c, "candidate")
                  /\ \A j \in 1 .. i - 1 : \A x \in Description : down'[a][j] # SignalFrom(c, x)
        BY <3>1
      <4>2. i + 1 \in 1 .. n /\ down[a][i + 1] = SignalFrom(c, "candidate")
        BY <4>1, <1>1, <1>3
      <4>3. ASSUME NEW j \in 1 .. (i + 1) - 1, NEW x \in Description
            PROVE  down[a][j] # SignalFrom(c, x)
        <5>1. CASE j = 1
          BY <5>1, <2>5, <1>1
        <5>2. CASE j # 1
          <6>1. j \in 2 .. n /\ j - 1 \in 1 .. i - 1
            BY <5>2, <1>1
          <6>. QED BY <6>1, <4>1, <1>1
        <5>. QED BY <5>1, <5>2
      <4>. QED BY <4>2, <4>3, <1>2 DEF Stray
    <3>2. CASE \E i \in 1 .. Len(up[c]) :
                  /\ up[c][i] = SignalTo(a, "candidate")
                  /\ \A j \in 1 .. i - 1 : \A w \in Description : up[c][j] # SignalTo(a, w)
                  /\ \A j \in 1 .. n - 1 : \A w \in Description : down'[a][j] # SignalFrom(c, w)
      <4>1. ASSUME NEW j \in 1 .. n, NEW w \in Description PROVE down[a][j] # SignalFrom(c, w)
        <5>1. CASE j = 1
          BY <5>1, <2>5, <1>1
        <5>2. CASE j \in 2 .. n
          <6>1. j - 1 \in 1 .. n - 1 /\ down'[a][j - 1] = down[a][j]
            BY <5>2, <1>1
          <6>. QED BY <6>1, <3>2
        <5>. QED BY <5>1, <5>2, <1>3
      <4>. QED BY <3>2, <4>1, <1>2 DEF Stray
    <3>. QED BY <3>1, <3>2, <2>0, <2>5, <1>1 DEF Stray
  <2>. QED BY <1>4, <1>6, <2>3, <2>4, <2>5 DEF Describing
<1>. QED BY <1>5, <1>6

-----------------------------------------------------------------------------
(* A page leaves, or its link is cut behind the n-th frame.                *)

Departs(a, n) ==
    /\ page[a] = "call" /\ n \in 0 .. Len(up[a])
    /\ \E p \in {"left", "cut"} : page' = [page EXCEPT ![a] = p]
    /\ up' = [up EXCEPT ![a] = Append(SubSeq(@, 1, n), CloseFrame)]
    /\ down' = [down EXCEPT ![a] = <<>>]
    /\ room' = room

LEMMA Cut ==
    ASSUME StreamTypes, MeshTypeOK, NEW a \in Client, NEW n, Departs(a, n)
    PROVE  /\ up' \in [Client -> Seq(PageFrame)]
           /\ down' \in [Client -> Seq(RelayFrame)]
           /\ \A c \in Client \ {a} : /\ up'[c] = up[c] /\ down'[c] = down[c]
                                      /\ page'[c] = page[c]
           /\ n \in Nat /\ n <= Len(up[a]) /\ Len(up[a]) \in Nat
           /\ Len(up'[a]) = n + 1
           /\ \A i \in 1 .. n : i \in 1 .. Len(up[a]) /\ up'[a][i] = up[a][i]
           /\ up'[a][n + 1] = CloseFrame
           /\ down'[a] = <<>> /\ Len(down'[a]) = 0
           /\ page[a] = "call" /\ page'[a] \in {"left", "cut"}
<1>1. up[a] \in Seq(PageFrame) /\ CloseFrame \in PageFrame
  BY PageFrames DEF StreamTypes
<1>2. Len(up[a]) \in Nat /\ \A i \in 1 .. Len(up[a]) : up[a][i] \in PageFrame
  BY <1>1, Members, ElementOfSeq
<1>3. n \in Nat /\ n <= Len(up[a])
  BY <1>2 DEF Departs
<1>. DEFINE s == SubSeq(up[a], 1, n)
<1>4. s \in Seq(PageFrame) /\ Len(s) = n /\ \A i \in 1 .. n : s[i] = up[a][i]
  <2>1. \A i \in 1 .. n : up[a][i] \in PageFrame
    BY <1>2, <1>3
  <2>2. 1 \in Int /\ n \in Int
    BY <1>3
  <2>3. /\ s \in Seq(PageFrame)
        /\ Len(s) = IF 1 <= n THEN n - 1 + 1 ELSE 0
        /\ \A i \in 1 .. n - 1 + 1 : s[i] = up[a][1 + i - 1]
    BY <2>1, <2>2, SubSeqProperties
  <2>. QED BY <2>3, <1>3
<1>. HIDE DEF s
<1>5. /\ Append(s, CloseFrame) \in Seq(PageFrame)
      /\ Len(Append(s, CloseFrame)) = n + 1
      /\ \A i \in 1 .. n : Append(s, CloseFrame)[i] = up[a][i]
      /\ Append(s, CloseFrame)[n + 1] = CloseFrame
  BY <1>1, <1>4, Appended
<1>6. up' = [up EXCEPT ![a] = Append(s, CloseFrame)]
  BY DEF Departs, s
<1>7. /\ up' \in [Client -> Seq(PageFrame)]
      /\ \A c \in Client \ {a} : up'[c] = up[c]
      /\ up'[a] = Append(s, CloseFrame)
  BY <1>5, <1>6 DEF StreamTypes
<1>8. /\ down' \in [Client -> Seq(RelayFrame)]
      /\ \A c \in Client \ {a} : down'[c] = down[c]
      /\ down'[a] = <<>> /\ Len(down'[a]) = 0
  BY EmptySeq DEF StreamTypes, Departs
<1>9. /\ page[a] = "call" /\ page'[a] \in {"left", "cut"}
      /\ \A c \in Client \ {a} : page'[c] = page[c]
  BY DEF Departs, MeshTypeOK
<1>. QED BY <1>2, <1>3, <1>5, <1>7, <1>8, <1>9

LEMMA DepartureShows ==
    ASSUME StreamTypes, MeshTypeOK, NEW a \in Client, NEW n, Departs(a, n),
           NEW c \in Client, NEW d \in Client
    PROVE  /\ \A x \in What : /\ Flying(c, d, x)' => Flying(c, d, x)
                              /\ c # a /\ d # a /\ Flying(c, d, x) => Flying(c, d, x)'
           /\ WritesTo(c, d)' => WritesTo(c, d)
           /\ NamedIn(c, d)' => NamedIn(c, d)
           /\ Remembered(c, d)' => Remembered(c, d)
           /\ Late(c, d)' => Late(c, d)
           /\ Leaving(c, d)' => Leaving(c, d)
           /\ c # a => (Leaving(c, d)' <=> Leaving(c, d))
           /\ Greets(c, d)' => Greets(c, d)
           /\ Greeted(c)' => Greeted(c)
           /\ ~Greeted(a)'
           /\ Joining(c)' => Joining(c)
<1>1. /\ \A e \in Client \ {a} : up'[e] = up[e] /\ down'[e] = down[e] /\ page'[e] = page[e]
      /\ n \in Nat /\ Len(up'[a]) = n + 1
      /\ \A i \in 1 .. n : i \in 1 .. Len(up[a]) /\ up'[a][i] = up[a][i]
      /\ up'[a][n + 1] = CloseFrame
      /\ down'[a] = <<>> /\ Len(down'[a]) = 0
      /\ page[a] = "call" /\ page'[a] \in {"left", "cut"}
  BY Cut
<1>2. \A i \in 1 .. n + 1 : i \in 1 .. n \/ i = n + 1
  BY <1>1
<1>3. CloseFrame.type = "close" /\ \A e, x : CloseFrame # SignalTo(e, x) /\ SignalTo(e, x).type = "signal"
  <2>1. CloseFrame.type = "close" /\ \A e, x : SignalTo(e, x).type = "signal"
    BY DEF CloseFrame, SignalTo
  <2>. QED BY <2>1
<1>4. ASSUME NEW x \in What
      PROVE  /\ Flying(c, d, x)' => Flying(c, d, x)
             /\ c # a /\ d # a /\ Flying(c, d, x) => Flying(c, d, x)'
  <2>1. (\E i \in 1 .. Len(up'[c]) : up'[c][i] = SignalTo(d, x)) =>
           \E i \in 1 .. Len(up[c]) : up[c][i] = SignalTo(d, x)
    <3>1. CASE c = a
      <4>1. ASSUME NEW i \in 1 .. n + 1, up'[a][i] = SignalTo(d, x)
            PROVE  i \in 1 .. Len(up[a]) /\ up[a][i] = SignalTo(d, x)
        BY <4>1, <1>1, <1>2, <1>3
      <4>. QED BY <3>1, <4>1, <1>1
    <3>2. CASE c # a
      BY <3>2, <1>1
    <3>. QED BY <3>1, <3>2
  <2>2. (\E i \in 1 .. Len(down'[d]) : down'[d][i] = SignalFrom(c, x)) =>
           \E i \in 1 .. Len(down[d]) : down[d][i] = SignalFrom(c, x)
    <3>1. CASE d = a
      BY <3>1, <1>1
    <3>2. CASE d # a
      BY <3>2, <1>1
    <3>. QED BY <3>1, <3>2
  <2>3. ASSUME c # a, d # a, Flying(c, d, x) PROVE Flying(c, d, x)'
    BY <2>3, <1>1 DEF Flying
  <2>. QED BY <2>1, <2>2, <2>3 DEF Flying
<1>5. WritesTo(c, d)' => WritesTo(c, d)
  <2>1. CASE c = a
    BY <2>1, <1>1, <1>2, <1>3 DEF WritesTo
  <2>2. CASE c # a
    <3>1. up'[c] = up[c]
      BY <2>2, <1>1
    <3>. QED BY <3>1 DEF WritesTo
  <2>. QED BY <2>1, <2>2
<1>6. /\ NamedIn(c, d)' => NamedIn(c, d)
      /\ Remembered(c, d)' => Remembered(c, d)
      /\ Late(c, d)' => Late(c, d)
      /\ Leaving(c, d)' => Leaving(c, d)
      /\ c # a => (Leaving(c, d)' <=> Leaving(c, d))
      /\ Greets(c, d)' => Greets(c, d)
      /\ Greeted(c)' => Greeted(c)
  <2>1. CASE c = a
    <3>1. \A i : i \in 1 .. Len(down'[a]) => FALSE
      BY <1>1
    <3>2. ~NamedIn(a, d)' /\ ~Remembered(a, d)' /\ ~Late(a, d)' /\ ~Greets(a, d)' /\ ~Greeted(a)'
      BY <3>1 DEF NamedIn, Remembered, Late, Greets, Greeted
    <3>3. ~Leaving(a, d)'
      <4>1. DOMAIN (down'[a]) = {}
        BY <1>1
      <4>. QED BY <4>1 DEF Leaving
    <3>. QED BY <2>1, <3>2, <3>3
  <2>2. CASE c # a
    <3>1. down'[c] = down[c]
      BY <2>2, <1>1
    <3>2. NamedIn(c, d)' => NamedIn(c, d)
      BY <3>1 DEF NamedIn
    <3>3. Remembered(c, d)' => Remembered(c, d)
      BY <3>1 DEF Remembered
    <3>4. Late(c, d)' => Late(c, d)
      BY <3>1 DEF Late
    <3>5. Leaving(c, d)' <=> Leaving(c, d)
      BY <3>1 DEF Leaving
    <3>6. (Greets(c, d)' => Greets(c, d)) /\ (Greeted(c)' => Greeted(c))
      BY <3>1 DEF Greets, Greeted
    <3>. QED BY <3>2, <3>3, <3>4, <3>5, <3>6
  <2>. QED BY <2>1, <2>2
<1>7. ~Greeted(a)'
  <2>1. \A i : i \in 1 .. Len(down'[a]) => FALSE
    BY <1>1
  <2>. QED BY <2>1 DEF Greeted
<1>8. Joining(c)' => Joining(c)
  <2>1. CASE c = a
    BY <2>1, <1>1, <1>2, <1>3 DEF Joining
  <2>2. CASE c # a
    <3>1. up'[c] = up[c] /\ page'[c] = page[c]
      BY <2>2, <1>1
    <3>. QED BY <3>1 DEF Joining
  <2>. QED BY <2>1, <2>2
<1>. QED BY <1>4, <1>5, <1>6, <1>7, <1>8

LEMMA DepartureKeepsLife ==
    ASSUME StreamTypes, MeshTypeOK, StreamInv, NEW a \in Client, NEW n, Departs(a, n)
    PROVE  StreamInv'
<1>1. /\ \A e \in Client \ {a} : up'[e] = up[e] /\ down'[e] = down[e] /\ page'[e] = page[e]
      /\ n \in Nat /\ Len(up'[a]) = n + 1
      /\ \A i \in 1 .. n : i \in 1 .. Len(up[a]) /\ up'[a][i] = up[a][i]
      /\ up'[a][n + 1] = CloseFrame
      /\ down'[a] = <<>> /\ Len(down'[a]) = 0
      /\ page[a] = "call" /\ page'[a] \in {"left", "cut"}
  BY Cut
<1>2. \A i \in 1 .. n + 1 : i \in 1 .. n \/ i = n + 1
  BY <1>1
<1>3. CloseFrame.type = "close" /\ room' = room
  BY DEF CloseFrame, Departs
<1>4. ASSUME NEW c \in Client PROVE Life(c)'
  <2>1. Life(c)
    BY DEF StreamInv
  <2>2. CASE c # a
    <3>1. up'[c] = up[c] /\ down'[c] = down[c] /\ page'[c] = page[c]
      BY <2>2, <1>1
    <3>. QED BY <3>1, <2>1, <1>3 DEF Life, InRoom
  <2>3. CASE c = a
    <3>1. \A i \in 1 .. n + 1 :
             /\ up'[a][i].type = "join" => i = 1 /\ ~InRoom(a)
             /\ up'[a][i].type = "signal" => InRoom(a)
             /\ up'[a][i].type = "close" => i = n + 1
      <4>1. ASSUME NEW i \in 1 .. n
            PROVE  /\ up'[a][i].type = "join" => i = 1 /\ ~InRoom(a)
                   /\ up'[a][i].type = "signal" => InRoom(a)
                   /\ up'[a][i].type # "close"
        BY <2>1, <2>3, <1>1 DEF Life
      <4>. QED BY <4>1, <1>1, <1>2, <1>3
    <3>2. up'[a] # <<>> /\ up'[a][Len(up'[a])].type = "close"
      BY <1>1, <1>3
    <3>. QED BY <3>1, <3>2, <2>3, <1>1, <1>3 DEF Life, InRoom
  <2>. QED BY <2>2, <2>3
<1>5. ASSUME NEW c \in Client PROVE Greeting(c)'
  <2>1. CASE c # a
    <3>1. down'[c] = down[c]
      BY <2>1, <1>1
    <3>. QED BY <3>1 DEF StreamInv, Greeting
  <2>2. CASE c = a
    <3>1. \A i : i \in 1 .. Len(down'[a]) => FALSE
      BY <1>1
    <3>. QED BY <2>2, <3>1 DEF Greeting
  <2>. QED BY <2>1, <2>2
<1>. QED BY <1>4, <1>5 DEF StreamInv

LEMMA DepartureKeepsOrder ==
    ASSUME StreamTypes, MeshTypeOK, NEW a \in Client, NEW n, Departs(a, n),
           NEW c \in Client, NEW d \in Client, OneDescription(c, d)
    PROVE  /\ OneDescription(c, d)'
           /\ d # a => (Stray(c, d)' => Stray(c, d))
<1>1. /\ \A e \in Client \ {a} : up'[e] = up[e] /\ down'[e] = down[e]
      /\ n \in Nat /\ Len(up'[a]) = n + 1
      /\ \A i \in 1 .. n : i \in 1 .. Len(up[a]) /\ up'[a][i] = up[a][i]
      /\ up'[a][n + 1] = CloseFrame
      /\ down'[a] = <<>> /\ Len(down'[a]) = 0
  BY Cut
<1>2. \A i \in 1 .. n + 1 : i \in 1 .. n \/ i = n + 1
  BY <1>1
<1>3. \A e, x : CloseFrame # SignalTo(e, x)
  <2>1. CloseFrame.type = "close" /\ \A e, x : SignalTo(e, x).type = "signal"
    BY DEF CloseFrame, SignalTo
  <2>. QED BY <2>1
<1>4. \A i \in 1 .. Len(down'[d]) : i \in 1 .. Len(down[d]) /\ down'[d][i] = down[d][i]
  BY <1>1
<1>5. \A i \in 1 .. Len(up'[c]) : \A x : up'[c][i] = SignalTo(d, x) =>
         i \in 1 .. Len(up[c]) /\ up[c][i] = SignalTo(d, x)
  <2>1. CASE c = a
    BY <2>1, <1>1, <1>2, <1>3
  <2>2. CASE c # a
    BY <2>2, <1>1
  <2>. QED BY <2>1, <2>2
<1>6. OneDescription(c, d)'
  <2>1. \A i, j \in 1 .. Len(up'[c]) : \A x, y \in Description :
           up'[c][i] = SignalTo(d, x) /\ up'[c][j] = SignalTo(d, y) => i = j
    BY <1>5 DEF OneDescription
  <2>2. \A i, j \in 1 .. Len(down'[d]) : \A x, y \in Description :
           down'[d][i] = SignalFrom(c, x) /\ down'[d][j] = SignalFrom(c, y) => i = j
    BY <1>4 DEF OneDescription
  <2>3. \A i \in 1 .. Len(up'[c]), j \in 1 .. Len(down'[d]) : \A x, y \in Description :
           ~(up'[c][i] = SignalTo(d, x) /\ down'[d][j] = SignalFrom(c, y))
    BY <1>4, <1>5 DEF OneDescription
  <2>. QED BY <2>1, <2>2, <2>3 DEF OneDescription
<1>7. ASSUME d # a, Stray(c, d)' PROVE Stray(c, d)
  <2>0. down'[d] = down[d]
    BY <1>7, <1>1
  <2>1. CASE \E i \in 1 .. Len(down[d]) :
          /\ down[d][i] = SignalFrom(c, "candidate")
          /\ \A j \in 1 .. i - 1 : \A w \in Description : down[d][j] # SignalFrom(c, w)
    BY <2>1 DEF Stray
  <2>2. ASSUME NEW i \in 1 .. Len(up'[c]),
               up'[c][i] = SignalTo(d, "candidate"),
               \A j \in 1 .. i - 1 : \A w \in Description : up'[c][j] # SignalTo(d, w),
               \A j \in 1 .. Len(down[d]) : \A w \in Description : down[d][j] # SignalFrom(c, w)
        PROVE  Stray(c, d)
    <3>1. i \in 1 .. Len(up[c]) /\ up[c][i] = SignalTo(d, "candidate")
      BY <2>2, <1>5
    <3>2. \A j \in 1 .. i - 1 : up'[c][j] = up[c][j]
      <4>1. CASE c = a
        BY <4>1, <1>1, <2>2
      <4>2. CASE c # a
        BY <4>2, <1>1
      <4>. QED BY <4>1, <4>2
    <3>. QED BY <3>1, <3>2, <2>2 DEF Stray
  <2>. QED BY <1>7, <2>0, <2>1, <2>2 DEF Stray
<1>. QED BY <1>6, <1>7

-----------------------------------------------------------------------------
(* A page connects.                                                        *)

Connects(a) ==
    /\ page[a] = "lobby"
    /\ page' = [page EXCEPT ![a] = "call"]
    /\ up' = [up EXCEPT ![a] = <<JoinFrame>>]
    /\ UNCHANGED <<down, room>>

LEMMA ConnectingShows ==
    ASSUME StreamTypes, MeshTypeOK, StreamInv, NEW a \in Client, Connects(a)
    PROVE  /\ up' \in [Client -> Seq(PageFrame)] /\ down' = down /\ room' = room
           /\ page[a] = "lobby" /\ page'[a] = "call"
           /\ \A e \in Client \ {a} : page'[e] = page[e]
           /\ Joining(a)
           /\ StreamInv'
           /\ \A c, d \in Client :
                 /\ \A x \in What : Flying(c, d, x)' <=> Flying(c, d, x)
                 /\ WritesTo(c, d)' => WritesTo(c, d)
                 /\ Joining(c)' => Joining(c)
                 /\ OneDescription(c, d) => OneDescription(c, d)'
                 /\ Stray(c, d)' => Stray(c, d)
<1>1. /\ up' \in [Client -> Seq(PageFrame)] /\ down' = down /\ room' = room
      /\ \A e \in Client \ {a} : up'[e] = up[e] /\ page'[e] = page[e]
      /\ page[a] = "lobby" /\ page'[a] = "call"
      /\ up'[a] = <<JoinFrame>>
  BY PageFrames DEF Connects, StreamTypes, MeshTypeOK
<1>2. /\ Len(up'[a]) = 1 /\ up'[a][1] = JoinFrame /\ \A i \in 1 .. 1 : i = 1
      /\ JoinFrame.type = "join"
      /\ \A e, x : JoinFrame # SignalTo(e, x)
  <2>1. JoinFrame.type = "join" /\ \A e, x : SignalTo(e, x).type = "signal"
    BY DEF JoinFrame, SignalTo
  <2>. QED BY <2>1, <1>1
<1>3. up[a] = <<>> /\ Len(up[a]) = 0 /\ ~InRoom(a)
  BY <1>1 DEF StreamInv, Life
<1>4. ASSUME NEW c \in Client, NEW d \in Client
      PROVE  /\ \A x \in What : Flying(c, d, x)' <=> Flying(c, d, x)
             /\ WritesTo(c, d)' => WritesTo(c, d)
             /\ Joining(c)' => Joining(c)
             /\ OneDescription(c, d) => OneDescription(c, d)'
             /\ Stray(c, d)' => Stray(c, d)
  <2>1. CASE c # a
    <3>1. up'[c] = up[c] /\ page'[c] = page[c] /\ down'[d] = down[d]
      BY <2>1, <1>1
    <3>2. \A x \in What : Flying(c, d, x)' <=> Flying(c, d, x)
      BY <3>1 DEF Flying
    <3>3. OneDescription(c, d) => OneDescription(c, d)'
      BY <3>1 DEF OneDescription
    <3>4. Stray(c, d)' => Stray(c, d)
      BY <3>1 DEF Stray
    <3>. QED BY <3>1, <3>2, <3>3, <3>4 DEF WritesTo, Joining
  <2>2. CASE c = a
    <3>1. \A i \in 1 .. Len(up'[a]) : \A x : up'[a][i] # SignalTo(d, x)
      BY <1>2
    <3>2. \A i : i \in 1 .. Len(up[a]) => FALSE
      BY <1>3
    <3>3. \A x \in What : Flying(c, d, x)' <=> Flying(c, d, x)
      BY <2>2, <3>1, <3>2, <1>1 DEF Flying
    <3>4. OneDescription(c, d) => OneDescription(c, d)'
      BY <2>2, <3>1, <1>1 DEF OneDescription
    <3>5. Stray(c, d)' => Stray(c, d)
      BY <2>2, <3>1, <1>1 DEF Stray
    <3>6. WritesTo(c, d)' => WritesTo(c, d)
      BY <2>2, <1>2 DEF WritesTo
    <3>. QED BY <2>2, <3>3, <3>4, <3>5, <3>6, <1>1 DEF Joining
  <2>. QED BY <2>1, <2>2
<1>5. ASSUME NEW c \in Client PROVE Life(c)' /\ Greeting(c)'
  <2>1. Life(c) /\ Greeting(c)
    BY DEF StreamInv
  <2>2. Greeting(c)'
    BY <2>1, <1>1 DEF Greeting
  <2>3. CASE c # a
    <3>1. up'[c] = up[c] /\ page'[c] = page[c]
      BY <2>3, <1>1
    <3>. QED BY <3>1, <2>1, <2>2, <1>1 DEF Life, InRoom
  <2>4. CASE c = a
    <3>1. down'[a] = <<>>
      BY <2>1, <2>4, <1>1 DEF Life
    <3>2. \A i \in 1 .. Len(up'[a]) : i = 1 /\ up'[a][i].type = "join"
      BY <1>2
    <3>. QED BY <2>2, <2>4, <3>1, <3>2, <1>1, <1>3 DEF Life, InRoom
  <2>. QED BY <2>3, <2>4
<1>6. Joining(a)
  BY <1>1 DEF Joining
<1>. QED BY <1>1, <1>4, <1>5, <1>6 DEF StreamInv

-----------------------------------------------------------------------------
(* The server takes the next frame of a page, and appends to streams.      *)

Serves(a, m) ==
    /\ up[a] # <<>> /\ m = Head(up[a])
    /\ up' = [up EXCEPT ![a] = Tail(@)]
    /\ page' = page

LEMMA TakenUp ==
    ASSUME StreamTypes, NEW a \in Client, NEW m, Serves(a, m)
    PROVE  /\ up' \in [Client -> Seq(PageFrame)] /\ page' = page
           /\ \A c \in Client \ {a} : up'[c] = up[c]
           /\ m = up[a][1] /\ m \in PageFrame
           /\ Len(up[a]) \in Nat /\ Len(up[a]) >= 1
           /\ Len(up'[a]) = Len(up[a]) - 1
           /\ \A i \in 1 .. Len(up[a]) - 1 : up'[a][i] = up[a][i + 1]
           /\ \A i \in 2 .. Len(up[a]) :
                 i - 1 \in 1 .. Len(up'[a]) /\ up'[a][i - 1] = up[a][i]
<1>1. up[a] \in Seq(PageFrame) /\ up[a] # <<>>
  BY DEF StreamTypes, Serves
<1>2. /\ Tail(up[a]) \in Seq(PageFrame)
      /\ Head(up[a]) = up[a][1] /\ up[a][1] \in PageFrame
      /\ Len(up[a]) \in Nat /\ Len(up[a]) >= 1
      /\ Len(Tail(up[a])) = Len(up[a]) - 1
      /\ \A i \in 1 .. Len(up[a]) - 1 : Tail(up[a])[i] = up[a][i + 1]
  BY <1>1, Taken
<1>3. /\ up' \in [Client -> Seq(PageFrame)] /\ page' = page
      /\ \A c \in Client \ {a} : up'[c] = up[c]
      /\ up'[a] = Tail(up[a]) /\ m = up[a][1]
  BY <1>1, <1>2 DEF Serves, StreamTypes
<1>4. ASSUME NEW i \in 2 .. Len(up[a])
      PROVE  i - 1 \in 1 .. Len(up'[a]) /\ up'[a][i - 1] = up[a][i]
  <2>1. i - 1 \in 1 .. Len(up[a]) - 1 /\ (i - 1) + 1 = i
    BY <1>2
  <2>. QED BY <2>1, <1>2, <1>3
<1>. QED BY <1>2, <1>3, <1>4

LEMMA ServingShows ==
    ASSUME StreamTypes, NEW a \in Client, NEW m, Serves(a, m),
           NEW c \in Client, NEW d \in Client
    PROVE  /\ \A x : (\E i \in 1 .. Len(up'[c]) : up'[c][i] = SignalTo(d, x)) =>
                         \E i \in 1 .. Len(up[c]) : up[c][i] = SignalTo(d, x)
           /\ \A x : (\E i \in 1 .. Len(up[c]) : up[c][i] = SignalTo(d, x)) =>
                         \/ \E i \in 1 .. Len(up'[c]) : up'[c][i] = SignalTo(d, x)
                         \/ c = a /\ m = SignalTo(d, x)
           /\ WritesTo(c, d)' => WritesTo(c, d)
           /\ m.type = "signal" => WritesTo(a, m.to)
           /\ Joining(c)' => Joining(c)
<1>. DEFINE n == Len(up[a])
<1>1. /\ page' = page
      /\ \A e \in Client \ {a} : up'[e] = up[e]
      /\ m = up[a][1]
      /\ n \in Nat /\ n >= 1 /\ Len(up'[a]) = n - 1
      /\ \A i \in 1 .. n - 1 : up'[a][i] = up[a][i + 1]
      /\ \A i \in 2 .. n : i - 1 \in 1 .. n - 1 /\ up'[a][i - 1] = up[a][i]
  <2>. HIDE DEF n
  <2>1. n = Len(up[a])
    BY DEF n
  <2>. QED BY <2>1, TakenUp
<1>. HIDE DEF n
<1>2. n = Len(up[a])
  BY DEF n
<1>3. (\A i \in 1 .. n - 1 : i + 1 \in 1 .. n) /\ 1 \in 1 .. n
      /\ \A i \in 1 .. n : i = 1 \/ i \in 2 .. n
  BY <1>1
<1>4. CASE c # a
  <2>1. up'[c] = up[c]
    BY <1>4, <1>1
  <2>2. m.type = "signal" => WritesTo(a, m.to)
    BY <1>1, <1>2, <1>3 DEF WritesTo
  <2>3. (WritesTo(c, d)' => WritesTo(c, d)) /\ (Joining(c)' => Joining(c))
    BY <2>1, <1>1 DEF WritesTo, Joining
  <2>. QED BY <2>1, <2>2, <2>3
<1>5. CASE c = a
  <2>1. ASSUME NEW x, NEW i \in 1 .. n - 1, up'[a][i] = SignalTo(d, x)
        PROVE  \E j \in 1 .. n : up[a][j] = SignalTo(d, x)
    <3>1. i + 1 \in 1 .. n /\ up[a][i + 1] = SignalTo(d, x)
      BY <2>1, <1>1, <1>3
    <3>. QED BY <3>1
  <2>2. ASSUME NEW x, NEW i \in 1 .. n, up[a][i] = SignalTo(d, x)
        PROVE  m = SignalTo(d, x) \/ \E j \in 1 .. n - 1 : up'[a][j] = SignalTo(d, x)
    BY <2>2, <1>1, <1>3
  <2>3. WritesTo(a, d)' => WritesTo(a, d)
    <3>1. ASSUME NEW i \in 1 .. n - 1, up'[a][i].type = "signal" /\ up'[a][i].to = d
          PROVE  WritesTo(a, d)
      <4>1. i + 1 \in 1 .. n /\ up[a][i + 1] = up'[a][i]
        BY <1>1, <1>3
      <4>. QED BY <3>1, <4>1, <1>2 DEF WritesTo
    <3>. QED BY <3>1, <1>1 DEF WritesTo
  <2>4. m.type = "signal" => WritesTo(a, m.to)
    BY <1>1, <1>2, <1>3 DEF WritesTo
  <2>5. Joining(a)' => Joining(a)
    <3>1. ASSUME NEW i \in 1 .. n - 1, up'[a][i].type = "join"
          PROVE  Joining(a)
      <4>1. i + 1 \in 1 .. n /\ up[a][i + 1] = up'[a][i]
        BY <1>1, <1>3
      <4>. QED BY <3>1, <4>1, <1>2 DEF Joining
    <3>. QED BY <3>1, <1>1 DEF Joining
  <2>. QED BY <1>5, <2>1, <2>2, <2>3, <2>4, <2>5, <1>1, <1>2
<1>. QED BY <1>4, <1>5

LEMMA Grows ==
    ASSUME StreamTypes, NEW d \in Client, NEW f \in RelayFrame,
           down'[d] = Append(down[d], f)
    PROVE  /\ Len(down[d]) \in Nat /\ Len(down'[d]) = Len(down[d]) + 1
           /\ \A i \in 1 .. Len(down[d]) : down'[d][i] = down[d][i]
           /\ down'[d][Len(down[d]) + 1] = f
           /\ \A i \in 1 .. Len(down[d]) + 1 : i \in 1 .. Len(down[d]) \/ i = Len(down[d]) + 1
           /\ down'[d] \in Seq(RelayFrame)
<1>1. down[d] \in Seq(RelayFrame)
  BY DEF StreamTypes
<1>. QED BY <1>1, Appended

LEMMA GrowingShows ==
    ASSUME StreamTypes, NEW d \in Client, NEW f \in RelayFrame,
           down'[d] = Append(down[d], f), NEW c \in Client
    PROVE  /\ \A x : (\E i \in 1 .. Len(down'[d]) : down'[d][i] = SignalFrom(c, x)) <=>
                         \/ \E i \in 1 .. Len(down[d]) : down[d][i] = SignalFrom(c, x)
                         \/ f = SignalFrom(c, x)
           /\ NamedIn(d, c)' => NamedIn(d, c) \/ Names(f, c)
           /\ Remembered(d, c)' => (Remembered(d, c) /\ f # PeerLeft(c)) \/ Names(f, c)
           /\ Leaving(d, c)' <=> Leaving(d, c) \/ f = PeerLeft(c)
           /\ Late(d, c)' => Late(d, c) \/ (Leaving(d, c) /\ f.type = "signal" /\ f.from = c)
           /\ Greets(d, c)' => Greets(d, c) \/ (f.type = "joined" /\ c \in ToSet(f.peers))
           /\ Greeted(d)' => Greeted(d) \/ f.type = "joined"
<1>. DEFINE n == Len(down[d])
<1>1. /\ n \in Nat /\ Len(down'[d]) = n + 1
      /\ \A i \in 1 .. n : down'[d][i] = down[d][i]
      /\ down'[d][n + 1] = f
      /\ \A i \in 1 .. n + 1 : i \in 1 .. n \/ i = n + 1
      /\ down'[d] \in Seq(RelayFrame)
  BY Grows
<1>. HIDE DEF n
<1>2. n = Len(down[d])
  BY DEF n
<1>3. n + 1 \in 1 .. n + 1 /\ \A i \in 1 .. n : i \in 1 .. n + 1
  BY <1>1
<1>4. ASSUME NEW x
      PROVE  (\E i \in 1 .. n + 1 : down'[d][i] = SignalFrom(c, x)) <=>
                \/ \E i \in 1 .. n : down[d][i] = SignalFrom(c, x)
                \/ f = SignalFrom(c, x)
  <2>1. ASSUME NEW i \in 1 .. n + 1, down'[d][i] = SignalFrom(c, x)
        PROVE  f = SignalFrom(c, x) \/ \E j \in 1 .. n : down[d][j] = SignalFrom(c, x)
    BY <2>1, <1>1
  <2>2. ASSUME NEW i \in 1 .. n, down[d][i] = SignalFrom(c, x)
        PROVE  \E j \in 1 .. n + 1 : down'[d][j] = SignalFrom(c, x)
    <3>1. i \in 1 .. n + 1 /\ down'[d][i] = SignalFrom(c, x)
      BY <2>2, <1>1, <1>3
    <3>. QED BY <3>1
  <2>3. f = SignalFrom(c, x) => \E j \in 1 .. n + 1 : down'[d][j] = SignalFrom(c, x)
    BY <1>1, <1>3
  <2>. QED BY <2>1, <2>2, <2>3
<1>5. NamedIn(d, c)' => NamedIn(d, c) \/ Names(f, c)
  <2>1. ASSUME NEW i \in 1 .. n + 1, Names(down'[d][i], c) PROVE NamedIn(d, c) \/ Names(f, c)
    <3>1. CASE i \in 1 .. n
      <4>1. Names(down[d][i], c)
        BY <3>1, <2>1, <1>1
      <4>. QED BY <3>1, <4>1, <1>2 DEF NamedIn
    <3>2. CASE i = n + 1
      BY <3>2, <2>1, <1>1
    <3>. QED BY <3>1, <3>2, <1>1
  <2>2. NamedIn(d, c)' <=> \E i \in 1 .. Len(down'[d]) : Names(down'[d][i], c)
    BY DEF NamedIn, Names
  <2>. QED BY <2>1, <2>2, <1>1
<1>6. Remembered(d, c)' => (Remembered(d, c) /\ f # PeerLeft(c)) \/ Names(f, c)
  <2>1. ASSUME NEW i \in 1 .. n + 1, Names(down'[d][i], c),
               \A j \in 1 .. n + 1 : j > i => down'[d][j] # PeerLeft(c)
        PROVE  (Remembered(d, c) /\ f # PeerLeft(c)) \/ Names(f, c)
    <3>1. CASE i \in 1 .. n
      <4>1. Names(down[d][i], c)
        BY <3>1, <2>1, <1>1
      <4>2. n + 1 > i
        BY <3>1, <1>1
      <4>3. f # PeerLeft(c)
        BY <4>2, <2>1, <1>1, <1>3
      <4>4. \A j \in 1 .. n : j > i => down[d][j] # PeerLeft(c)
        BY <2>1, <1>1, <1>3
      <4>. QED BY <3>1, <4>1, <4>3, <4>4, <1>2 DEF Remembered
    <3>2. CASE i = n + 1
      BY <3>2, <2>1, <1>1
    <3>. QED BY <3>1, <3>2, <1>1
  <2>2. Remembered(d, c)' <=>
           \E i \in 1 .. Len(down'[d]) :
              /\ Names(down'[d][i], c)
              /\ \A j \in 1 .. Len(down'[d]) : j > i => down'[d][j] # PeerLeft(c)
    BY DEF Remembered, Names
  <2>. QED BY <2>1, <2>2, <1>1
<1>7. Leaving(d, c)' <=> Leaving(d, c) \/ f = PeerLeft(c)
  <2>1. DOMAIN down[d] = 1 .. n /\ DOMAIN (down'[d]) = 1 .. n + 1
    BY <1>1, <1>2, Members DEF StreamTypes
  <2>2. Leaving(d, c) <=> \E i \in 1 .. n : down[d][i] = PeerLeft(c)
    BY <2>1 DEF Leaving
  <2>3. Leaving(d, c)' <=> \E i \in 1 .. n + 1 : down'[d][i] = PeerLeft(c)
    BY <2>1 DEF Leaving
  <2>4. ASSUME NEW i \in 1 .. n + 1, down'[d][i] = PeerLeft(c)
        PROVE  f = PeerLeft(c) \/ \E j \in 1 .. n : down[d][j] = PeerLeft(c)
    BY <2>4, <1>1
  <2>5. ASSUME NEW i \in 1 .. n, down[d][i] = PeerLeft(c)
        PROVE  \E j \in 1 .. n + 1 : down'[d][j] = PeerLeft(c)
    <3>1. i \in 1 .. n + 1 /\ down'[d][i] = PeerLeft(c)
      BY <2>5, <1>1, <1>3
    <3>. QED BY <3>1
  <2>6. f = PeerLeft(c) => \E j \in 1 .. n + 1 : down'[d][j] = PeerLeft(c)
    BY <1>1, <1>3
  <2>. QED BY <2>2, <2>3, <2>4, <2>5, <2>6
<1>8. Late(d, c)' => Late(d, c) \/ (Leaving(d, c) /\ f.type = "signal" /\ f.from = c)
  <2>1. ASSUME NEW i \in 1 .. n + 1, NEW j \in 1 .. n + 1, i < j,
               down'[d][i] = PeerLeft(c),
               down'[d][j].type = "signal" /\ down'[d][j].from = c
        PROVE  Late(d, c) \/ (Leaving(d, c) /\ f.type = "signal" /\ f.from = c)
    <3>1. i \in 1 .. n /\ down[d][i] = PeerLeft(c)
      <4>1. i # n + 1
        BY <2>1, <1>1
      <4>. QED BY <4>1, <2>1, <1>1
    <3>2. Leaving(d, c)
      <4>1. DOMAIN down[d] = 1 .. n
        BY <1>2, Members DEF StreamTypes
      <4>. QED BY <3>1, <4>1 DEF Leaving
    <3>3. CASE j \in 1 .. n
      <4>1. down[d][j].type = "signal" /\ down[d][j].from = c
        BY <3>3, <2>1, <1>1
      <4>. QED BY <3>1, <3>3, <4>1, <2>1, <1>2 DEF Late
    <3>4. CASE j = n + 1
      BY <3>2, <3>4, <2>1, <1>1
    <3>. QED BY <3>3, <3>4, <1>1
  <2>. QED BY <2>1, <1>1 DEF Late
<1>9. Greets(d, c)' => Greets(d, c) \/ (f.type = "joined" /\ c \in ToSet(f.peers))
  <2>1. ASSUME NEW i \in 1 .. n + 1, down'[d][i].type = "joined", c \in ToSet(down'[d][i].peers)
        PROVE  Greets(d, c) \/ (f.type = "joined" /\ c \in ToSet(f.peers))
    <3>1. CASE i \in 1 .. n
      <4>1. down'[d][i] = down[d][i]
        BY <3>1, <1>1
      <4>. QED BY <3>1, <4>1, <2>1, <1>2 DEF Greets
    <3>2. CASE i = n + 1
      BY <3>2, <2>1, <1>1
    <3>. QED BY <3>1, <3>2, <1>1
  <2>. QED BY <2>1, <1>1 DEF Greets
<1>10. Greeted(d)' => Greeted(d) \/ f.type = "joined"
  BY <1>1, <1>2, <1>3 DEF Greeted
<1>. QED BY <1>1, <1>2, <1>4, <1>5, <1>6, <1>7, <1>8, <1>9, <1>10

LEMMA StaysShows ==
    ASSUME StreamTypes, NEW d \in Client, down'[d] = down[d], NEW c \in Client
    PROVE  /\ \A x : (\E i \in 1 .. Len(down'[d]) : down'[d][i] = SignalFrom(c, x)) <=>
                         \E i \in 1 .. Len(down[d]) : down[d][i] = SignalFrom(c, x)
           /\ NamedIn(d, c)' <=> NamedIn(d, c)
           /\ Remembered(d, c)' <=> Remembered(d, c)
           /\ Leaving(d, c)' <=> Leaving(d, c)
           /\ Late(d, c)' <=> Late(d, c)
           /\ Greets(d, c)' <=> Greets(d, c)
           /\ Greeted(d)' <=> Greeted(d)
<1>1. NamedIn(d, c)' <=> NamedIn(d, c)
  BY DEF NamedIn
<1>2. Remembered(d, c)' <=> Remembered(d, c)
  BY DEF Remembered
<1>3. Leaving(d, c)' <=> Leaving(d, c)
  BY DEF Leaving
<1>4. Late(d, c)' <=> Late(d, c)
  BY DEF Late
<1>5. Greets(d, c)' <=> Greets(d, c)
  BY DEF Greets
<1>6. Greeted(d)' <=> Greeted(d)
  BY DEF Greeted
<1>. QED BY <1>1, <1>2, <1>3, <1>4, <1>5, <1>6

\* What is served is no signal of c to d.
LEMMA OthersPass ==
    ASSUME StreamTypes, NEW a \in Client, NEW m, Serves(a, m),
           NEW c \in Client, NEW d \in Client,
           c = a => \A x : m # SignalTo(d, x),
           \/ down'[d] = down[d]
           \/ \E f \in RelayFrame : /\ down'[d] = Append(down[d], f)
                                   /\ \A x : f # SignalFrom(c, x),
           OneDescription(c, d)
    PROVE  /\ \A x : Flying(c, d, x)' <=> Flying(c, d, x)
           /\ OneDescription(c, d)'
           /\ Stray(c, d)' => Stray(c, d)
<1>. DEFINE n == Len(down[d])
            Kept == \A i \in 1 .. Len(down'[d]) : \A x : down'[d][i] = SignalFrom(c, x) =>
                       i \in 1 .. n /\ down[d][i] = SignalFrom(c, x)
            Still == \A i \in 1 .. n : i \in 1 .. Len(down'[d]) /\ down'[d][i] = down[d][i]
<1>1. n \in Nat
  BY Members DEF StreamTypes
<1>2. Kept /\ Still
  <2>1. CASE down'[d] = down[d]
    BY <1>1, <2>1
  <2>2. ASSUME NEW f \in RelayFrame, down'[d] = Append(down[d], f), \A x : f # SignalFrom(c, x)
        PROVE  Kept /\ Still
    <3>1. /\ Len(down'[d]) = n + 1
          /\ \A i \in 1 .. n : down'[d][i] = down[d][i]
          /\ down'[d][n + 1] = f
          /\ \A i \in 1 .. n + 1 : i \in 1 .. n \/ i = n + 1
      BY <2>2, Grows
    <3>2. \A i \in 1 .. n : i \in 1 .. n + 1
      BY <1>1
    <3>. QED BY <3>1, <3>2, <2>2
  <2>. QED BY <2>1, <2>2
<1>. HIDE DEF n
<1>3. n = Len(down[d])
  BY DEF n
<1>. DEFINE s == IF c = a THEN 1 ELSE 0
            Shift == \A i \in 1 .. Len(up'[c]) :
                        i + s \in 1 .. Len(up[c]) /\ up'[c][i] = up[c][i + s]
            Back == \A i \in 1 .. Len(up[c]) : \A x : up[c][i] = SignalTo(d, x) =>
                        i - s \in 1 .. Len(up'[c]) /\ up'[c][i - s] = up[c][i]
<1>4. s \in Nat /\ Shift /\ Back
  <2>1. CASE c # a
    <3>1. up'[c] = up[c] /\ Len(up[c]) \in Nat
      BY <2>1, TakenUp, Members DEF StreamTypes
    <3>. QED BY <2>1, <3>1
  <2>2. CASE c = a
    <3>1. /\ m = up[a][1] /\ Len(up[a]) \in Nat
          /\ Len(up[a]) >= 1 /\ Len(up'[a]) = Len(up[a]) - 1
          /\ \A i \in 1 .. Len(up[a]) - 1 : up'[a][i] = up[a][i + 1]
          /\ \A i \in 2 .. Len(up[a]) : i - 1 \in 1 .. Len(up'[a]) /\ up'[a][i - 1] = up[a][i]
      BY TakenUp
    <3>2. ASSUME NEW i \in 1 .. Len(up[a]), NEW x, up[a][i] = SignalTo(d, x)
          PROVE  i - 1 \in 1 .. Len(up'[a]) /\ up'[a][i - 1] = up[a][i]
      <4>1. i # 1
        BY <3>1, <3>2, <2>2
      <4>2. i \in 2 .. Len(up[a])
        BY <4>1, <3>1
      <4>. QED BY <4>2, <3>1
    <3>3. ASSUME NEW i \in 1 .. Len(up'[a])
          PROVE  i + 1 \in 1 .. Len(up[a]) /\ up'[a][i] = up[a][i + 1]
      BY <3>1
    <3>. QED BY <2>2, <3>2, <3>3
  <2>. QED BY <2>1, <2>2
<1>. HIDE DEF s
<1>5. ASSUME NEW x PROVE Flying(c, d, x)' <=> Flying(c, d, x)
  <2>1. ASSUME NEW i \in 1 .. Len(up'[c]), up'[c][i] = SignalTo(d, x) PROVE Flying(c, d, x)
    BY <2>1, <1>4 DEF Flying
  <2>2. ASSUME NEW i \in 1 .. Len(down'[d]), down'[d][i] = SignalFrom(c, x) PROVE Flying(c, d, x)
    BY <2>2, <1>2, <1>3 DEF Flying
  <2>3. ASSUME NEW i \in 1 .. Len(up[c]), up[c][i] = SignalTo(d, x) PROVE Flying(c, d, x)'
    BY <2>3, <1>4 DEF Flying
  <2>4. ASSUME NEW i \in 1 .. n, down[d][i] = SignalFrom(c, x) PROVE Flying(c, d, x)'
    BY <2>4, <1>2 DEF Flying
  <2>5. Flying(c, d, x)' => Flying(c, d, x)
    BY <2>1, <2>2 DEF Flying
  <2>6. Flying(c, d, x) => Flying(c, d, x)'
    <3>1. Flying(c, d, x) => \/ \E i \in 1 .. Len(up[c]) : up[c][i] = SignalTo(d, x)
                             \/ \E i \in 1 .. n : down[d][i] = SignalFrom(c, x)
      BY <1>3 DEF Flying
    <3>. QED BY <3>1, <2>3, <2>4
  <2>. QED BY <2>5, <2>6
<1>6. OneDescription(c, d)'
  <2>1. ASSUME NEW i \in 1 .. Len(up'[c]), NEW j \in 1 .. Len(up'[c]),
               NEW w \in Description, NEW x \in Description,
               up'[c][i] = SignalTo(d, w), up'[c][j] = SignalTo(d, x)
        PROVE  i = j
    <3>1. /\ i + s \in 1 .. Len(up[c]) /\ up[c][i + s] = SignalTo(d, w)
          /\ j + s \in 1 .. Len(up[c]) /\ up[c][j + s] = SignalTo(d, x)
      BY <2>1, <1>4
    <3>2. i + s = j + s
      BY <3>1 DEF OneDescription
    <3>. QED BY <3>2, <1>4
  <2>2. ASSUME NEW i \in 1 .. Len(down'[d]), NEW j \in 1 .. Len(down'[d]),
               NEW w \in Description, NEW x \in Description,
               down'[d][i] = SignalFrom(c, w), down'[d][j] = SignalFrom(c, x)
        PROVE  i = j
    BY <2>2, <1>2, <1>3 DEF OneDescription
  <2>3. ASSUME NEW i \in 1 .. Len(up'[c]), NEW j \in 1 .. Len(down'[d]),
               NEW w \in Description, NEW x \in Description,
               up'[c][i] = SignalTo(d, w), down'[d][j] = SignalFrom(c, x)
        PROVE  FALSE
    <3>1. i + s \in 1 .. Len(up[c]) /\ up[c][i + s] = SignalTo(d, w)
      BY <2>3, <1>4
    <3>2. j \in 1 .. Len(down[d]) /\ down[d][j] = SignalFrom(c, x)
      BY <2>3, <1>2, <1>3
    <3>. QED BY <3>1, <3>2 DEF OneDescription
  <2>. QED BY <2>1, <2>2, <2>3 DEF OneDescription
<1>7. ASSUME Stray(c, d)' PROVE Stray(c, d)
  <2>1. ASSUME NEW i \in 1 .. Len(up'[c]),
               up'[c][i] = SignalTo(d, "candidate"),
               \A j \in 1 .. i - 1 : \A w \in Description : up'[c][j] # SignalTo(d, w),
               \A j \in 1 .. Len(down'[d]) : \A w \in Description :
                  down'[d][j] # SignalFrom(c, w)
        PROVE  Stray(c, d)
    <3>1. i + s \in 1 .. Len(up[c]) /\ up[c][i + s] = SignalTo(d, "candidate")
      BY <2>1, <1>4
    <3>2. ASSUME NEW j \in 1 .. (i + s) - 1, NEW w \in Description, up[c][j] = SignalTo(d, w)
          PROVE  FALSE
      <4>1. j \in 1 .. Len(up[c])
        BY <3>1, <1>4
      <4>2. j - s \in 1 .. Len(up'[c]) /\ up'[c][j - s] = SignalTo(d, w)
        BY <4>1, <3>2, <1>4
      <4>3. j - s \in 1 .. i - 1
        BY <4>2, <1>4
      <4>. QED BY <4>2, <4>3, <2>1
    <3>3. \A j \in 1 .. Len(down[d]) : \A w \in Description : down[d][j] # SignalFrom(c, w)
      BY <2>1, <1>2, <1>3
    <3>. QED BY <3>1, <3>2, <3>3 DEF Stray
  <2>2. ASSUME NEW i \in 1 .. Len(down'[d]),
               down'[d][i] = SignalFrom(c, "candidate"),
               \A j \in 1 .. i - 1 : \A w \in Description : down'[d][j] # SignalFrom(c, w)
        PROVE  Stray(c, d)
    <3>1. i \in 1 .. Len(down[d]) /\ down[d][i] = SignalFrom(c, "candidate")
      BY <2>2, <1>2, <1>3
    <3>2. ASSUME NEW j \in 1 .. i - 1, NEW w \in Description PROVE down[d][j] # SignalFrom(c, w)
      <4>1. j \in 1 .. n
        BY <3>1, <1>1, <1>3
      <4>. QED BY <4>1, <2>2, <1>2
    <3>. QED BY <3>1, <3>2 DEF Stray
  <2>. QED BY <1>7, <2>1, <2>2 DEF Stray
<1>. QED BY <1>5, <1>6, <1>7

\* What is served is a signal of a to b, which is there to read it.
LEMMA SignalPasses ==
    ASSUME StreamTypes, NEW a \in Client, NEW b \in Client, NEW w \in What,
           Serves(a, SignalTo(b, w)),
           down'[b] = Append(down[b], SignalFrom(a, w)),
           OneDescription(a, b)
    PROVE  /\ \A x : Flying(a, b, x)' <=> Flying(a, b, x)
           /\ OneDescription(a, b)'
           /\ Stray(a, b)' => Stray(a, b)
<1>. DEFINE k == Len(up[a])
            n == Len(down[b])
<1>1. /\ up[a][1] = SignalTo(b, w)
      /\ k \in Nat /\ k >= 1 /\ Len(up'[a]) = k - 1
      /\ \A i \in 1 .. k - 1 : up'[a][i] = up[a][i + 1]
      /\ \A i \in 2 .. k : i - 1 \in 1 .. k - 1 /\ up'[a][i - 1] = up[a][i]
  <2>. HIDE DEF k
  <2>1. k = Len(up[a])
    BY DEF k
  <2>. QED BY <2>1, TakenUp
<1>2. /\ n \in Nat /\ Len(down'[b]) = n + 1
      /\ \A i \in 1 .. n : down'[b][i] = down[b][i]
      /\ down'[b][n + 1] = SignalFrom(a, w)
      /\ \A i \in 1 .. n + 1 : i \in 1 .. n \/ i = n + 1
  <2>1. SignalFrom(a, w) \in RelayFrame
    BY RelayFrames
  <2>. QED BY <2>1, Grows
<1>. HIDE DEF k, n
<1>3. k = Len(up[a]) /\ n = Len(down[b])
  BY DEF k, n
<1>4. /\ 1 \in 1 .. k /\ \A i \in 1 .. k - 1 : i + 1 \in 1 .. k /\ i + 1 # 1
      /\ \A i \in 1 .. k : i = 1 \/ i \in 2 .. k
  BY <1>1
<1>5. n + 1 \in 1 .. n + 1 /\ \A i \in 1 .. n : i \in 1 .. n + 1
  BY <1>2
<1>6. \A x : SignalFrom(a, w) = SignalFrom(a, x) <=> SignalTo(b, w) = SignalTo(b, x)
  BY DEF SignalFrom, SignalTo
<1>7. ASSUME NEW x PROVE Flying(a, b, x)' <=> Flying(a, b, x)
  <2>1. ASSUME NEW i \in 1 .. k - 1, up'[a][i] = SignalTo(b, x) PROVE Flying(a, b, x)
    BY <2>1, <1>1, <1>3, <1>4 DEF Flying
  <2>2. ASSUME NEW i \in 1 .. n + 1, down'[b][i] = SignalFrom(a, x) PROVE Flying(a, b, x)
    <3>1. CASE i \in 1 .. n
      BY <3>1, <2>2, <1>2, <1>3 DEF Flying
    <3>2. CASE i = n + 1
      <4>1. up[a][1] = SignalTo(b, x)
        BY <3>2, <2>2, <1>1, <1>2, <1>6
      <4>. QED BY <4>1, <1>3, <1>4 DEF Flying
    <3>. QED BY <3>1, <3>2, <1>2
  <2>3. ASSUME NEW i \in 1 .. k, up[a][i] = SignalTo(b, x) PROVE Flying(a, b, x)'
    <3>1. CASE i = 1
      <4>1. down'[b][n + 1] = SignalFrom(a, x)
        BY <3>1, <2>3, <1>1, <1>2, <1>6
      <4>. QED BY <4>1, <1>2, <1>5 DEF Flying
    <3>2. CASE i \in 2 .. k
      <4>1. i - 1 \in 1 .. Len(up'[a]) /\ up'[a][i - 1] = SignalTo(b, x)
        BY <3>2, <2>3, <1>1
      <4>. QED BY <4>1 DEF Flying
    <3>. QED BY <3>1, <3>2, <1>4
  <2>4. ASSUME NEW i \in 1 .. n, down[b][i] = SignalFrom(a, x) PROVE Flying(a, b, x)'
    <3>1. i \in 1 .. Len(down'[b]) /\ down'[b][i] = SignalFrom(a, x)
      BY <2>4, <1>2, <1>5
    <3>. QED BY <3>1 DEF Flying
  <2>5. Flying(a, b, x)' => Flying(a, b, x)
    BY <2>1, <2>2, <1>1, <1>2 DEF Flying
  <2>6. Flying(a, b, x) => Flying(a, b, x)'
    <3>1. Flying(a, b, x) => \/ \E i \in 1 .. k : up[a][i] = SignalTo(b, x)
                             \/ \E i \in 1 .. n : down[b][i] = SignalFrom(a, x)
      BY <1>3 DEF Flying
    <3>. QED BY <3>1, <2>3, <2>4
  <2>. QED BY <2>5, <2>6
<1>8. OneDescription(a, b)'
  <2>1. ASSUME NEW i \in 1 .. k - 1, NEW j \in 1 .. k - 1,
               NEW x \in Description, NEW y \in Description,
               up'[a][i] = SignalTo(b, x), up'[a][j] = SignalTo(b, y)
        PROVE  i = j
    <3>1. /\ i + 1 \in 1 .. k /\ up[a][i + 1] = SignalTo(b, x)
          /\ j + 1 \in 1 .. k /\ up[a][j + 1] = SignalTo(b, y)
      BY <2>1, <1>1, <1>4
    <3>2. i + 1 = j + 1
      BY <3>1, <1>3 DEF OneDescription
    <3>. QED BY <3>2
  <2>2. ASSUME NEW j \in 1 .. n, NEW x \in Description, NEW y \in Description,
               w = x, down[b][j] = SignalFrom(a, y)
        PROVE  FALSE
    BY <2>2, <1>1, <1>3, <1>4 DEF OneDescription
  <2>3. \A x : SignalFrom(a, w) = SignalFrom(a, x) => w = x
    BY DEF SignalFrom
  <2>4. ASSUME NEW i \in 1 .. n + 1, NEW j \in 1 .. n + 1,
               NEW x \in Description, NEW y \in Description,
               down'[b][i] = SignalFrom(a, x), down'[b][j] = SignalFrom(a, y)
        PROVE  i = j
    <3>1. CASE i \in 1 .. n /\ j \in 1 .. n
      <4>1. down[b][i] = SignalFrom(a, x) /\ down[b][j] = SignalFrom(a, y)
        BY <3>1, <2>4, <1>2
      <4>. QED BY <4>1, <3>1, <1>3 DEF OneDescription
    <3>2. CASE i = n + 1 /\ j \in 1 .. n
      <4>1. w = x /\ down[b][j] = SignalFrom(a, y)
        BY <3>2, <2>3, <2>4, <1>2
      <4>. QED BY <4>1, <3>2, <2>2
    <3>3. CASE i \in 1 .. n /\ j = n + 1
      <4>1. w = y /\ down[b][i] = SignalFrom(a, x)
        BY <3>3, <2>3, <2>4, <1>2
      <4>. QED BY <4>1, <3>3, <2>2
    <3>. QED BY <3>1, <3>2, <3>3, <1>2
  <2>5. ASSUME NEW i \in 1 .. k - 1, NEW j \in 1 .. n + 1,
               NEW x \in Description, NEW y \in Description,
               up'[a][i] = SignalTo(b, x), down'[b][j] = SignalFrom(a, y)
        PROVE  FALSE
    <3>1. i + 1 \in 1 .. k /\ up[a][i + 1] = SignalTo(b, x) /\ i + 1 # 1
      BY <2>5, <1>1, <1>4
    <3>2. CASE j \in 1 .. n
      <4>1. down[b][j] = SignalFrom(a, y)
        BY <3>2, <2>5, <1>2
      <4>. QED BY <4>1, <3>1, <3>2, <1>3 DEF OneDescription
    <3>3. CASE j = n + 1
      <4>1. w = y
        BY <3>3, <2>3, <2>5, <1>2
      <4>2. up[a][1] = SignalTo(b, y)
        BY <4>1, <1>1
      <4>. QED BY <4>2, <3>1, <1>3, <1>4 DEF OneDescription
    <3>. QED BY <3>2, <3>3, <1>2
  <2>. QED BY <2>1, <2>4, <2>5, <1>1, <1>2 DEF OneDescription
<1>9. ASSUME Stray(a, b)' PROVE Stray(a, b)
  <2>1. ASSUME NEW i \in 1 .. k - 1,
               up'[a][i] = SignalTo(b, "candidate"),
               \A j \in 1 .. i - 1 : \A x \in Description : up'[a][j] # SignalTo(b, x),
               \A j \in 1 .. n + 1 : \A x \in Description : down'[b][j] # SignalFrom(a, x)
        PROVE  Stray(a, b)
    <3>1. i + 1 \in 1 .. k /\ up[a][i + 1] = SignalTo(b, "candidate")
      BY <2>1, <1>1, <1>4
    <3>2. ASSUME NEW j \in 1 .. (i + 1) - 1, NEW x \in Description, up[a][j] = SignalTo(b, x)
          PROVE  FALSE
      <4>1. CASE j = 1
        <5>1. down'[b][n + 1] = SignalFrom(a, x)
          BY <4>1, <3>2, <1>1, <1>2, <1>6
        <5>. QED BY <5>1, <2>1, <1>5
      <4>2. CASE j # 1
        <5>1. j \in 2 .. k /\ j - 1 \in 1 .. i - 1
          BY <4>2, <1>1
        <5>2. up'[a][j - 1] = SignalTo(b, x)
          BY <5>1, <3>2, <1>1
        <5>. QED BY <5>1, <5>2, <2>1
      <4>. QED BY <4>1, <4>2
    <3>3. \A j \in 1 .. n : \A x \in Description : down[b][j] # SignalFrom(a, x)
      BY <2>1, <1>2, <1>5
    <3>. QED BY <3>1, <3>2, <3>3, <1>3 DEF Stray
  <2>2. ASSUME NEW i \in 1 .. n + 1,
               down'[b][i] = SignalFrom(a, "candidate"),
               \A j \in 1 .. i - 1 : \A x \in Description : down'[b][j] # SignalFrom(a, x)
        PROVE  Stray(a, b)
    <3>1. \A j \in 1 .. i - 1 : j \in 1 .. n
      BY <1>2
    <3>2. \A j \in 1 .. i - 1 : \A x \in Description : down[b][j] # SignalFrom(a, x)
      BY <3>1, <2>2, <1>2
    <3>3. CASE i \in 1 .. n
      <4>1. down[b][i] = SignalFrom(a, "candidate")
        BY <3>3, <2>2, <1>2
      <4>. QED BY <3>2, <3>3, <4>1, <1>3 DEF Stray
    <3>4. CASE i = n + 1
      <4>1. up[a][1] = SignalTo(b, "candidate")
        BY <3>4, <2>2, <1>1, <1>2, <1>6
      <4>2. \A j \in 1 .. n : \A x \in Description : down[b][j] # SignalFrom(a, x)
        BY <3>2, <3>4, <1>2
      <4>3. \A j : j \in 1 .. 1 - 1 => FALSE
        OBVIOUS
      <4>. QED BY <4>1, <4>2, <4>3, <1>3, <1>4 DEF Stray
    <3>. QED BY <3>3, <3>4, <1>2
  <2>. QED BY <1>9, <2>1, <2>2, <1>1, <1>2 DEF Stray
<1>. QED BY <1>7, <1>8, <1>9

\* What is served is a signal of a to b, who is not there to read it.
LEMMA SignalDropped ==
    ASSUME StreamTypes, NEW a \in Client, NEW b \in Client, NEW w \in What,
           Serves(a, SignalTo(b, w)), down'[b] = down[b],
           OneDescription(a, b)
    PROVE  /\ \A x : Flying(a, b, x)' => Flying(a, b, x)
           /\ OneDescription(a, b)'
<1>. DEFINE k == Len(up[a])
<1>1. /\ k \in Nat /\ k >= 1 /\ Len(up'[a]) = k - 1
      /\ \A i \in 1 .. k - 1 : up'[a][i] = up[a][i + 1]
  <2>. HIDE DEF k
  <2>1. k = Len(up[a])
    BY DEF k
  <2>. QED BY <2>1, TakenUp
<1>. HIDE DEF k
<1>2. k = Len(up[a])
  BY DEF k
<1>3. \A i \in 1 .. k - 1 : i + 1 \in 1 .. k
  BY <1>1
<1>4. ASSUME NEW x, Flying(a, b, x)' PROVE Flying(a, b, x)
  <2>1. ASSUME NEW i \in 1 .. k - 1, up'[a][i] = SignalTo(b, x) PROVE Flying(a, b, x)
    BY <2>1, <1>1, <1>2, <1>3 DEF Flying
  <2>. QED BY <1>4, <2>1, <1>1 DEF Flying
<1>5. OneDescription(a, b)'
  <2>1. ASSUME NEW i \in 1 .. k - 1, NEW j \in 1 .. k - 1,
               NEW x \in Description, NEW y \in Description,
               up'[a][i] = SignalTo(b, x), up'[a][j] = SignalTo(b, y)
        PROVE  i = j
    <3>1. /\ i + 1 \in 1 .. k /\ up[a][i + 1] = SignalTo(b, x)
          /\ j + 1 \in 1 .. k /\ up[a][j + 1] = SignalTo(b, y)
      BY <2>1, <1>1, <1>3
    <3>2. i + 1 = j + 1
      BY <3>1, <1>2 DEF OneDescription
    <3>. QED BY <3>2
  <2>2. ASSUME NEW i \in 1 .. k - 1, NEW j \in 1 .. Len(down[b]),
               NEW x \in Description, NEW y \in Description,
               up'[a][i] = SignalTo(b, x), down[b][j] = SignalFrom(a, y)
        PROVE  FALSE
    <3>1. i + 1 \in 1 .. k /\ up[a][i + 1] = SignalTo(b, x)
      BY <2>2, <1>1, <1>3
    <3>. QED BY <3>1, <2>2, <1>2 DEF OneDescription
  <2>. QED BY <2>1, <2>2, <1>1 DEF OneDescription
<1>. QED BY <1>4, <1>5

-----------------------------------------------------------------------------
(* What the server's handlers send.                                        *)

LEMMA SentTo ==
    ASSUME StreamTypes, NEW T, NEW F,
           \A d \in Client : d \in T => F[d] \in RelayFrame,
           down' = Sent([d \in Client |-> IF d \in T THEN <<F[d]>> ELSE <<>>])
    PROVE  /\ down' \in [Client -> Seq(RelayFrame)]
           /\ \A d \in Client :
                 /\ d \in T /\ page[d] = "call" => down'[d] = Append(down[d], F[d])
                 /\ ~(d \in T /\ page[d] = "call") => down'[d] = down[d]
<1>. DEFINE frames == [d \in Client |-> IF d \in T THEN <<F[d]>> ELSE <<>>]
<1>1. ASSUME NEW d \in Client
      PROVE  /\ down'[d] \in Seq(RelayFrame)
             /\ d \in T /\ page[d] = "call" => down'[d] = Append(down[d], F[d])
             /\ ~(d \in T /\ page[d] = "call") => down'[d] = down[d]
  <2>1. down[d] \in Seq(RelayFrame)
    BY DEF StreamTypes
  <2>2. down'[d] = IF page[d] = "call" THEN down[d] \o frames[d] ELSE down[d]
    BY DEF Sent
  <2>3. CASE d \in T /\ page[d] = "call"
    <3>1. F[d] \in RelayFrame /\ frames[d] = <<F[d]>>
      BY <2>3
    <3>2. Append(down[d], F[d]) \in Seq(RelayFrame) /\ down[d] \o <<F[d]>> = Append(down[d], F[d])
      BY <2>1, <3>1, Appended
    <3>. QED BY <2>2, <2>3, <3>1, <3>2
  <2>4. CASE d \notin T /\ page[d] = "call"
    <3>1. frames[d] = <<>>
      BY <2>4
    <3>2. down[d] \o <<>> = down[d]
      BY <2>1, ConcatEmptySeq
    <3>. QED BY <2>1, <2>2, <2>4, <3>1, <3>2
  <2>5. CASE page[d] # "call"
    BY <2>1, <2>2, <2>5
  <2>. QED BY <2>3, <2>4, <2>5
<1>2. down' = [d \in Client |-> down'[d]]
  BY DEF Sent
<1>. HIDE DEF frames
<1>3. down' \in [Client -> Seq(RelayFrame)]
  BY <1>1, <1>2
<1>. QED BY <1>1, <1>3

LEMMA JoinSends ==
    ASSUME StreamTypes, MeshTypeOK, NEW a \in Client, ~InRoom(a), OnJoin(a)
    PROVE  /\ down' \in [Client -> Seq(RelayFrame)]
           /\ page[a] = "call" => down'[a] = Append(down[a], JoinedFrame(room))
           /\ page[a] # "call" => down'[a] = down[a]
           /\ \A d \in Client \ {a} :
                 /\ InRoom(d) /\ page[d] = "call" => down'[d] = Append(down[d], PeerJoined(a))
                 /\ ~(InRoom(d) /\ page[d] = "call") => down'[d] = down[d]
           /\ room' \in Seq(Client) /\ IsInjective(room')
           /\ \A c \in Client : InRoom(c)' <=> InRoom(c) \/ c = a
<1>. DEFINE T == ToSet(room) \cup {a}
            F == [d \in Client |-> IF d = a THEN JoinedFrame(room) ELSE PeerJoined(a)]
<1>1. room \in Seq(Client) /\ IsInjective(room)
  BY DEF MeshTypeOK
<1>2. /\ ToSet(room) = {room[i] : i \in 1 .. Len(room)} /\ ToSet(room) \subseteq Client
      /\ DOMAIN room = 1 .. Len(room) /\ Len(room) \in Nat
  BY <1>1, Members
<1>3. \A d \in Client : F[d] \in RelayFrame
  BY <1>1, RelayFrames
<1>4. [ToOthers(a, PeerJoined(a)) EXCEPT ![a] = <<JoinedFrame(room)>>]
         = [d \in Client |-> IF d \in T THEN <<F[d]>> ELSE <<>>]
  BY DEF ToOthers
<1>5. down' = Sent([d \in Client |-> IF d \in T THEN <<F[d]>> ELSE <<>>])
  BY <1>4 DEF OnJoin
<1>6. /\ F[a] = JoinedFrame(room) /\ a \in T
      /\ \A d \in Client \ {a} : F[d] = PeerJoined(a) /\ (d \in T <=> InRoom(d))
  BY DEF InRoom
<1>. HIDE DEF T, F
<1>7. /\ down' \in [Client -> Seq(RelayFrame)]
      /\ \A d \in Client :
            /\ d \in T /\ page[d] = "call" => down'[d] = Append(down[d], F[d])
            /\ ~(d \in T /\ page[d] = "call") => down'[d] = down[d]
  BY <1>3, <1>5, SentTo
<1>8. /\ room' \in Seq(Client) /\ Len(room') = Len(room) + 1
      /\ \A i \in 1 .. Len(room) : room'[i] = room[i]
      /\ room'[Len(room) + 1] = a
  <2>1. room' = Append(room, a)
    BY DEF OnJoin
  <2>. QED BY <1>1, <2>1, Appended
<1>9. /\ ToSet(room') = {room'[i] : i \in 1 .. Len(room')}
      /\ DOMAIN (room') = 1 .. Len(room')
  BY <1>8, Members
<1>10. \A i \in 1 .. Len(room) + 1 : i \in 1 .. Len(room) \/ i = Len(room) + 1
  BY <1>2
<1>11. ToSet(room') = ToSet(room) \cup {a}
  <2>1. \A i \in 1 .. Len(room) : i \in 1 .. Len(room) + 1
    BY <1>2
  <2>2. Len(room) + 1 \in 1 .. Len(room) + 1
    BY <1>2
  <2>. QED BY <2>1, <2>2, <1>2, <1>8, <1>9, <1>10
<1>12. IsInjective(room')
  <2>1. \A i \in 1 .. Len(room) : room[i] # a
    BY <1>2 DEF InRoom
  <2>2. \A i, j \in 1 .. Len(room) : room[i] = room[j] => i = j
    BY <1>1, <1>2 DEF IsInjective
  <2>3. ASSUME NEW i \in 1 .. Len(room) + 1, NEW j \in 1 .. Len(room) + 1, room'[i] = room'[j]
        PROVE  i = j
    BY <2>1, <2>2, <2>3, <1>8, <1>10
  <2>. QED BY <2>3, <1>8, <1>9 DEF IsInjective
<1>13. \A c \in Client : InRoom(c)' <=> InRoom(c) \/ c = a
  BY <1>11 DEF InRoom
<1>. QED BY <1>6, <1>7, <1>8, <1>12, <1>13

LEMMA SignalSends ==
    ASSUME StreamTypes, NEW a \in Client, NEW b \in Client, NEW w \in What,
           OnSignal(a, SignalTo(b, w))
    PROVE  /\ down' \in [Client -> Seq(RelayFrame)]
           /\ InRoom(b) /\ page[b] = "call" => down'[b] = Append(down[b], SignalFrom(a, w))
           /\ ~(InRoom(b) /\ page[b] = "call") => down'[b] = down[b]
           /\ \A d \in Client \ {b} : down'[d] = down[d]
           /\ room' = room
<1>. DEFINE T == {d \in Client : d = b /\ d \in ToSet(room)}
            F == [d \in Client |-> SignalFrom(a, w)]
<1>1. \A d \in Client : F[d] \in RelayFrame
  BY RelayFrames
<1>2. SignalTo(b, w).to = b /\ SignalTo(b, w).what = w
  BY DEF SignalTo
<1>3. down' = Sent([d \in Client |-> IF d \in T THEN <<F[d]>> ELSE <<>>])
  <2>1. down' = Sent([d \in Client |-> IF d = b /\ d \in ToSet(room)
                                       THEN <<SignalFrom(a, w)>> ELSE <<>>])
    BY <1>2 DEF OnSignal
  <2>2. [d \in Client |-> IF d = b /\ d \in ToSet(room) THEN <<SignalFrom(a, w)>> ELSE <<>>]
           = [d \in Client |-> IF d \in T THEN <<F[d]>> ELSE <<>>]
    OBVIOUS
  <2>. QED BY <2>1, <2>2
<1>4. /\ F[b] = SignalFrom(a, w) /\ (b \in T <=> InRoom(b))
      /\ \A d \in Client \ {b} : d \notin T
  BY DEF InRoom
<1>. HIDE DEF T, F
<1>5. /\ down' \in [Client -> Seq(RelayFrame)]
      /\ \A d \in Client :
            /\ d \in T /\ page[d] = "call" => down'[d] = Append(down[d], F[d])
            /\ ~(d \in T /\ page[d] = "call") => down'[d] = down[d]
  BY <1>1, <1>3, SentTo
<1>6. room' = room
  BY DEF OnSignal
<1>. QED BY <1>4, <1>5, <1>6

LEMMA CloseSends ==
    ASSUME StreamTypes, MeshTypeOK, NEW a \in Client, OnClose(a)
    PROVE  /\ down' \in [Client -> Seq(RelayFrame)]
           /\ \A d \in Client :
                 /\ InRoom(a) /\ InRoom(d) /\ d # a /\ page[d] = "call" =>
                       down'[d] = Append(down[d], PeerLeft(a))
                 /\ ~(InRoom(a) /\ InRoom(d) /\ d # a /\ page[d] = "call") =>
                       down'[d] = down[d]
           /\ room' \in Seq(Client) /\ IsInjective(room')
           /\ \A c \in Client : InRoom(c)' <=> InRoom(c) /\ c # a
<1>1. room \in Seq(Client) /\ IsInjective(room)
  BY DEF MeshTypeOK
<1>2. room' = Without(a)
  BY DEF OnClose
<1>3. CASE InRoom(a)
  <2>. DEFINE T == ToSet(room) \ {a}
              F == [d \in Client |-> PeerLeft(a)]
              k == CHOOSE i \in DOMAIN room : room[i] = a
  <2>1. \A d \in Client : F[d] \in RelayFrame
    BY RelayFrames
  <2>2. down' = Sent([d \in Client |-> IF d \in T THEN <<F[d]>> ELSE <<>>])
    <3>1. ToOthers(a, PeerLeft(a)) = [d \in Client |-> IF d \in T THEN <<F[d]>> ELSE <<>>]
      BY DEF ToOthers
    <3>2. down' = Sent(ToOthers(a, PeerLeft(a)))
      BY <1>3 DEF OnClose, InRoom
    <3>. QED BY <3>1, <3>2
  <2>3. \A d \in Client : F[d] = PeerLeft(a) /\ (d \in T <=> InRoom(d) /\ d # a)
    BY DEF InRoom
  <2>4. k \in DOMAIN room /\ room[k] = a
    BY <1>3 DEF InRoom, ToSet
  <2>5. room' = RemoveAt(room, k)
    BY <1>2, <1>3 DEF Without, InRoom
  <2>. HIDE DEF T, F, k
  <2>6. /\ down' \in [Client -> Seq(RelayFrame)]
        /\ \A d \in Client :
              /\ d \in T /\ page[d] = "call" => down'[d] = Append(down[d], F[d])
              /\ ~(d \in T /\ page[d] = "call") => down'[d] = down[d]
    BY <2>1, <2>2, SentTo
  <2>7. k \in 1 .. Len(room)
    BY <2>4, <1>1, Members
  <2>8. /\ room' \in Seq(Client) /\ IsInjective(room')
        /\ ToSet(room') = ToSet(room) \ {a}
    BY <1>1, <2>4, <2>5, <2>7, Removed
  <2>9. \A c \in Client : InRoom(c)' <=> InRoom(c) /\ c # a
    BY <2>8 DEF InRoom
  <2>. QED BY <1>3, <2>3, <2>6, <2>8, <2>9
<1>4. CASE ~InRoom(a)
  <2>1. down' = down /\ room' = room
    BY <1>2, <1>4 DEF OnClose, Without, InRoom
  <2>. QED BY <2>1, <1>1, <1>4 DEF StreamTypes, InRoom
<1>. QED BY <1>3, <1>4

LEMMA ServingEnds ==
    ASSUME StreamTypes, StreamInv, NEW a \in Client, NEW m, Serves(a, m)
    PROVE  /\ page[a] # "lobby"
           /\ m.type = "join" => ~InRoom(a) /\ Joining(a) /\ ~Joining(a)'
           /\ m.type = "signal" => InRoom(a)
           /\ m.type = "close" => up'[a] = <<>> /\ page[a] \in {"left", "cut"}
           /\ m.type # "close" /\ page[a] \in {"left", "cut"} =>
                 up'[a] # <<>> /\ up'[a][Len(up'[a])].type = "close"
           /\ \A i \in 1 .. Len(up'[a]) :
                 /\ up'[a][i].type # "join"
                 /\ up'[a][i].type = "signal" => InRoom(a)
                 /\ up'[a][i].type = "close" => i = Len(up'[a]) /\ page[a] \in {"left", "cut"}
<1>. DEFINE n == Len(up[a])
<1>1. /\ page' = page
      /\ m = up[a][1]
      /\ n \in Nat /\ n >= 1 /\ Len(up'[a]) = n - 1
      /\ up' \in [Client -> Seq(PageFrame)]
      /\ \A i \in 1 .. n - 1 : up'[a][i] = up[a][i + 1]
  <2>. HIDE DEF n
  <2>1. n = Len(up[a])
    BY DEF n
  <2>. QED BY <2>1, TakenUp
<1>. HIDE DEF n
<1>2. n = Len(up[a])
  BY DEF n
<1>3. (\A i \in 1 .. n - 1 : i + 1 \in 1 .. n /\ i + 1 # 1) /\ 1 \in 1 .. n
  BY <1>1
<1>4. Life(a)
  BY DEF StreamInv
<1>5. page[a] # "lobby"
  BY <1>4 DEF Life, Serves
<1>6. ASSUME NEW i \in 1 .. n - 1
      PROVE  /\ up'[a][i].type # "join"
             /\ up'[a][i].type = "signal" => InRoom(a)
             /\ up'[a][i].type = "close" => i = n - 1 /\ page[a] \in {"left", "cut"}
  <2>1. i + 1 \in 1 .. n /\ i + 1 # 1 /\ up'[a][i] = up[a][i + 1]
    BY <1>1, <1>3
  <2>2. /\ up[a][i + 1].type = "join" => i + 1 = 1
        /\ up[a][i + 1].type = "signal" => InRoom(a)
        /\ up[a][i + 1].type = "close" => i + 1 = n /\ page[a] \in {"left", "cut"}
    BY <2>1, <1>2, <1>4 DEF Life
  <2>. QED BY <2>1, <2>2, <1>1
<1>7. m.type = "join" => ~InRoom(a) /\ Joining(a)
  BY <1>1, <1>2, <1>3, <1>4 DEF Life, Joining
<1>8. ~Joining(a)'
  BY <1>1, <1>5, <1>6 DEF Joining
<1>9. m.type = "signal" => InRoom(a)
  BY <1>1, <1>2, <1>3, <1>4 DEF Life
<1>10. m.type = "close" => up'[a] = <<>> /\ page[a] \in {"left", "cut"}
  <2>1. m.type = "close" => n = 1 /\ page[a] \in {"left", "cut"}
    BY <1>1, <1>2, <1>3, <1>4 DEF Life
  <2>2. up'[a] \in Seq(PageFrame)
    BY <1>1
  <2>3. n = 1 => up'[a] = <<>>
    BY <2>2, <1>1, EmptySeq
  <2>. QED BY <2>1, <2>3
<1>11. m.type # "close" /\ page[a] \in {"left", "cut"} =>
          up'[a] # <<>> /\ up'[a][Len(up'[a])].type = "close"
  <2>1. SUFFICES ASSUME m.type # "close", page[a] \in {"left", "cut"}
                 PROVE  up'[a] # <<>> /\ up'[a][n - 1].type = "close"
    BY <1>1
  <2>2. up[a][n].type = "close"
    BY <2>1, <1>2, <1>4 DEF Life, Serves
  <2>3. n # 1
    BY <2>1, <2>2, <1>1
  <2>4. n - 1 \in 1 .. n - 1 /\ (n - 1) + 1 = n
    BY <2>3, <1>1
  <2>5. up'[a][n - 1] = up[a][n]
    BY <2>4, <1>1
  <2>. QED BY <2>2, <2>4, <2>5, <1>1
<1>. QED BY <1>1, <1>5, <1>6, <1>7, <1>8, <1>9, <1>10, <1>11

LEMMA JoinShows ==
    ASSUME StreamTypes, MeshTypeOK, StreamInv,
           NEW a \in Client, Serves(a, JoinFrame), OnJoin(a)
    PROVE  /\ ~InRoom(a) /\ Joining(a) /\ ~Joining(a)'
           /\ \A c \in Client : InRoom(c)' <=> InRoom(c) \/ c = a
           /\ \A c, d \in Client :
                 /\ \A x : Flying(c, d, x)' <=> Flying(c, d, x)
                 /\ OneDescription(c, d) => OneDescription(c, d)' /\ (Stray(c, d)' => Stray(c, d))
                 /\ WritesTo(c, d)' => WritesTo(c, d)
                 /\ Joining(c)' => Joining(c)
                 /\ NamedIn(c, d)' => \/ NamedIn(c, d) \/ (c = a /\ InRoom(d))
                                      \/ (c # a /\ d = a)
                 /\ Remembered(c, d)' => Remembered(c, d) \/ InRoom(d) \/ d = a
                 /\ Leaving(c, d)' <=> Leaving(c, d)
                 /\ Late(c, d)' => Late(c, d)
                 /\ Greets(c, d)' => Greets(c, d) \/ (c = a /\ InRoom(d))
                 /\ Greeted(c)' => Greeted(c) \/ (c = a /\ page[a] = "call")
<1>1. JoinFrame.type = "join" /\ \A d, x : JoinFrame # SignalTo(d, x)
  <2>1. JoinFrame.type = "join" /\ \A d, x : SignalTo(d, x).type = "signal"
    BY DEF JoinFrame, SignalTo
  <2>. QED BY <2>1
<1>2. ~InRoom(a) /\ Joining(a) /\ ~Joining(a)'
  BY <1>1, ServingEnds
<1>3. /\ page[a] = "call" => down'[a] = Append(down[a], JoinedFrame(room))
      /\ page[a] # "call" => down'[a] = down[a]
      /\ \A d \in Client \ {a} :
            /\ InRoom(d) /\ page[d] = "call" => down'[d] = Append(down[d], PeerJoined(a))
            /\ ~(InRoom(d) /\ page[d] = "call") => down'[d] = down[d]
      /\ \A c \in Client : InRoom(c)' <=> InRoom(c) \/ c = a
  BY <1>2, JoinSends
<1>4. room \in Seq(Client)
  BY DEF MeshTypeOK
<1>5. /\ JoinedFrame(room) \in RelayFrame
      /\ JoinedFrame(room).type = "joined" /\ JoinedFrame(room).peers = room
      /\ PeerJoined(a) \in RelayFrame
      /\ PeerJoined(a).type = "peer-joined" /\ PeerJoined(a).id = a
  BY <1>4, RelayFrames
<1>6. \A e, x : SignalFrom(e, x).type = "signal" /\ PeerLeft(e).type = "peer-left"
  BY DEF SignalFrom, PeerLeft
<1>7. ASSUME NEW c \in Client, NEW d \in Client
      PROVE  \/ down'[c] = down[c]
             \/ c = a /\ page[a] = "call" /\ down'[c] = Append(down[c], JoinedFrame(room))
             \/ c # a /\ down'[c] = Append(down[c], PeerJoined(a))
  BY <1>3
<1>8. ASSUME NEW c \in Client, NEW d \in Client
      PROVE  /\ NamedIn(c, d)' => NamedIn(c, d) \/ (c = a /\ InRoom(d)) \/ (c # a /\ d = a)
             /\ Remembered(c, d)' => Remembered(c, d) \/ InRoom(d) \/ d = a
             /\ Leaving(c, d)' <=> Leaving(c, d)
             /\ Late(c, d)' => Late(c, d)
             /\ Greets(c, d)' => Greets(c, d) \/ (c = a /\ InRoom(d))
             /\ Greeted(c)' => Greeted(c) \/ (c = a /\ page[a] = "call")
  <2>1. CASE down'[c] = down[c]
    BY <2>1, StaysShows
  <2>2. CASE c = a /\ page[a] = "call" /\ down'[c] = Append(down[c], JoinedFrame(room))
    <3>. DEFINE f == JoinedFrame(room)
    <3>0. f \in RelayFrame /\ f.type = "joined" /\ f.peers = room
      BY <1>5
    <3>. HIDE DEF f
    <3>1. down'[c] = Append(down[c], f)
      BY <2>2 DEF f
    <3>2. /\ NamedIn(c, d)' => NamedIn(c, d) \/ Names(f, d)
          /\ Remembered(c, d)' => (Remembered(c, d) /\ f # PeerLeft(d)) \/ Names(f, d)
          /\ Leaving(c, d)' <=> Leaving(c, d) \/ f = PeerLeft(d)
          /\ Late(c, d)' => Late(c, d) \/ (Leaving(c, d) /\ f.type = "signal" /\ f.from = d)
          /\ Greets(c, d)' => Greets(c, d) \/ (f.type = "joined" /\ d \in ToSet(f.peers))
          /\ Greeted(c)' => Greeted(c) \/ f.type = "joined"
      BY <3>0, <3>1, GrowingShows
    <3>3. /\ Names(f, d) => InRoom(d) /\ f # PeerLeft(d)
          /\ d \in ToSet(f.peers) => InRoom(d)
      BY <3>0, <1>6 DEF Names, InRoom
    <3>4. f # PeerLeft(d)
      BY <3>0, <1>6
    <3>. QED BY <2>2, <3>0, <3>2, <3>3, <3>4
  <2>3. CASE c # a /\ down'[c] = Append(down[c], PeerJoined(a))
    <3>. DEFINE f == PeerJoined(a)
    <3>0. f \in RelayFrame /\ f.type = "peer-joined" /\ f.id = a
      BY <1>5
    <3>. HIDE DEF f
    <3>1. down'[c] = Append(down[c], f)
      BY <2>3 DEF f
    <3>2. /\ NamedIn(c, d)' => NamedIn(c, d) \/ Names(f, d)
          /\ Remembered(c, d)' => (Remembered(c, d) /\ f # PeerLeft(d)) \/ Names(f, d)
          /\ Leaving(c, d)' <=> Leaving(c, d) \/ f = PeerLeft(d)
          /\ Late(c, d)' => Late(c, d) \/ (Leaving(c, d) /\ f.type = "signal" /\ f.from = d)
          /\ Greets(c, d)' => Greets(c, d) \/ (f.type = "joined" /\ d \in ToSet(f.peers))
          /\ Greeted(c)' => Greeted(c) \/ f.type = "joined"
      BY <3>0, <3>1, GrowingShows
    <3>3. Names(f, d) => d = a
      BY <3>0 DEF Names
    <3>4. f # PeerLeft(d)
      BY <3>0, <1>6
    <3>. QED BY <2>3, <3>0, <3>2, <3>3, <3>4
  <2>. QED BY <2>1, <2>2, <2>3, <1>7
<1>9. ASSUME NEW c \in Client, NEW d \in Client
      PROVE  WritesTo(c, d)' => WritesTo(c, d)
  BY ServingShows
<1>10. ASSUME NEW c \in Client
       PROVE  Joining(c)' => Joining(c)
  BY ServingShows
<1>11. ASSUME NEW c \in Client, NEW d \in Client, OneDescription(c, d)
       PROVE  /\ OneDescription(c, d)' /\ (Stray(c, d)' => Stray(c, d))
  <2>1. \/ down'[d] = down[d]
        \/ \E f \in RelayFrame : /\ down'[d] = Append(down[d], f)
                                /\ \A x : f # SignalFrom(c, x)
    BY <1>5, <1>6, <1>7
  <2>. QED BY <2>1, <1>1, <1>11, OthersPass
<1>12. ASSUME NEW c \in Client, NEW d \in Client, NEW x
       PROVE  Flying(c, d, x)' <=> Flying(c, d, x)
  <2>1. (\E i \in 1 .. Len(up'[c]) : up'[c][i] = SignalTo(d, x)) <=>
           \E i \in 1 .. Len(up[c]) : up[c][i] = SignalTo(d, x)
    <3>1. (\E i \in 1 .. Len(up'[c]) : up'[c][i] = SignalTo(d, x)) =>
             \E i \in 1 .. Len(up[c]) : up[c][i] = SignalTo(d, x)
      BY ServingShows
    <3>2. (\E i \in 1 .. Len(up[c]) : up[c][i] = SignalTo(d, x)) =>
             \/ \E i \in 1 .. Len(up'[c]) : up'[c][i] = SignalTo(d, x)
             \/ c = a /\ JoinFrame = SignalTo(d, x)
      BY ServingShows
    <3>. QED BY <3>1, <3>2, <1>1
  <2>2. (\E i \in 1 .. Len(down'[d]) : down'[d][i] = SignalFrom(c, x)) <=>
           \E i \in 1 .. Len(down[d]) : down[d][i] = SignalFrom(c, x)
    <3>1. CASE down'[d] = down[d]
      BY <3>1
    <3>2. ASSUME NEW f \in RelayFrame, f.type # "signal", down'[d] = Append(down[d], f)
          PROVE  (\E i \in 1 .. Len(down'[d]) : down'[d][i] = SignalFrom(c, x)) <=>
                    \E i \in 1 .. Len(down[d]) : down[d][i] = SignalFrom(c, x)
      <4>1. f # SignalFrom(c, x)
        BY <3>2, <1>6
      <4>2. (\E i \in 1 .. Len(down'[d]) : down'[d][i] = SignalFrom(c, x)) <=>
                \/ \E i \in 1 .. Len(down[d]) : down[d][i] = SignalFrom(c, x)
                \/ f = SignalFrom(c, x)
        BY <3>2, GrowingShows
      <4>. QED BY <4>1, <4>2
    <3>3. CASE down'[d] = Append(down[d], JoinedFrame(room))
      BY <3>2, <3>3, <1>5
    <3>4. CASE down'[d] = Append(down[d], PeerJoined(a))
      BY <3>2, <3>4, <1>5
    <3>. QED BY <3>1, <3>3, <3>4, <1>7
  <2>. QED BY <2>1, <2>2 DEF Flying
<1>. QED BY <1>2, <1>3, <1>8, <1>9, <1>10, <1>11, <1>12

\* A page in the call that is not in the room has yet to join it.
LEMMA Unjoined ==
    ASSUME StreamTypes, StreamInv, NEW d \in Client, page[d] = "call", ~InRoom(d)
    PROVE  Joining(d)
<1>1. up[d] = <<JoinFrame>>
  BY DEF StreamInv, Life
<1>2. Len(up[d]) = 1 /\ up[d][1].type = "join"
  BY <1>1 DEF JoinFrame
<1>. QED BY <1>2 DEF Joining

LEMMA SignalShows ==
    ASSUME StreamTypes, StreamInv, PageInv, PairInv,
           NEW a \in Client, NEW b \in Client, NEW w \in What,
           Serves(a, SignalTo(b, w)), OnSignal(a, SignalTo(b, w))
    PROVE  /\ InRoom(a) /\ WritesTo(a, b) /\ room' = room
           /\ \A c \in Client : /\ Joining(c)' => Joining(c)
                                /\ Greeted(c)' => Greeted(c)
           /\ \A c, d \in Client :
                 /\ \A x \in What : /\ Flying(c, d, x)' => Flying(c, d, x)
                                    /\ page[d] = "call" /\ Flying(c, d, x) => Flying(c, d, x)'
                 /\ OneDescription(c, d)'
                 /\ page[d] = "call" => (Stray(c, d)' => Stray(c, d))
                 /\ WritesTo(c, d)' => WritesTo(c, d)
                 /\ NamedIn(c, d)' => NamedIn(c, d) \/ (c = b /\ d = a)
                 /\ Remembered(c, d)' => Remembered(c, d) \/ d = a
                 /\ Leaving(c, d)' <=> Leaving(c, d)
                 /\ Late(c, d)' => Late(c, d) \/ (d = a /\ Leaving(c, a))
                 /\ Greets(c, d)' => Greets(c, d)
<1>. DEFINE m == SignalTo(b, w)
            f == SignalFrom(a, w)
<1>1. /\ m.type = "signal" /\ m.to = b
      /\ \A d, x : m = SignalTo(d, x) => d = b
      /\ f \in RelayFrame /\ f.type = "signal" /\ f.from = a
      /\ \A c, x : f = SignalFrom(c, x) => c = a
  <2>1. /\ m.type = "signal" /\ m.to = b
        /\ f \in RelayFrame /\ f.type = "signal" /\ f.from = a
    BY PageFrames, RelayFrames
  <2>2. (\A d, x : m = SignalTo(d, x) => d = b) /\ \A c, x : f = SignalFrom(c, x) => c = a
    BY DEF SignalTo, SignalFrom
  <2>. QED BY <2>1, <2>2
<1>2. Serves(a, m)
  OBVIOUS
<1>3. /\ InRoom(b) /\ page[b] = "call" => down'[b] = Append(down[b], f)
      /\ ~(InRoom(b) /\ page[b] = "call") => down'[b] = down[b]
      /\ \A d \in Client \ {b} : down'[d] = down[d]
      /\ room' = room
  BY SignalSends
<1>. HIDE DEF m, f
<1>4. InRoom(a) /\ WritesTo(a, b)
  <2>1. InRoom(a)
    BY <1>1, <1>2, ServingEnds
  <2>2. WritesTo(a, m.to)
    BY <1>1, <1>2, ServingShows
  <2>. QED BY <2>1, <2>2, <1>1
<1>5. page[b] = "call" => InRoom(b)
  <2>1. ~Joining(b)
    BY <1>4 DEF PageInv, Newcomer
  <2>. QED BY <2>1, Unjoined
<1>6. ASSUME NEW c \in Client
      PROVE  (Joining(c)' => Joining(c)) /\ (Greeted(c)' => Greeted(c))
  <2>1. Joining(c)' => Joining(c)
    BY <1>2, ServingShows
  <2>2. CASE down'[c] = down[c]
    BY <2>1, <2>2, StaysShows
  <2>3. CASE down'[c] = Append(down[c], f)
    <3>1. Greeted(c)' => Greeted(c) \/ f.type = "joined"
      BY <2>3, <1>1, GrowingShows
    <3>. QED BY <2>1, <3>1, <1>1
  <2>. QED BY <2>2, <2>3, <1>3
<1>7. ASSUME NEW c \in Client, NEW d \in Client
      PROVE  /\ WritesTo(c, d)' => WritesTo(c, d)
             /\ NamedIn(c, d)' => NamedIn(c, d) \/ (c = b /\ d = a)
             /\ Remembered(c, d)' => Remembered(c, d) \/ d = a
             /\ Leaving(c, d)' <=> Leaving(c, d)
             /\ Late(c, d)' => Late(c, d) \/ (d = a /\ Leaving(c, a))
             /\ Greets(c, d)' => Greets(c, d)
  <2>1. WritesTo(c, d)' => WritesTo(c, d)
    BY <1>2, ServingShows
  <2>2. CASE down'[c] = down[c]
    BY <2>1, <2>2, StaysShows
  <2>3. CASE c = b /\ down'[c] = Append(down[c], f)
    <3>1. /\ NamedIn(c, d)' => NamedIn(c, d) \/ Names(f, d)
          /\ Remembered(c, d)' => (Remembered(c, d) /\ f # PeerLeft(d)) \/ Names(f, d)
          /\ Leaving(c, d)' <=> Leaving(c, d) \/ f = PeerLeft(d)
          /\ Late(c, d)' => Late(c, d) \/ (Leaving(c, d) /\ f.type = "signal" /\ f.from = d)
          /\ Greets(c, d)' => Greets(c, d) \/ (f.type = "joined" /\ d \in ToSet(f.peers))
      BY <2>3, <1>1, GrowingShows
    <3>2. Names(f, d) => d = a
      BY <1>1 DEF Names
    <3>3. f # PeerLeft(d)
      <4>1. PeerLeft(d).type = "peer-left"
        BY DEF PeerLeft
      <4>. QED BY <4>1, <1>1
    <3>. QED BY <2>1, <2>3, <3>1, <3>2, <3>3, <1>1
  <2>. QED BY <2>2, <2>3, <1>3
<1>8. ASSUME NEW c \in Client, NEW d \in Client
      PROVE  /\ \A x \in What : /\ Flying(c, d, x)' => Flying(c, d, x)
                                /\ page[d] = "call" /\ Flying(c, d, x) => Flying(c, d, x)'
             /\ OneDescription(c, d)'
             /\ page[d] = "call" => (Stray(c, d)' => Stray(c, d))
  <2>0. OneDescription(c, d)
    BY DEF PairInv, Pair
  <2>1. CASE ~(c = a /\ d = b)
    <3>1. c = a => \A x : m # SignalTo(d, x)
      BY <2>1, <1>1
    <3>2. \/ down'[d] = down[d]
          \/ \E g \in RelayFrame : /\ down'[d] = Append(down[d], g)
                                  /\ \A x : g # SignalFrom(c, x)
      <4>1. CASE d # b
        BY <4>1, <1>3
      <4>2. CASE d = b
        <5>1. \A x : f # SignalFrom(c, x)
          BY <4>2, <2>1, <1>1
        <5>2. f \in RelayFrame
          BY <1>1
        <5>. QED BY <4>2, <5>1, <5>2, <1>3
      <4>. QED BY <4>1, <4>2
    <3>. QED BY <2>0, <3>1, <3>2, <1>2, OthersPass
  <2>2. CASE c = a /\ d = b /\ page[b] = "call"
    <3>1. down'[b] = Append(down[b], SignalFrom(a, w))
      BY <2>2, <1>3, <1>5 DEF f
    <3>2. OneDescription(a, b)
      BY <2>0, <2>2
    <3>3. /\ \A x : Flying(a, b, x)' <=> Flying(a, b, x)
          /\ OneDescription(a, b)'
          /\ Stray(a, b)' => Stray(a, b)
      BY <3>1, <3>2, SignalPasses
    <3>. QED BY <2>2, <3>3
  <2>3. CASE c = a /\ d = b /\ page[b] # "call"
    <3>1. down'[b] = down[b]
      BY <2>3, <1>3
    <3>2. OneDescription(a, b)
      BY <2>0, <2>3
    <3>3. /\ \A x : Flying(a, b, x)' => Flying(a, b, x)
          /\ OneDescription(a, b)'
      BY <3>1, <3>2, SignalDropped
    <3>. QED BY <2>3, <3>3
  <2>. QED BY <2>1, <2>2, <2>3
<1>9. room' = room
  BY <1>3
<1>. QED BY <1>4, <1>6, <1>7, <1>8, <1>9

LEMMA CloseShows ==
    ASSUME StreamTypes, MeshTypeOK, StreamInv, PairInv,
           NEW a \in Client, Serves(a, CloseFrame), OnClose(a)
    PROVE  /\ Departed(a)' /\ up'[a] = <<>> /\ page[a] \in {"left", "cut"}
           /\ \A c \in Client : InRoom(c)' <=> InRoom(c) /\ c # a
           /\ \A c \in Client : /\ Joining(c)' => Joining(c)
                                /\ Greeted(c)' => Greeted(c)
           /\ \A c, d \in Client :
                 /\ \A x : Flying(c, d, x)' <=> Flying(c, d, x)
                 /\ OneDescription(c, d)' /\ (Stray(c, d)' => Stray(c, d))
                 /\ WritesTo(c, d)' => WritesTo(c, d)
                 /\ NamedIn(c, d)' => NamedIn(c, d)
                 /\ Remembered(c, d)' => Remembered(c, d)
                 /\ Leaving(c, d) => Leaving(c, d)'
                 /\ Leaving(c, d)' => Leaving(c, d) \/ d = a
                 /\ InRoom(a) /\ InRoom(c) /\ c # a /\ page[c] = "call" =>
                       ~Remembered(c, a)' /\ Leaving(c, a)'
                 /\ Late(c, d)' => Late(c, d)
                 /\ Greets(c, d)' => Greets(c, d)
<1>. DEFINE m == CloseFrame
            f == PeerLeft(a)
<1>1. /\ m.type = "close" /\ \A d, x : m # SignalTo(d, x)
      /\ f \in RelayFrame /\ f.type = "peer-left" /\ f.id = a
      /\ \A c, x : f # SignalFrom(c, x)
      /\ \A c : f = PeerLeft(c) => c = a
  <2>1. /\ m.type = "close" /\ f \in RelayFrame /\ f.type = "peer-left" /\ f.id = a
    BY PageFrames, RelayFrames
  <2>2. \A d, x : SignalTo(d, x).type = "signal" /\ SignalFrom(d, x).type = "signal"
    BY DEF SignalTo, SignalFrom
  <2>3. \A c : f = PeerLeft(c) => c = a
    BY DEF PeerLeft
  <2>. QED BY <2>1, <2>2, <2>3
<1>2. Serves(a, m)
  OBVIOUS
<1>3. /\ \A d \in Client :
            /\ InRoom(a) /\ InRoom(d) /\ d # a /\ page[d] = "call" =>
                  down'[d] = Append(down[d], f)
            /\ ~(InRoom(a) /\ InRoom(d) /\ d # a /\ page[d] = "call") =>
                  down'[d] = down[d]
      /\ \A c \in Client : InRoom(c)' <=> InRoom(c) /\ c # a
  BY CloseSends
<1>. HIDE DEF m, f
<1>4. up'[a] = <<>> /\ page[a] \in {"left", "cut"} /\ page' = page
  BY <1>1, <1>2, ServingEnds, TakenUp
<1>5. Departed(a)'
  BY <1>3, <1>4 DEF Departed
<1>6. ASSUME NEW c \in Client, NEW d \in Client
      PROVE  /\ \A x : Flying(c, d, x)' <=> Flying(c, d, x)
             /\ OneDescription(c, d)' /\ (Stray(c, d)' => Stray(c, d))
  <2>1. OneDescription(c, d)
    BY DEF PairInv, Pair
  <2>2. c = a => \A x : m # SignalTo(d, x)
    BY <1>1
  <2>3. \/ down'[d] = down[d]
        \/ \E g \in RelayFrame : /\ down'[d] = Append(down[d], g)
                                /\ \A x : g # SignalFrom(c, x)
    BY <1>1, <1>3
  <2>. QED BY <2>1, <2>2, <2>3, <1>2, OthersPass
<1>7. ASSUME NEW c \in Client, NEW d \in Client
      PROVE  /\ WritesTo(c, d)' => WritesTo(c, d)
             /\ Joining(c)' => Joining(c)
             /\ Greeted(c)' => Greeted(c)
             /\ NamedIn(c, d)' => NamedIn(c, d)
             /\ Remembered(c, d)' => Remembered(c, d)
             /\ Leaving(c, d) => Leaving(c, d)'
             /\ Leaving(c, d)' => Leaving(c, d) \/ d = a
             /\ InRoom(a) /\ InRoom(c) /\ c # a /\ page[c] = "call" =>
                   ~Remembered(c, a)' /\ Leaving(c, a)'
             /\ Late(c, d)' => Late(c, d)
             /\ Greets(c, d)' => Greets(c, d)
  <2>1. (WritesTo(c, d)' => WritesTo(c, d)) /\ (Joining(c)' => Joining(c))
    BY <1>2, ServingShows
  <2>2. CASE InRoom(a) /\ InRoom(c) /\ c # a /\ page[c] = "call"
    <3>0. down'[c] = Append(down[c], f)
      BY <2>2, <1>3
    <3>1. ASSUME NEW e \in Client
          PROVE  /\ NamedIn(c, e)' => NamedIn(c, e) \/ Names(f, e)
                 /\ Remembered(c, e)' => (Remembered(c, e) /\ f # PeerLeft(e)) \/ Names(f, e)
                 /\ Leaving(c, e)' <=> Leaving(c, e) \/ f = PeerLeft(e)
                 /\ Late(c, e)' => Late(c, e) \/ (Leaving(c, e) /\ f.type = "signal" /\ f.from = e)
                 /\ Greets(c, e)' => Greets(c, e) \/ (f.type = "joined" /\ e \in ToSet(f.peers))
                 /\ Greeted(c)' => Greeted(c) \/ f.type = "joined"
      BY <3>0, <1>1, GrowingShows
    <3>2. \A e : ~Names(f, e)
      BY <1>1 DEF Names
    <3>3. f = PeerLeft(a)
      BY DEF f
    <3>4. ~Remembered(c, a)' /\ Leaving(c, a)'
      BY <3>1, <3>2, <3>3
    <3>. QED BY <2>1, <3>1, <3>2, <3>4, <1>1
  <2>3. CASE ~(InRoom(a) /\ InRoom(c) /\ c # a /\ page[c] = "call")
    <3>1. down'[c] = down[c]
      BY <2>3, <1>3
    <3>2. /\ NamedIn(c, d)' <=> NamedIn(c, d)
          /\ Remembered(c, d)' <=> Remembered(c, d)
          /\ Leaving(c, d)' <=> Leaving(c, d)
          /\ Late(c, d)' <=> Late(c, d)
          /\ Greets(c, d)' <=> Greets(c, d)
          /\ Greeted(c)' <=> Greeted(c)
      BY <3>1, StaysShows
    <3>. QED BY <2>1, <2>3, <3>2
  <2>. QED BY <2>2, <2>3
<1>. QED BY <1>3, <1>4, <1>5, <1>6, <1>7

LEMMA ServingKeepsLife ==
    ASSUME StreamTypes, StreamInv, NEW a \in Client, NEW m, Serves(a, m),
           \A c \in Client \ {a} : InRoom(c)' <=> InRoom(c),
           m.type \in {"join", "signal"} => InRoom(a)',
           m.type = "close" => ~InRoom(a)',
           \A c \in Client :
              \/ down'[c] = down[c]
              \/ /\ page[c] = "call" /\ InRoom(c)'
                 /\ \E f \in RelayFrame :
                       /\ down'[c] = Append(down[c], f)
                       /\ f.type = "joined" =>
                             /\ down[c] = <<>>
                             /\ IsInjective(f.peers) /\ c \notin ToSet(f.peers)
    PROVE  StreamInv'
<1>1. /\ page' = page /\ \A c \in Client \ {a} : up'[c] = up[c]
      /\ m \in PageFrame
  BY TakenUp
<1>2. m.type \in {"join", "close", "signal"}
  BY <1>1, PageFrames
<1>3. /\ page[a] # "lobby"
      /\ m.type = "close" => up'[a] = <<>> /\ page[a] \in {"left", "cut"}
      /\ m.type # "close" /\ page[a] \in {"left", "cut"} =>
            up'[a] # <<>> /\ up'[a][Len(up'[a])].type = "close"
      /\ \A i \in 1 .. Len(up'[a]) :
            /\ up'[a][i].type # "join"
            /\ up'[a][i].type = "signal" => InRoom(a)
            /\ up'[a][i].type = "close" => i = Len(up'[a]) /\ page[a] \in {"left", "cut"}
  BY ServingEnds
<1>4. ASSUME NEW c \in Client PROVE down'[c] # <<>> => page[c] = "call" /\ InRoom(c)'
  <2>1. CASE down'[c] = down[c]
    <3>1. down[c] # <<>> => page[c] = "call" /\ InRoom(c)
      BY DEF StreamInv, Life
    <3>2. CASE c # a
      BY <2>1, <3>1, <3>2
    <3>3. CASE c = a
      BY <2>1, <3>1, <3>3, <1>2, <1>3
    <3>. QED BY <3>2, <3>3
  <2>. QED BY <2>1
<1>5. ASSUME NEW c \in Client PROVE Life(c)'
  <2>1. Life(c)
    BY DEF StreamInv
  <2>2. CASE c # a
    <3>1. up'[c] = up[c] /\ (InRoom(c)' <=> InRoom(c))
      BY <2>2, <1>1
    <3>. QED BY <2>1, <3>1, <1>1, <1>4 DEF Life
  <2>3. CASE c = a
    <3>1. CASE m.type = "close"
      <4>1. up'[a] = <<>> /\ Len(up'[a]) = 0 /\ ~InRoom(a)' /\ page'[a] \in {"left", "cut"}
        BY <3>1, <1>1, <1>3
      <4>. QED BY <2>3, <4>1, <1>1, <1>4 DEF Life
    <3>2. CASE m.type # "close"
      <4>1. InRoom(a)'
        BY <3>2, <1>2
      <4>. QED BY <2>3, <3>2, <4>1, <1>1, <1>3, <1>4 DEF Life
    <3>. QED BY <3>1, <3>2
  <2>. QED BY <2>2, <2>3
<1>6. ASSUME NEW c \in Client PROVE Greeting(c)'
  <2>1. Greeting(c)
    BY DEF StreamInv
  <2>2. CASE down'[c] = down[c]
    BY <2>1, <2>2 DEF Greeting
  <2>3. ASSUME NEW f \in RelayFrame, down'[c] = Append(down[c], f),
               f.type = "joined" => /\ down[c] = <<>>
                                    /\ IsInjective(f.peers) /\ c \notin ToSet(f.peers)
        PROVE  Greeting(c)'
    <3>1. /\ Len(down[c]) \in Nat /\ Len(down'[c]) = Len(down[c]) + 1
          /\ \A i \in 1 .. Len(down[c]) : down'[c][i] = down[c][i]
          /\ down'[c][Len(down[c]) + 1] = f
          /\ \A i \in 1 .. Len(down[c]) + 1 : i \in 1 .. Len(down[c]) \/ i = Len(down[c]) + 1
      BY <2>3, Grows
    <3>2. f.type = "joined" => Len(down[c]) + 1 = 1
      BY <2>3
    <3>3. ASSUME NEW i \in 1 .. Len(down[c]) + 1, down'[c][i].type = "joined"
          PROVE  /\ i = 1
                 /\ IsInjective(down'[c][i].peers) /\ c \notin ToSet(down'[c][i].peers)
      <4>1. CASE i \in 1 .. Len(down[c])
        <5>1. down'[c][i] = down[c][i] /\ down[c][i].type = "joined"
          BY <4>1, <3>1, <3>3
        <5>. QED BY <4>1, <5>1, <2>1 DEF Greeting
      <4>2. CASE i = Len(down[c]) + 1
        <5>1. down'[c][i] = f
          BY <4>2, <3>1
        <5>. QED BY <5>1, <4>2, <3>2, <3>3, <2>3
      <4>. QED BY <4>1, <4>2, <3>1
    <3>. QED BY <3>1, <3>3 DEF Greeting
  <2>. QED BY <2>2, <2>3
<1>. QED BY <1>5, <1>6 DEF StreamInv

-----------------------------------------------------------------------------
(* What stays when nothing happens between two pages.                      *)

Same(c, d) == pc'[c][d] = pc[c][d] /\ task'[c][d] = task[c][d]

\* c's connection to d may be new, if d does not await to hear of it.
Alike(c, d) ==
    /\ task'[c][d] = task[c][d]
    /\ Local(c, d)' <=> Local(c, d)
    /\ Remote(c, d)' <=> Remote(c, d)
    /\ Has(c, d)' => Has(c, d) \/ ~(page[d] = "call" /\ Offers(d, c))

LEMMA AlikeShows ==
    ASSUME NEW c \in Client, NEW d \in Client, Alike(c, d)
    PROVE  /\ Undescribed(c, d)' <=> Undescribed(c, d)
           /\ Fresh(c, d)' <=> Fresh(c, d)
           /\ Waits(c, d)' <=> Waits(c, d)
           /\ Ready(c, d)' <=> Ready(c, d)
BY DEF Alike, Undescribed, Fresh, Waits, Ready

LEMMA SameShows ==
    ASSUME NEW c \in Client, NEW d \in Client, Same(c, d)
    PROVE  /\ Alike(c, d)
           /\ Has(c, d)' <=> Has(c, d)
<1>1. Has(c, d)' <=> Has(c, d)
  BY DEF Same, Has
<1>2. Local(c, d)' <=> Local(c, d)
  BY DEF Same, Local
<1>3. Remote(c, d)' <=> Remote(c, d)
  BY DEF Same, Remote
<1>. QED BY <1>1, <1>2, <1>3 DEF Alike, Same

\* Of what c knows of d, and what it tells d.
Calm(c, d) ==
    /\ page'[c] = "call" => page[c] = "call" /\ Alike(c, d) /\ (Offers(c, d)' => Offers(c, d))
    /\ \A w \in What : Flying(c, d, w)' => Flying(c, d, w)
    /\ page'[c] = "call" /\ page'[d] = "call" =>
          \A w \in Description : Flying(c, d, w) => Flying(c, d, w)'
    /\ OneDescription(c, d)'
    /\ page'[d] = "call" => (Stray(c, d)' => Stray(c, d))

LEMMA PairStays ==
    ASSUME NEW c \in Client, NEW d \in Client, Calm(c, d), Calm(d, c), Pair(c, d)
    PROVE  Pair(c, d)'
<1>0. /\ Description \subseteq What /\ "offer" \in What /\ "answer" \in What
      /\ "offer" \in Description /\ "answer" \in Description
  BY DEF What, Description
<1>1. ASSUME page'[c] = "call"
      PROVE  /\ page[c] = "call" /\ task'[c][d] = task[c][d]
             /\ Offers(c, d)' => Offers(c, d)
             /\ Local(c, d)' <=> Local(c, d)
             /\ Undescribed(c, d)' <=> Undescribed(c, d)
             /\ Waits(c, d)' <=> Waits(c, d)
  <2>1. page[c] = "call" /\ Alike(c, d) /\ (Offers(c, d)' => Offers(c, d))
    BY <1>1 DEF Calm
  <2>2. task'[c][d] = task[c][d] /\ (Local(c, d)' <=> Local(c, d))
    BY <2>1 DEF Alike
  <2>. QED BY <2>1, <2>2, AlikeShows
<1>2. ASSUME page'[d] = "call"
      PROVE  /\ page[d] = "call" /\ task'[d][c] = task[d][c]
             /\ Offers(d, c)' => Offers(d, c)
             /\ Has(d, c)' => Has(d, c) \/ ~(page[c] = "call" /\ Offers(c, d))
             /\ Fresh(d, c)' <=> Fresh(d, c)
             /\ Ready(d, c)' <=> Ready(d, c)
  <2>1. page[d] = "call" /\ Alike(d, c) /\ (Offers(d, c)' => Offers(d, c))
    BY <1>2 DEF Calm
  <2>2. /\ task'[d][c] = task[d][c]
        /\ Has(d, c)' => Has(d, c) \/ ~(page[c] = "call" /\ Offers(c, d))
    BY <2>1 DEF Alike
  <2>. QED BY <2>1, <2>2, AlikeShows
<1>3. /\ \A w \in What : /\ Flying(c, d, w)' => Flying(c, d, w)
                         /\ Flying(d, c, w)' => Flying(d, c, w)
      /\ page'[c] = "call" /\ page'[d] = "call" =>
            \A w \in Description : Flying(c, d, w) => Flying(c, d, w)'
      /\ OneDescription(c, d)'
      /\ page'[d] = "call" => (Stray(c, d)' => Stray(c, d))
  BY DEF Calm
<1>4. /\ Untouched(c, d) /\ Offered(c, d) /\ Answering(c, d)
      /\ Answered(c, d) /\ Described(c, d) /\ Led(c, d)
  BY DEF Pair
<1>5. Untouched(c, d)'
  BY <1>1, <1>2, <1>3, <1>4 DEF Untouched
<1>6. Offered(c, d)'
  BY <1>0, <1>1, <1>2, <1>3, <1>4 DEF Offered
<1>7. Answering(c, d)'
  <2>1. Describing(d, c)' => Describing(d, c)
    BY <1>0, <1>3 DEF Describing
  <2>. QED BY <2>1, <1>1, <1>2, <1>4 DEF Answering
<1>8. Answered(c, d)'
  BY <1>0, <1>1, <1>3, <1>4 DEF Answered
<1>9. Described(c, d)'
  <2>1. page'[c] = "call" /\ page'[d] = "call" => (Describing(c, d) => Describing(c, d)')
    BY <1>0, <1>3 DEF Describing
  <2>. QED BY <2>1, <1>1, <1>2, <1>4 DEF Described
<1>10. Led(c, d)'
  BY <1>2, <1>3, <1>4 DEF Led
<1>. QED BY <1>3, <1>5, <1>6, <1>7, <1>8, <1>9, <1>10 DEF Pair

\* Somebody whom c has not heard of stays so.
LEMMA NewcomerStays ==
    ASSUME NEW d \in Client, Newcomer(d), Joining(d)' => Joining(d),
           \A c \in Client :
              /\ NamedIn(c, d)' => NamedIn(c, d) \/ ~Joining(d)
              /\ WritesTo(c, d)' => WritesTo(c, d) \/ ~Joining(d)
              /\ d \in ToSet(loop'[c]) => d \in ToSet(loop[c]) \/ ~Joining(d)
              /\ Has(c, d)' => Has(c, d) \/ ~Joining(d)
              /\ task'[c][d] # "none" => task[c][d] # "none" \/ ~Joining(d)
    PROVE  Newcomer(d)'
BY DEF Newcomer

LEMMA DepartureStays ==
    ASSUME NEW c \in Client, NEW d \in Client, Departure(c, d),
           Late(c, d)' => Late(c, d),
           Leaving(c, d)' => Leaving(c, d),
           Departed(d) => Departed(d)'
    PROVE  Departure(c, d)'
BY DEF Departure

LEMMA TurnsStay ==
    ASSUME MeshTypeOK, NEW c \in Client, Turns(c),
           page'[c] = "call" => page[c] = "call", loop'[c] = loop[c], \A d \in Client : Same(c, d)
    PROVE  Turns(c)'
<1>1. \A d \in Client : task'[c][d] = task[c][d]
  BY DEF Same
<1>2. \A d \in Client : Has(c, d)' <=> Has(c, d)
  BY SameShows
<1>3. ASSUME page'[c] = "call", loop[c] # <<>>
      PROVE  task'[c][loop[c][1]] = "offer"
  <2>1. task[c][loop[c][1]] = "offer"
    BY <1>3 DEF Turns
  <2>2. loop[c][1] \in Client
    BY <1>3, Taken DEF MeshTypeOK
  <2>. QED BY <2>1, <2>2, <1>1
<1>. QED BY <1>1, <1>2, <1>3 DEF Turns

-----------------------------------------------------------------------------
(* Each action keeps the invariant.                                        *)

LEMMA JoiningIsOut ==
    ASSUME StreamInv, NEW d \in Client, Joining(d)
    PROVE  ~InRoom(d)
BY DEF StreamInv, Life, Joining

LEMMA FlyingShows ==
    ASSUME StreamTypes, NEW c \in Client, NEW d \in Client
    PROVE  /\ \A w \in What : Flying(c, d, w) => WritesTo(c, d) \/ NamedIn(d, c)
           /\ Stray(c, d) => Flying(c, d, "candidate")
           /\ Greets(c, d) => NamedIn(c, d)
           /\ Leaving(c, d) => down[c] # <<>>
           /\ NamedIn(c, d) => down[c] # <<>>
           /\ Greeted(c) => down[c] # <<>>
<1>1. ASSUME NEW w \in What, Flying(c, d, w) PROVE WritesTo(c, d) \/ NamedIn(d, c)
  <2>1. /\ SignalTo(d, w).type = "signal" /\ SignalTo(d, w).to = d
        /\ SignalFrom(c, w).type = "signal" /\ SignalFrom(c, w).from = c
    BY DEF SignalTo, SignalFrom
  <2>2. Names(SignalFrom(c, w), c)
    BY <2>1 DEF Names
  <2>. QED BY <1>1, <2>1, <2>2 DEF Flying, WritesTo, NamedIn
<1>2. Stray(c, d) => Flying(c, d, "candidate")
  BY DEF Stray, Flying
<1>3. Greets(c, d) => NamedIn(c, d)
  BY DEF Greets, NamedIn, Names
<1>4. down[c] = <<>> => Len(down[c]) = 0 /\ DOMAIN down[c] = {}
  OBVIOUS
<1>. QED BY <1>1, <1>2, <1>3, <1>4 DEF Leaving, NamedIn, Greeted

\* Who has yet to join has nothing to do with anybody.
LEMMA NewcomerIsStranger ==
    ASSUME StreamTypes, StreamInv, PageInv, NEW a \in Client, NEW d \in Client,
           Joining(a), page[a] \in {"lobby", "call"}
    PROVE  /\ \A w \in What : ~Flying(a, d, w) /\ ~Flying(d, a, w)
           /\ ~Has(a, d) /\ task[a][d] = "none" /\ ~Offers(a, d)
           /\ ~Has(d, a) /\ task[d][a] = "none" /\ ~Offers(d, a)
           /\ Blank(a) /\ down[a] = <<>>
<1>1. ~InRoom(a)
  BY JoiningIsOut
<1>2. Life(a)
  BY DEF StreamInv
<1>3. down[a] = <<>>
  BY <1>1, <1>2 DEF Life
<1>4. Blank(a)
  <2>1. Idle(a)
    BY DEF PageInv
  <2>. QED BY <2>1, <1>1 DEF Idle
<1>5. ~NamedIn(d, a) /\ ~WritesTo(d, a) /\ a \notin ToSet(loop[d]) /\ ~Has(d, a)
      /\ task[d][a] = "none"
  BY DEF PageInv, Newcomer
<1>6. ~WritesTo(a, d)
  BY <1>1, <1>2 DEF Life, WritesTo
<1>7. ~NamedIn(a, d) /\ ~Greets(a, d) /\ ~Greets(d, a)
  BY <1>3, <1>5, FlyingShows
<1>8. \A w \in What : ~Flying(a, d, w) /\ ~Flying(d, a, w)
  BY <1>5, <1>6, <1>7, FlyingShows
<1>9. ToSet(loop[a]) = {} /\ ~Has(a, d) /\ task[a][d] = "none"
  BY <1>4 DEF Blank, ToSet
<1>. QED BY <1>3, <1>4, <1>5, <1>7, <1>8, <1>9 DEF Offers

LEMMA Strangers ==
    ASSUME NEW c \in Client, NEW d \in Client,
           \A w \in What : ~Flying(c, d, w)' /\ ~Flying(d, c, w)',
           OneDescription(c, d)',
           page'[c] = "call" => ~Has(c, d)' /\ task'[c][d] = "none",
           page'[d] = "call" => ~Has(d, c)' /\ task'[d][c] = "none",
           page'[c] = "call" /\ page'[d] = "call" => ~(Offers(c, d)' /\ Offers(d, c)')
    PROVE  Pair(c, d)'
<1>0. "offer" \in What /\ "answer" \in What /\ "candidate" \in What
  BY DEF What
<1>1. page'[c] = "call" => Undescribed(c, d)' /\ ~Local(c, d)'
  BY DEF Undescribed, Local, Remote, Has
<1>2. ~Stray(c, d)'
  <2>1. Stray(c, d)' => Flying(c, d, "candidate")'
    BY DEF Stray, Flying
  <2>. QED BY <2>1, <1>0
<1>3. Untouched(c, d)'
  BY <1>1 DEF Untouched
<1>4. Offered(c, d)' /\ Answering(c, d)' /\ Answered(c, d)' /\ Described(c, d)' /\ Led(c, d)'
  BY <1>0, <1>1, <1>2 DEF Offered, Answering, Answered, Described, Led
<1>. QED BY <1>3, <1>4 DEF Pair

\* What every step of the server leaves alone.
LEMMA ServingKeepsConnections ==
    ASSUME UNCHANGED <<page, connections, history>>
    PROVE  /\ page' = page /\ pc' = pc /\ task' = task /\ loop' = loop
           /\ missed' = missed /\ abandoned' = abandoned
           /\ \A c, d \in Client : Same(c, d) /\ (Has(c, d)' <=> Has(c, d))
           /\ \A c \in Client : Blank(c)' <=> Blank(c)
BY DEF connections, history, Same, Has, Blank

LEMMA ServingKeepsTypes ==
    ASSUME MeshTypeOK, StreamTypes, UNCHANGED <<page, connections, history>>,
           up' \in [Client -> Seq(PageFrame)], down' \in [Client -> Seq(RelayFrame)],
           room' \in Seq(Client), IsInjective(room')
    PROVE  MeshTypeOK' /\ StreamTypes'
<1>1. /\ page' = page /\ pc' = pc /\ task' = task /\ loop' = loop
      /\ missed' = missed
  BY DEF connections, history
<1>2. DOMAIN (up') = Client /\ DOMAIN (down') = Client
  OBVIOUS
<1>3. IsInjective(room)'
  BY DEF IsInjective
<1>4. MeshTypeOK'
  BY <1>1, <1>2, <1>3 DEF MeshTypeOK
<1>. QED BY <1>1, <1>4 DEF StreamTypes

LEMMA JoinKeeps ==
    ASSUME MeshIInv, NEW a \in Client, Serves(a, JoinFrame), OnJoin(a),
           UNCHANGED <<page, connections, history>>
    PROVE  MeshIInv'
<1>0. MeshTypeOK /\ StreamTypes /\ StreamInv /\ PageInv /\ KnownInv /\ PairInv
  BY DEF MeshIInv
<1>1. /\ ~InRoom(a) /\ Joining(a) /\ ~Joining(a)'
      /\ \A c \in Client : InRoom(c)' <=> InRoom(c) \/ c = a
      /\ \A c, d \in Client :
            /\ \A x : Flying(c, d, x)' <=> Flying(c, d, x)
            /\ OneDescription(c, d) => OneDescription(c, d)' /\ (Stray(c, d)' => Stray(c, d))
            /\ WritesTo(c, d)' => WritesTo(c, d)
            /\ Joining(c)' => Joining(c)
            /\ NamedIn(c, d)' => \/ NamedIn(c, d) \/ (c = a /\ InRoom(d))
                                 \/ (c # a /\ d = a)
            /\ Remembered(c, d)' => Remembered(c, d) \/ InRoom(d) \/ d = a
            /\ Leaving(c, d)' <=> Leaving(c, d)
            /\ Late(c, d)' => Late(c, d)
            /\ Greets(c, d)' => Greets(c, d) \/ (c = a /\ InRoom(d))
            /\ Greeted(c)' => Greeted(c) \/ (c = a /\ page[a] = "call")
  BY <1>0, JoinShows
<1>2. /\ page' = page /\ task' = task /\ loop' = loop /\ missed' = missed
      /\ \A c, d \in Client : Same(c, d) /\ (Has(c, d)' <=> Has(c, d))
      /\ \A c \in Client : Blank(c)' <=> Blank(c)
  BY ServingKeepsConnections
<1>3. /\ up' \in [Client -> Seq(PageFrame)]
      /\ \A c \in Client \ {a} : up'[c] = up[c]
  BY <1>0, TakenUp
<1>4. /\ down' \in [Client -> Seq(RelayFrame)]
      /\ page[a] = "call" => down'[a] = Append(down[a], JoinedFrame(room))
      /\ page[a] # "call" => down'[a] = down[a]
      /\ \A d \in Client \ {a} :
            /\ InRoom(d) /\ page[d] = "call" => down'[d] = Append(down[d], PeerJoined(a))
            /\ ~(InRoom(d) /\ page[d] = "call") => down'[d] = down[d]
      /\ room' \in Seq(Client) /\ IsInjective(room')
  BY <1>0, <1>1, JoinSends
<1>5. MeshTypeOK' /\ StreamTypes'
  BY <1>0, <1>3, <1>4, ServingKeepsTypes
<1>6. StreamInv'
  <2>1. JoinFrame.type = "join" /\ room \in Seq(Client) /\ IsInjective(room)
    BY <1>0, PageFrames DEF MeshTypeOK
  <2>2. /\ JoinedFrame(room) \in RelayFrame /\ JoinedFrame(room).peers = room
        /\ PeerJoined(a) \in RelayFrame /\ PeerJoined(a).type # "joined"
    BY <2>1, RelayFrames
  <2>3. page[a] = "call" => down[a] = <<>>
    BY <1>0, <1>1 DEF StreamInv, Life
  <2>4. a \notin ToSet(room)
    BY <1>1 DEF InRoom
  <2>5. \A c \in Client : InRoom(c) \/ c = a => InRoom(c)'
    BY <1>1
  <2>6. ASSUME NEW c \in Client
        PROVE  \/ down'[c] = down[c]
               \/ /\ page[c] = "call" /\ InRoom(c)'
                  /\ \E f \in RelayFrame :
                       /\ down'[c] = Append(down[c], f)
                       /\ f.type = "joined" =>
                             /\ down[c] = <<>>
                             /\ IsInjective(f.peers) /\ c \notin ToSet(f.peers)
    <3>1. CASE c = a
      BY <3>1, <2>1, <2>2, <2>3, <2>4, <2>5, <1>4
    <3>2. CASE c # a
      BY <3>2, <2>2, <2>5, <1>4
    <3>. QED BY <3>1, <3>2
  <2>7. /\ \A c \in Client \ {a} : InRoom(c)' <=> InRoom(c)
        /\ InRoom(a)'
    BY <1>1
  <2>. QED BY <1>0, <2>1, <2>6, <2>7, ServingKeepsLife
<1>7. PageInv'
  <2>1. ASSUME NEW c \in Client PROVE Idle(c)'
    <3>1. Idle(c)
      BY <1>0 DEF PageInv
    <3>2. CASE c # a
      BY <3>1, <3>2, <1>1, <1>2 DEF Idle
    <3>3. CASE c = a
      BY <3>1, <3>3, <1>1, <1>2 DEF Idle
    <3>. QED BY <3>2, <3>3
  <2>2. ASSUME NEW c \in Client PROVE Turns(c)'
    BY <1>0, <1>2, TurnsStay DEF PageInv
  <2>3. ASSUME NEW d \in Client PROVE Newcomer(d)'
    <3>1. InRoom(d) => ~Joining(d)
      BY <1>0, JoiningIsOut
    <3>2. CASE d = a
      BY <3>2, <1>1 DEF Newcomer
    <3>3. CASE d # a
      <4>1. Newcomer(d)
        BY <1>0 DEF PageInv
      <4>. QED BY <4>1, <3>1, <3>3, <1>1, <1>2, NewcomerStays
    <3>. QED BY <3>2, <3>3
  <2>4. ASSUME NEW c \in Client PROVE Selfless(c)'
    BY <1>0, <1>1 DEF PageInv, Selfless
  <2>. QED BY <2>1, <2>2, <2>3, <2>4 DEF PageInv
<1>8. KnownInv'
  <2>1. ASSUME NEW c \in Client, NEW d \in Client PROVE Presence(c, d)'
    <3>1. Presence(c, d)
      BY <1>0 DEF KnownInv
    <3>. QED BY <3>1, <1>1, <1>2 DEF Presence
  <2>2. ASSUME NEW c \in Client, NEW d \in Client PROVE Departure(c, d)'
    <3>1. Departure(c, d)
      BY <1>0 DEF KnownInv
    <3>2. Departed(d) => Departed(d)'
      <4>1. Departed(d) => d # a
        BY DEF Departed, Serves
      <4>. QED BY <4>1, <1>1, <1>2, <1>3 DEF Departed
    <3>. QED BY <3>1, <3>2, <1>1, DepartureStays
  <2>. QED BY <2>1, <2>2 DEF KnownInv
<1>9. PairInv'
  <2>0. \A c, d \in Client : OneDescription(c, d) /\ Pair(c, d)
    BY <1>0 DEF PairInv, Pair
  <2>1. ASSUME NEW c \in Client, NEW d \in Client, c # a \/ page[a] # "call"
        PROVE  Calm(c, d)
    <3>1. page'[c] = "call" => (Offers(c, d)' => Offers(c, d))
      BY <2>1, <1>1, <1>2 DEF Offers
    <3>2. Alike(c, d) /\ Description \subseteq What
      BY <1>2, SameShows DEF Description, What
    <3>. QED BY <3>1, <3>2, <2>0, <1>1, <1>2 DEF Calm
  <2>2. ASSUME NEW c \in Client, NEW d \in Client, c = a \/ d = a, page[a] = "call"
        PROVE  Pair(c, d)'
    <3>1. ASSUME NEW e \in Client
          PROVE  /\ \A w \in What : ~Flying(a, e, w)' /\ ~Flying(e, a, w)'
                 /\ ~Has(a, e)' /\ task'[a][e] = "none"
                 /\ ~Has(e, a)' /\ task'[e][a] = "none" /\ ~Offers(e, a)'
      <4>1. /\ \A w \in What : ~Flying(a, e, w) /\ ~Flying(e, a, w)
            /\ ~Has(a, e) /\ task[a][e] = "none"
            /\ ~Has(e, a) /\ task[e][a] = "none" /\ ~Offers(e, a)
        BY <1>0, <1>1, <2>2, NewcomerIsStranger
      <4>2. Offers(e, a)' => Offers(e, a)
        BY <1>1, <1>2 DEF Offers
      <4>. QED BY <4>1, <4>2, <1>1, <1>2
    <3>2. OneDescription(c, d)'
      BY <1>1, <2>0
    <3>3. CASE c = a
      BY <3>1, <3>2, <3>3, Strangers
    <3>4. CASE d = a
      BY <3>1, <3>2, <3>4, Strangers
    <3>. QED BY <2>2, <3>3, <3>4
  <2>3. ASSUME NEW c \in Client, NEW d \in Client PROVE Pair(c, d)'
    <3>1. CASE (c = a \/ d = a) /\ page[a] = "call"
      BY <3>1, <2>2
    <3>2. CASE ~((c = a \/ d = a) /\ page[a] = "call")
      <4>1. Calm(c, d) /\ Calm(d, c)
        BY <3>2, <2>1
      <4>. QED BY <4>1, <2>0, PairStays
    <3>. QED BY <3>1, <3>2
  <2>. QED BY <2>3 DEF PairInv
<1>. QED BY <1>5, <1>6, <1>7, <1>8, <1>9 DEF MeshIInv

LEMMA SignalKeeps ==
    ASSUME MeshIInv, NEW a \in Client, NEW b \in Client, NEW w \in What,
           Serves(a, SignalTo(b, w)), OnSignal(a, SignalTo(b, w)),
           UNCHANGED <<page, connections, history>>
    PROVE  MeshIInv'
<1>0. MeshTypeOK /\ StreamTypes /\ StreamInv /\ PageInv /\ KnownInv /\ PairInv
  BY DEF MeshIInv
<1>1. /\ InRoom(a) /\ WritesTo(a, b) /\ room' = room
      /\ \A c \in Client : /\ Joining(c)' => Joining(c)
                           /\ Greeted(c)' => Greeted(c)
      /\ \A c, d \in Client :
            /\ \A x \in What : /\ Flying(c, d, x)' => Flying(c, d, x)
                               /\ page[d] = "call" /\ Flying(c, d, x) => Flying(c, d, x)'
            /\ OneDescription(c, d)'
            /\ page[d] = "call" => (Stray(c, d)' => Stray(c, d))
            /\ WritesTo(c, d)' => WritesTo(c, d)
            /\ NamedIn(c, d)' => NamedIn(c, d) \/ (c = b /\ d = a)
            /\ Remembered(c, d)' => Remembered(c, d) \/ d = a
            /\ Leaving(c, d)' <=> Leaving(c, d)
            /\ Late(c, d)' => Late(c, d) \/ (d = a /\ Leaving(c, a))
            /\ Greets(c, d)' => Greets(c, d)
  BY <1>0, SignalShows
<1>2. /\ page' = page /\ task' = task /\ loop' = loop /\ missed' = missed
      /\ \A c, d \in Client : Same(c, d) /\ (Has(c, d)' <=> Has(c, d))
      /\ \A c \in Client : Blank(c)' <=> Blank(c)
  BY ServingKeepsConnections
<1>3. /\ up' \in [Client -> Seq(PageFrame)]
      /\ \A c \in Client \ {a} : up'[c] = up[c]
  BY <1>0, TakenUp
<1>4. /\ down' \in [Client -> Seq(RelayFrame)]
      /\ InRoom(b) /\ page[b] = "call" => down'[b] = Append(down[b], SignalFrom(a, w))
      /\ ~(InRoom(b) /\ page[b] = "call") => down'[b] = down[b]
      /\ \A d \in Client \ {b} : down'[d] = down[d]
  BY <1>0, SignalSends
<1>5. MeshTypeOK' /\ StreamTypes'
  <2>1. room' \in Seq(Client) /\ IsInjective(room')
    BY <1>0, <1>1 DEF MeshTypeOK
  <2>. QED BY <2>1, <1>0, <1>3, <1>4, ServingKeepsTypes
<1>6. \A c \in Client : InRoom(c)' <=> InRoom(c)
  BY <1>1 DEF InRoom
<1>7. StreamInv'
  <2>1. SignalTo(b, w).type = "signal"
    BY PageFrames
  <2>2. SignalFrom(a, w) \in RelayFrame /\ SignalFrom(a, w).type # "joined"
    BY RelayFrames
  <2>3. ASSUME NEW c \in Client
        PROVE  \/ down'[c] = down[c]
               \/ /\ page[c] = "call" /\ InRoom(c)'
                  /\ \E f \in RelayFrame :
                       /\ down'[c] = Append(down[c], f)
                       /\ f.type = "joined" =>
                             /\ down[c] = <<>>
                             /\ IsInjective(f.peers) /\ c \notin ToSet(f.peers)
    <3>1. CASE c = b /\ InRoom(b) /\ page[b] = "call"
      BY <3>1, <2>2, <1>4, <1>6
    <3>2. CASE ~(c = b /\ InRoom(b) /\ page[b] = "call")
      BY <3>2, <1>4
    <3>. QED BY <3>1, <3>2
  <2>4. InRoom(a)'
    BY <1>1, <1>6
  <2>. QED BY <1>0, <1>6, <2>1, <2>3, <2>4, ServingKeepsLife
<1>8. PageInv'
  <2>1. ASSUME NEW c \in Client PROVE Idle(c)'
    <3>1. Idle(c)
      BY <1>0 DEF PageInv
    <3>. QED BY <3>1, <1>1, <1>2, <1>6 DEF Idle
  <2>2. ASSUME NEW c \in Client PROVE Turns(c)'
    BY <1>0, <1>2, TurnsStay DEF PageInv
  <2>3. ASSUME NEW d \in Client PROVE Newcomer(d)'
    <3>1. d = a => ~Joining(d)
      BY <1>0, <1>1, JoiningIsOut
    <3>2. Newcomer(d)
      BY <1>0 DEF PageInv
    <3>. QED BY <3>1, <3>2, <1>1, <1>2, NewcomerStays
  <2>4. ASSUME NEW c \in Client PROVE Selfless(c)'
    BY <1>0, <1>1 DEF PageInv, Selfless
  <2>. QED BY <2>1, <2>2, <2>3, <2>4 DEF PageInv
<1>9. KnownInv'
  <2>1. ASSUME NEW c \in Client, NEW d \in Client PROVE Presence(c, d)'
    <3>1. Presence(c, d)
      BY <1>0 DEF KnownInv
    <3>. QED BY <3>1, <1>1, <1>2, <1>6 DEF Presence
  <2>2. ASSUME NEW c \in Client, NEW d \in Client PROVE Departure(c, d)'
    <3>1. Departure(c, d)
      BY <1>0 DEF KnownInv
    <3>2. Departed(d) => Departed(d)'
      <4>1. Departed(d) => d # a
        BY DEF Departed, Serves
      <4>. QED BY <4>1, <1>2, <1>3, <1>6 DEF Departed
    <3>3. ~(d = a /\ Leaving(c, a))
      BY <3>1, <1>1 DEF Departure, Departed
    <3>4. Late(c, d)' => Late(c, d)
      BY <3>3, <1>1
    <3>. QED BY <3>1, <3>2, <3>4, <1>1, DepartureStays
  <2>. QED BY <2>1, <2>2 DEF KnownInv
<1>10. PairInv'
  <2>1. ASSUME NEW c \in Client, NEW d \in Client PROVE Calm(c, d)
    <3>1. Offers(c, d)' => Offers(c, d)
      BY <1>1, <1>2 DEF Offers
    <3>2. Alike(c, d) /\ Description \subseteq What
      BY <1>2, SameShows DEF Description, What
    <3>. QED BY <3>1, <3>2, <1>1, <1>2 DEF Calm
  <2>. QED BY <1>0, <2>1, PairStays DEF PairInv
<1>. QED BY <1>5, <1>7, <1>8, <1>9, <1>10 DEF MeshIInv

LEMMA CloseKeeps ==
    ASSUME MeshIInv, NEW a \in Client, Serves(a, CloseFrame), OnClose(a),
           UNCHANGED <<page, connections, history>>
    PROVE  MeshIInv'
<1>0. MeshTypeOK /\ StreamTypes /\ StreamInv /\ PageInv /\ KnownInv /\ PairInv
  BY DEF MeshIInv
<1>1. /\ Departed(a)' /\ up'[a] = <<>> /\ page[a] \in {"left", "cut"}
      /\ \A c \in Client : InRoom(c)' <=> InRoom(c) /\ c # a
      /\ \A c \in Client : /\ Joining(c)' => Joining(c)
                           /\ Greeted(c)' => Greeted(c)
      /\ \A c, d \in Client :
            /\ \A x : Flying(c, d, x)' <=> Flying(c, d, x)
            /\ OneDescription(c, d)' /\ (Stray(c, d)' => Stray(c, d))
            /\ WritesTo(c, d)' => WritesTo(c, d)
            /\ NamedIn(c, d)' => NamedIn(c, d)
            /\ Remembered(c, d)' => Remembered(c, d)
            /\ Leaving(c, d) => Leaving(c, d)'
            /\ Leaving(c, d)' => Leaving(c, d) \/ d = a
            /\ InRoom(a) /\ InRoom(c) /\ c # a /\ page[c] = "call" =>
                  ~Remembered(c, a)' /\ Leaving(c, a)'
            /\ Late(c, d)' => Late(c, d)
            /\ Greets(c, d)' => Greets(c, d)
  BY <1>0, CloseShows
<1>2. /\ page' = page /\ task' = task /\ loop' = loop /\ missed' = missed
      /\ \A c, d \in Client : Same(c, d) /\ (Has(c, d)' <=> Has(c, d))
      /\ \A c \in Client : Blank(c)' <=> Blank(c)
  BY ServingKeepsConnections
<1>3. /\ up' \in [Client -> Seq(PageFrame)]
      /\ \A c \in Client \ {a} : up'[c] = up[c]
  BY <1>0, TakenUp
<1>4. /\ down' \in [Client -> Seq(RelayFrame)]
      /\ \A d \in Client :
            /\ InRoom(a) /\ InRoom(d) /\ d # a /\ page[d] = "call" =>
                  down'[d] = Append(down[d], PeerLeft(a))
            /\ ~(InRoom(a) /\ InRoom(d) /\ d # a /\ page[d] = "call") =>
                  down'[d] = down[d]
      /\ room' \in Seq(Client) /\ IsInjective(room')
  BY <1>0, CloseSends
<1>5. MeshTypeOK' /\ StreamTypes'
  BY <1>0, <1>3, <1>4, ServingKeepsTypes
<1>7. StreamInv'
  <2>1. CloseFrame.type = "close"
    BY PageFrames
  <2>2. PeerLeft(a) \in RelayFrame /\ PeerLeft(a).type # "joined"
    BY RelayFrames
  <2>3. ASSUME NEW c \in Client
        PROVE  \/ down'[c] = down[c]
               \/ /\ page[c] = "call" /\ InRoom(c)'
                  /\ \E f \in RelayFrame :
                       /\ down'[c] = Append(down[c], f)
                       /\ f.type = "joined" =>
                             /\ down[c] = <<>>
                             /\ IsInjective(f.peers) /\ c \notin ToSet(f.peers)
    <3>1. CASE InRoom(a) /\ InRoom(c) /\ c # a /\ page[c] = "call"
      BY <3>1, <2>2, <1>1, <1>4
    <3>2. CASE ~(InRoom(a) /\ InRoom(c) /\ c # a /\ page[c] = "call")
      BY <3>2, <1>4
    <3>. QED BY <3>1, <3>2
  <2>4. ~InRoom(a)' /\ \A c \in Client \ {a} : InRoom(c)' <=> InRoom(c)
    BY <1>1
  <2>. QED BY <1>0, <2>1, <2>3, <2>4, ServingKeepsLife
<1>8. PageInv'
  <2>1. ASSUME NEW c \in Client PROVE Idle(c)'
    <3>1. Idle(c)
      BY <1>0 DEF PageInv
    <3>. QED BY <3>1, <1>1, <1>2 DEF Idle
  <2>2. ASSUME NEW c \in Client PROVE Turns(c)'
    BY <1>0, <1>2, TurnsStay DEF PageInv
  <2>3. ASSUME NEW d \in Client PROVE Newcomer(d)'
    <3>1. Newcomer(d)
      BY <1>0 DEF PageInv
    <3>. QED BY <3>1, <1>1, <1>2, NewcomerStays
  <2>4. ASSUME NEW c \in Client PROVE Selfless(c)'
    BY <1>0, <1>1 DEF PageInv, Selfless
  <2>. QED BY <2>1, <2>2, <2>3, <2>4 DEF PageInv
<1>9. KnownInv'
  <2>1. ASSUME NEW c \in Client, NEW d \in Client PROVE Presence(c, d)'
    <3>1. SUFFICES ASSUME page[c] = "call"
                   PROVE  /\ Remembered(c, d)' => InRoom(d)'
                          /\ d \in ToSet(loop[c]) \/ Has(c, d) =>
                                InRoom(d)' \/ Leaving(c, d)' \/ d \in missed[c]
      BY <1>2 DEF Presence
    <3>2. /\ Remembered(c, d) => InRoom(d)
          /\ d \in ToSet(loop[c]) \/ Has(c, d) =>
                InRoom(d) \/ Leaving(c, d) \/ d \in missed[c]
      BY <3>1, <1>0 DEF KnownInv, Presence
    <3>3. Remembered(c, d) => InRoom(c)
      <4>1. Remembered(c, d) => NamedIn(c, d)
        BY DEF Remembered, NamedIn
      <4>2. NamedIn(c, d) => down[c] # <<>>
        BY <1>0, FlyingShows
      <4>3. down[c] # <<>> => InRoom(c)
        BY <1>0 DEF StreamInv, Life
      <4>. QED BY <4>1, <4>2, <4>3
    <3>4. d \in ToSet(loop[c]) \/ Has(c, d) => InRoom(c)
      <4>1. ~InRoom(c) => Blank(c)
        BY <3>1, <1>0 DEF PageInv, Idle
      <4>2. Blank(c) => d \notin ToSet(loop[c]) /\ ~Has(c, d)
        BY DEF Blank, ToSet
      <4>. QED BY <4>1, <4>2
    <3>5. c # a
      BY <3>1, <1>1
    <3>6. d # a => (InRoom(d)' <=> InRoom(d))
      BY <1>1
    <3>7. d = a /\ InRoom(a) /\ InRoom(c) => ~Remembered(c, d)' /\ Leaving(c, d)'
      BY <3>1, <3>5, <1>1
    <3>8. (Remembered(c, d)' => Remembered(c, d)) /\ (Leaving(c, d) => Leaving(c, d)')
      BY <1>1
    <3>. QED BY <3>2, <3>3, <3>4, <3>6, <3>7, <3>8
  <2>2. ASSUME NEW c \in Client, NEW d \in Client PROVE Departure(c, d)'
    <3>1. Departure(c, d)
      BY <1>0 DEF KnownInv
    <3>2. Departed(d) => Departed(d)'
      <4>1. Departed(d) => d # a
        BY DEF Departed, Serves
      <4>. QED BY <4>1, <1>1, <1>2, <1>3 DEF Departed
    <3>3. (Late(c, d)' => Late(c, d)) /\ (Leaving(c, d)' => Leaving(c, d) \/ d = a)
      BY <1>1
    <3>. QED BY <3>1, <3>2, <3>3, <1>1 DEF Departure
  <2>. QED BY <2>1, <2>2 DEF KnownInv
<1>10. PairInv'
  <2>1. ASSUME NEW c \in Client, NEW d \in Client PROVE Calm(c, d)
    <3>1. Offers(c, d)' => Offers(c, d)
      BY <1>1, <1>2 DEF Offers
    <3>2. Alike(c, d) /\ Description \subseteq What
      BY <1>2, SameShows DEF Description, What
    <3>. QED BY <3>1, <3>2, <1>1, <1>2 DEF Calm
  <2>. QED BY <1>0, <2>1, PairStays DEF PairInv
<1>. QED BY <1>5, <1>7, <1>8, <1>9, <1>10 DEF MeshIInv

LEMMA ConnectKeeps ==
    ASSUME MeshIInv, NEW a \in Client, connectSignaling(a)
    PROVE  MeshIInv'
<1>0. MeshTypeOK /\ StreamTypes /\ StreamInv /\ PageInv /\ KnownInv /\ PairInv
  BY DEF MeshIInv
<1>1. Connects(a)
  BY DEF connectSignaling, Connects
<1>2. /\ up' \in [Client -> Seq(PageFrame)] /\ down' = down /\ room' = room
      /\ page[a] = "lobby" /\ page'[a] = "call"
      /\ \A e \in Client \ {a} : page'[e] = page[e]
      /\ Joining(a)
      /\ StreamInv'
      /\ \A c, d \in Client :
            /\ \A x \in What : Flying(c, d, x)' <=> Flying(c, d, x)
            /\ WritesTo(c, d)' => WritesTo(c, d)
            /\ Joining(c)' => Joining(c)
            /\ OneDescription(c, d) => OneDescription(c, d)'
            /\ Stray(c, d)' => Stray(c, d)
  BY <1>0, <1>1, ConnectingShows
<1>3. pc' = pc /\ task' = task /\ loop' = loop /\ missed' = missed
  BY DEF connectSignaling, connections, history
<1>4. ASSUME NEW c \in Client, NEW d \in Client
      PROVE  /\ NamedIn(c, d)' <=> NamedIn(c, d)
             /\ Remembered(c, d)' <=> Remembered(c, d)
             /\ Leaving(c, d)' <=> Leaving(c, d)
             /\ Late(c, d)' <=> Late(c, d)
             /\ Greets(c, d)' <=> Greets(c, d)
             /\ Greeted(c)' <=> Greeted(c)
  <2>1. down'[c] = down[c]
    BY <1>2
  <2>. QED BY <2>1, <1>0, StaysShows
<1>5. ASSUME NEW c \in Client, NEW d \in Client
      PROVE  /\ Same(c, d) /\ (Has(c, d)' <=> Has(c, d))
             /\ Offers(c, d)' <=> Offers(c, d)
             /\ Blank(c)' <=> Blank(c)
             /\ InRoom(c)' <=> InRoom(c)
  <2>1. Same(c, d) /\ (Has(c, d)' <=> Has(c, d))
    BY <1>3 DEF Same, Has
  <2>2. Offers(c, d)' <=> Offers(c, d)
    BY <1>3, <1>4 DEF Offers
  <2>3. Blank(c)' <=> Blank(c)
    BY <1>3 DEF Blank, Has
  <2>4. InRoom(c)' <=> InRoom(c)
    BY <1>2 DEF InRoom
  <2>. QED BY <2>1, <2>2, <2>3, <2>4
<1>6. ASSUME NEW e \in Client
      PROVE  /\ \A w \in What : ~Flying(a, e, w) /\ ~Flying(e, a, w)
             /\ ~Has(a, e) /\ task[a][e] = "none" /\ ~Offers(a, e)
             /\ ~Has(e, a) /\ task[e][a] = "none" /\ ~Offers(e, a)
             /\ Blank(a) /\ down[a] = <<>>
  BY <1>0, <1>2, NewcomerIsStranger
<1>7. MeshTypeOK' /\ StreamTypes'
  <2>1. page' \in [Client -> {"lobby", "call", "left", "cut"}]
    BY <1>0 DEF connectSignaling, MeshTypeOK
  <2>2. IsInjective(room)'
    BY <1>0, <1>2 DEF MeshTypeOK, IsInjective
  <2>3. DOMAIN (up') = Client /\ DOMAIN (down') = Client
    BY <1>0, <1>2 DEF MeshTypeOK
  <2>4. MeshTypeOK'
    BY <1>0, <1>2, <1>3, <2>1, <2>2, <2>3 DEF MeshTypeOK
  <2>5. StreamTypes'
    BY <1>0, <1>2, <1>3 DEF StreamTypes
  <2>. QED BY <2>4, <2>5
<1>8. PageInv'
  <2>1. ASSUME NEW c \in Client PROVE Idle(c)'
    <3>1. Idle(c)
      BY <1>0 DEF PageInv
    <3>2. CASE c # a
      BY <3>1, <3>2, <1>2, <1>4, <1>5 DEF Idle
    <3>3. CASE c = a
      BY <3>3, <1>5, <1>6 DEF Idle
    <3>. QED BY <3>2, <3>3
  <2>2. ASSUME NEW c \in Client PROVE Turns(c)'
    <3>1. CASE c # a
      <4>1. Turns(c)
        BY <1>0 DEF PageInv
      <4>2. page'[c] = page[c] /\ loop'[c] = loop[c]
        BY <3>1, <1>2, <1>3
      <4>. QED BY <4>1, <4>2, <1>0, <1>5, TurnsStay
    <3>2. CASE c = a
      <4>1. loop'[a] = <<>> /\ \A d \in Client : task'[a][d] = "none"
        BY <1>3, <1>6 DEF Blank
      <4>2. IsInjective(loop'[a]) /\ ToSet(loop'[a]) = {}
        BY <4>1 DEF IsInjective, ToSet
      <4>. QED BY <3>2, <4>1, <4>2 DEF Turns, IsInjective
    <3>. QED BY <3>1, <3>2
  <2>3. ASSUME NEW d \in Client PROVE Newcomer(d)'
    <3>1. Newcomer(d)
      BY <1>0 DEF PageInv
    <3>. QED BY <3>1, <1>2, <1>3, <1>4, <1>5, NewcomerStays
  <2>4. ASSUME NEW c \in Client PROVE Selfless(c)'
    BY <1>0, <1>2 DEF PageInv, Selfless
  <2>. QED BY <2>1, <2>2, <2>3, <2>4 DEF PageInv
<1>9. KnownInv'
  <2>1. ASSUME NEW c \in Client, NEW d \in Client PROVE Presence(c, d)'
    <3>1. CASE c # a
      <4>1. Presence(c, d)
        BY <1>0 DEF KnownInv
      <4>. QED BY <4>1, <3>1, <1>2, <1>3, <1>4, <1>5 DEF Presence
    <3>2. CASE c = a
      <4>1. ~Remembered(a, d)
        <5>1. Remembered(a, d) => NamedIn(a, d)
          BY DEF Remembered, NamedIn
        <5>2. NamedIn(a, d) => down[a] # <<>>
          BY <1>0, FlyingShows
        <5>. QED BY <5>1, <5>2, <1>6
      <4>2. d \notin ToSet(loop'[a]) /\ ~Has(a, d)'
        <5>1. loop'[a] = <<>>
          BY <1>3, <1>6 DEF Blank
        <5>. QED BY <5>1, <1>5, <1>6 DEF ToSet
      <4>. QED BY <3>2, <4>1, <4>2, <1>4 DEF Presence
    <3>. QED BY <3>1, <3>2
  <2>2. ASSUME NEW c \in Client, NEW d \in Client PROVE Departure(c, d)'
    <3>1. Departure(c, d)
      BY <1>0 DEF KnownInv
    <3>2. Departed(d) => Departed(d)'
      <4>1. Departed(d) => d # a
        BY <1>2 DEF Departed
      <4>2. d # a => up'[d] = up[d]
        BY <1>0 DEF connectSignaling, StreamTypes
      <4>. QED BY <4>1, <4>2, <1>2, <1>5 DEF Departed
    <3>. QED BY <3>1, <3>2, <1>4, DepartureStays
  <2>. QED BY <2>1, <2>2 DEF KnownInv
<1>10. PairInv'
  <2>0. \A c, d \in Client : OneDescription(c, d)' /\ Pair(c, d)
    BY <1>0, <1>2 DEF PairInv, Pair
  <2>1. ASSUME NEW c \in Client, NEW d \in Client, c # a, d # a
        PROVE  Calm(c, d)
    <3>1. Alike(c, d) /\ Description \subseteq What
      BY <1>5, SameShows DEF Description, What
    <3>. QED BY <2>0, <2>1, <3>1, <1>2, <1>5 DEF Calm
  <2>2. ASSUME NEW e \in Client
        PROVE  Pair(a, e)' /\ Pair(e, a)'
    <3>1. /\ \A w \in What : ~Flying(a, e, w)' /\ ~Flying(e, a, w)'
          /\ ~Has(a, e)' /\ task'[a][e] = "none"
          /\ ~Has(e, a)' /\ task'[e][a] = "none" /\ ~Offers(e, a)'
      BY <1>2, <1>3, <1>5, <1>6
    <3>2. Pair(a, e)'
      BY <2>0, <3>1, Strangers
    <3>3. Pair(e, a)'
      BY <2>0, <3>1, Strangers
    <3>. QED BY <3>2, <3>3
  <2>3. ASSUME NEW c \in Client, NEW d \in Client PROVE Pair(c, d)'
    <3>1. CASE c = a \/ d = a
      BY <3>1, <2>2
    <3>2. CASE c # a /\ d # a
      <4>1. Calm(c, d) /\ Calm(d, c)
        BY <3>2, <2>1
      <4>. QED BY <4>1, <2>0, PairStays
    <3>. QED BY <3>1, <3>2
  <2>. QED BY <2>3 DEF PairInv
<1>. QED BY <1>2, <1>7, <1>8, <1>9, <1>10 DEF MeshIInv

\* Whether the page forgets its connections as it goes, or keeps them.
LEMMA DepartureKeeps ==
    ASSUME MeshIInv, NEW a \in Client, NEW n, Departs(a, n), missed' = missed,
           pc' \in [Client -> [Client -> Pc \cup {NoPeer}]],
           task' \in [Client -> [Client ->
              {"none", "offer", "remoteOffer", "answer", "remoteAnswer"}]],
           loop' \in [Client -> Seq(Client)],
           \A c \in Client \ {a} : /\ pc'[c] = pc[c] /\ task'[c] = task[c]
                                   /\ loop'[c] = loop[c],
           \A d \in Client : /\ Has(a, d)' => Has(a, d)
                             /\ task'[a][d] # "none" => task[a][d] # "none"
                             /\ d \in ToSet(loop'[a]) => d \in ToSet(loop[a])
    PROVE  MeshIInv'
<1>0. MeshTypeOK /\ StreamTypes /\ StreamInv /\ PageInv /\ KnownInv /\ PairInv
  BY DEF MeshIInv
<1>1. /\ up' \in [Client -> Seq(PageFrame)]
      /\ down' \in [Client -> Seq(RelayFrame)]
      /\ \A c \in Client \ {a} : /\ up'[c] = up[c] /\ down'[c] = down[c]
                                 /\ page'[c] = page[c]
      /\ page[a] = "call" /\ page'[a] \in {"left", "cut"}
  BY <1>0, Cut
<1>2. ASSUME NEW c \in Client, NEW d \in Client
      PROVE  /\ \A x \in What : /\ Flying(c, d, x)' => Flying(c, d, x)
                                /\ c # a /\ d # a /\ Flying(c, d, x) => Flying(c, d, x)'
             /\ WritesTo(c, d)' => WritesTo(c, d)
             /\ NamedIn(c, d)' => NamedIn(c, d)
             /\ Remembered(c, d)' => Remembered(c, d)
             /\ Late(c, d)' => Late(c, d)
             /\ Leaving(c, d)' => Leaving(c, d)
             /\ c # a => (Leaving(c, d)' <=> Leaving(c, d))
             /\ Greets(c, d)' => Greets(c, d)
             /\ Greeted(c)' => Greeted(c)
             /\ ~Greeted(a)'
             /\ Joining(c)' => Joining(c)
  BY <1>0, DepartureShows
<1>3. ASSUME NEW c \in Client, NEW d \in Client
      PROVE  /\ OneDescription(c, d)'
             /\ d # a => (Stray(c, d)' => Stray(c, d))
  <2>1. OneDescription(c, d)
    BY <1>0 DEF PairInv, Pair
  <2>. QED BY <2>1, <1>0, DepartureKeepsOrder
<1>4. room' = room /\ \A c \in Client : InRoom(c)' <=> InRoom(c)
  BY DEF Departs, InRoom
<1>5. ASSUME NEW c \in Client \ {a}, NEW d \in Client
      PROVE  /\ Same(c, d) /\ (Has(c, d)' <=> Has(c, d))
             /\ Offers(c, d)' => Offers(c, d)
             /\ Blank(c)' <=> Blank(c)
  <2>1. Same(c, d) /\ (Has(c, d)' <=> Has(c, d))
    BY DEF Same, Has
  <2>2. Offers(c, d)' => Offers(c, d)
    BY <1>2 DEF Offers
  <2>3. Blank(c)' <=> Blank(c)
    BY DEF Blank, Has
  <2>. QED BY <2>1, <2>2, <2>3
<1>6. MeshTypeOK' /\ StreamTypes'
  <2>1. page' \in [Client -> {"lobby", "call", "left", "cut"}]
    BY <1>0 DEF Departs, MeshTypeOK
  <2>2. IsInjective(room)'
    BY <1>0, <1>4 DEF MeshTypeOK, IsInjective
  <2>3. DOMAIN (up') = Client /\ DOMAIN (down') = Client
    BY <1>1
  <2>4. \A c \in Client : pc'[c][c] = NoPeer
    BY <1>0 DEF MeshTypeOK, Has
  <2>5. MeshTypeOK'
    BY <1>0, <1>4, <2>1, <2>2, <2>3, <2>4 DEF MeshTypeOK
  <2>6. StreamTypes'
    BY <1>0, <1>1 DEF StreamTypes
  <2>. QED BY <2>5, <2>6
<1>7. StreamInv'
  BY <1>0, DepartureKeepsLife
<1>8. PageInv'
  <2>1. ASSUME NEW c \in Client PROVE Idle(c)'
    <3>1. Idle(c)
      BY <1>0 DEF PageInv
    <3>2. CASE c # a
      BY <3>1, <3>2, <1>1, <1>2, <1>4, <1>5 DEF Idle
    <3>3. CASE c = a
      BY <3>3, <1>1, <1>2 DEF Idle
    <3>. QED BY <3>2, <3>3
  <2>2. ASSUME NEW c \in Client PROVE Turns(c)'
    <3>1. CASE c # a
      <4>1. Turns(c)
        BY <1>0 DEF PageInv
      <4>2. page'[c] = page[c] /\ loop'[c] = loop[c]
        BY <3>1, <1>1
      <4>. QED BY <3>1, <4>1, <4>2, <1>0, <1>5, TurnsStay
    <3>2. CASE c = a
      BY <3>2, <1>1 DEF Turns
    <3>. QED BY <3>1, <3>2
  <2>3. ASSUME NEW d \in Client PROVE Newcomer(d)'
    <3>1. Newcomer(d)
      BY <1>0 DEF PageInv
    <3>2. ASSUME NEW c \in Client
          PROVE  /\ Has(c, d)' => Has(c, d)
                 /\ task'[c][d] # "none" => task[c][d] # "none"
                 /\ d \in ToSet(loop'[c]) => d \in ToSet(loop[c])
      <4>1. CASE c = a
        BY <4>1
      <4>2. CASE c # a
        BY <4>2, <1>5
      <4>. QED BY <4>1, <4>2
    <3>. QED BY <3>1, <3>2, <1>2, NewcomerStays
  <2>4. ASSUME NEW c \in Client PROVE Selfless(c)'
    BY <1>0, <1>2 DEF PageInv, Selfless
  <2>. QED BY <2>1, <2>2, <2>3, <2>4 DEF PageInv
<1>9. KnownInv'
  <2>1. ASSUME NEW c \in Client, NEW d \in Client PROVE Presence(c, d)'
    <3>1. CASE c # a
      <4>1. Presence(c, d)
        BY <1>0 DEF KnownInv
      <4>2. loop'[c] = loop[c] /\ page'[c] = page[c]
        BY <3>1, <1>1
      <4>. QED BY <4>1, <4>2, <3>1, <1>2, <1>4, <1>5 DEF Presence
    <3>2. CASE c = a
      BY <3>2, <1>1 DEF Presence
    <3>. QED BY <3>1, <3>2
  <2>2. ASSUME NEW c \in Client, NEW d \in Client PROVE Departure(c, d)'
    <3>1. Departure(c, d)
      BY <1>0 DEF KnownInv
    <3>2. Departed(d) => Departed(d)'
      <4>1. Departed(d) => d # a
        BY <1>1 DEF Departed
      <4>. QED BY <4>1, <1>1, <1>4 DEF Departed
    <3>. QED BY <3>1, <3>2, <1>2, DepartureStays
  <2>. QED BY <2>1, <2>2 DEF KnownInv
<1>10. PairInv'
  <2>1. ASSUME NEW c \in Client, NEW d \in Client PROVE Calm(c, d)
    <3>1. page'[c] = "call" =>
             c # a /\ page[c] = "call" /\ Alike(c, d) /\ (Offers(c, d)' => Offers(c, d))
      BY <1>1, <1>5, SameShows
    <3>2. page'[d] = "call" => d # a
      BY <1>1
    <3>3. Description \subseteq What
      BY DEF Description, What
    <3>. QED BY <3>1, <3>2, <3>3, <1>2, <1>3 DEF Calm
  <2>. QED BY <1>0, <2>1, PairStays DEF PairInv
<1>. QED BY <1>6, <1>7, <1>8, <1>9, <1>10 DEF MeshIInv

LEMMA LeaveKeeps ==
    ASSUME MeshIInv, NEW a \in Client, leave(a)
    PROVE  MeshIInv'
<1>0. MeshTypeOK /\ StreamTypes
  BY DEF MeshIInv
<1>1. up[a] \in Seq(PageFrame) /\ Len(up[a]) \in Nat
  BY <1>0, Members DEF StreamTypes
<1>2. SubSeq(up[a], 1, Len(up[a])) = up[a]
  <2>1. SubSeq(up[a], 1, Len(up[a])) \in Seq(PageFrame)
    BY <1>1, SubSeqProperties
  <2>2. /\ Len(SubSeq(up[a], 1, Len(up[a]))) = IF 1 <= Len(up[a]) THEN Len(up[a]) - 1 + 1 ELSE 0
        /\ \A i \in 1 .. Len(up[a]) - 1 + 1 : SubSeq(up[a], 1, Len(up[a]))[i] = up[a][1 + i - 1]
    BY <1>1, SubSeqProperties
  <2>3. /\ Len(SubSeq(up[a], 1, Len(up[a]))) = Len(up[a])
        /\ \A i \in 1 .. Len(up[a]) : SubSeq(up[a], 1, Len(up[a]))[i] = up[a][i]
    BY <1>1, <2>2
  <2>. QED BY <1>1, <2>1, <2>3, SeqEqual
<1>3. Departs(a, Len(up[a]))
  <2>1. Len(up[a]) \in 0 .. Len(up[a])
    BY <1>1
  <2>2. up' = [up EXCEPT ![a] = Append(SubSeq(@, 1, Len(up[a])), CloseFrame)]
    BY <1>2 DEF leave
  <2>. QED BY <2>1, <2>2 DEF leave, Departs
<1>4. /\ pc' = [pc EXCEPT ![a] = [d \in Client |-> NoPeer]]
      /\ task' = [task EXCEPT ![a] = [d \in Client |-> "none"]]
      /\ loop' = [loop EXCEPT ![a] = <<>>]
      /\ missed' = missed
  BY DEF leave, history
<1>5. /\ pc' \in [Client -> [Client -> Pc \cup {NoPeer}]]
      /\ \A c \in Client \ {a} : pc'[c] = pc[c]
      /\ pc'[a] = [d \in Client |-> NoPeer]
  BY <1>0, <1>4 DEF MeshTypeOK
<1>6. /\ task' \in [Client -> [Client ->
            {"none", "offer", "remoteOffer", "answer", "remoteAnswer"}]]
      /\ \A c \in Client \ {a} : task'[c] = task[c]
      /\ task'[a] = [d \in Client |-> "none"]
  BY <1>0, <1>4 DEF MeshTypeOK
<1>7. /\ loop' \in [Client -> Seq(Client)]
      /\ \A c \in Client \ {a} : loop'[c] = loop[c]
      /\ loop'[a] = <<>> /\ ToSet(loop'[a]) = {}
  BY <1>0, <1>4 DEF MeshTypeOK, ToSet
<1>8. \A d \in Client : ~Has(a, d)' /\ task'[a][d] = "none" /\ d \notin ToSet(loop'[a])
  BY <1>5, <1>6, <1>7 DEF Has
<1>. QED BY <1>3, <1>4, <1>5, <1>6, <1>7, <1>8, DepartureKeeps

LEMMA LinkLostKeeps ==
    ASSUME MeshIInv, NEW a \in Client, LinkLost(a)
    PROVE  MeshIInv'
<1>0. MeshTypeOK /\ StreamTypes
  BY DEF MeshIInv
<1>1. PICK n \in 0 .. Len(up[a]) :
         up' = [up EXCEPT ![a] = Append(SubSeq(@, 1, n), CloseFrame)]
  BY DEF LinkLost
<1>2. Departs(a, n)
  BY <1>1 DEF LinkLost, Departs
<1>3. pc' = pc /\ task' = task /\ loop' = loop /\ missed' = missed
  BY DEF LinkLost, connections, history
<1>4. \A d \in Client : Has(a, d)' => Has(a, d)
  BY <1>3 DEF Has
<1>5. /\ pc' \in [Client -> [Client -> Pc \cup {NoPeer}]]
      /\ task' \in [Client -> [Client ->
            {"none", "offer", "remoteOffer", "answer", "remoteAnswer"}]]
      /\ loop' \in [Client -> Seq(Client)]
  BY <1>0, <1>3 DEF MeshTypeOK
<1>. QED BY <1>2, <1>3, <1>4, <1>5, DepartureKeeps

-----------------------------------------------------------------------------
(* The steps of a page.                                                    *)

LEMMA PageStepKeeps ==
    ASSUME MeshIInv, NEW a \in Client, page[a] = "call", UNCHANGED <<page, room>>,
           up' \in [Client -> Seq(PageFrame)], down' \in [Client -> Seq(RelayFrame)],
           \A c \in Client \ {a} : up'[c] = up[c],
           missed' \in [Client -> SUBSET Client],
           pc' \in [Client -> [Client -> Pc \cup {NoPeer}]],
           task' \in [Client -> [Client ->
              {"none", "offer", "remoteOffer", "answer", "remoteAnswer"}]],
           loop' \in [Client -> Seq(Client)],
           \A c \in Client \ {a} : /\ pc'[c] = pc[c] /\ task'[c] = task[c]
                                   /\ loop'[c] = loop[c] /\ missed'[c] = missed[c],
           StreamInv', InRoom(a), ~Greeted(a)', ~Has(a, a)',
           \A c, d \in Client :
              /\ \A x \in What : Flying(c, c, x)' => Flying(c, c, x)
              /\ NamedIn(c, d)' => NamedIn(c, d)
              /\ WritesTo(c, d)' => WritesTo(c, d) \/ (d # c /\ ~Joining(d))
              /\ Remembered(c, d)' => Remembered(c, d)
              /\ Late(c, d)' => Late(c, d)
              /\ Leaving(c, d)' => Leaving(c, d)
              /\ c # a /\ Leaving(c, d) => Leaving(c, d)'
              /\ c # a /\ Greeted(c)' => Greeted(c)
              /\ Joining(d)' => Joining(d),
           \A d \in Client : d \in ToSet(loop'[a]) \/ Has(a, d)' => ~Joining(d),
           Turns(a)', \A d \in Client : Presence(a, d)',
           \A c, d \in Client : (Calm(c, d) /\ Calm(d, c)) \/ Pair(c, d)'
    PROVE  MeshIInv'
<1>0. MeshTypeOK /\ StreamTypes /\ StreamInv /\ PageInv /\ KnownInv /\ PairInv
  BY DEF MeshIInv
<1>1. page' = page /\ room' = room /\ \A c \in Client : InRoom(c)' <=> InRoom(c)
  BY DEF InRoom
<1>2. ASSUME NEW c \in Client \ {a}, NEW d \in Client
      PROVE  /\ Same(c, d) /\ (Has(c, d)' <=> Has(c, d))
             /\ Blank(c)' <=> Blank(c)
             /\ task'[c][d] = task[c][d] /\ loop'[c] = loop[c] /\ missed'[c] = missed[c]
  <2>1. Same(c, d) /\ (Has(c, d)' <=> Has(c, d))
    BY DEF Same, Has
  <2>2. Blank(c)' <=> Blank(c)
    BY DEF Blank, Has
  <2>. QED BY <2>1, <2>2
<1>3. MeshTypeOK' /\ StreamTypes'
  <2>1. page' \in [Client -> {"lobby", "call", "left", "cut"}]
    BY <1>0, <1>1 DEF MeshTypeOK
  <2>2. IsInjective(room)'
    BY <1>0, <1>1 DEF MeshTypeOK, IsInjective
  <2>3. DOMAIN (up') = Client /\ DOMAIN (down') = Client
    OBVIOUS
  <2>4. \A c \in Client : pc'[c][c] = NoPeer
    BY <1>0 DEF MeshTypeOK, Has
  <2>5. MeshTypeOK'
    BY <1>0, <1>1, <2>1, <2>2, <2>3, <2>4 DEF MeshTypeOK
  <2>6. StreamTypes'
    BY DEF StreamTypes
  <2>. QED BY <2>5, <2>6
<1>4. PageInv'
  <2>1. ASSUME NEW c \in Client PROVE Idle(c)'
    <3>1. Idle(c)
      BY <1>0 DEF PageInv
    <3>2. CASE c # a
      <4>1. (Greeted(c)' => Greeted(c)) /\ (Blank(c)' <=> Blank(c))
        BY <3>2, <1>2
      <4>. QED BY <3>1, <4>1, <1>1 DEF Idle
    <3>3. CASE c = a
      BY <3>3, <1>1 DEF Idle
    <3>. QED BY <3>2, <3>3
  <2>2. ASSUME NEW c \in Client PROVE Turns(c)'
    <3>1. CASE c # a
      <4>1. Turns(c)
        BY <1>0 DEF PageInv
      <4>2. page'[c] = page[c] /\ loop'[c] = loop[c]
        BY <3>1, <1>1
      <4>. QED BY <3>1, <4>1, <4>2, <1>0, <1>2, TurnsStay
    <3>. QED BY <3>1
  <2>3. ASSUME NEW d \in Client PROVE Newcomer(d)'
    <3>1. Newcomer(d)
      BY <1>0 DEF PageInv
    <3>2. ASSUME NEW c \in Client
          PROVE  /\ d \in ToSet(loop'[c]) => d \in ToSet(loop[c]) \/ ~Joining(d)
                 /\ Has(c, d)' => Has(c, d) \/ ~Joining(d)
                 /\ task'[c][d] # "none" => task[c][d] # "none" \/ ~Joining(d)
      <4>1. CASE c # a
        BY <4>1, <1>2
      <4>2. CASE c = a
        <5>1. task'[a][d] # "none" => Has(a, d)'
          BY <1>1 DEF Turns
        <5>. QED BY <4>2, <5>1
      <4>. QED BY <4>1, <4>2
    <3>. QED BY <3>1, <3>2, NewcomerStays
  <2>4. ASSUME NEW c \in Client PROVE Selfless(c)'
    BY <1>0 DEF PageInv, Selfless
  <2>. QED BY <2>1, <2>2, <2>3, <2>4 DEF PageInv
<1>5. KnownInv'
  <2>1. ASSUME NEW c \in Client, NEW d \in Client PROVE Presence(c, d)'
    <3>1. CASE c # a
      <4>1. Presence(c, d)
        BY <1>0 DEF KnownInv
      <4>2. /\ page'[c] = page[c] /\ (Remembered(c, d)' => Remembered(c, d))
            /\ (InRoom(d)' <=> InRoom(d)) /\ (Leaving(c, d) => Leaving(c, d)')
        BY <3>1, <1>1
      <4>. QED BY <3>1, <4>1, <4>2, <1>2 DEF Presence
    <3>. QED BY <3>1
  <2>2. ASSUME NEW c \in Client, NEW d \in Client PROVE Departure(c, d)'
    <3>1. Departure(c, d)
      BY <1>0 DEF KnownInv
    <3>2. Departed(d) => Departed(d)'
      <4>1. Departed(d) => d # a
        BY DEF Departed
      <4>. QED BY <4>1, <1>1 DEF Departed
    <3>. QED BY <3>1, <3>2, DepartureStays
  <2>. QED BY <2>1, <2>2 DEF KnownInv
<1>6. PairInv'
  BY <1>0, PairStays DEF PairInv
<1>. QED BY <1>3, <1>4, <1>5, <1>6 DEF MeshIInv

\* A handler that takes a frame.
LEMMA ReadKeeps ==
    ASSUME MeshIInv, NEW a \in Client, NEW m, Reads(a, m),
           missed' \in [Client -> SUBSET Client],
           pc' \in [Client -> [Client -> Pc \cup {NoPeer}]],
           task' \in [Client -> [Client ->
              {"none", "offer", "remoteOffer", "answer", "remoteAnswer"}]],
           loop' \in [Client -> Seq(Client)],
           \A c \in Client \ {a} : /\ pc'[c] = pc[c] /\ task'[c] = task[c]
                                   /\ loop'[c] = loop[c] /\ missed'[c] = missed[c],
           ~Has(a, a)', Turns(a)', missed[a] \subseteq missed'[a],
           \A d \in Client :
              /\ d \in ToSet(loop'[a]) \/ Has(a, d)' =>
                    d \in ToSet(loop[a]) \/ Has(a, d) \/ Names(m, d)
              /\ m = PeerLeft(d) =>
                    (d \notin ToSet(loop'[a]) /\ ~Has(a, d)') \/ d \in missed'[a],
           \A c, d \in Client : (Calm(c, d) /\ Calm(d, c)) \/ Pair(c, d)'
    PROVE  MeshIInv'
<1>0. MeshTypeOK /\ StreamTypes /\ StreamInv /\ PageInv /\ KnownInv /\ PairInv
  BY DEF MeshIInv
<1>1. /\ down' \in [Client -> Seq(RelayFrame)] /\ up' = up
      /\ \A c \in Client \ {a} : down'[c] = down[c]
      /\ page' = page /\ room' = room
  BY <1>0, TakenDown DEF Reads
<1>2. page[a] = "call" /\ InRoom(a)
  BY <1>0 DEF StreamInv, Life, Reads
<1>3. StreamInv' /\ ~Greeted(a)'
  BY <1>0, ReadingKeepsLife
<1>4. ASSUME NEW c \in Client, NEW d \in Client
      PROVE  /\ \A x \in What : Flying(c, d, x)' => Flying(c, d, x)
             /\ NamedIn(c, d)' => NamedIn(c, d)
             /\ Names(m, d) => NamedIn(a, d)
             /\ Greeted(c)' => Greeted(c)
  BY <1>0, ReadingShows
<1>5. ASSUME NEW c \in Client, NEW d \in Client
      PROVE  /\ Remembered(c, d)' => Remembered(c, d)
             /\ Names(m, d) => Remembered(a, d) \/ Leaving(a, d)'
             /\ Leaving(c, d)' => Leaving(c, d)
             /\ Leaving(c, d) => Leaving(c, d)' \/ (c = a /\ m = PeerLeft(d))
             /\ Late(c, d)' => Late(c, d)
  BY <1>0, ReadingForgets
<1>6. ASSUME NEW c \in Client, NEW d \in Client
      PROVE  /\ WritesTo(c, d)' => WritesTo(c, d)
             /\ Joining(d)' => Joining(d)
  BY <1>1 DEF WritesTo, Joining
<1>7. ASSUME NEW d \in Client, d \in ToSet(loop'[a]) \/ Has(a, d)'
      PROVE  ~Joining(d)
  <2>1. d \in ToSet(loop[a]) \/ Has(a, d) \/ NamedIn(a, d)
    BY <1>4, <1>7
  <2>. QED BY <2>1, <1>0 DEF PageInv, Newcomer
<1>8. ASSUME NEW d \in Client PROVE Presence(a, d)'
  <2>1. /\ Remembered(a, d) => InRoom(d)
        /\ d \in ToSet(loop[a]) \/ Has(a, d) =>
              InRoom(d) \/ Leaving(a, d) \/ d \in missed[a]
    BY <1>0, <1>2 DEF KnownInv, Presence
  <2>2. InRoom(d)' <=> InRoom(d)
    BY <1>1 DEF InRoom
  <2>3. ASSUME d \in ToSet(loop'[a]) \/ Has(a, d)'
        PROVE  InRoom(d) \/ Leaving(a, d)' \/ d \in missed'[a]
    <3>1. CASE Names(m, d)
      BY <3>1, <2>1, <1>5
    <3>2. CASE d \in ToSet(loop[a]) \/ Has(a, d)
      BY <3>2, <2>1, <2>3, <1>5
    <3>. QED BY <3>1, <3>2, <2>3
  <2>4. Remembered(a, d)' => InRoom(d)
    BY <2>1, <1>5
  <2>. QED BY <2>2, <2>3, <2>4 DEF Presence
<1>9. up' \in [Client -> Seq(PageFrame)]
  BY <1>0, <1>1 DEF StreamTypes
<1>10. ASSUME NEW c \in Client, NEW d \in Client
       PROVE  /\ \A x \in What : Flying(c, c, x)' => Flying(c, c, x)
              /\ NamedIn(c, d)' => NamedIn(c, d)
              /\ WritesTo(c, d)' => WritesTo(c, d) \/ (d # c /\ ~Joining(d))
              /\ Remembered(c, d)' => Remembered(c, d)
              /\ Late(c, d)' => Late(c, d)
              /\ Leaving(c, d)' => Leaving(c, d)
              /\ c # a /\ Leaving(c, d) => Leaving(c, d)'
              /\ c # a /\ Greeted(c)' => Greeted(c)
              /\ Joining(d)' => Joining(d)
  BY <1>4, <1>5, <1>6
<1>11. \A c \in Client \ {a} : up'[c] = up[c]
  BY <1>1
<1>. QED BY <1>1, <1>2, <1>3, <1>7, <1>8, <1>9, <1>10, <1>11, PageStepKeeps

LEMMA ReadingIsCalm ==
    ASSUME MeshIInv, NEW a \in Client, NEW m, Reads(a, m),
           NEW c \in Client, NEW d \in Client,
           page'[c] = "call" => Alike(c, d),
           page'[c] = "call" => (Offers(c, d)' => Offers(c, d)),
           d = a => \A x \in Description : m # SignalFrom(c, x)
    PROVE  Calm(c, d)
<1>0. StreamTypes /\ OneDescription(c, d) /\ Description \subseteq What
  BY DEF MeshIInv, PairInv, Pair, Description, What
<1>1. \A x \in What : /\ Flying(c, d, x)' => Flying(c, d, x)
                      /\ Flying(c, d, x) => \/ Flying(c, d, x)'
                                            \/ d = a /\ m = SignalFrom(c, x)
  BY <1>0, ReadingShows
<1>2. /\ OneDescription(c, d)'
      /\ Stray(c, d)' => Stray(c, d) \/ (d = a /\ \E x \in Description : m = SignalFrom(c, x))
  BY <1>0, ReadingKeepsOrder
<1>3. page' = page
  BY DEF Reads
<1>. QED BY <1>0, <1>1, <1>2, <1>3 DEF Calm

\* A handler that comes back from its await, or a candidate; b is written to,
\* or nobody is.
LEMMA WriteKeeps ==
    ASSUME MeshIInv, NEW a \in Client, page[a] = "call", ~Blank(a), missed' = missed,
           \/ UNCHANGED <<page, up, down, room>>
           \/ \E b \in Client \ {a}, w \in What : Has(a, b) /\ Writes(a, b, w),
           pc' \in [Client -> [Client -> Pc \cup {NoPeer}]],
           task' \in [Client -> [Client ->
              {"none", "offer", "remoteOffer", "answer", "remoteAnswer"}]],
           loop' \in [Client -> Seq(Client)],
           \A c \in Client \ {a} : /\ pc'[c] = pc[c] /\ task'[c] = task[c]
                                   /\ loop'[c] = loop[c],
           ~Has(a, a)', Turns(a)',
           \A d \in Client : d \in ToSet(loop'[a]) \/ Has(a, d)' =>
                                d \in ToSet(loop[a]) \/ Has(a, d),
           \A c, d \in Client : (Calm(c, d) /\ Calm(d, c)) \/ Pair(c, d)'
    PROVE  MeshIInv'
<1>0. MeshTypeOK /\ StreamTypes /\ StreamInv /\ PageInv /\ KnownInv /\ PairInv
  BY DEF MeshIInv
<1>1. /\ page' = page /\ room' = room /\ down' = down
      /\ \A c \in Client : InRoom(c)' <=> InRoom(c)
  BY DEF Writes, InRoom
<1>2. InRoom(a) /\ ~Greeted(a)
  BY <1>0 DEF PageInv, Idle
<1>3. ASSUME NEW c \in Client, NEW d \in Client
      PROVE  /\ NamedIn(c, d)' <=> NamedIn(c, d)
             /\ Remembered(c, d)' <=> Remembered(c, d)
             /\ Leaving(c, d)' <=> Leaving(c, d)
             /\ Late(c, d)' <=> Late(c, d)
             /\ Greeted(c)' <=> Greeted(c)
  <2>1. down'[c] = down[c]
    BY <1>1
  <2>. QED BY <2>1, <1>0, StaysShows
<1>4. ASSUME NEW d \in Client, d \in ToSet(loop[a]) \/ Has(a, d) PROVE ~Joining(d)
  BY <1>4, <1>0 DEF PageInv, Newcomer
<1>5. /\ up' \in [Client -> Seq(PageFrame)] /\ StreamInv'
      /\ \A c \in Client \ {a} : up'[c] = up[c]
      /\ \A c, d \in Client :
            /\ \A x \in What : Flying(c, c, x)' => Flying(c, c, x)
            /\ WritesTo(c, d)' => WritesTo(c, d) \/ (d # c /\ ~Joining(d))
            /\ Joining(d)' => Joining(d)
  <2>1. CASE UNCHANGED <<page, up, down, room>>
    <3>1. up' = up /\ down' = down /\ page' = page /\ room' = room
      BY <2>1
    <3>2. ASSUME NEW c \in Client, NEW d \in Client
          PROVE  /\ \A x \in What : Flying(c, d, x)' <=> Flying(c, d, x)
                 /\ WritesTo(c, d)' <=> WritesTo(c, d)
                 /\ Joining(d)' <=> Joining(d)
      BY <3>1 DEF Flying, WritesTo, Joining
    <3>3. \A c \in Client : (Life(c)' <=> Life(c)) /\ (Greeting(c)' <=> Greeting(c))
      <4>1. ASSUME NEW c \in Client PROVE Life(c)' <=> Life(c)
        BY <3>1, <1>1 DEF Life
      <4>2. ASSUME NEW c \in Client PROVE Greeting(c)' <=> Greeting(c)
        BY <3>1 DEF Greeting, IsInjective
      <4>. QED BY <4>1, <4>2
    <3>4. StreamInv'
      BY <3>3, <1>0 DEF StreamInv
    <3>5. up' \in [Client -> Seq(PageFrame)]
      BY <3>1, <1>0 DEF StreamTypes
    <3>. QED BY <3>1, <3>2, <3>4, <3>5
  <2>2. ASSUME NEW b \in Client \ {a}, NEW w \in What, Has(a, b), Writes(a, b, w)
        PROVE  /\ up' \in [Client -> Seq(PageFrame)] /\ StreamInv'
               /\ \A c \in Client \ {a} : up'[c] = up[c]
               /\ \A c, d \in Client :
                     /\ \A x \in What : Flying(c, c, x)' => Flying(c, c, x)
                     /\ WritesTo(c, d)' => WritesTo(c, d) \/ (d # c /\ ~Joining(d))
                     /\ Joining(d)' => Joining(d)
    <3>1. /\ up' \in [Client -> Seq(PageFrame)]
          /\ \A c \in Client \ {a} : up'[c] = up[c]
      BY <2>2, <1>0, FrameWritten
    <3>2. StreamInv'
      BY <2>2, <1>0, <1>2, WritingKeepsLife
    <3>3. ASSUME NEW c \in Client, NEW d \in Client
          PROVE  /\ \A x \in What : Flying(c, d, x)' <=>
                       Flying(c, d, x) \/ (c = a /\ d = b /\ x = w)
                 /\ WritesTo(c, d)' => WritesTo(c, d) \/ (c = a /\ d = b)
                 /\ Joining(c)' => Joining(c)
      BY <2>2, <1>0, WritingShows
    <3>4. ~Joining(b) /\ b # a
      BY <2>2, <1>4
    <3>. QED BY <3>1, <3>2, <3>3, <3>4
  <2>. QED BY <2>1, <2>2
<1>6. ASSUME NEW d \in Client PROVE Presence(a, d)'
  <2>1. Presence(a, d)
    BY <1>0 DEF KnownInv
  <2>. QED BY <2>1, <1>1, <1>3 DEF Presence
<1>7. ~Greeted(a)'
  BY <1>2, <1>3
<1>8. missed' \in [Client -> SUBSET Client] /\ down' \in [Client -> Seq(RelayFrame)]
  BY <1>0, <1>1 DEF StreamTypes
<1>9. \A d \in Client : d \in ToSet(loop'[a]) \/ Has(a, d)' => ~Joining(d)
  BY <1>4
<1>10. \A c, d \in Client :
          /\ \A x \in What : Flying(c, c, x)' => Flying(c, c, x)
          /\ NamedIn(c, d)' => NamedIn(c, d)
          /\ WritesTo(c, d)' => WritesTo(c, d) \/ (d # c /\ ~Joining(d))
          /\ Remembered(c, d)' => Remembered(c, d)
          /\ Late(c, d)' => Late(c, d)
          /\ Leaving(c, d)' => Leaving(c, d)
          /\ c # a /\ Leaving(c, d) => Leaving(c, d)'
          /\ c # a /\ Greeted(c)' => Greeted(c)
          /\ Joining(d)' => Joining(d)
  BY <1>3, <1>5
<1>11. \A c \in Client \ {a} : missed'[c] = missed[c]
  OBVIOUS
<1>. QED BY <1>1, <1>2, <1>5, <1>6, <1>7, <1>8, <1>9, <1>10, <1>11, PageStepKeeps

LEMMA WritingIsCalm ==
    ASSUME MeshIInv, NEW a \in Client, NEW b \in Client, NEW w \in What, Writes(a, b, w),
           NEW c \in Client, NEW d \in Client, ~(c = a /\ d = b),
           Alike(c, d), Offers(c, d)' => Offers(c, d)
    PROVE  Calm(c, d)
<1>0. StreamTypes /\ OneDescription(c, d) /\ Description \subseteq What
  BY DEF MeshIInv, PairInv, Pair, Description, What
<1>1. \A x \in What : Flying(c, d, x)' <=> Flying(c, d, x) \/ (c = a /\ d = b /\ x = w)
  BY <1>0, WritingShows
<1>2. OneDescription(c, d)'
  BY <1>0, WritingKeepsOrder
<1>3. Stray(c, d)' => Stray(c, d)
  BY <1>0, WritingStrays
<1>4. page' = page
  BY DEF Writes
<1>. QED BY <1>0, <1>1, <1>2, <1>3, <1>4 DEF Calm

LEMMA PcSet ==
    ASSUME MeshTypeOK, NEW a \in Client, NEW d \in Client, NEW v \in Pc \cup {NoPeer},
           pc' = [pc EXCEPT ![a][d] = v]
    PROVE  /\ pc' \in [Client -> [Client -> Pc \cup {NoPeer}]]
           /\ \A c \in Client \ {a} : pc'[c] = pc[c]
           /\ \A e \in Client \ {d} : pc'[a][e] = pc[a][e]
           /\ pc'[a][d] = v
<1>1. pc \in [Client -> [Client -> Pc \cup {NoPeer}]]
  BY DEF MeshTypeOK
<1>. HIDE DEF Pc
<1>. QED BY <1>1

LEMMA TaskSet ==
    ASSUME MeshTypeOK, NEW a \in Client, NEW d \in Client,
           NEW v \in {"none", "offer", "remoteOffer", "answer", "remoteAnswer"},
           task' = [task EXCEPT ![a][d] = v]
    PROVE  /\ task' \in [Client -> [Client ->
                 {"none", "offer", "remoteOffer", "answer", "remoteAnswer"}]]
           /\ \A c \in Client \ {a} : task'[c] = task[c]
           /\ \A e \in Client \ {d} : task'[a][e] = task[a][e]
           /\ task'[a][d] = v
BY DEF MeshTypeOK

LEMMA LoopSet ==
    ASSUME MeshTypeOK, NEW a \in Client, NEW s \in Seq(Client),
           loop' = [loop EXCEPT ![a] = s]
    PROVE  /\ loop' \in [Client -> Seq(Client)]
           /\ \A c \in Client \ {a} : loop'[c] = loop[c]
           /\ loop'[a] = s
BY DEF MeshTypeOK

LEMMA Becomes ==
    ASSUME NEW a \in Client, NEW d \in Client, NEW v \in Pc, pc'[a][d] = v
    PROVE  Has(a, d)' /\ (Local(a, d)' <=> v.local) /\ (Remote(a, d)' <=> v.remote)
<1>1. v # NoPeer
  BY MeshAssumption
<1>. QED BY <1>1 DEF Has, Local, Remote

LEMMA GetPeer ==
    ASSUME MeshTypeOK, NEW c \in Client, NEW d \in Client
    PROVE  /\ getPeer(c, d) \in Pc
           /\ getPeer(c, d).local <=> Local(c, d)
           /\ getPeer(c, d).remote <=> Remote(c, d)
<1>1. NewPc \in Pc /\ ~NewPc.local /\ ~NewPc.remote
  BY DEF NewPc, Pc
<1>2. CASE pc[c][d] = NoPeer
  BY <1>1, <1>2 DEF getPeer, Local, Remote
<1>3. CASE pc[c][d] # NoPeer
  <2>1. pc[c][d] \in Pc
    BY <1>3 DEF MeshTypeOK
  <2>2. getPeer(c, d) = pc[c][d]
    BY <1>3 DEF getPeer
  <2>. QED BY <2>1, <2>2, <1>3 DEF Local, Remote
<1>. QED BY <1>2, <1>3

\* A page has no connection with itself, nor does it await one.
LEMMA OneSelf ==
    ASSUME MeshIInv, NEW a \in Client, page[a] = "call"
    PROVE  /\ ~Has(a, a) /\ task[a][a] = "none" /\ a \notin ToSet(loop[a])
           /\ \A w \in What : ~Flying(a, a, w)
<1>1. MeshTypeOK /\ Turns(a) /\ Selfless(a)
  BY DEF MeshIInv, PageInv
<1>. QED BY <1>1 DEF MeshTypeOK, Has, Turns, Selfless

\* c has yet to offer to d, and nobody has told the other anything.
LEMMA OfferTurn ==
    ASSUME NEW c \in Client, NEW d \in Client,
           \A w \in What : ~Flying(c, d, w)' /\ ~Flying(d, c, w)',
           OneDescription(c, d)', OneDescription(d, c)',
           Undescribed(c, d)', task'[c][d] \in {"none", "offer"},
           page'[d] = "call" => ~Has(d, c)' /\ task'[d][c] = "none" /\ ~Offers(d, c)'
    PROVE  Pair(c, d)' /\ Pair(d, c)'
<1>0. "offer" \in What /\ "answer" \in What /\ "candidate" \in What
  BY DEF What
<1>1. /\ ~Local(c, d)'
      /\ page'[d] = "call" => Undescribed(d, c)' /\ ~Local(d, c)'
  BY DEF Undescribed, Local, Remote, Has
<1>2. ~Stray(c, d)' /\ ~Stray(d, c)'
  <2>1. (Stray(c, d)' => Flying(c, d, "candidate")') /\ (Stray(d, c)' => Flying(d, c, "candidate")')
    BY DEF Stray, Flying
  <2>. QED BY <2>1, <1>0
<1>3. Untouched(c, d)' /\ Untouched(d, c)'
  BY DEF Untouched
<1>4. Offered(c, d)' /\ Answering(c, d)' /\ Answered(c, d)' /\ Described(c, d)' /\ Led(c, d)'
  BY <1>0, <1>1, <1>2 DEF Offered, Answering, Answered, Described, Led
<1>5. Offered(d, c)' /\ Answering(d, c)' /\ Answered(d, c)' /\ Described(d, c)' /\ Led(d, c)'
  BY <1>0, <1>1, <1>2 DEF Offered, Answering, Answered, Described, Led
<1>. QED BY <1>3, <1>4, <1>5 DEF Pair

LEMMA ReadPeerJoinedKeeps ==
    ASSUME MeshIInv, NEW a \in Client, ReadPeerJoined(a)
    PROVE  MeshIInv'
<1>0. MeshTypeOK /\ StreamTypes /\ PageInv
  BY DEF MeshIInv
<1>. DEFINE m == Head(down[a])
<1>1. Reads(a, m) /\ m.type = "peer-joined"
  BY DEF ReadPeerJoined, Receive, Reads
<1>2. pc' = pc /\ task' = task /\ loop' = loop /\ missed' = missed
  BY DEF ReadPeerJoined, connections, history
<1>. HIDE DEF m
<1>3. /\ missed' \in [Client -> SUBSET Client]
      /\ pc' \in [Client -> [Client -> Pc \cup {NoPeer}]]
      /\ task' \in [Client -> [Client ->
            {"none", "offer", "remoteOffer", "answer", "remoteAnswer"}]]
      /\ loop' \in [Client -> Seq(Client)]
  BY <1>0, <1>2 DEF MeshTypeOK, StreamTypes
<1>4. ASSUME NEW c \in Client, NEW d \in Client
      PROVE  Same(c, d) /\ (Has(c, d)' <=> Has(c, d))
  BY <1>2 DEF Same, Has
<1>5. Turns(a)'
  <2>1. Turns(a) /\ page' = page /\ loop'[a] = loop[a]
    BY <1>0, <1>1, <1>2 DEF PageInv, Reads
  <2>. QED BY <2>1, <1>0, <1>4, TurnsStay
<1>6. ~Has(a, a)'
  BY <1>0, <1>4 DEF MeshTypeOK, Has
<1>7. \A d : m # PeerLeft(d) /\ \A x : m # SignalFrom(d, x)
  <2>1. \A d : PeerLeft(d).type = "peer-left" /\ \A x : SignalFrom(d, x).type = "signal"
    BY DEF PeerLeft, SignalFrom
  <2>. QED BY <2>1, <1>1
<1>8. ASSUME NEW c \in Client, NEW d \in Client
      PROVE  Calm(c, d)
  <2>1. Offers(c, d)' => Offers(c, d)
    <3>1. Greets(c, d)' => Greets(c, d)
      BY <1>0, <1>1, ReadingShows
    <3>. QED BY <3>1, <1>2 DEF Offers
  <2>2. Alike(c, d)
    BY <1>4, SameShows
  <2>3. d = a => \A x \in Description : m # SignalFrom(c, x)
    BY <1>7
  <2>. QED BY <2>1, <2>2, <2>3, <1>1, ReadingIsCalm
<1>9. \A c \in Client \ {a} : /\ pc'[c] = pc[c] /\ task'[c] = task[c]
                              /\ loop'[c] = loop[c] /\ missed'[c] = missed[c]
  BY <1>2
<1>10. \A d \in Client :
          /\ d \in ToSet(loop'[a]) \/ Has(a, d)' =>
                d \in ToSet(loop[a]) \/ Has(a, d) \/ Names(m, d)
          /\ m = PeerLeft(d) =>
                (d \notin ToSet(loop'[a]) /\ ~Has(a, d)') \/ d \in missed'[a]
  BY <1>2, <1>4, <1>7
<1>11. missed[a] \subseteq missed'[a]
  BY <1>2
<1>. QED BY <1>1, <1>3, <1>5, <1>6, <1>8, <1>9, <1>10, <1>11, ReadKeeps

LEMMA ReadJoinedKeeps ==
    ASSUME MeshIInv, NEW a \in Client, ReadJoined(a)
    PROVE  MeshIInv'
<1>0. MeshTypeOK /\ StreamTypes /\ StreamInv /\ PageInv /\ PairInv
  BY DEF MeshIInv
<1>. DEFINE m == Head(down[a])
            todo == m.peers
<1>1. /\ Reads(a, m) /\ m.type = "joined" /\ page[a] = "call"
      /\ StartOffer(a, todo) /\ missed' = missed
  BY DEF ReadJoined, Receive, Reads, history
<1>. HIDE DEF m
<1>2. todo \in Seq(Client)
  <2>1. m \in RelayFrame
    BY <1>0, <1>1, TakenDown
  <2>. QED BY <2>1, <1>1, RelayFrames
<1>3. IsInjective(todo) /\ a \notin ToSet(todo)
  BY <1>0, <1>1, ReadingKeepsLife
<1>4. Blank(a)
  <2>1. Greeted(a)
    BY <1>0, <1>1, ReadingShows
  <2>. QED BY <2>1, <1>0 DEF PageInv, Idle
<1>5. \A d \in Client : d \in ToSet(todo) <=> d \in ToSet(todo) /\ Greets(a, d) /\ Names(m, d)
  <2>1. ASSUME NEW d \in Client, d \in ToSet(todo) PROVE Greets(a, d) /\ Names(m, d)
    <3>1. Greets(a, d)
      BY <2>1, <1>0, <1>1, ReadingShows
    <3>. QED BY <3>1, <2>1, <1>1 DEF Names
  <2>. QED BY <2>1
<1>. HIDE DEF todo
<1>6. /\ loop' \in [Client -> Seq(Client)] /\ loop'[a] = todo
      /\ \A c \in Client \ {a} : loop'[c] = loop[c]
  <2>1. loop' = [loop EXCEPT ![a] = todo]
    BY <1>1 DEF StartOffer
  <2>. QED BY <2>1, <1>0, <1>2, LoopSet
<1>. DEFINE Begun(d) == /\ task'[a][d] = "offer"
                        /\ Has(a, d)' /\ ~Local(a, d)' /\ ~Remote(a, d)'
<1>7. /\ pc' \in [Client -> [Client -> Pc \cup {NoPeer}]]
      /\ task' \in [Client -> [Client ->
            {"none", "offer", "remoteOffer", "answer", "remoteAnswer"}]]
      /\ \A c \in Client \ {a} : pc'[c] = pc[c] /\ task'[c] = task[c]
      /\ \A d \in Client : \/ Same(a, d) /\ ~(todo # <<>> /\ d = todo[1])
                           \/ todo # <<>> /\ d = todo[1] /\ Begun(d)
  <2>1. CASE todo = <<>>
    <3>1. pc' = pc /\ task' = task
      BY <2>1, <1>1 DEF StartOffer
    <3>. QED BY <2>1, <3>1, <1>0 DEF MeshTypeOK, Same
  <2>2. CASE todo # <<>>
    <3>1. PICK h \in Client : h = todo[1] /\ Head(todo) = h
      BY <2>2, <1>2, Taken
    <3>. DEFINE v == getPeer(a, h)
    <3>2. /\ pc' = [pc EXCEPT ![a][h] = v]
          /\ task' = [task EXCEPT ![a][h] = "offer"]
      BY <2>2, <3>1, <1>1 DEF StartOffer
    <3>3. v \in Pc /\ (v.local <=> Local(a, h)) /\ (v.remote <=> Remote(a, h))
      BY <3>1, <1>0, GetPeer
    <3>. HIDE DEF v
    <3>4. /\ pc' \in [Client -> [Client -> Pc \cup {NoPeer}]]
          /\ \A c \in Client \ {a} : pc'[c] = pc[c]
          /\ \A e \in Client \ {h} : pc'[a][e] = pc[a][e]
          /\ pc'[a][h] = v
      BY <3>1, <3>2, <3>3, <1>0, PcSet
    <3>5. /\ task' \in [Client -> [Client ->
                {"none", "offer", "remoteOffer", "answer", "remoteAnswer"}]]
          /\ \A c \in Client \ {a} : task'[c] = task[c]
          /\ \A e \in Client \ {h} : task'[a][e] = task[a][e]
          /\ task'[a][h] = "offer"
      BY <3>1, <3>2, <1>0, TaskSet
    <3>6. Has(a, h)' /\ (Local(a, h)' <=> v.local) /\ (Remote(a, h)' <=> v.remote)
      BY <3>1, <3>3, <3>4, Becomes
    <3>7. ~Local(a, h) /\ ~Remote(a, h)
      BY <3>1, <1>4 DEF Blank, Has, Local, Remote
    <3>8. Begun(h)
      BY <3>3, <3>5, <3>6, <3>7
    <3>9. \A d \in Client : d # h => Same(a, d)
      BY <3>4, <3>5 DEF Same
    <3>. QED BY <2>2, <3>1, <3>4, <3>5, <3>8, <3>9
  <2>. QED BY <2>1, <2>2
<1>8. todo # <<>> => todo[1] \in Client /\ todo[1] \in ToSet(todo) /\ todo[1] # a
  <2>1. todo # <<>> => todo[1] \in ToSet(todo)
    <3>1. todo # <<>> => 1 \in 1 .. Len(todo)
      BY <1>2, Taken
    <3>. QED BY <3>1, <1>2, Members
  <2>. QED BY <2>1, <1>2, <1>3, Members
<1>9. ASSUME NEW d \in Client, Same(a, d)
      PROVE  task'[a][d] = "none" /\ ~Has(a, d)' /\ Alike(a, d)
  <2>1. task[a][d] = "none" /\ ~Has(a, d)
    BY <1>4 DEF Blank
  <2>2. task'[a][d] = task[a][d] /\ (Has(a, d)' <=> Has(a, d)) /\ Alike(a, d)
    BY <1>9, SameShows DEF Same
  <2>. QED BY <2>1, <2>2
<1>10. Turns(a)'
  <2>1. IsInjective(loop'[a]) /\ a \notin ToSet(loop'[a])
    BY <1>3, <1>6
  <2>2. loop'[a] # <<>> => task'[a][loop'[a][1]] = "offer"
    BY <1>6, <1>7, <1>8, <1>9
  <2>3. ASSUME NEW d \in Client
        PROVE  /\ task'[a][d] = "offer" => loop'[a] # <<>> /\ d = loop'[a][1]
               /\ task'[a][d] # "none" => Has(a, d)'
    BY <1>6, <1>7, <1>9
  <2>. QED BY <2>1, <2>2, <2>3 DEF Turns, IsInjective
<1>11. ~Has(a, a)'
  BY <1>7, <1>8, <1>9
<1>12. \A d : m # PeerLeft(d) /\ \A x : m # SignalFrom(d, x)
  <2>1. \A d : PeerLeft(d).type = "peer-left" /\ \A x : SignalFrom(d, x).type = "signal"
    BY DEF PeerLeft, SignalFrom
  <2>. QED BY <2>1, <1>1
<1>13. ASSUME NEW c \in Client, NEW d \in Client
       PROVE  Offers(c, d)' => Offers(c, d)
  <2>1. Greets(c, d)' => Greets(c, d)
    BY <1>0, <1>1, ReadingShows
  <2>2. CASE c # a
    BY <2>1, <2>2, <1>6 DEF Offers
  <2>3. CASE c = a
    BY <2>1, <2>3, <1>5, <1>6 DEF Offers
  <2>. QED BY <2>2, <2>3
<1>14. ASSUME NEW c \in Client, NEW d \in Client, Alike(c, d)
       PROVE  Calm(c, d)
  <2>1. d = a => \A x \in Description : m # SignalFrom(c, x)
    BY <1>12
  <2>2. Offers(c, d)' => Offers(c, d)
    BY <1>13
  <2>. QED BY <2>1, <2>2, <1>1, <1>14, ReadingIsCalm
<1>15. ASSUME NEW c \in Client, NEW d \in Client, c # a
       PROVE  Alike(c, d) /\ (Has(c, d)' <=> Has(c, d)) /\ task'[c][d] = task[c][d]
  <2>1. Same(c, d)
    BY <1>15, <1>7 DEF Same
  <2>. QED BY <2>1, SameShows DEF Same
<1>16. ASSUME NEW h \in Client, todo # <<>>, h = todo[1]
       PROVE  Pair(a, h)' /\ Pair(h, a)'
  <2>1. h # a /\ h \in ToSet(todo)
    BY <1>8, <1>16
  <2>2. Begun(h)
    BY <1>7, <1>16, <2>1
  <2>3. Offers(a, h)
    BY <2>1, <1>5 DEF Offers
  <2>4. /\ Untouched(a, h) /\ OneDescription(a, h) /\ OneDescription(h, a)
    BY <2>1, <1>0 DEF PairInv, Pair
  <2>5. /\ \A w \in What : ~Flying(a, h, w) /\ ~Flying(h, a, w)
        /\ page[h] = "call" => ~Has(h, a) /\ task[h][a] = "none" /\ ~Offers(h, a)
    BY <2>3, <2>4, <1>1 DEF Untouched
  <2>6. \A w \in What : ~Flying(a, h, w)' /\ ~Flying(h, a, w)'
    BY <2>1, <2>5, <1>0, <1>1, ReadingShows
  <2>7. OneDescription(a, h)' /\ OneDescription(h, a)'
    BY <2>1, <2>4, <1>0, <1>1, ReadingKeepsOrder
  <2>8. Undescribed(a, h)' /\ task'[a][h] \in {"none", "offer"}
    BY <2>2 DEF Undescribed
  <2>9. page'[h] = "call" => ~Has(h, a)' /\ task'[h][a] = "none" /\ ~Offers(h, a)'
    <3>1. page' = page
      BY <1>1 DEF Reads
    <3>. QED BY <3>1, <2>1, <2>5, <1>13, <1>15
  <2>10. Pair(a, h)' /\ Pair(h, a)'
    BY <2>1, <2>6, <2>7, <2>8, <2>9, OfferTurn
  <2>. QED BY <2>10
<1>17. ASSUME NEW c \in Client, NEW d \in Client
       PROVE  (Calm(c, d) /\ Calm(d, c)) \/ Pair(c, d)'
  <2>1. CASE todo # <<>> /\ ((c = a /\ d = todo[1]) \/ (d = a /\ c = todo[1]))
    BY <2>1, <1>16
  <2>2. CASE ~(todo # <<>> /\ ((c = a /\ d = todo[1]) \/ (d = a /\ c = todo[1])))
    <3>1. Alike(c, d)
      <4>1. CASE c = a
        <5>1. Same(a, d)
          BY <4>1, <2>2, <1>7
        <5>. QED BY <4>1, <5>1, <1>9
      <4>. QED BY <4>1, <1>15
    <3>2. Alike(d, c)
      <4>1. CASE d = a
        <5>1. Same(a, c)
          BY <4>1, <2>2, <1>7
        <5>. QED BY <4>1, <5>1, <1>9
      <4>. QED BY <4>1, <1>15
    <3>. QED BY <3>1, <3>2, <1>14
  <2>. QED BY <2>1, <2>2
<1>18. \A c \in Client \ {a} : /\ pc'[c] = pc[c] /\ task'[c] = task[c]
                               /\ loop'[c] = loop[c] /\ missed'[c] = missed[c]
  BY <1>1, <1>6, <1>7
<1>19. \A d \in Client :
          /\ d \in ToSet(loop'[a]) \/ Has(a, d)' =>
                d \in ToSet(loop[a]) \/ Has(a, d) \/ Names(m, d)
          /\ m = PeerLeft(d) =>
                (d \notin ToSet(loop'[a]) /\ ~Has(a, d)') \/ d \in missed'[a]
  <2>1. ASSUME NEW d \in Client, Has(a, d)' PROVE d \in ToSet(todo)
    BY <2>1, <1>7, <1>8, <1>9
  <2>. QED BY <2>1, <1>5, <1>6, <1>12
<1>20. missed[a] \subseteq missed'[a] /\ missed' \in [Client -> SUBSET Client]
  BY <1>0, <1>1 DEF StreamTypes
<1>21. Reads(a, m)
  BY <1>1
<1>22. /\ pc' \in [Client -> [Client -> Pc \cup {NoPeer}]]
       /\ task' \in [Client -> [Client ->
            {"none", "offer", "remoteOffer", "answer", "remoteAnswer"}]]
       /\ loop' \in [Client -> Seq(Client)]
  BY <1>6, <1>7
<1>. QED BY <1>10, <1>11, <1>17, <1>18, <1>19, <1>20, <1>21, <1>22, ReadKeeps

\* d is gone, and nothing of it is on its way any more.
LEMMA GoneBy ==
    ASSUME NEW a \in Client, NEW d \in Client, page'[d] # "call",
           \A w \in What : ~Flying(d, a, w)',
           OneDescription(a, d)', OneDescription(d, a)',
           ~Has(a, d)', task'[a][d] = "none",
           Offers(a, d)' => \A w \in What : ~Flying(a, d, w)'
    PROVE  Pair(a, d)' /\ Pair(d, a)'
<1>0. "offer" \in What /\ "answer" \in What /\ "candidate" \in What
  BY DEF What
<1>1. Undescribed(a, d)' /\ ~Local(a, d)'
  BY DEF Undescribed, Local, Remote, Has
<1>2. ~Stray(d, a)'
  <2>1. Stray(d, a)' => Flying(d, a, "candidate")'
    BY DEF Stray, Flying
  <2>. QED BY <2>1, <1>0
<1>3. Untouched(a, d)' /\ Untouched(d, a)'
  BY <1>1 DEF Untouched
<1>4. Offered(a, d)' /\ Answering(a, d)' /\ Answered(a, d)' /\ Described(a, d)' /\ Led(a, d)'
  BY <1>0, <1>1 DEF Offered, Answering, Answered, Described, Led
<1>5. Offered(d, a)' /\ Answering(d, a)' /\ Answered(d, a)' /\ Described(d, a)' /\ Led(d, a)'
  BY <1>0, <1>2 DEF Offered, Answering, Answered, Described, Led
<1>. QED BY <1>3, <1>4, <1>5 DEF Pair

LEMMA ReadPeerLeftKeeps ==
    ASSUME MeshIInv, NEW a \in Client, ReadPeerLeft(a)
    PROVE  MeshIInv'
<1>0. MeshTypeOK /\ StreamTypes /\ StreamInv /\ PageInv /\ PairInv /\ KnownInv
  BY DEF MeshIInv
<1>. DEFINE m == Head(down[a])
<1>1. Reads(a, m) /\ m.type = "peer-left" /\ page[a] = "call" /\ page' = page
  BY DEF ReadPeerLeft, Receive, Reads
<1>. HIDE DEF m
<1>2. m \in RelayFrame
  BY <1>0, <1>1, TakenDown
<1>3. PICK d \in Client : d = m.id /\ m = PeerLeft(d)
  <2>1. m.id \in Client /\ m = PeerLeft(m.id)
    BY <1>1, <1>2 DEF RelayFrame, PeerLeft
  <2>. QED BY <2>1
<1>. DEFINE current == loop[a] # <<>> /\ Head(loop[a]) = d
            left == IF current THEN <<>> ELSE loop[a]
<1>4. /\ pc' = [pc EXCEPT ![a][d] = NoPeer]
      /\ task' = [task EXCEPT ![a][d] = "none"]
      /\ loop' = [loop EXCEPT ![a] = left]
      /\ missed' = IF ~current /\ d \in ToSet(loop[a])
                   THEN [missed EXCEPT ![a] = @ \cup {d}]
                   ELSE missed
  BY <1>3 DEF ReadPeerLeft, m
<1>5. loop[a] \in Seq(Client) /\ <<>> \in Seq(Client)
  BY <1>0, EmptySeq DEF MeshTypeOK
<1>6. left \in Seq(Client)
  BY <1>5
<1>7. loop[a] # <<>> => Head(loop[a]) = loop[a][1]
  BY <1>5, Taken
<1>8. ToSet(left) \subseteq ToSet(loop[a]) /\ (current => d \notin ToSet(left))
  <2>1. ToSet(<<>>) = {}
    BY DEF ToSet
  <2>. QED BY <2>1
<1>9. current <=> loop[a] # <<>> /\ loop[a][1] = d
  BY <1>7
<1>10. /\ current => left = <<>>
       /\ ~current => left = loop[a]
  OBVIOUS
<1>. HIDE DEF left, current
<1>11. /\ loop' \in [Client -> Seq(Client)] /\ loop'[a] = left
       /\ \A c \in Client \ {a} : loop'[c] = loop[c]
  BY <1>4, <1>6, <1>0, LoopSet
<1>12. /\ pc' \in [Client -> [Client -> Pc \cup {NoPeer}]]
       /\ \A c \in Client \ {a} : pc'[c] = pc[c]
       /\ \A e \in Client \ {d} : pc'[a][e] = pc[a][e]
       /\ pc'[a][d] = NoPeer
  BY <1>4, <1>0, PcSet
<1>13. /\ task' \in [Client -> [Client ->
             {"none", "offer", "remoteOffer", "answer", "remoteAnswer"}]]
       /\ \A c \in Client \ {a} : task'[c] = task[c]
       /\ \A e \in Client \ {d} : task'[a][e] = task[a][e]
       /\ task'[a][d] = "none"
  BY <1>4, <1>0, TaskSet
<1>14. /\ missed' \in [Client -> SUBSET Client]
       /\ \A c \in Client \ {a} : missed'[c] = missed[c]
       /\ missed[a] \subseteq missed'[a]
       /\ ~current /\ d \in ToSet(loop[a]) => d \in missed'[a]
  <2>1. missed \in [Client -> SUBSET Client]
    BY <1>0 DEF StreamTypes
  <2>. QED BY <2>1, <1>4
<1>15. ~Has(a, d)' /\ task'[a][d] = "none"
  BY <1>12, <1>13 DEF Has
<1>16. /\ \A c, e \in Client : c # a => Same(c, e)
       /\ \A e \in Client : e # d => Same(a, e)
  BY <1>12, <1>13 DEF Same
<1>17. ASSUME NEW c \in Client, NEW e \in Client, Same(c, e)
       PROVE  Alike(c, e) /\ (Has(c, e)' <=> Has(c, e))
  BY <1>17, SameShows
<1>18. Turns(a)'
  <2>1. /\ IsInjective(loop[a]) /\ a \notin ToSet(loop[a])
        /\ loop[a] # <<>> => task[a][loop[a][1]] = "offer"
        /\ \A e \in Client :
              /\ task[a][e] = "offer" => loop[a] # <<>> /\ e = loop[a][1]
              /\ task[a][e] # "none" => Has(a, e)
    BY <1>0, <1>1 DEF PageInv, Turns
  <2>2. IsInjective(<<>>)
    BY DEF IsInjective
  <2>3. IsInjective(left) /\ a \notin ToSet(left)
    BY <2>1, <2>2, <1>8, <1>10
  <2>4. left # <<>> => task'[a][left[1]] = "offer"
    <3>1. SUFFICES ASSUME left # <<>> PROVE task'[a][left[1]] = "offer"
      OBVIOUS
    <3>2. ~current /\ left = loop[a] /\ loop[a][1] # d
      BY <3>1, <1>9, <1>10
    <3>3. loop[a][1] \in Client
      BY <3>1, <3>2, <1>5, Taken
    <3>. QED BY <3>1, <3>2, <3>3, <2>1, <1>13
  <2>5. ASSUME NEW e \in Client, task'[a][e] # "none"
        PROVE  /\ task'[a][e] = "offer" => left # <<>> /\ e = left[1]
               /\ Has(a, e)'
    <3>1. e # d
      BY <2>5, <1>13
    <3>2. task'[a][e] = task[a][e] /\ (Has(a, e)' <=> Has(a, e))
      BY <3>1, <1>16, <1>17 DEF Same
    <3>. QED BY <3>1, <3>2, <2>1, <2>5, <1>9, <1>10
  <2>6. IsInjective(loop[a])' /\ a \notin ToSet(loop'[a])
    BY <2>3, <1>11 DEF IsInjective
  <2>. QED BY <2>4, <2>5, <2>6, <1>11 DEF Turns
<1>19. ~Has(a, a)'
  <2>1. ~Has(a, a)
    BY <1>0, <1>1, OneSelf
  <2>. QED BY <2>1, <1>15, <1>16, <1>17
<1>20. \A e : \A x : m # SignalFrom(e, x)
  <2>1. \A e : \A x : SignalFrom(e, x).type = "signal"
    BY DEF SignalFrom
  <2>. QED BY <2>1, <1>1
<1>21. ASSUME NEW c \in Client, NEW e \in Client
       PROVE  Offers(c, e)' => Offers(c, e)
  <2>1. Greets(c, e)' => Greets(c, e)
    BY <1>0, <1>1, ReadingShows
  <2>2. CASE c # a
    BY <2>1, <2>2, <1>11 DEF Offers
  <2>3. CASE c = a
    BY <2>1, <2>3, <1>8, <1>11 DEF Offers
  <2>. QED BY <2>2, <2>3
<1>22. ASSUME NEW c \in Client, NEW e \in Client, Same(c, e)
       PROVE  Calm(c, e)
  <2>1. e = a => \A x \in Description : m # SignalFrom(c, x)
    BY <1>20
  <2>2. Offers(c, e)' => Offers(c, e)
    BY <1>21
  <2>3. Alike(c, e)
    BY <1>17, <1>22
  <2>. QED BY <2>1, <2>2, <2>3, <1>1, ReadingIsCalm
<1>23. Pair(a, d)' /\ Pair(d, a)'
  <2>1. Leaving(a, d)
    <3>1. m = down[a][1] /\ 1 \in 1 .. Len(down[a]) /\ down[a] \in Seq(RelayFrame)
      <4>1. m = down[a][1] /\ Len(down[a]) \in Nat /\ Len(down[a]) >= 1
        BY <1>0, <1>1, TakenDown
      <4>. QED BY <4>1, <1>0 DEF StreamTypes
    <3>2. DOMAIN down[a] = 1 .. Len(down[a])
      BY <3>1, Members
    <3>. QED BY <3>1, <3>2, <1>3 DEF Leaving
  <2>2. Departed(d) /\ ~Late(a, d)
    BY <2>1, <1>0 DEF KnownInv, Departure
  <2>3. \A x \in What : ~Flying(d, a, x)
    BY <2>2, <1>0, <1>1, <1>3, ReadingForgets DEF Departed
  <2>4. \A x \in What : ~Flying(d, a, x)' /\ (Flying(a, d, x)' => Flying(a, d, x))
    BY <2>3, <1>0, <1>1, ReadingShows
  <2>5. Untouched(a, d) /\ OneDescription(a, d) /\ OneDescription(d, a)
    BY <1>0 DEF PairInv, Pair
  <2>6. OneDescription(a, d)' /\ OneDescription(d, a)'
    BY <2>5, <1>0, <1>1, ReadingKeepsOrder
  <2>7. Offers(a, d)' => \A x \in What : ~Flying(a, d, x)'
    BY <2>4, <2>5, <1>1, <1>21 DEF Untouched
  <2>8. page'[d] # "call"
    BY <2>2, <1>1 DEF Departed
  <2>. QED BY <2>4, <2>6, <2>7, <2>8, <1>15, GoneBy
<1>24. ASSUME NEW c \in Client, NEW e \in Client
       PROVE  (Calm(c, e) /\ Calm(e, c)) \/ Pair(c, e)'
  <2>1. CASE (c = a /\ e = d) \/ (c = d /\ e = a)
    BY <2>1, <1>23
  <2>2. CASE ~((c = a /\ e = d) \/ (c = d /\ e = a))
    <3>1. Same(c, e) /\ Same(e, c)
      BY <2>2, <1>16
    <3>. QED BY <3>1, <1>22
  <2>. QED BY <2>1, <2>2
<1>25. \A c \in Client \ {a} : /\ pc'[c] = pc[c] /\ task'[c] = task[c]
                               /\ loop'[c] = loop[c] /\ missed'[c] = missed[c]
  BY <1>11, <1>12, <1>13, <1>14
<1>26. ASSUME NEW e \in Client
       PROVE  /\ e \in ToSet(loop'[a]) \/ Has(a, e)' =>
                    e \in ToSet(loop[a]) \/ Has(a, e) \/ Names(m, e)
              /\ m = PeerLeft(e) =>
                    (e \notin ToSet(loop'[a]) /\ ~Has(a, e)') \/ e \in missed'[a]
  <2>1. Has(a, e)' => Has(a, e)
    BY <1>15, <1>16, <1>17
  <2>2. ToSet(loop'[a]) \subseteq ToSet(loop[a])
    BY <1>8, <1>11
  <2>3. ASSUME m = PeerLeft(e)
        PROVE  (e \notin ToSet(loop'[a]) /\ ~Has(a, e)') \/ e \in missed'[a]
    <3>1. e = d
      BY <2>3, <1>3 DEF PeerLeft
    <3>. QED BY <3>1, <2>2, <1>8, <1>11, <1>14, <1>15
  <2>. QED BY <2>1, <2>2, <2>3
<1>. QED BY <1>1, <1>11, <1>12, <1>13, <1>14, <1>18, <1>19, <1>24, <1>25, <1>26, ReadKeeps

\* The offer that a takes is the only description on its way between them.
LEMMA OfferTaken ==
    ASSUME MeshIInv, NEW a \in Client, NEW d \in Client, d # a, page[a] = "call",
           Reads(a, SignalFrom(d, "offer")), Offers(a, d)' => Offers(a, d), Offers(d, a)' => Offers(d, a),
           Alike(d, a), ~Local(a, d)', task'[a][d] = "remoteOffer"
    PROVE  Pair(a, d)' /\ Pair(d, a)'
<1>0. /\ StreamTypes /\ Pair(a, d) /\ Pair(d, a)
      /\ "offer" \in What /\ "answer" \in What /\ "candidate" \in What
      /\ "offer" \in Description /\ "answer" \in Description
      /\ page' = page
  BY DEF MeshIInv, PairInv, What, Description, Reads
<1>1. Flying(d, a, "offer")
  BY <1>0, ReadingShows
<1>2. /\ \A w \in What : ~Flying(a, d, w)
      /\ page[d] = "call" => Waits(d, a)
  BY <1>0, <1>1 DEF Pair, Offered
<1>3. \A w \in What : ~Flying(a, d, w)'
  BY <1>0, <1>2, ReadingShows
<1>4. ~Describing(d, a)' /\ OneDescription(a, d)' /\ OneDescription(d, a)'
  <2>1. OneDescription(a, d) /\ OneDescription(d, a)
    BY <1>0 DEF Pair
  <2>2. OneDescription(a, d)' /\ OneDescription(d, a)'
    BY <2>1, <1>0, ReadingKeepsOrder
  <2>3. \A x \in Description : SignalFrom(d, "offer") = SignalFrom(d, x) => ~Describing(d, a)'
    BY <2>1, <1>0, ReadingKeepsOrder
  <2>. QED BY <2>2, <2>3, <1>0
<1>5. ~Flying(d, a, "offer")' /\ ~Flying(d, a, "answer")' /\ ~Describing(a, d)'
  BY <1>0, <1>3, <1>4 DEF Describing, Description
<1>6. ~Offers(a, d)' /\ (page[d] = "call" => ~Offers(d, a)')
  BY <1>0, <1>1 DEF Pair, Untouched
<1>7. page[d] = "call" => Waits(d, a)' /\ task'[d][a] = "none"
  BY <1>2, AlikeShows DEF Waits
<1>8. ~Stray(a, d)'
  <2>1. Stray(a, d)' => Flying(a, d, "candidate")'
    BY DEF Stray, Flying
  <2>. QED BY <2>1, <1>0, <1>3
<1>9. Ready(a, d)'
  BY DEF Ready
<1>10. Untouched(a, d)' /\ Untouched(d, a)'
  BY <1>0, <1>6 DEF Untouched
<1>11. Offered(a, d)' /\ Answering(a, d)' /\ Answered(a, d)' /\ Described(a, d)' /\ Led(a, d)'
  BY <1>0, <1>3, <1>5, <1>7, <1>8 DEF Offered, Answering, Answered, Described, Led
<1>12. Offered(d, a)' /\ Answering(d, a)' /\ Answered(d, a)' /\ Described(d, a)' /\ Led(d, a)'
  BY <1>0, <1>3, <1>5, <1>7, <1>9 DEF Offered, Answering, Answered, Described, Led
<1>. QED BY <1>4, <1>10, <1>11, <1>12 DEF Pair

\* So is the answer, which a waits for.
LEMMA AnswerTaken ==
    ASSUME MeshIInv, NEW a \in Client, NEW d \in Client, d # a, page[a] = "call",
           Reads(a, SignalFrom(d, "answer")), Offers(a, d)' => Offers(a, d), Offers(d, a)' => Offers(d, a),
           Alike(d, a), Local(a, d)' => Local(a, d), task'[a][d] = "remoteAnswer"
    PROVE  Pair(a, d)' /\ Pair(d, a)'
<1>0. /\ StreamTypes /\ Pair(a, d) /\ Pair(d, a)
      /\ "offer" \in What /\ "answer" \in What /\ "candidate" \in What
      /\ "offer" \in Description /\ "answer" \in Description
      /\ page' = page
  BY DEF MeshIInv, PairInv, What, Description, Reads
<1>1. Flying(d, a, "answer")
  BY <1>0, ReadingShows
<1>2. Describing(d, a)
  BY <1>0, <1>1 DEF Describing
<1>3. \A w \in What : Flying(a, d, w)' <=> Flying(a, d, w)
  BY <1>0, ReadingShows
<1>4. /\ ~Describing(d, a)' /\ OneDescription(a, d)' /\ OneDescription(d, a)'
      /\ Stray(a, d)' => Stray(a, d)
  <2>1. OneDescription(a, d) /\ OneDescription(d, a)
    BY <1>0 DEF Pair
  <2>2. OneDescription(a, d)' /\ OneDescription(d, a)'
    BY <2>1, <1>0, ReadingKeepsOrder
  <2>3. \A x \in Description : SignalFrom(d, "answer") = SignalFrom(d, x) => ~Describing(d, a)'
    BY <2>1, <1>0, ReadingKeepsOrder
  <2>4. Stray(a, d)' => Stray(a, d)
    BY <2>1, <1>0, ReadingKeepsOrder
  <2>. QED BY <2>2, <2>3, <2>4, <1>0
<1>5. ~Flying(d, a, "offer")' /\ ~Flying(d, a, "answer")'
  BY <1>0, <1>4 DEF Describing
<1>6. ~Offers(a, d)' /\ (page[d] = "call" => ~Offers(d, a)')
  BY <1>0, <1>1 DEF Pair, Untouched
<1>7. /\ task'[d][a] = task[d][a]
      /\ Waits(d, a)' <=> Waits(d, a)
      /\ Ready(d, a)' <=> Ready(d, a)
  BY AlikeShows DEF Alike
<1>8. ~Flying(a, d, "offer")'
  BY <1>0, <1>1, <1>3 DEF Pair, Offered
<1>9. page[d] = "call" => task[d][a] \notin {"remoteOffer", "answer"}
  BY <1>0, <1>2 DEF Pair, Answering
<1>10. page[d] = "call" /\ Flying(a, d, "answer") => Waits(d, a)
  BY <1>0 DEF Pair, Answered
<1>11. page[d] = "call" /\ Local(a, d) => Describing(a, d) \/ Ready(d, a)
  BY <1>0 DEF Pair, Described
<1>12. Describing(a, d) => Describing(a, d)'
  BY <1>3 DEF Describing, Description, What
<1>13. page[d] = "call" /\ Stray(a, d) => Ready(d, a)
  BY <1>0 DEF Pair, Led
<1>14. Ready(a, d)'
  BY DEF Ready
<1>15. Untouched(a, d)' /\ Untouched(d, a)'
  BY <1>0, <1>6 DEF Untouched
<1>16. Offered(a, d)' /\ Answering(a, d)' /\ Answered(a, d)'
  BY <1>0, <1>5, <1>7, <1>8, <1>9 DEF Offered, Answering, Answered
<1>17. Described(a, d)' /\ Led(a, d)'
  BY <1>0, <1>4, <1>7, <1>11, <1>12, <1>13 DEF Described, Led
<1>18. Offered(d, a)' /\ Answering(d, a)' /\ Answered(d, a)'
  BY <1>0, <1>3, <1>5, <1>7, <1>10 DEF Offered, Answering, Answered
<1>19. Described(d, a)' /\ Led(d, a)'
  BY <1>14 DEF Described, Led
<1>. QED BY <1>4, <1>15, <1>16, <1>17, <1>18, <1>19 DEF Pair

\* What a keeps of d, and awaits of it, as it takes the signal x of d.
Takes(a, d, x, v, t) ==
    /\ v.local <=> Local(a, d)
    /\ v.remote <=> Remote(a, d)
    /\ \/ x = "candidate" /\ t = task[a][d]
       \/ x = "offer" /\ t = "remoteOffer"
       \/ x = "answer" /\ t = "remoteAnswer"
    /\ pc' = [pc EXCEPT ![a][d] = v]
    /\ task' = [task EXCEPT ![a][d] = t]
    /\ UNCHANGED <<loop, missed>>

LEMMA SignalTaken ==
    ASSUME MeshIInv, NEW a \in Client, NEW d \in Client, NEW x \in What,
           page[a] = "call", Reads(a, SignalFrom(d, x)), NEW v \in Pc,
           NEW t \in {"none", "offer", "remoteOffer", "answer", "remoteAnswer"},
           Takes(a, d, x, v, t)
    PROVE  MeshIInv'
<1>0. MeshTypeOK /\ StreamTypes /\ StreamInv /\ PageInv /\ PairInv
  BY DEF MeshIInv
<1>a. pc' = [pc EXCEPT ![a][d] = v] /\ task' = [task EXCEPT ![a][d] = t]
  BY DEF Takes
<1>b. (v.local <=> Local(a, d)) /\ (v.remote <=> Remote(a, d))
  BY DEF Takes
<1>c. \/ x = "candidate" /\ t = task[a][d]
      \/ x = "offer" /\ t = "remoteOffer"
      \/ x = "answer" /\ t = "remoteAnswer"
  BY DEF Takes
<1>d. /\ loop' \in [Client -> Seq(Client)] /\ missed' \in [Client -> SUBSET Client]
      /\ \A c \in Client : loop'[c] = loop[c] /\ missed'[c] = missed[c]
  BY <1>0 DEF Takes, MeshTypeOK, StreamTypes
<1>. DEFINE m == SignalFrom(d, x)
<1>1. m.type = "signal" /\ m.from = d /\ m.what = x
  BY DEF SignalFrom
<1>2. /\ \A e : m # PeerLeft(e)
      /\ \A e : \A y : m = SignalFrom(e, y) => e = d /\ y = x
      /\ Names(m, d)
  <2>1. \A e : PeerLeft(e).type = "peer-left"
    BY DEF PeerLeft
  <2>2. \A e : \A y : SignalFrom(e, y).from = e /\ SignalFrom(e, y).what = y
    BY DEF SignalFrom
  <2>. QED BY <1>1, <2>1, <2>2 DEF Names
<1>3. Reads(a, m) /\ page' = page
  BY DEF Reads
<1>4. m = SignalFrom(d, x)
  OBVIOUS
<1>. HIDE DEF m
<1>5. Flying(d, a, x)
  BY <1>0, <1>3, <1>4, ReadingShows
<1>6. d # a
  BY <1>5, OneSelf
<1>7. /\ pc' \in [Client -> [Client -> Pc \cup {NoPeer}]]
      /\ \A c \in Client \ {a} : pc'[c] = pc[c]
      /\ \A e \in Client \ {d} : pc'[a][e] = pc[a][e]
      /\ pc'[a][d] = v
  BY <1>0, <1>a, PcSet
<1>8. /\ task' \in [Client -> [Client ->
            {"none", "offer", "remoteOffer", "answer", "remoteAnswer"}]]
      /\ \A c \in Client \ {a} : task'[c] = task[c]
      /\ \A e \in Client \ {d} : task'[a][e] = task[a][e]
      /\ task'[a][d] = t
  <2>1. task' = [task EXCEPT ![a][d] = t]
    BY <1>a
  <2>2. MeshTypeOK
    BY <1>0
  <2>. QED BY <2>1, <2>2, TaskSet
<1>9. Has(a, d)' /\ (Local(a, d)' <=> Local(a, d)) /\ (Remote(a, d)' <=> Remote(a, d))
  <2>1. Has(a, d)' /\ (Local(a, d)' <=> v.local) /\ (Remote(a, d)' <=> v.remote)
    BY <1>7, Becomes
  <2>. QED BY <2>1, <1>b
<1>10. /\ \A c, e \in Client : c # a => Same(c, e)
       /\ \A e \in Client : e # d => Same(a, e)
  BY <1>7, <1>8 DEF Same
<1>11. ASSUME NEW c \in Client, NEW e \in Client, Same(c, e)
       PROVE  Alike(c, e) /\ (Has(c, e)' <=> Has(c, e))
  BY <1>11, SameShows
<1>12. ASSUME NEW c \in Client, NEW e \in Client
       PROVE  Offers(c, e)' => Offers(c, e)
  <2>1. Greets(c, e)' => Greets(c, e)
    BY <1>0, <1>3, ReadingShows
  <2>2. loop'[c] = loop[c]
    BY <1>d
  <2>. QED BY <2>1, <2>2 DEF Offers
<1>13. ASSUME NEW c \in Client, NEW e \in Client, Alike(c, e),
              e = a => \A y \in Description : m # SignalFrom(c, y)
       PROVE  Calm(c, e)
  <2>1. Offers(c, e)' => Offers(c, e)
    BY <1>12
  <2>. QED BY <2>1, <1>3, <1>13, ReadingIsCalm
<1>14. ASSUME x \in Description
       PROVE  Pair(a, d)' /\ Pair(d, a)'
  <2>1. Alike(d, a)
    BY <1>6, <1>10, <1>11
  <2>2. (Offers(a, d)' => Offers(a, d)) /\ (Offers(d, a)' => Offers(d, a))
    BY <1>12
  <2>3. CASE x = "offer"
    <3>1. Offered(d, a)
      BY <1>0 DEF PairInv, Pair
    <3>2. ~Local(a, d)'
      BY <2>3, <3>1, <1>5, <1>9 DEF Offered, Fresh, Undescribed
    <3>3. task'[a][d] = "remoteOffer" /\ Reads(a, SignalFrom(d, "offer"))
      BY <2>3, <1>3, <1>4, <1>8, <1>c
    <3>. QED BY <2>1, <2>2, <3>2, <3>3, <1>6, OfferTaken
  <2>4. CASE x = "answer"
    <3>1. task'[a][d] = "remoteAnswer" /\ Reads(a, SignalFrom(d, "answer"))
      BY <2>4, <1>3, <1>4, <1>8, <1>c
    <3>2. Local(a, d)' => Local(a, d)
      BY <1>9
    <3>. QED BY <2>1, <2>2, <3>1, <3>2, <1>6, AnswerTaken
  <2>. QED BY <2>3, <2>4, <1>14 DEF Description
<1>15. ASSUME x \notin Description
       PROVE  Alike(a, d)
  <2>1. x = "candidate"
    BY <1>15, <1>c DEF Description
  <2>2. task'[a][d] = task[a][d]
    BY <2>1, <1>8, <1>c
  <2>3. ~(page[d] = "call" /\ Offers(d, a))
    <3>1. Untouched(d, a)
      BY <1>0 DEF PairInv, Pair
    <3>. QED BY <3>1, <1>5 DEF Untouched
  <2>. QED BY <2>2, <2>3, <1>9 DEF Alike
<1>16. ASSUME NEW c \in Client, NEW e \in Client
       PROVE  (Calm(c, e) /\ Calm(e, c)) \/ Pair(c, e)'
  <2>1. CASE x \in Description /\ ((c = a /\ e = d) \/ (c = d /\ e = a))
    BY <2>1, <1>14
  <2>2. CASE ~((c = a /\ e = d) \/ (c = d /\ e = a))
    <3>1. Same(c, e) /\ Same(e, c)
      BY <2>2, <1>10
    <3>2. Alike(c, e) /\ Alike(e, c)
      BY <3>1, <1>11
    <3>3. /\ e = a => \A y \in Description : m # SignalFrom(c, y)
          /\ c = a => \A y \in Description : m # SignalFrom(e, y)
      BY <2>2, <1>2
    <3>. QED BY <3>2, <3>3, <1>13
  <2>3. CASE x \notin Description /\ ((c = a /\ e = d) \/ (c = d /\ e = a))
    <3>1. Alike(a, d) /\ Alike(d, a)
      BY <2>3, <1>6, <1>10, <1>11, <1>15
    <3>2. \A y \in Description : \A f : m # SignalFrom(f, y)
      BY <2>3, <1>2
    <3>3. Alike(c, e) /\ Alike(e, c)
      BY <2>3, <3>1
    <3>. QED BY <3>2, <3>3, <1>13
  <2>. QED BY <2>1, <2>2, <2>3
<1>17. Turns(a)'
  <2>1. /\ IsInjective(loop[a]) /\ a \notin ToSet(loop[a])
        /\ loop[a] # <<>> => task[a][loop[a][1]] = "offer"
        /\ \A e \in Client :
              /\ task[a][e] = "offer" => loop[a] # <<>> /\ e = loop[a][1]
              /\ task[a][e] # "none" => Has(a, e)
    BY <1>0 DEF PageInv, Turns
  <2>2. t = task[a][d] \/ (task[a][d] = "none" /\ t # "offer")
    <3>1. CASE x = "offer"
      <4>1. Offered(d, a)
        BY <1>0 DEF PairInv, Pair
      <4>. QED BY <3>1, <4>1, <1>5, <1>c DEF Offered, Fresh
    <3>2. CASE x = "answer"
      <4>1. Answered(a, d)
        BY <1>0 DEF PairInv, Pair
      <4>. QED BY <3>2, <4>1, <1>5, <1>c DEF Answered, Waits
    <3>. QED BY <3>1, <3>2, <1>c
  <2>3. loop[a] # <<>> => loop[a][1] \in Client
    <3>1. loop[a] \in Seq(Client)
      BY <1>0 DEF MeshTypeOK
    <3>. QED BY <3>1, Taken
  <2>4. loop[a] # <<>> => task'[a][loop[a][1]] = "offer"
    BY <2>1, <2>2, <2>3, <1>8
  <2>5. ASSUME NEW e \in Client
        PROVE  /\ task'[a][e] = "offer" => loop[a] # <<>> /\ e = loop[a][1]
               /\ task'[a][e] # "none" => Has(a, e)'
    <3>1. CASE e = d
      BY <3>1, <2>1, <2>2, <1>8, <1>9
    <3>2. CASE e # d
      <4>1. task'[a][e] = task[a][e] /\ (Has(a, e)' <=> Has(a, e))
        BY <3>2, <1>10, <1>11 DEF Same
      <4>. QED BY <4>1, <2>1
    <3>. QED BY <3>1, <3>2
  <2>6. loop'[a] = loop[a]
    BY <1>d
  <2>7. IsInjective(loop[a])'
    BY <2>1, <2>6 DEF IsInjective
  <2>. QED BY <2>1, <2>4, <2>5, <2>6, <2>7 DEF Turns
<1>18. ~Has(a, a)'
  <2>1. ~Has(a, a)
    BY OneSelf
  <2>. QED BY <2>1, <1>6, <1>10, <1>11
<1>19. ASSUME NEW e \in Client
       PROVE  /\ e \in ToSet(loop'[a]) \/ Has(a, e)' =>
                    e \in ToSet(loop[a]) \/ Has(a, e) \/ Names(m, e)
              /\ m = PeerLeft(e) =>
                    (e \notin ToSet(loop'[a]) /\ ~Has(a, e)') \/ e \in missed'[a]
  BY <1>2, <1>10, <1>11, <1>d
<1>20. \A c \in Client \ {a} : /\ pc'[c] = pc[c] /\ task'[c] = task[c]
                               /\ loop'[c] = loop[c] /\ missed'[c] = missed[c]
  BY <1>7, <1>8, <1>d
<1>21. missed[a] \subseteq missed'[a] /\ missed' \in [Client -> SUBSET Client]
  BY <1>d
<1>22. Reads(a, m)
  BY <1>3
<1>23. /\ pc' \in [Client -> [Client -> Pc \cup {NoPeer}]]
       /\ task' \in [Client -> [Client ->
            {"none", "offer", "remoteOffer", "answer", "remoteAnswer"}]]
      /\ loop' \in [Client -> Seq(Client)]
  BY <1>7, <1>8, <1>d
<1>. QED BY <1>16, <1>17, <1>18, <1>19, <1>20, <1>21, <1>22, <1>23, ReadKeeps

LEMMA ReadSignalKeeps ==
    ASSUME MeshIInv, NEW a \in Client, ReadSignal(a)
    PROVE  MeshIInv'
<1>0. MeshTypeOK /\ StreamTypes
  BY DEF MeshIInv
<1>. DEFINE m == Head(down[a])
<1>1. Reads(a, m) /\ m.type = "signal" /\ page[a] = "call"
  BY DEF ReadSignal, Receive, Reads
<1>2. UNCHANGED <<loop, missed>>
  BY DEF ReadSignal, history
<1>. HIDE DEF m
<1>3. m \in RelayFrame
  BY <1>0, <1>1, TakenDown
<1>4. PICK d \in Client, x \in What : d = m.from /\ x = m.what /\ m = SignalFrom(d, x)
  <2>1. m.from \in Client /\ m.what \in What /\ m = SignalFrom(m.from, m.what)
    BY <1>1, <1>3 DEF RelayFrame, SignalFrom
  <2>. QED BY <2>1
<1>. DEFINE p == getPeer(a, d)
            ready == p.remote \/ task[a][d] \in {"remoteOffer", "remoteAnswer"}
            q == [p EXCEPT !.reaches = @ \/ ready]
<1>5. p \in Pc /\ (p.local <=> Local(a, d)) /\ (p.remote <=> Remote(a, d))
  BY <1>0, GetPeer
<1>6. Reads(a, SignalFrom(d, x))
  BY <1>1, <1>4
<1>7. CASE x = "candidate"
  <2>1. pc' = [pc EXCEPT ![a][d] = q] /\ task' = task
    BY <1>7, <1>4 DEF ReadSignal, m
  <2>. HIDE DEF p
  <2>2. ready \in BOOLEAN
    BY <1>5 DEF Pc
  <2>. HIDE DEF ready
  <2>3. q \in Pc /\ q.local = p.local /\ q.remote = p.remote
    BY <2>2, <1>5 DEF Pc
  <2>. HIDE DEF q
  <2>4. (q.local <=> Local(a, d)) /\ (q.remote <=> Remote(a, d))
    BY <2>3, <1>5
  <2>5. task[a][d] \in {"none", "offer", "remoteOffer", "answer", "remoteAnswer"}
    BY <1>0 DEF MeshTypeOK
  <2>6. task' = [task EXCEPT ![a][d] = task[a][d]]
    BY <2>1, <1>0 DEF MeshTypeOK
  <2>7. Takes(a, d, x, q, task[a][d])
    BY <2>1, <2>4, <2>6, <1>2, <1>7 DEF Takes
  <2>. QED BY <2>3, <2>5, <2>7, <1>1, <1>6, SignalTaken
<1>8. CASE x # "candidate"
  <2>1. pc' = [pc EXCEPT ![a][d] = p] /\ task' = [task EXCEPT ![a][d] = Awaited(x)]
    BY <1>8, <1>4 DEF ReadSignal, m
  <2>2. /\ Awaited(x) \in {"none", "offer", "remoteOffer", "answer", "remoteAnswer"}
        /\ \/ x = "offer" /\ Awaited(x) = "remoteOffer"
           \/ x = "answer" /\ Awaited(x) = "remoteAnswer"
    BY <1>8 DEF What, Awaited
  <2>. HIDE DEF p
  <2>3. Takes(a, d, x, p, Awaited(x))
    BY <2>1, <2>2, <1>2, <1>5 DEF Takes
  <2>. QED BY <2>2, <2>3, <1>1, <1>5, <1>6, SignalTaken
<1>. QED BY <1>7, <1>8

LEMMA InjectiveTail ==
    ASSUME NEW S, NEW s \in Seq(S), s # <<>>, IsInjective(s)
    PROVE  /\ IsInjective(Tail(s)) /\ ToSet(Tail(s)) \subseteq ToSet(s)
           /\ s[1] \in ToSet(s) /\ s[1] \notin ToSet(Tail(s))
           /\ Tail(s) # <<>> => Tail(s)[1] \in ToSet(Tail(s)) /\ Tail(s)[1] # s[1]
<1>1. /\ Tail(s) \in Seq(S) /\ Len(s) \in Nat /\ Len(s) >= 1
      /\ Len(Tail(s)) = Len(s) - 1
      /\ \A i \in 1 .. Len(s) - 1 : Tail(s)[i] = s[i + 1]
  BY Taken
<1>2. /\ ToSet(s) = {s[i] : i \in 1 .. Len(s)} /\ DOMAIN s = 1 .. Len(s)
      /\ ToSet(Tail(s)) = {Tail(s)[i] : i \in 1 .. Len(Tail(s))}
      /\ DOMAIN Tail(s) = 1 .. Len(Tail(s))
  BY <1>1, Members
<1>3. \A i, j \in 1 .. Len(s) : s[i] = s[j] => i = j
  BY <1>2 DEF IsInjective
<1>4. ASSUME NEW i \in 1 .. Len(Tail(s))
      PROVE  Tail(s)[i] = s[i + 1] /\ i + 1 \in 1 .. Len(s) /\ i + 1 # 1
  BY <1>1
<1>5. IsInjective(Tail(s))
  <2>1. ASSUME NEW i \in 1 .. Len(Tail(s)), NEW j \in 1 .. Len(Tail(s)), Tail(s)[i] = Tail(s)[j]
        PROVE  i = j
    <3>1. i + 1 = j + 1
      BY <2>1, <1>3, <1>4
    <3>. QED BY <3>1, <1>1
  <2>. QED BY <2>1, <1>2 DEF IsInjective
<1>6. 1 \in 1 .. Len(s)
  BY <1>1
<1>7. ToSet(Tail(s)) \subseteq ToSet(s) /\ s[1] \notin ToSet(Tail(s)) /\ s[1] \in ToSet(s)
  BY <1>2, <1>3, <1>4, <1>6
<1>8. Tail(s) # <<>> => Tail(s)[1] \in ToSet(Tail(s))
  <2>1. Tail(s) # <<>> => 1 \in 1 .. Len(Tail(s))
    <3>1. Tail(s) # <<>> => Len(Tail(s)) >= 1 /\ Len(Tail(s)) \in Nat
      BY <1>1, Taken
    <3>. QED BY <3>1
  <2>. QED BY <2>1, <1>2
<1>. QED BY <1>5, <1>7, <1>8

\* a's offer to d goes out.
LEMMA OfferWritten ==
    ASSUME MeshIInv, NEW a \in Client, NEW d \in Client, d # a, page[a] = "call",
           Writes(a, d, "offer"), Untouched(a, d), Offers(a, d), Same(d, a),
           Offers(d, a)' => Offers(d, a), ~Offers(a, d)', Waits(a, d)'
    PROVE  Pair(a, d)' /\ Pair(d, a)'
<1>0. /\ StreamTypes /\ Pair(a, d) /\ Pair(d, a)
      /\ "offer" \in What /\ "answer" \in What /\ "candidate" \in What
      /\ "offer" \in Description /\ Description \subseteq What
      /\ page' = page
  BY DEF MeshIInv, PairInv, What, Description, Writes
<1>1. /\ \A w \in What : ~Flying(a, d, w) /\ ~Flying(d, a, w)
      /\ page[d] = "call" => ~Has(d, a) /\ task[d][a] = "none" /\ ~Offers(d, a)
  BY DEF Untouched
<1>2. /\ \A x \in What : ~Flying(d, a, x)'
      /\ \A x \in What : Flying(a, d, x)' <=> x = "offer"
  <2>1. \A x \in What : /\ Flying(d, a, x)' <=> Flying(d, a, x) \/ (d = a /\ a = d /\ x = "offer")
                        /\ Flying(a, d, x)' <=> Flying(a, d, x) \/ (a = a /\ d = d /\ x = "offer")
    BY <1>0, WritingShows
  <2>. QED BY <2>1, <1>1
<1>3. OneDescription(a, d)' /\ OneDescription(d, a)'
  <2>1. ~Describing(a, d)
    BY <1>0, <1>1 DEF Describing
  <2>2. OneDescription(a, d) /\ OneDescription(d, a)
    BY <1>0 DEF Pair
  <2>. QED BY <2>1, <2>2, <1>0, WritingKeepsOrder
<1>4. ~Stray(a, d)' /\ ~Stray(d, a)'
  <2>1. (Stray(a, d)' => Flying(a, d, "candidate")') /\ (Stray(d, a)' => Flying(d, a, "candidate")')
    BY DEF Stray, Flying
  <2>. QED BY <2>1, <1>0, <1>2
<1>5. page[d] = "call" => Fresh(d, a)' /\ ~Local(d, a)' /\ task'[d][a] = "none" /\ ~Offers(d, a)'
  <2>1. task'[d][a] = task[d][a] /\ (Has(d, a)' <=> Has(d, a))
    BY SameShows DEF Same
  <2>. QED BY <2>1, <1>1 DEF Fresh, Undescribed, Local, Remote, Has
<1>6. Describing(a, d)'
  BY <1>0, <1>2 DEF Describing
<1>7. task'[a][d] = "none"
  BY DEF Waits
<1>8. Untouched(a, d)' /\ Untouched(d, a)'
  BY <1>0, <1>5 DEF Untouched
<1>9. Offered(a, d)' /\ Answering(a, d)' /\ Answered(a, d)' /\ Described(a, d)' /\ Led(a, d)'
  BY <1>0, <1>2, <1>4, <1>5, <1>6 DEF Offered, Answering, Answered, Described, Led
<1>10. Offered(d, a)' /\ Answering(d, a)' /\ Answered(d, a)' /\ Described(d, a)' /\ Led(d, a)'
  BY <1>0, <1>2, <1>4, <1>5, <1>7 DEF Offered, Answering, Answered, Described, Led
<1>. QED BY <1>3, <1>8, <1>9, <1>10 DEF Pair

Made(p) == [p EXCEPT !.local = TRUE]

OfferMadeTo(a, d, rest) ==
    OfferMade(a) /\ loop[a] # <<>> /\ d = Head(loop[a]) /\ rest = Tail(loop[a])

\* What OfferMade leaves of a's connections: d's is described, and the offer to
\* the next is begun.
LEMMA OfferMadeShows ==
    ASSUME MeshTypeOK, NEW a \in Client, NEW d \in Client, Has(a, d),
           NEW rest \in Seq(Client), OfferMadeTo(a, d, rest),
           rest # <<>> => rest[1] # d
    PROVE  /\ pc' \in [Client -> [Client -> Pc \cup {NoPeer}]]
           /\ task' \in [Client -> [Client ->
                 {"none", "offer", "remoteOffer", "answer", "remoteAnswer"}]]
           /\ \A c \in Client \ {a} : pc'[c] = pc[c] /\ task'[c] = task[c]
           /\ pc'[a][d] = Made(pc[a][d])
           /\ Made(pc[a][d]) \in Pc
           /\ task'[a][d] = "none"
           /\ \A e \in Client \ {d} :
                 \/ Same(a, e) /\ ~(rest # <<>> /\ e = rest[1])
                 \/ /\ rest # <<>> /\ e = rest[1]
                    /\ pc'[a][e] = getPeer(a, e) /\ task'[a][e] = "offer"
<1>. DEFINE q == Made(pc[a][d])
            done == [pc[a] EXCEPT ![d].local = TRUE]
<1>1. /\ pc \in [Client -> [Client -> Pc \cup {NoPeer}]]
      /\ task \in [Client -> [Client ->
            {"none", "offer", "remoteOffer", "answer", "remoteAnswer"}]]
  BY DEF MeshTypeOK
<1>2. q \in Pc
  <2>1. pc[a][d] \in Pc
    BY <1>1 DEF Has
  <2>. QED BY <2>1 DEF Pc, Made
<1>3. done = [pc[a] EXCEPT ![d] = q]
  BY <1>1 DEF Made
<1>4. /\ rest = <<>> => /\ pc' = [pc EXCEPT ![a] = done]
                        /\ task' = [task EXCEPT ![a][d] = "none"]
      /\ rest # <<>> =>
            /\ pc' = [pc EXCEPT ![a] = [done EXCEPT ![Head(rest)] = getPeer(a, Head(rest))]]
            /\ task' = [task EXCEPT ![a][d] = "none", ![a][Head(rest)] = "offer"]
  BY DEF OfferMade, OfferMadeTo
<1>. HIDE DEF q, done
<1>5. /\ done \in [Client -> Pc \cup {NoPeer}] /\ done[d] = q
      /\ \A e \in Client \ {d} : done[e] = pc[a][e]
  <2>. HIDE DEF Pc
  <2>. QED BY <1>1, <1>2, <1>3
<1>6. CASE rest = <<>>
  <2>1. /\ pc' \in [Client -> [Client -> Pc \cup {NoPeer}]]
        /\ \A c \in Client \ {a} : pc'[c] = pc[c]
        /\ pc'[a] = done
    <3>. HIDE DEF Pc
    <3>. QED BY <1>1, <1>4, <1>5, <1>6
  <2>2. /\ task' \in [Client -> [Client ->
              {"none", "offer", "remoteOffer", "answer", "remoteAnswer"}]]
        /\ \A c \in Client \ {a} : task'[c] = task[c]
        /\ \A e \in Client \ {d} : task'[a][e] = task[a][e]
        /\ task'[a][d] = "none"
    <3>1. task' = [task EXCEPT ![a][d] = "none"]
      BY <1>4, <1>6
    <3>. QED BY <3>1, TaskSet
  <2>3. \A e \in Client \ {d} : Same(a, e)
    BY <2>1, <2>2, <1>5 DEF Same
  <2>. QED BY <2>1, <2>2, <2>3, <1>2, <1>5, <1>6 DEF q
<1>7. CASE rest # <<>>
  <2>1. PICK h \in Client : h = rest[1] /\ h = Head(rest)
    BY <1>7, Taken
  <2>2. getPeer(a, h) \in Pc /\ h # d
    BY <2>1, <1>7, GetPeer
  <2>3. /\ pc' = [pc EXCEPT ![a] = [done EXCEPT ![h] = getPeer(a, h)]]
        /\ task' = [task EXCEPT ![a][d] = "none", ![a][h] = "offer"]
    BY <2>1, <1>4, <1>7
  <2>. DEFINE g == getPeer(a, h)
              two == [done EXCEPT ![h] = g]
  <2>4. g \in Pc
    BY <2>2
  <2>. HIDE DEF g
  <2>5. /\ two \in [Client -> Pc \cup {NoPeer}] /\ two[d] = q /\ two[h] = g
        /\ \A e \in Client \ {d, h} : two[e] = pc[a][e]
    <3>. HIDE DEF Pc
    <3>. QED BY <2>2, <2>4, <1>5
  <2>6. pc' = [pc EXCEPT ![a] = two]
    BY <2>3 DEF g
  <2>. HIDE DEF two
  <2>7. /\ pc' \in [Client -> [Client -> Pc \cup {NoPeer}]]
        /\ \A c \in Client \ {a} : pc'[c] = pc[c]
        /\ pc'[a] = two
    <3>. HIDE DEF Pc
    <3>. QED BY <2>5, <2>6, <1>1
  <2>8. /\ task' \in [Client -> [Client ->
              {"none", "offer", "remoteOffer", "answer", "remoteAnswer"}]]
        /\ \A c \in Client \ {a} : task'[c] = task[c]
        /\ \A e \in Client \ {d, h} : task'[a][e] = task[a][e]
        /\ task'[a][d] = "none" /\ task'[a][h] = "offer"
    BY <2>2, <2>3, <1>1
  <2>9. \A e \in Client \ {d, h} : Same(a, e)
    BY <2>5, <2>7, <2>8 DEF Same
  <2>10. pc'[a][h] = getPeer(a, h)
    BY <2>5, <2>7 DEF g
  <2>11. pc'[a][d] = Made(pc[a][d]) /\ Made(pc[a][d]) \in Pc
    BY <2>5, <2>7, <1>2 DEF q
  <2>12. ASSUME NEW e \in Client \ {d}
         PROVE  \/ Same(a, e) /\ ~(rest # <<>> /\ e = rest[1])
                \/ /\ rest # <<>> /\ e = rest[1]
                   /\ pc'[a][e] = getPeer(a, e) /\ task'[a][e] = "offer"
    BY <2>1, <2>8, <2>9, <2>10, <1>7
  <2>. QED BY <2>7, <2>8, <2>11, <2>12
<1>. QED BY <1>6, <1>7

LEMMA OfferMadeKeeps ==
    ASSUME MeshIInv, NEW a \in Client, OfferMade(a)
    PROVE  MeshIInv'
<1>0. MeshTypeOK /\ StreamTypes /\ PageInv /\ PairInv
  BY DEF MeshIInv
<1>1. page[a] = "call" /\ loop[a] # <<>> /\ loop[a] \in Seq(Client)
  BY <1>0 DEF OfferMade, MeshTypeOK
<1>2. PICK d \in Client : d = Head(loop[a]) /\ d = loop[a][1]
  BY <1>1, Taken
<1>3. PICK rest \in Seq(Client) : rest = Tail(loop[a])
  BY <1>1, Taken
<1>4. /\ task[a][d] = "offer" /\ loop' = [loop EXCEPT ![a] = rest] /\ missed' = missed
      /\ Writes(a, d, "offer")
  BY <1>2, <1>3 DEF OfferMade, Writes, history
<1>5. /\ IsInjective(loop[a]) /\ a \notin ToSet(loop[a])
      /\ \A e \in Client :
            /\ task[a][e] = "offer" => e = d
            /\ task[a][e] # "none" => Has(a, e)
  BY <1>0, <1>1, <1>2 DEF PageInv, Turns
<1>6. /\ IsInjective(rest) /\ ToSet(rest) \subseteq ToSet(loop[a])
      /\ d \in ToSet(loop[a]) /\ d \notin ToSet(rest)
      /\ rest # <<>> => rest[1] \in ToSet(rest) /\ rest[1] # d
  BY <1>1, <1>2, <1>3, <1>5, InjectiveTail
<1>7. d # a /\ Has(a, d)
  BY <1>4, <1>5, <1>6
<1>8. ~Blank(a) /\ ~Greeted(a)
  BY <1>0, <1>1 DEF Blank, PageInv, Idle
<1>9. /\ loop' \in [Client -> Seq(Client)] /\ loop'[a] = rest
      /\ \A c \in Client \ {a} : loop'[c] = loop[c]
  BY <1>0, <1>4, LoopSet
<1>. DEFINE q == Made(pc[a][d])
<1>10. /\ pc' \in [Client -> [Client -> Pc \cup {NoPeer}]]
       /\ task' \in [Client -> [Client ->
             {"none", "offer", "remoteOffer", "answer", "remoteAnswer"}]]
       /\ \A c \in Client \ {a} : pc'[c] = pc[c] /\ task'[c] = task[c]
       /\ pc'[a][d] = q
       /\ q \in Pc
       /\ task'[a][d] = "none"
       /\ \A e \in Client \ {d} :
             \/ Same(a, e) /\ ~(rest # <<>> /\ e = rest[1])
             \/ /\ rest # <<>> /\ e = rest[1]
                /\ pc'[a][e] = getPeer(a, e) /\ task'[a][e] = "offer"
  <2>1. rest # <<>> => rest[1] # d
    BY <1>6
  <2>2. OfferMadeTo(a, d, rest)
    BY <1>1, <1>2, <1>3 DEF OfferMadeTo
  <2>. QED BY <2>1, <2>2, <1>0, <1>7, OfferMadeShows
<1>11. q.local = TRUE /\ q.remote = pc[a][d].remote
  <2>1. pc[a][d] \in Pc
    BY <1>0, <1>7 DEF MeshTypeOK, Has
  <2>. QED BY <2>1 DEF Pc, Made
<1>. HIDE DEF q
<1>12. Has(a, d)' /\ Local(a, d)' /\ (Remote(a, d)' <=> Remote(a, d))
  <2>1. q \in Pc /\ pc'[a][d] = q
    BY <1>10
  <2>2. Has(a, d)' /\ (Local(a, d)' <=> q.local) /\ (Remote(a, d)' <=> q.remote)
    BY <2>1, Becomes
  <2>3. Remote(a, d) <=> pc[a][d].remote
    BY <1>7 DEF Has, Remote
  <2>. QED BY <2>2, <2>3, <1>11
<1>13. ASSUME NEW e \in Client, rest # <<>>, e = rest[1]
       PROVE  /\ Has(a, e)' /\ task'[a][e] = "offer"
              /\ Local(a, e)' <=> Local(a, e)
              /\ Remote(a, e)' <=> Remote(a, e)
  <2>1. pc'[a][e] = getPeer(a, e) /\ task'[a][e] = "offer"
    BY <1>13, <1>6, <1>10
  <2>. DEFINE v == getPeer(a, e)
  <2>2. v \in Pc /\ (v.local <=> Local(a, e)) /\ (v.remote <=> Remote(a, e))
    BY <1>0, GetPeer
  <2>3. pc'[a][e] = v
    BY <2>1
  <2>. HIDE DEF v
  <2>4. Has(a, e)' /\ (Local(a, e)' <=> v.local) /\ (Remote(a, e)' <=> v.remote)
    BY <2>2, <2>3, Becomes
  <2>. QED BY <2>1, <2>2, <2>4
<1>14. ASSUME NEW c \in Client, NEW e \in Client, Same(c, e)
       PROVE  Alike(c, e) /\ (Has(c, e)' <=> Has(c, e))
  BY <1>14, SameShows
<1>15. \A c, e \in Client : c # a => Same(c, e)
  BY <1>10 DEF Same
<1>16. \A c, e \in Client : Greets(c, e)' <=> Greets(c, e)
  <2>1. down' = down
    BY <1>4 DEF Writes
  <2>2. \A c \in Client : down'[c] = down[c]
    BY <2>1
  <2>. QED BY <2>2, <1>0, StaysShows
<1>17. ASSUME NEW c \in Client, NEW e \in Client
       PROVE  Offers(c, e)' => Offers(c, e)
  <2>1. CASE c # a
    BY <2>1, <1>9, <1>16 DEF Offers
  <2>2. CASE c = a
    BY <2>2, <1>6, <1>9, <1>16 DEF Offers
  <2>. QED BY <2>1, <2>2
<1>18. \A e \in ToSet(loop[a]) : e \in Client
  BY <1>1, Members
<1>19. ASSUME NEW e \in Client, e \in ToSet(loop[a])
       PROVE  Untouched(a, e) /\ Offers(a, e)
  BY <1>0, <1>19 DEF PairInv, Pair, Offers
<1>20. Pair(a, d)' /\ Pair(d, a)'
  <2>1. Untouched(a, d) /\ Offers(a, d)
    BY <1>6, <1>19
  <2>2. ~Offers(a, d)'
    <3>1. ~Greets(a, d)
      BY <1>8 DEF Greets, Greeted
    <3>. QED BY <3>1, <1>6, <1>9, <1>16 DEF Offers
  <2>3. Waits(a, d)'
    <3>1. ~Remote(a, d)
      BY <2>1, <1>1 DEF Untouched, Undescribed
    <3>. QED BY <3>1, <1>10, <1>12 DEF Waits
  <2>4. Same(d, a) /\ (Offers(d, a)' => Offers(d, a))
    BY <1>7, <1>15, <1>17
  <2>. QED BY <2>1, <2>2, <2>3, <2>4, <1>1, <1>4, <1>7, OfferWritten
<1>21. ASSUME NEW h \in Client, rest # <<>>, h = rest[1]
       PROVE  Pair(a, h)' /\ Pair(h, a)'
  <2>1. h \in ToSet(loop[a]) /\ h # d /\ h # a
    BY <1>5, <1>6, <1>21
  <2>2. Untouched(a, h) /\ Offers(a, h)
    BY <2>1, <1>19
  <2>3. /\ \A w \in What : ~Flying(a, h, w) /\ ~Flying(h, a, w)
        /\ Undescribed(a, h)
        /\ page[h] = "call" => ~Has(h, a) /\ task[h][a] = "none" /\ ~Offers(h, a)
    BY <2>2, <1>1 DEF Untouched
  <2>4. "offer" \in What
    BY DEF What
  <2>5. /\ \A w \in What : Flying(a, h, w)' <=> Flying(a, h, w) \/ (a = a /\ h = d /\ w = "offer")
        /\ \A w \in What : Flying(h, a, w)' <=> Flying(h, a, w) \/ (h = a /\ a = d /\ w = "offer")
    BY <2>4, <1>0, <1>4, WritingShows
  <2>6. \A w \in What : ~Flying(a, h, w)' /\ ~Flying(h, a, w)'
    BY <2>1, <2>3, <2>5
  <2>7. OneDescription(a, h)' /\ OneDescription(h, a)'
    <3>1. OneDescription(a, h) /\ OneDescription(h, a)
      BY <1>0 DEF PairInv, Pair
    <3>2. /\ a = a /\ h = d /\ "offer" \in Description => ~Describing(a, d)
          /\ h = a /\ a = d /\ "offer" \in Description => ~Describing(a, d)
      BY <2>1
    <3>. QED BY <3>1, <3>2, <2>4, <1>0, <1>4, WritingKeepsOrder
  <2>8. Undescribed(a, h)' /\ task'[a][h] \in {"none", "offer"}
    BY <2>3, <1>13, <1>21 DEF Undescribed
  <2>9. page'[h] = "call" => ~Has(h, a)' /\ task'[h][a] = "none" /\ ~Offers(h, a)'
    <3>1. page' = page
      BY <1>4 DEF Writes
    <3>2. Same(h, a)
      BY <2>1, <1>15
    <3>3. task'[h][a] = task[h][a] /\ (Has(h, a)' <=> Has(h, a))
      BY <3>2, <1>14 DEF Same
    <3>. QED BY <3>1, <3>3, <2>3, <1>17
  <2>. QED BY <2>6, <2>7, <2>8, <2>9, OfferTurn
<1>22. ASSUME NEW c \in Client, NEW e \in Client, Same(c, e), ~(c = a /\ e = d)
       PROVE  Calm(c, e)
  <2>1. Alike(c, e) /\ (Offers(c, e)' => Offers(c, e)) /\ "offer" \in What
    BY <1>14, <1>17, <1>22 DEF What
  <2>. QED BY <2>1, <1>4, <1>22, WritingIsCalm
<1>23. ASSUME NEW c \in Client, NEW e \in Client
       PROVE  (Calm(c, e) /\ Calm(e, c)) \/ Pair(c, e)'
  <2>1. CASE (c = a /\ e = d) \/ (c = d /\ e = a)
    BY <2>1, <1>20
  <2>2. CASE rest # <<>> /\ ((c = a /\ e = rest[1]) \/ (e = a /\ c = rest[1]))
    BY <2>2, <1>21
  <2>3. CASE /\ ~((c = a /\ e = d) \/ (c = d /\ e = a))
             /\ ~(rest # <<>> /\ ((c = a /\ e = rest[1]) \/ (e = a /\ c = rest[1])))
    <3>1. Same(c, e)
      <4>1. CASE c = a
        BY <4>1, <2>3, <1>10
      <4>. QED BY <4>1, <1>15
    <3>2. Same(e, c)
      <4>1. CASE e = a
        BY <4>1, <2>3, <1>10
      <4>. QED BY <4>1, <1>15
    <3>. QED BY <3>1, <3>2, <2>3, <1>22
  <2>. QED BY <2>1, <2>2, <2>3
<1>24. Turns(a)'
  <2>1. IsInjective(loop[a])' /\ a \notin ToSet(loop'[a])
    BY <1>5, <1>6, <1>9 DEF IsInjective
  <2>2. loop'[a] # <<>> => task'[a][loop'[a][1]] = "offer"
    <3>1. rest # <<>> => rest[1] \in Client
      BY Taken
    <3>. QED BY <3>1, <1>9, <1>13
  <2>3. ASSUME NEW e \in Client
        PROVE  /\ task'[a][e] = "offer" => loop'[a] # <<>> /\ e = loop'[a][1]
               /\ task'[a][e] # "none" => Has(a, e)'
    <3>1. CASE e = d
      BY <3>1, <1>10
    <3>2. CASE rest # <<>> /\ e = rest[1]
      BY <3>2, <1>9, <1>13
    <3>3. CASE e # d /\ ~(rest # <<>> /\ e = rest[1])
      <4>1. Same(a, e)
        BY <3>3, <1>10
      <4>2. task'[a][e] = task[a][e] /\ (Has(a, e)' <=> Has(a, e))
        BY <4>1, <1>14 DEF Same
      <4>. QED BY <4>2, <3>3, <1>5
    <3>. QED BY <3>1, <3>2, <3>3
  <2>. QED BY <2>1, <2>2, <2>3 DEF Turns
<1>25. ~Has(a, a)'
  <2>1. ~Has(a, a)
    BY <1>1, OneSelf
  <2>2. Same(a, a)
    <3>1. ~(rest # <<>> /\ a = rest[1])
      BY <1>5, <1>6
    <3>. QED BY <3>1, <1>7, <1>10
  <2>. QED BY <2>1, <2>2, <1>14
<1>26. ASSUME NEW e \in Client, e \in ToSet(loop'[a]) \/ Has(a, e)'
       PROVE  e \in ToSet(loop[a]) \/ Has(a, e)
  <2>1. CASE e \in ToSet(loop'[a])
    BY <2>1, <1>6, <1>9
  <2>2. CASE e # d /\ Has(a, e)'
    <3>1. Same(a, e) \/ e \in ToSet(rest)
      BY <2>2, <1>6, <1>10
    <3>. QED BY <3>1, <2>2, <1>6, <1>14
  <2>. QED BY <2>1, <2>2, <1>7, <1>26
<1>27. \A c \in Client \ {a} : /\ pc'[c] = pc[c] /\ task'[c] = task[c]
                               /\ loop'[c] = loop[c]
  BY <1>9, <1>10
<1>28. \E b \in Client \ {a}, w \in What : Has(a, b) /\ Writes(a, b, w)
  BY <1>4, <1>7 DEF What
<1>29. /\ pc' \in [Client -> [Client -> Pc \cup {NoPeer}]]
       /\ task' \in [Client -> [Client ->
             {"none", "offer", "remoteOffer", "answer", "remoteAnswer"}]]
       /\ loop' \in [Client -> Seq(Client)]
       /\ missed' = missed
  BY <1>4, <1>9, <1>10
<1>. QED BY <1>1, <1>8, <1>23, <1>24, <1>25, <1>26, <1>27, <1>28, <1>29, WriteKeeps

LEMMA WaitingIsCalm ==
    ASSUME MeshIInv, UNCHANGED <<page, up, down, room>>, NEW c \in Client, NEW d \in Client
    PROVE  /\ \A w : Flying(c, d, w)' <=> Flying(c, d, w)
           /\ Describing(c, d)' <=> Describing(c, d)
           /\ OneDescription(c, d)' /\ (Stray(c, d)' <=> Stray(c, d))
           /\ Greets(c, d)' <=> Greets(c, d)
           /\ Alike(c, d) /\ loop'[c] = loop[c] => Calm(c, d)
<1>0. page' = page /\ up' = up /\ down' = down
  OBVIOUS
<1>1. /\ \A w : Flying(c, d, w)' <=> Flying(c, d, w)
      /\ Greets(c, d)' <=> Greets(c, d)
  BY <1>0 DEF Flying, Greets
<1>2. OneDescription(c, d)' <=> OneDescription(c, d)
  BY <1>0 DEF OneDescription
<1>3. Stray(c, d)' <=> Stray(c, d)
  BY <1>0 DEF Stray
<1>4. OneDescription(c, d)
  BY DEF MeshIInv, PairInv, Pair
<1>5. Describing(c, d)' <=> Describing(c, d)
  BY <1>1 DEF Describing
<1>6. loop'[c] = loop[c] => (Offers(c, d)' <=> Offers(c, d))
  BY <1>1 DEF Offers
<1>. QED BY <1>0, <1>1, <1>2, <1>3, <1>4, <1>5, <1>6 DEF Calm

\* A handler has come back and changed its connection.
Settles(a, d, v, t) ==
    /\ pc' = [pc EXCEPT ![a][d] = v]
    /\ task' = [task EXCEPT ![a][d] = t]
    /\ UNCHANGED <<loop, missed>>

LEMMA SettlingShows ==
    ASSUME MeshIInv, NEW a \in Client, NEW d \in Client, NEW v \in Pc,
           NEW t \in {"none", "offer", "remoteOffer", "answer", "remoteAnswer"},
           Settles(a, d, v, t)
    PROVE  /\ pc' \in [Client -> [Client -> Pc \cup {NoPeer}]]
           /\ task' \in [Client -> [Client ->
                 {"none", "offer", "remoteOffer", "answer", "remoteAnswer"}]]
           /\ loop' \in [Client -> Seq(Client)]
           /\ \A c \in Client : loop'[c] = loop[c]
           /\ \A c, e \in Client : c # a \/ e # d => Same(c, e)
           /\ \A c \in Client \ {a} : pc'[c] = pc[c] /\ task'[c] = task[c]
           /\ task'[a][d] = t /\ Has(a, d)'
           /\ Local(a, d)' <=> v.local
           /\ Remote(a, d)' <=> v.remote
<1>0. MeshTypeOK
  BY DEF MeshIInv
<1>1. /\ pc' = [pc EXCEPT ![a][d] = v] /\ task' = [task EXCEPT ![a][d] = t]
      /\ loop' = loop
  BY DEF Settles
<1>2. /\ pc' \in [Client -> [Client -> Pc \cup {NoPeer}]]
      /\ \A c \in Client \ {a} : pc'[c] = pc[c]
      /\ \A e \in Client \ {d} : pc'[a][e] = pc[a][e]
      /\ pc'[a][d] = v
  BY <1>0, <1>1, PcSet
<1>3. /\ task' \in [Client -> [Client ->
            {"none", "offer", "remoteOffer", "answer", "remoteAnswer"}]]
      /\ \A c \in Client \ {a} : task'[c] = task[c]
      /\ \A e \in Client \ {d} : task'[a][e] = task[a][e]
      /\ task'[a][d] = t
  BY <1>0, <1>1, TaskSet
<1>4. Has(a, d)' /\ (Local(a, d)' <=> v.local) /\ (Remote(a, d)' <=> v.remote)
  BY <1>2, Becomes
<1>5. \A c, e \in Client : c # a \/ e # d => Same(c, e)
  BY <1>2, <1>3 DEF Same
<1>6. loop' \in [Client -> Seq(Client)] /\ \A c \in Client : loop'[c] = loop[c]
  BY <1>0, <1>1 DEF MeshTypeOK
<1>. QED BY <1>2, <1>3, <1>4, <1>5, <1>6

LEMMA SettlingKeeps ==
    ASSUME MeshIInv, NEW a \in Client, NEW d \in Client, d # a, page[a] = "call", Has(a, d),
           NEW v \in Pc, NEW t \in {"none", "offer", "remoteOffer", "answer", "remoteAnswer"},
           Settles(a, d, v, t),
           t = task[a][d] \/ (t # "offer" /\ task[a][d] # "offer"),
           \/ UNCHANGED <<page, up, down, room>>
           \/ \E w \in What : Writes(a, d, w),
           Pair(a, d)', Pair(d, a)'
    PROVE  MeshIInv'
<1>0. MeshTypeOK /\ StreamTypes /\ PageInv /\ PairInv
  BY DEF MeshIInv
<1>1. /\ pc' \in [Client -> [Client -> Pc \cup {NoPeer}]]
      /\ task' \in [Client -> [Client ->
            {"none", "offer", "remoteOffer", "answer", "remoteAnswer"}]]
      /\ loop' \in [Client -> Seq(Client)]
      /\ \A c \in Client : loop'[c] = loop[c]
      /\ \A c, e \in Client : c # a \/ e # d => Same(c, e)
      /\ \A c \in Client \ {a} : pc'[c] = pc[c] /\ task'[c] = task[c]
      /\ task'[a][d] = t /\ Has(a, d)'
  BY SettlingShows
<1>2. ASSUME NEW c \in Client, NEW e \in Client, c # a \/ e # d
      PROVE  Alike(c, e) /\ (Has(c, e)' <=> Has(c, e)) /\ task'[c][e] = task[c][e]
  <2>1. Same(c, e)
    BY <1>1, <1>2
  <2>. QED BY <2>1, SameShows DEF Same
<1>3. ASSUME NEW c \in Client, NEW e \in Client, c # a \/ e # d
      PROVE  Calm(c, e)
  <2>1. CASE UNCHANGED <<page, up, down, room>>
    <3>1. Alike(c, e) /\ loop'[c] = loop[c]
      BY <1>1, <1>2, <1>3
    <3>. QED BY <2>1, <3>1, WaitingIsCalm
  <2>2. ASSUME NEW w \in What, Writes(a, d, w) PROVE Calm(c, e)
    <3>1. Alike(c, e) /\ ~(c = a /\ e = d)
      BY <1>2, <1>3
    <3>2. Offers(c, e)' => Offers(c, e)
      <4>1. down'[c] = down[c]
        BY <2>2 DEF Writes
      <4>2. Greets(c, e)' <=> Greets(c, e)
        BY <4>1, <1>0, StaysShows
      <4>3. loop'[c] = loop[c]
        BY <1>1
      <4>. QED BY <4>2, <4>3 DEF Offers
    <3>. QED BY <2>2, <3>1, <3>2, WritingIsCalm
  <2>. QED BY <2>1, <2>2
<1>4. ASSUME NEW c \in Client, NEW e \in Client
      PROVE  (Calm(c, e) /\ Calm(e, c)) \/ Pair(c, e)'
  <2>1. CASE (c = a /\ e = d) \/ (c = d /\ e = a)
    BY <2>1
  <2>2. CASE ~((c = a /\ e = d) \/ (c = d /\ e = a))
    BY <2>2, <1>3
  <2>. QED BY <2>1, <2>2
<1>5. Turns(a)'
  <2>1. /\ IsInjective(loop[a]) /\ a \notin ToSet(loop[a])
        /\ loop[a] # <<>> => task[a][loop[a][1]] = "offer"
        /\ \A e \in Client :
              /\ task[a][e] = "offer" => loop[a] # <<>> /\ e = loop[a][1]
              /\ task[a][e] # "none" => Has(a, e)
    BY <1>0 DEF PageInv, Turns
  <2>2. loop'[a] = loop[a]
    BY <1>1
  <2>3. IsInjective(loop[a])'
    BY <2>1, <2>2 DEF IsInjective
  <2>4. loop[a] # <<>> => loop[a][1] \in Client
    <3>1. loop[a] \in Seq(Client)
      BY <1>0 DEF MeshTypeOK
    <3>. QED BY <3>1, Taken
  <2>5. loop[a] # <<>> => task'[a][loop[a][1]] = "offer"
    BY <2>1, <2>4, <1>1, <1>2
  <2>6. ASSUME NEW e \in Client
        PROVE  /\ task'[a][e] = "offer" => loop[a] # <<>> /\ e = loop[a][1]
               /\ task'[a][e] # "none" => Has(a, e)'
    <3>1. CASE e = d
      BY <3>1, <2>1, <1>1
    <3>2. CASE e # d
      BY <3>2, <2>1, <1>2
    <3>. QED BY <3>1, <3>2
  <2>. QED BY <2>1, <2>2, <2>3, <2>5, <2>6 DEF Turns
<1>6. ~Has(a, a)'
  <2>1. ~Has(a, a)
    BY OneSelf
  <2>. QED BY <2>1, <1>2
<1>7. ~Blank(a)
  BY DEF Blank
<1>8. ASSUME NEW e \in Client, e \in ToSet(loop'[a]) \/ Has(a, e)'
      PROVE  e \in ToSet(loop[a]) \/ Has(a, e)
  <2>1. loop'[a] = loop[a]
    BY <1>1
  <2>. QED BY <2>1, <1>2, <1>8
<1>9. \/ UNCHANGED <<page, up, down, room>>
      \/ \E b \in Client \ {a}, w \in What : Has(a, b) /\ Writes(a, b, w)
  OBVIOUS
<1>10. missed' = missed
  BY DEF Settles
<1>11. \A c \in Client \ {a} : /\ pc'[c] = pc[c] /\ task'[c] = task[c]
                               /\ loop'[c] = loop[c]
  BY <1>1
<1>12. /\ pc' \in [Client -> [Client -> Pc \cup {NoPeer}]]
       /\ task' \in [Client -> [Client ->
             {"none", "offer", "remoteOffer", "answer", "remoteAnswer"}]]
       /\ loop' \in [Client -> Seq(Client)]
  BY <1>1
<1>. QED BY <1>4, <1>5, <1>6, <1>7, <1>8, <1>9, <1>10, <1>11, <1>12, WriteKeeps

\* What a page keeps of whom it awaits.
LEMMA Awaiting ==
    ASSUME MeshIInv, NEW a \in Client, NEW d \in Client, page[a] = "call",
           task[a][d] # "none" \/ Has(a, d)
    PROVE  d # a /\ Has(a, d) /\ pc[a][d] \in Pc
<1>1. MeshTypeOK /\ Turns(a)
  BY DEF MeshIInv, PageInv
<1>2. Has(a, d)
  BY <1>1 DEF Turns
<1>3. d # a
  BY <1>2, OneSelf
<1>4. pc[a][d] \in Pc
  BY <1>1, <1>2 DEF Has, MeshTypeOK
<1>. QED BY <1>2, <1>3, <1>4

LEMMA RemoteSetKeeps ==
    ASSUME MeshIInv, NEW a \in Client, NEW d \in Client, RemoteSet(a, d)
    PROVE  MeshIInv'
<1>. DEFINE v == [pc[a][d] EXCEPT !.remote = TRUE]
            t == IF task[a][d] = "remoteOffer" THEN "answer" ELSE "none"
<1>0. MeshTypeOK /\ StreamTypes /\ Pair(a, d) /\ Pair(d, a) /\ "answer" \in What
  BY DEF MeshIInv, PairInv, What
<1>1. /\ page[a] = "call" /\ task[a][d] \in {"remoteOffer", "remoteAnswer"}
      /\ UNCHANGED <<page, up, down, room>> /\ page' = page
  BY DEF RemoteSet, relay
<1>2. Settles(a, d, v, t)
  <2>1. task' = [task EXCEPT ![a][d] = t]
    BY <1>0 DEF RemoteSet, MeshTypeOK
  <2>2. pc' = [pc EXCEPT ![a][d] = v]
    BY <1>0 DEF RemoteSet, MeshTypeOK
  <2>. QED BY <2>1, <2>2 DEF RemoteSet, Settles, history
<1>3. d # a /\ Has(a, d) /\ pc[a][d] \in Pc
  BY <1>1, Awaiting
<1>4. v \in Pc /\ v.remote = TRUE /\ v.local = pc[a][d].local
  BY <1>3 DEF Pc
<1>5. /\ t \in {"none", "offer", "remoteOffer", "answer", "remoteAnswer"}
      /\ t # "offer" /\ t \notin {"remoteOffer", "remoteAnswer"}
      /\ t = "answer" => task[a][d] = "remoteOffer"
  OBVIOUS
<1>. HIDE DEF v, t
<1>6. /\ \A c : c \in Client => loop'[c] = loop[c]
      /\ Same(d, a)
      /\ task'[a][d] = t
      /\ Local(a, d)' <=> v.local
      /\ Remote(a, d)' <=> v.remote
  BY <1>2, <1>3, <1>4, <1>5, SettlingShows
<1>7. Remote(a, d)' /\ (Local(a, d)' <=> Local(a, d))
  BY <1>3, <1>4, <1>6 DEF Local, Has
<1>8. \A c, e \in Client :
         /\ \A w : Flying(c, e, w)' <=> Flying(c, e, w)
         /\ Describing(c, e)' <=> Describing(c, e)
         /\ OneDescription(c, e)' /\ (Stray(c, e)' <=> Stray(c, e))
         /\ Offers(c, e)' <=> Offers(c, e)
  <2>1. ASSUME NEW c \in Client, NEW e \in Client
        PROVE  /\ \A w : Flying(c, e, w)' <=> Flying(c, e, w)
               /\ Describing(c, e)' <=> Describing(c, e)
               /\ OneDescription(c, e)' /\ (Stray(c, e)' <=> Stray(c, e))
               /\ Greets(c, e)' <=> Greets(c, e)
    BY <1>1, WaitingIsCalm
  <2>2. ASSUME NEW c \in Client, NEW e \in Client
        PROVE  Offers(c, e)' <=> Offers(c, e)
    <3>1. loop'[c] = loop[c] /\ (Greets(c, e)' <=> Greets(c, e))
      BY <2>1, <1>6
    <3>. QED BY <3>1 DEF Offers
  <2>. QED BY <2>1, <2>2
<1>9. /\ task'[d][a] = task[d][a]
      /\ Fresh(d, a)' <=> Fresh(d, a)
      /\ Waits(d, a)' <=> Waits(d, a)
      /\ Ready(d, a)' <=> Ready(d, a)
      /\ Local(d, a)' <=> Local(d, a)
  BY <1>6, SameShows, AlikeShows DEF Alike
<1>10. ~Offers(a, d) /\ (page[d] = "call" => ~Offers(d, a))
  BY <1>0, <1>1 DEF Pair, Untouched
<1>11. ~Waits(a, d) /\ ~Fresh(a, d)
  BY <1>1 DEF Waits, Fresh
<1>12. Ready(a, d)'
  BY <1>7 DEF Ready
<1>13. Pair(a, d)'
  <2>1. Untouched(a, d)'
    BY <1>8, <1>10 DEF Untouched
  <2>2. Offered(a, d)'
    BY <1>0, <1>1, <1>8, <1>9, <1>11 DEF Pair, Offered
  <2>3. Answering(a, d)' /\ Answered(a, d)'
    BY <1>0, <1>1, <1>8, <1>9, <1>11 DEF Pair, Answering, Answered
  <2>4. Described(a, d)' /\ Led(a, d)'
    BY <1>0, <1>1, <1>7, <1>8, <1>9 DEF Pair, Described, Led
  <2>. QED BY <2>1, <2>2, <2>3, <2>4, <1>8 DEF Pair
<1>14. Pair(d, a)'
  <2>1. Untouched(d, a)'
    BY <1>1, <1>8, <1>10 DEF Untouched
  <2>2. Offered(d, a)'
    BY <1>0, <1>1, <1>8, <1>9, <1>11 DEF Pair, Offered
  <2>3. Answering(d, a)'
    BY <1>0, <1>1, <1>5, <1>6, <1>8, <1>9 DEF Pair, Answering
  <2>4. Answered(d, a)'
    BY <1>0, <1>1, <1>8, <1>9 DEF Pair, Answered
  <2>5. Described(d, a)' /\ Led(d, a)'
    BY <1>12 DEF Described, Led
  <2>. QED BY <2>1, <2>2, <2>3, <2>4, <2>5, <1>8 DEF Pair
<1>15. t = task[a][d] \/ (t # "offer" /\ task[a][d] # "offer")
  BY <1>1, <1>5
<1>16. v \in Pc /\ t \in {"none", "offer", "remoteOffer", "answer", "remoteAnswer"}
  BY <1>4, <1>5
<1>. QED BY <1>1, <1>2, <1>3, <1>13, <1>14, <1>15, <1>16, SettlingKeeps

\* What the stream of a to d is after a wrote w.
LEMMA WrittenTo ==
    ASSUME MeshIInv, NEW a \in Client, NEW d \in Client, d # a, NEW w \in What,
           Writes(a, d, w), \A c \in Client : loop'[c] = loop[c],
           w \in Description => ~Describing(a, d)
    PROVE  /\ page' = page
           /\ \A x \in What : /\ Flying(a, d, x)' <=> Flying(a, d, x) \/ x = w
                              /\ Flying(d, a, x)' <=> Flying(d, a, x)
           /\ Describing(d, a)' <=> Describing(d, a)
           /\ Describing(a, d)' <=> Describing(a, d) \/ w \in Description
           /\ OneDescription(a, d)' /\ OneDescription(d, a)'
           /\ Stray(a, d)' => Stray(a, d) \/ (w = "candidate" /\ ~Describing(a, d))
           /\ Stray(d, a)' => Stray(d, a)
           /\ \A c, e \in Client : Offers(c, e)' <=> Offers(c, e)
<1>0. StreamTypes /\ OneDescription(a, d) /\ OneDescription(d, a) /\ Description \subseteq What
  BY DEF MeshIInv, PairInv, Pair, Description, What
<1>1. page' = page /\ down' = down
  BY DEF Writes
<1>2. /\ \A x \in What : Flying(a, d, x)' <=> Flying(a, d, x) \/ (a = a /\ d = d /\ x = w)
      /\ \A x \in What : Flying(d, a, x)' <=> Flying(d, a, x) \/ (d = a /\ a = d /\ x = w)
  BY <1>0, WritingShows
<1>3. \A x \in What : /\ Flying(a, d, x)' <=> Flying(a, d, x) \/ x = w
                      /\ Flying(d, a, x)' <=> Flying(d, a, x)
  BY <1>2
<1>4. Describing(d, a)' <=> Describing(d, a)
  BY <1>0, <1>3 DEF Describing
<1>5. Describing(a, d)' <=> Describing(a, d) \/ w \in Description
  BY <1>0, <1>3 DEF Describing
<1>6. OneDescription(a, d)' /\ OneDescription(d, a)'
  <2>1. OneDescription(a, d)'
    BY <1>0, WritingKeepsOrder
  <2>2. OneDescription(d, a)'
    BY <1>0, WritingKeepsOrder
  <2>. QED BY <2>1, <2>2
<1>7. /\ Stray(a, d)' => Stray(a, d) \/ (w = "candidate" /\ ~Describing(a, d))
      /\ Stray(d, a)' => Stray(d, a)
  BY <1>0, WritingStrays
<1>8. ASSUME NEW c \in Client, NEW e \in Client
      PROVE  Offers(c, e)' <=> Offers(c, e)
  <2>1. down'[c] = down[c] /\ loop'[c] = loop[c]
    BY <1>1
  <2>2. Greets(c, e)' <=> Greets(c, e)
    BY <2>1, <1>0, StaysShows
  <2>. QED BY <2>1, <2>2 DEF Offers
<1>. QED BY <1>1, <1>3, <1>4, <1>5, <1>6, <1>7, <1>8

LEMMA AnswerMadeKeeps ==
    ASSUME MeshIInv, NEW a \in Client, NEW d \in Client, AnswerMade(a, d)
    PROVE  MeshIInv'
<1>. DEFINE v == [pc[a][d] EXCEPT !.local = TRUE]
<1>0. /\ MeshTypeOK /\ Pair(a, d) /\ Pair(d, a)
      /\ "answer" \in What /\ "offer" \in What /\ "candidate" \in What /\ "answer" \in Description
  BY DEF MeshIInv, PairInv, What, Description
<1>1. page[a] = "call" /\ task[a][d] = "answer" /\ Writes(a, d, "answer")
  BY DEF AnswerMade, Writes
<1>2. Settles(a, d, v, "none")
  <2>1. pc' = [pc EXCEPT ![a][d] = v]
    BY <1>0 DEF AnswerMade, MeshTypeOK
  <2>. QED BY <2>1 DEF AnswerMade, Settles, history
<1>3. d # a /\ Has(a, d) /\ pc[a][d] \in Pc
  BY <1>1, Awaiting
<1>4. v \in Pc /\ v.local = TRUE /\ v.remote = pc[a][d].remote
  BY <1>3 DEF Pc
<1>. HIDE DEF v
<1>5. /\ \A c \in Client : loop'[c] = loop[c]
      /\ Same(d, a)
      /\ task'[a][d] = "none"
      /\ Remote(a, d)' <=> v.remote
  BY <1>2, <1>3, <1>4, SettlingShows
<1>6. Remote(a, d)' <=> Remote(a, d)
  BY <1>3, <1>4, <1>5 DEF Remote, Has
<1>7. page[d] = "call" => Waits(d, a)
  BY <1>0, <1>1 DEF Pair, Answering
<1>8. ~Describing(a, d)
  BY <1>0, <1>1 DEF Pair, Answering
<1>9. /\ page' = page
      /\ \A x \in What : /\ Flying(a, d, x)' <=> Flying(a, d, x) \/ x = "answer"
                         /\ Flying(d, a, x)' <=> Flying(d, a, x)
      /\ Describing(d, a)' <=> Describing(d, a)
      /\ Describing(a, d)' <=> Describing(a, d) \/ "answer" \in Description
      /\ OneDescription(a, d)' /\ OneDescription(d, a)'
      /\ Stray(a, d)' => Stray(a, d) \/ ("answer" = "candidate" /\ ~Describing(a, d))
      /\ Stray(d, a)' => Stray(d, a)
      /\ \A c, e \in Client : Offers(c, e)' <=> Offers(c, e)
  BY <1>0, <1>1, <1>3, <1>5, <1>8, WrittenTo
<1>10. /\ task'[d][a] = task[d][a]
       /\ Waits(d, a)' <=> Waits(d, a)
       /\ Ready(d, a)' <=> Ready(d, a)
       /\ Local(d, a)' <=> Local(d, a)
  BY <1>5, SameShows, AlikeShows DEF Alike
<1>11. ~Offers(a, d) /\ (page[d] = "call" => ~Offers(d, a))
  BY <1>0, <1>1 DEF Pair, Untouched
<1>12. ~Flying(d, a, "offer") /\ ~Flying(d, a, "answer") /\ ~Flying(a, d, "offer")
  <2>1. ~Fresh(a, d) /\ ~Waits(a, d)
    BY <1>1 DEF Fresh, Waits
  <2>2. ~Flying(d, a, "offer")
    BY <2>1, <1>0, <1>1 DEF Pair, Offered
  <2>3. ~Flying(d, a, "answer")
    BY <2>1, <1>0, <1>1 DEF Pair, Answered
  <2>. QED BY <2>2, <2>3, <1>8 DEF Describing, Description
<1>13. Ready(a, d)' <=> Ready(a, d)
  BY <1>1, <1>5, <1>6 DEF Ready
<1>14. Pair(a, d)'
  <2>1. Untouched(a, d)'
    BY <1>9, <1>11 DEF Untouched
  <2>2. Offered(a, d)' /\ Answered(a, d)'
    BY <1>0, <1>9, <1>12 DEF Offered, Answered
  <2>3. Answering(a, d)'
    BY <1>7, <1>9, <1>10 DEF Waits, Answering
  <2>4. Described(a, d)'
    BY <1>0, <1>9 DEF Described
  <2>5. Led(a, d)'
    BY <1>0, <1>9, <1>10 DEF Pair, Led
  <2>. QED BY <2>1, <2>2, <2>3, <2>4, <2>5, <1>9 DEF Pair
<1>15. Pair(d, a)'
  <2>1. Untouched(d, a)'
    BY <1>9, <1>11 DEF Untouched
  <2>2. Offered(d, a)' /\ Answering(d, a)'
    BY <1>0, <1>5, <1>9, <1>12 DEF Offered, Answering
  <2>3. Answered(d, a)'
    BY <1>7, <1>9, <1>10 DEF Answered
  <2>4. Described(d, a)'
    BY <1>0, <1>9, <1>10, <1>13 DEF Pair, Described
  <2>5. Led(d, a)'
    BY <1>0, <1>9, <1>13 DEF Pair, Led
  <2>. QED BY <2>1, <2>2, <2>3, <2>4, <2>5, <1>9 DEF Pair
<1>16. \E w \in What : Writes(a, d, w)
  BY <1>0, <1>1
<1>17. /\ v \in Pc /\ "none" \in {"none", "offer", "remoteOffer", "answer", "remoteAnswer"}
       /\ "none" = task[a][d] \/ ("none" # "offer" /\ task[a][d] # "offer")
  BY <1>1, <1>4
<1>. QED BY <1>1, <1>2, <1>3, <1>14, <1>15, <1>16, <1>17, SettlingKeeps

LEMMA IceCandidateKeeps ==
    ASSUME MeshIInv, NEW a \in Client, NEW d \in Client, IceCandidate(a, d)
    PROVE  MeshIInv'
<1>. DEFINE v == [pc[a][d] EXCEPT !.told = TRUE]
            t == task[a][d]
<1>0. /\ MeshTypeOK /\ Pair(a, d) /\ Pair(d, a)
      /\ "answer" \in What /\ "offer" \in What /\ "candidate" \in What
      /\ "candidate" \notin Description /\ "answer" \in Description /\ "offer" \in Description
  BY DEF MeshIInv, PairInv, What, Description
<1>1. page[a] = "call" /\ Local(a, d) /\ Has(a, d) /\ Writes(a, d, "candidate")
  BY DEF IceCandidate, CanTell, Writes, Local, Has
<1>2. Settles(a, d, v, t)
  <2>1. pc' = [pc EXCEPT ![a][d] = v]
    BY <1>0 DEF IceCandidate, MeshTypeOK
  <2>2. task' = [task EXCEPT ![a][d] = t]
    BY <1>0 DEF IceCandidate, MeshTypeOK
  <2>. QED BY <2>1, <2>2 DEF IceCandidate, Settles, history
<1>3. d # a /\ pc[a][d] \in Pc
  BY <1>1, Awaiting
<1>4. v \in Pc /\ v.local = pc[a][d].local /\ v.remote = pc[a][d].remote
  BY <1>3 DEF Pc
<1>5. t \in {"none", "offer", "remoteOffer", "answer", "remoteAnswer"}
  BY <1>0 DEF MeshTypeOK
<1>6. t = task[a][d]
  OBVIOUS
<1>. HIDE DEF v, t
<1>7. /\ \A c \in Client : loop'[c] = loop[c]
      /\ Same(d, a)
      /\ task'[a][d] = t
      /\ Local(a, d)' <=> v.local
      /\ Remote(a, d)' <=> v.remote
  BY <1>2, <1>3, <1>4, <1>5, SettlingShows
<1>8. /\ task'[a][d] = task[a][d]
      /\ Local(a, d)' <=> Local(a, d)
      /\ Remote(a, d)' <=> Remote(a, d)
  BY <1>1, <1>4, <1>6, <1>7 DEF Local, Remote, Has
<1>9. "candidate" \in Description => ~Describing(a, d)
  BY <1>0
<1>10. /\ page' = page
       /\ \A x \in What : /\ Flying(a, d, x)' <=> Flying(a, d, x) \/ x = "candidate"
                          /\ Flying(d, a, x)' <=> Flying(d, a, x)
       /\ Describing(d, a)' <=> Describing(d, a)
       /\ Describing(a, d)' <=> Describing(a, d) \/ "candidate" \in Description
       /\ OneDescription(a, d)' /\ OneDescription(d, a)'
       /\ Stray(a, d)' => Stray(a, d) \/ ("candidate" = "candidate" /\ ~Describing(a, d))
       /\ Stray(d, a)' => Stray(d, a)
       /\ \A c, e \in Client : Offers(c, e)' <=> Offers(c, e)
  BY <1>0, <1>1, <1>3, <1>7, <1>9, WrittenTo
<1>11. /\ task'[d][a] = task[d][a]
       /\ Fresh(d, a)' <=> Fresh(d, a)
       /\ Waits(d, a)' <=> Waits(d, a)
       /\ Ready(d, a)' <=> Ready(d, a)
       /\ Local(d, a)' <=> Local(d, a)
  BY <1>7, SameShows, AlikeShows DEF Alike
<1>12. ~Offers(a, d) /\ (page[d] = "call" => ~Offers(d, a))
  BY <1>0, <1>1 DEF Pair, Untouched, Undescribed
<1>13. ~Flying(d, a, "offer")
  BY <1>0, <1>1 DEF Pair, Offered, Fresh, Undescribed
<1>14. /\ Waits(a, d)' <=> Waits(a, d)
       /\ Ready(a, d)' <=> Ready(a, d)
  BY <1>8 DEF Waits, Ready
<1>15. /\ Flying(a, d, "offer")' <=> Flying(a, d, "offer")
       /\ Flying(a, d, "answer")' <=> Flying(a, d, "answer")
       /\ Describing(a, d)' <=> Describing(a, d)
       /\ page[d] = "call" => (Stray(a, d)' => Ready(d, a))
  <2>1. page[d] = "call" => Describing(a, d) \/ Ready(d, a)
    BY <1>0, <1>1 DEF Pair, Described
  <2>2. page[d] = "call" => (Stray(a, d) => Ready(d, a))
    BY <1>0 DEF Pair, Led
  <2>. QED BY <2>1, <2>2, <1>0, <1>10
<1>16. Pair(a, d)'
  <2>1. Untouched(a, d)'
    BY <1>10, <1>12 DEF Untouched
  <2>2. Offered(a, d)'
    BY <1>0, <1>10, <1>11, <1>14, <1>15 DEF Pair, Offered
  <2>3. Answering(a, d)' /\ Answered(a, d)'
    BY <1>0, <1>10, <1>11, <1>14 DEF Pair, Answering, Answered
  <2>4. Described(a, d)' /\ Led(a, d)'
    BY <1>0, <1>8, <1>10, <1>11, <1>15 DEF Pair, Described, Led
  <2>. QED BY <2>1, <2>2, <2>3, <2>4, <1>10 DEF Pair
<1>17. Pair(d, a)'
  <2>1. Untouched(d, a)'
    BY <1>10, <1>12 DEF Untouched
  <2>2. Offered(d, a)'
    BY <1>0, <1>10, <1>13 DEF Offered
  <2>3. Answering(d, a)' /\ Answered(d, a)'
    BY <1>0, <1>8, <1>10, <1>11, <1>15 DEF Pair, Answering, Answered
  <2>4. Described(d, a)' /\ Led(d, a)'
    BY <1>0, <1>10, <1>11, <1>14 DEF Pair, Described, Led
  <2>. QED BY <2>1, <2>2, <2>3, <2>4, <1>10 DEF Pair
<1>18. \E w \in What : Writes(a, d, w)
  BY <1>0, <1>1
<1>19. t = task[a][d] \/ (t # "offer" /\ task[a][d] # "offer")
  BY <1>6
<1>. QED BY <1>1, <1>2, <1>3, <1>4, <1>5, <1>16, <1>17, <1>18, <1>19, SettlingKeeps

-----------------------------------------------------------------------------
(* The steps together.                                                     *)

LEMMA ServeKeeps ==
    ASSUME MeshIInv, NEW a \in Client, Serve(a)
    PROVE  MeshIInv'
<1>. DEFINE m == Head(up[a])
<1>1. /\ Serves(a, m) /\ UNCHANGED <<page, connections, history>>
      /\ \/ m.type = "join" /\ OnJoin(a)
         \/ m.type = "signal" /\ OnSignal(a, m)
         \/ m.type = "close" /\ OnClose(a)
  BY DEF Serve, Serves
<1>. HIDE DEF m
<1>2. m \in PageFrame
  <2>1. StreamTypes
    BY DEF MeshIInv
  <2>. QED BY <2>1, <1>1, TakenUp
<1>3. CASE m.type = "join" /\ OnJoin(a)
  <2>1. m.type = "join" => m = JoinFrame
    BY <1>2 DEF PageFrame, JoinFrame, CloseFrame
  <2>2. Serves(a, JoinFrame)
    BY <2>1, <1>1, <1>3
  <2>. QED BY <2>2, <1>1, <1>3, JoinKeeps
<1>4. CASE m.type = "signal" /\ OnSignal(a, m)
  <2>1. m.to \in Client /\ m.what \in What /\ m = SignalTo(m.to, m.what)
    BY <1>2, <1>4, PageFrames
  <2>2. PICK b \in Client, w \in What : m = SignalTo(b, w)
    BY <2>1
  <2>3. Serves(a, SignalTo(b, w)) /\ OnSignal(a, SignalTo(b, w))
    BY <2>2, <1>1, <1>4
  <2>. QED BY <2>3, <1>1, SignalKeeps
<1>5. CASE m.type = "close" /\ OnClose(a)
  <2>1. m = CloseFrame
    BY <1>2, <1>5 DEF PageFrame, CloseFrame
  <2>2. Serves(a, CloseFrame)
    BY <2>1, <1>1
  <2>. QED BY <2>2, <1>1, <1>5, CloseKeeps
<1>. QED BY <1>1, <1>3, <1>4, <1>5

LEMMA MeshStarts ==
    ASSUME MeshInit
    PROVE  MeshIInv
<1>1. /\ \A c \in Client : /\ page[c] = "lobby" /\ up[c] = <<>> /\ down[c] = <<>>
                           /\ loop[c] = <<>> /\ missed[c] = {}
                           /\ \A d \in Client : pc[c][d] = NoPeer /\ task[c][d] = "none"
      /\ room = <<>>
  BY DEF MeshInit
<1>2. /\ <<>> \in Seq(Client) /\ <<>> \in Seq(PageFrame) /\ <<>> \in Seq(RelayFrame)
      /\ Len(<<>>) = 0 /\ 1 .. Len(<<>>) = {}
  BY EmptySeq
<1>3. ToSet(<<>>) = {} /\ IsInjective(<<>>)
  BY DEF ToSet, IsInjective
<1>4. MeshTypeOK
  <2>1. /\ page \in [Client -> {"lobby", "call", "left", "cut"}]
        /\ loop \in [Client -> Seq(Client)] /\ DOMAIN up = Client /\ DOMAIN down = Client
    BY <1>2 DEF MeshInit
  <2>2. pc \in [Client -> [Client -> Pc \cup {NoPeer}]] /\ \A c \in Client : pc[c][c] = NoPeer
    <3>. HIDE DEF Pc
    <3>. QED BY DEF MeshInit
  <2>3. task \in [Client -> [Client ->
           {"none", "offer", "remoteOffer", "answer", "remoteAnswer"}]]
    BY DEF MeshInit
  <2>4. room \in Seq(Client)
    BY <1>1, <1>2
  <2>5. IsInjective(room)
    BY <1>1, <1>3 DEF IsInjective
  <2>. QED BY <2>1, <2>2, <2>3, <2>4, <2>5 DEF MeshTypeOK
<1>5. StreamTypes
  BY <1>2 DEF MeshInit, StreamTypes
<1>6. ASSUME NEW c \in Client
      PROVE  1 .. Len(up[c]) = {} /\ 1 .. Len(down[c]) = {}
  BY <1>1, <1>2
<1>7. \A c \in Client : ~InRoom(c)
  BY <1>1, <1>3 DEF InRoom
<1>8. StreamInv
  BY <1>1, <1>6, <1>7 DEF StreamInv, Life, Greeting
<1>9. ASSUME NEW c \in Client, NEW d \in Client
      PROVE  /\ ~NamedIn(c, d) /\ ~WritesTo(c, d) /\ ~Greets(c, d) /\ ~Greeted(c)
             /\ ~Remembered(c, d) /\ ~Late(c, d) /\ ~Stray(c, d)
             /\ \A w : ~Flying(c, d, w)
             /\ OneDescription(c, d)
             /\ ~Has(c, d) /\ task[c][d] = "none"
             /\ d \notin ToSet(loop[c])
  <2>1. /\ ~NamedIn(c, d) /\ ~WritesTo(c, d) /\ ~Greets(c, d) /\ ~Greeted(c)
        /\ ~Remembered(c, d) /\ ~Late(c, d)
    BY <1>6 DEF NamedIn, WritesTo, Greets, Greeted, Remembered, Late
  <2>2. ~Stray(c, d) /\ \A w : ~Flying(c, d, w)
    BY <1>6 DEF Stray, Flying
  <2>3. OneDescription(c, d)
    BY <1>6 DEF OneDescription
  <2>4. ~Has(c, d) /\ task[c][d] = "none"
    BY <1>1 DEF Has
  <2>5. d \notin ToSet(loop[c])
    BY <1>1, <1>3
  <2>. QED BY <2>1, <2>2, <2>3, <2>4, <2>5
<1>10. PageInv
  BY <1>1, <1>9 DEF PageInv, Idle, Blank, Turns, Newcomer, Selfless
<1>11. KnownInv
  <2>1. ASSUME NEW c \in Client, NEW d \in Client PROVE ~Leaving(c, d)
    <3>1. DOMAIN down[c] = {}
      BY <1>1
    <3>. QED BY <3>1 DEF Leaving
  <2>. QED BY <2>1, <1>1, <1>9 DEF KnownInv, Presence, Departure
<1>12. PairInv
  <2>1. ASSUME NEW c \in Client, NEW d \in Client PROVE Pair(c, d)
    BY <1>1, <1>9 DEF Pair, Untouched, Offered, Answering, Answered, Described, Led
  <2>. QED BY <2>1 DEF PairInv
<1>. QED BY <1>4, <1>5, <1>8, <1>10, <1>11, <1>12 DEF MeshIInv

LEMMA MeshStands ==
    ASSUME MeshIInv, UNCHANGED meshVars
    PROVE  MeshIInv'
<1>1. /\ page' = page /\ up' = up /\ down' = down /\ room' = room /\ pc' = pc
      /\ task' = task /\ loop' = loop /\ missed' = missed
  BY DEF meshVars, relay, connections, history
<1>2. MeshTypeOK'
  BY <1>1 DEF MeshIInv, MeshTypeOK, IsInjective
<1>3. StreamTypes'
  BY <1>1 DEF MeshIInv, StreamTypes
<1>4. ASSUME NEW c \in Client, NEW d \in Client
      PROVE  /\ Has(c, d)' <=> Has(c, d)
             /\ Local(c, d)' <=> Local(c, d)
             /\ Remote(c, d)' <=> Remote(c, d)
             /\ NamedIn(c, d)' <=> NamedIn(c, d)
             /\ WritesTo(c, d)' <=> WritesTo(c, d)
             /\ Remembered(c, d)' <=> Remembered(c, d)
             /\ Late(c, d)' <=> Late(c, d)
             /\ Leaving(c, d)' <=> Leaving(c, d)
             /\ InRoom(c)' <=> InRoom(c)
             /\ Joining(c)' <=> Joining(c)
             /\ Greeted(c)' <=> Greeted(c)
             /\ Departed(c)' <=> Departed(c)
             /\ Calm(c, d)
             /\ \A w : Flying(c, d, w)' <=> Flying(c, d, w)
  <2>1. Same(c, d)
    BY <1>1 DEF Same
  <2>2. Alike(c, d) /\ (Has(c, d)' <=> Has(c, d)) /\ loop'[c] = loop[c]
    BY <2>1, <1>1, SameShows
  <2>3. Calm(c, d) /\ \A w : Flying(c, d, w)' <=> Flying(c, d, w)
    <3>1. UNCHANGED <<page, up, down, room>>
      BY <1>1
    <3>. QED BY <2>2, <3>1, WaitingIsCalm
  <2>4. (Local(c, d)' <=> Local(c, d)) /\ (Remote(c, d)' <=> Remote(c, d))
    BY <2>2 DEF Alike
  <2>5. /\ NamedIn(c, d)' <=> NamedIn(c, d)
        /\ Remembered(c, d)' <=> Remembered(c, d)
        /\ Late(c, d)' <=> Late(c, d)
        /\ Leaving(c, d)' <=> Leaving(c, d)
        /\ Greeted(c)' <=> Greeted(c)
    <3>1. StreamTypes /\ down'[c] = down[c]
      BY <1>1 DEF MeshIInv
    <3>. QED BY <3>1, StaysShows
  <2>6. /\ WritesTo(c, d)' <=> WritesTo(c, d)
        /\ InRoom(c)' <=> InRoom(c)
        /\ Joining(c)' <=> Joining(c)
    BY <1>1 DEF WritesTo, InRoom, Joining
  <2>7. Departed(c)' <=> Departed(c)
    BY <2>6, <1>1 DEF Departed
  <2>. QED BY <2>2, <2>3, <2>4, <2>5, <2>6, <2>7
<1>5. StreamInv'
  <2>1. ASSUME NEW c \in Client PROVE Life(c)'
    <3>1. Life(c)
      BY DEF MeshIInv, StreamInv
    <3>. QED BY <3>1, <1>1, <1>4 DEF Life
  <2>2. ASSUME NEW c \in Client PROVE Greeting(c)'
    <3>1. Greeting(c)
      BY DEF MeshIInv, StreamInv
    <3>. QED BY <3>1, <1>1 DEF Greeting, IsInjective
  <2>. QED BY <2>1, <2>2 DEF StreamInv
<1>6. PageInv'
  <2>1. ASSUME NEW c \in Client PROVE Idle(c)' /\ Newcomer(c)' /\ Selfless(c)'
    <3>1. Idle(c) /\ Newcomer(c) /\ Selfless(c)
      BY DEF MeshIInv, PageInv
    <3>2. Idle(c)'
      BY <3>1, <1>1, <1>4 DEF Idle, Blank
    <3>3. Newcomer(c)'
      BY <3>1, <1>1, <1>4 DEF Newcomer
    <3>4. Selfless(c)'
      BY <3>1, <1>4 DEF Selfless
    <3>. QED BY <3>2, <3>3, <3>4
  <2>2. ASSUME NEW c \in Client PROVE Turns(c)'
    <3>1. Turns(c) /\ MeshTypeOK
      BY DEF MeshIInv, PageInv
    <3>2. \A d \in Client : Same(c, d)
      BY <1>1 DEF Same
    <3>3. (page'[c] = "call" => page[c] = "call") /\ loop'[c] = loop[c]
      BY <1>1
    <3>. QED BY <3>1, <3>2, <3>3, TurnsStay
  <2>. QED BY <2>1, <2>2 DEF PageInv
<1>7. KnownInv'
  <2>1. ASSUME NEW c \in Client, NEW d \in Client PROVE Presence(c, d)' /\ Departure(c, d)'
    <3>1. Presence(c, d) /\ Departure(c, d)
      BY DEF MeshIInv, KnownInv
    <3>. QED BY <3>1, <1>1, <1>4 DEF Presence, Departure
  <2>. QED BY <2>1 DEF KnownInv
<1>8. PairInv'
  <2>1. ASSUME NEW c \in Client, NEW d \in Client PROVE Pair(c, d)'
    <3>1. Pair(c, d)
      BY DEF MeshIInv, PairInv
    <3>. QED BY <3>1, <1>4, PairStays
  <2>. QED BY <2>1 DEF PairInv
<1>. QED BY <1>2, <1>3, <1>5, <1>6, <1>7, <1>8 DEF MeshIInv

LEMMA MeshSteps ==
    ASSUME MeshIInv, [MeshNext]_meshVars
    PROVE  MeshIInv'
<1>1. CASE UNCHANGED meshVars
  BY <1>1, MeshStands
<1>2. ASSUME NEW c \in Client, Handle(c) PROVE MeshIInv'
  <2>1. CASE ReadJoined(c)
    BY <2>1, ReadJoinedKeeps
  <2>2. CASE ReadPeerJoined(c)
    BY <2>2, ReadPeerJoinedKeeps
  <2>3. CASE ReadPeerLeft(c)
    BY <2>3, ReadPeerLeftKeeps
  <2>4. CASE ReadSignal(c)
    BY <2>4, ReadSignalKeeps
  <2>5. CASE OfferMade(c)
    BY <2>5, OfferMadeKeeps
  <2>6. ASSUME NEW d \in Client, RemoteSet(c, d) PROVE MeshIInv'
    BY <2>6, RemoteSetKeeps
  <2>7. ASSUME NEW d \in Client, AnswerMade(c, d) PROVE MeshIInv'
    BY <2>7, AnswerMadeKeeps
  <2>. QED BY <2>1, <2>2, <2>3, <2>4, <2>5, <2>6, <2>7, <1>2 DEF Handle
<1>3. ASSUME NEW c \in Client, Serve(c) PROVE MeshIInv'
  BY <1>3, ServeKeeps
<1>4. ASSUME NEW c \in Client, connectSignaling(c) PROVE MeshIInv'
  BY <1>4, ConnectKeeps
<1>5. ASSUME NEW c \in Client, leave(c) PROVE MeshIInv'
  BY <1>5, LeaveKeeps
<1>6. ASSUME NEW c \in Client, LinkLost(c) PROVE MeshIInv'
  BY <1>6, LinkLostKeeps
<1>7. ASSUME NEW c \in Client, NEW d \in Client, IceCandidate(c, d) PROVE MeshIInv'
  BY <1>7, IceCandidateKeeps
<1>. QED BY <1>1, <1>2, <1>3, <1>4, <1>5, <1>6, <1>7 DEF MeshNext

\* The inductive invariant of the mesh: the streams, the loops and every pair of
\* pages are where the negotiation of app.js lets them be.
THEOREM MeshInductive == MeshSpec => []MeshIInv
<1>1. MeshInit => MeshIInv
  BY MeshStarts
<1>2. MeshIInv /\ [MeshNext]_meshVars => MeshIInv'
  BY MeshSteps
<1>. QED BY <1>1, <1>2, PTL DEF MeshSpec

\* A page of app.js in the call has connections only to pages of its room, to
\* such whose peer-left is coming, and to those its loop of offers missed.
THEOREM MeshIsKept == MeshSpec => []MeshInv
<1>1. MeshIInv => MeshInv
  <2>1. SUFFICES ASSUME MeshIInv PROVE MeshInv
    OBVIOUS
  <2>2. ASSUME NEW c \in Client, NEW d \in Client, page[c] = "call", pc[c][d] # NoPeer
        PROVE  d \in ToSet(room) \/ Leaving(c, d) \/ d \in missed[c]
    BY <2>1, <2>2 DEF MeshIInv, KnownInv, Presence, Has, InRoom
  <2>3. MeshTypeOK
    BY <2>1 DEF MeshIInv
  <2>. QED BY <2>2, <2>3 DEF MeshInv, PeersAreHere
<1>. QED BY <1>1, MeshInductive, PTL

\* Glare never comes (app.js:6): whatever signal is the next that a page reads,
\* its connection to the sender is in the state to take it.
THEOREM SignalsAlwaysFit == MeshSpec => []SignalsFit
<1>1. MeshIInv => SignalsFit
  <2>1. SUFFICES ASSUME MeshIInv, NEW c \in Client, page[c] = "call", down[c] # <<>>,
                        Head(down[c]).type = "signal"
                 PROVE  Fits(c, Head(down[c]).from, Head(down[c]).what)
    BY DEF SignalsFit
  <2>2. /\ down[c] \in Seq(RelayFrame) /\ Head(down[c]) = down[c][1]
        /\ Len(down[c]) \in Nat /\ 1 \in 1 .. Len(down[c])
        /\ Head(down[c]) \in RelayFrame
    <3>1. down[c] \in Seq(RelayFrame)
      BY <2>1 DEF MeshIInv, StreamTypes
    <3>2. /\ Head(down[c]) = down[c][1] /\ down[c][1] \in RelayFrame
          /\ Len(down[c]) \in Nat /\ Len(down[c]) >= 1
      BY <3>1, <2>1, Taken
    <3>. QED BY <3>1, <3>2
  <2>3. PICK d \in Client, w \in What :
           d = Head(down[c]).from /\ w = Head(down[c]).what /\ down[c][1] = SignalFrom(d, w)
    <3>1. /\ Head(down[c]).from \in Client /\ Head(down[c]).what \in What
          /\ Head(down[c]) = SignalFrom(Head(down[c]).from, Head(down[c]).what)
      BY <2>1, <2>2 DEF RelayFrame, SignalFrom
    <3>. QED BY <3>1, <2>2
  <2>4. Pair(c, d) /\ Pair(d, c) /\ Turns(c)
    BY <2>1 DEF MeshIInv, PairInv, PageInv
  <2>5. Flying(d, c, w)
    BY <2>2, <2>3 DEF Flying
  <2>6. CASE w = "offer"
    <3>1. Fresh(c, d)
      BY <2>1, <2>4, <2>5, <2>6 DEF Pair, Offered
    <3>2. Fits(c, d, "offer")
      BY <3>1 DEF Fits, Fresh, Undescribed, Local, Remote
    <3>. QED BY <3>2, <2>3, <2>6
  <2>7. CASE w = "answer"
    <3>1. Waits(c, d)
      BY <2>1, <2>4, <2>5, <2>7 DEF Pair, Answered
    <3>2. Fits(c, d, "answer")
      BY <3>1 DEF Fits, Waits, Local, Remote
    <3>. QED BY <3>2, <2>3, <2>7
  <2>8. CASE w = "candidate"
    <3>1. Stray(d, c)
      BY <2>2, <2>3, <2>8 DEF Stray
    <3>2. Ready(c, d)
      BY <3>1, <2>1, <2>4 DEF Pair, Led
    <3>3. pc[c][d] # NoPeer
      BY <3>2, <2>1, <2>4 DEF Ready, Remote, Turns, Has
    <3>4. Fits(c, d, "candidate")
      BY <3>2, <3>3 DEF Fits, Ready, Remote
    <3>. QED BY <3>4, <2>3, <2>8
  <2>. QED BY <2>6, <2>7, <2>8 DEF What
<1>. QED BY <1>1, MeshInductive, PTL
=============================================================================
