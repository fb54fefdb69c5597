----------------------------- MODULE RtpTransport -----------------------------
(***************************************************************************)
(* The two ends of a link, RtpTransport.cpp: group_call's transport, which *)
(* is the DTLS client, and the SFU's for that participant, the server.     *)
(*                                                                         *)
(* Three threads meet in a transport.  The ICE agent's (libjuice, through  *)
(* NATTraversal.cpp) reports the connection and hands in datagrams; the    *)
(* signaling thread tells the peer's fingerprint, in any order with the    *)
(* agent's report; the session's own runs the handshake.  Media threads    *)
(* send.  Whoever comes second of connection and fingerprint starts the    *)
(* handshake.                                                              *)
(*                                                                         *)
(* ~RtpTransport destroys the members in the reverse of their declaration: *)
(* the session, then the callbacks, and the agent last of all, so that a   *)
(* callback may come to what is gone; `undefined' says that one has.       *)
(* Both programs enable security: the insecure branches are left out.      *)
(***************************************************************************)
EXTENDS DtlsSrtp

CONSTANTS
    Told,           \* Told[e]: the fingerprints e may be told
    MaxNotices,     \* bound: reports of a connection by an agent
    MaxTells        \* bound: fingerprints told to a transport

ASSUME RtpTransportAssumption ==
    /\ Told \in [End -> SUBSET Fingerprint]
    /\ MaxNotices \in Nat /\ MaxTells \in Nat

VARIABLES
    iceConnected,   \* iceConnected_
    remoteFp,       \* remoteFp_
    started,        \* handshakeStarted_
    agent,          \* where the agent's thread is in onStateChanged
    signaling,      \* where the signaling thread is in setRemoteFingerprint
    notices,        \* reports so far
    tells,          \* fingerprints told so far
    media,          \* media[e]: keys of the SRTP packets under way to e
    heard,          \* history: e has been given a packet by onPacket
    undefined       \* a callback has used what had been destroyed

vars == <<dtls, iceConnected, remoteFp, started, agent, signaling, notices, tells,
          media, heard, undefined>>
link == <<iceConnected, remoteFp, started, agent, signaling, notices, tells, media,
          heard, undefined>>

-----------------------------------------------------------------------------
(* maybeStartHandshake, under startMu_: with both conditions met, once.    *)
(* A start in a session under destruction races with its stop(); a callback *)
(* that has nothing to start then is LateCallback's, which may find the    *)
(* mutex itself destroyed.                                                 *)
MayStart(e) == ~started[e] /\ iceConnected[e] /\ remoteFp[e] # NoFp

maybeStartHandshake(e) ==
    \/ /\ ~MayStart(e)
       /\ UNCHANGED <<session, started, undefined>>
    \/ /\ MayStart(e) /\ owner[e] = "alive"
       /\ started' = [started EXCEPT ![e] = TRUE]
       /\ start(e, remoteFp[e])
       /\ UNCHANGED undefined
    \/ /\ MayStart(e) /\ owner[e] # "alive"
       /\ undefined' = TRUE
       /\ UNCHANGED <<session, started>>

-----------------------------------------------------------------------------
(* setRemoteFingerprint, on the signaling thread, which also owns the      *)
(* transport: the fingerprint is stored under startMu_, released, and      *)
(* then the start is tried.                                                *)

\* Slip: the start is left to the agent's thread.
setRemoteFingerprint_stores(e, fp) ==
    /\ ~undefined /\ owner[e] = "alive" /\ signaling[e] = "idle" /\ tells[e] < MaxTells
    /\ remoteFp' = [remoteFp EXCEPT ![e] = fp]
    /\ tells' = [tells EXCEPT ![e] = @ + 1]
    /\ UNCHANGED <<dtls, iceConnected, started, agent, signaling, notices, media, heard, undefined>>

setRemoteFingerprint(e, fp) ==
    /\ ~undefined /\ owner[e] = "alive" /\ signaling[e] = "idle" /\ tells[e] < MaxTells
    /\ remoteFp' = [remoteFp EXCEPT ![e] = fp]
    /\ tells' = [tells EXCEPT ![e] = @ + 1]
    /\ signaling' = [signaling EXCEPT ![e] = "told"]
    /\ UNCHANGED <<dtls, iceConnected, started, agent, notices, media, heard, undefined>>

StartWhenTold(e) ==
    /\ ~undefined /\ signaling[e] = "told"
    /\ maybeStartHandshake(e)
    /\ signaling' = [signaling EXCEPT ![e] = "idle"]
    /\ UNCHANGED <<owner, network, hasty, iceConnected, remoteFp, agent, notices, tells,
                   media, heard>>

-----------------------------------------------------------------------------
(* The agent's callbacks.  One at a time; none after juice_destroy.        *)

Calls(e) == ~undefined /\ agent[e] = "idle" /\ owner[e] \notin {"freed", "gone"}

\* onStateChanged with Connected, and later with Completed.
OnConnected(e) ==
    /\ Calls(e) /\ notices[e] < MaxNotices
    /\ iceConnected' = [iceConnected EXCEPT ![e] = TRUE]
    /\ notices' = [notices EXCEPT ![e] = @ + 1]
    /\ agent' = [agent EXCEPT ![e] = "connected"]
    /\ UNCHANGED <<dtls, remoteFp, started, signaling, tells, media, heard, undefined>>

StartWhenConnected(e) ==
    /\ ~undefined /\ agent[e] = "connected" /\ owner[e] # "freed"
    /\ maybeStartHandshake(e)
    /\ agent' = [agent EXCEPT ![e] = "idle"]
    /\ UNCHANGED <<owner, network, hasty, iceConnected, remoteFp, signaling, notices, tells,
                   media, heard>>

\* onData with a DTLS record, which the network may deliver again later.
OnRecord(e, f) ==
    /\ Calls(e) /\ f \in net[e]
    /\ feedDtls(e, f)
    /\ \/ net' = [net EXCEPT ![e] = @ \ {f}] /\ UNCHANGED faults
       \/ faults < MaxFaults /\ faults' = faults + 1 /\ UNCHANGED net
    /\ UNCHANGED <<owner, lastLost, hasty, link>>

\* onData with an SRTP packet: dropped before the keys are there, or if it does
\* not decrypt.
Decrypts(e, k) == ready[e] /\ inKey[e] = k

OnMedia(e, k) ==
    /\ Calls(e) /\ k \in media[e]
    /\ media' = [media EXCEPT ![e] = @ \ {k}]
    /\ heard' = [heard EXCEPT ![e] = @ \/ Decrypts(e, k)]
    /\ UNCHANGED <<dtls, iceConnected, remoteFp, started, agent, signaling, notices,
                   tells, undefined>>

\* A datagram to a transport that is gone.
Drop(e) ==
    /\ ~undefined /\ owner[e] = "gone" /\ (net[e] # {} \/ media[e] # {})
    /\ net' = [net EXCEPT ![e] = {}]
    /\ media' = [media EXCEPT ![e] = {}]
    /\ UNCHANGED <<session, owner, lastLost, faults, hasty, iceConnected, remoteFp, started,
                   agent, signaling, notices, tells, heard, undefined>>

\* A callback that comes, or is still running, when the session and the
\* callbacks are destroyed and the agent is not yet.
LateCallback(e) ==
    /\ ~undefined /\ owner[e] = "freed"
    /\ agent[e] # "idle" \/ net[e] # {} \/ media[e] # {} \/ notices[e] < MaxNotices
    /\ undefined' = TRUE
    /\ UNCHANGED <<dtls, iceConnected, remoteFp, started, agent, signaling, notices, tells,
                   media, heard>>

-----------------------------------------------------------------------------
(* send, on a media thread.  One packet under way is enough.               *)
send(e) ==
    /\ ~undefined /\ owner[e] = "alive" /\ ready[e]
    /\ ~heard[Peer(e)] /\ \A x \in End : media[x] = {}
    /\ media' = [media EXCEPT ![Peer(e)] = @ \cup {outKey[e]}]
    /\ UNCHANGED <<dtls, iceConnected, remoteFp, started, agent, signaling, notices,
                   tells, heard, undefined>>

-----------------------------------------------------------------------------
(* The destructor, by the thread that also signals: ~DtlsSrtp calls stop,  *)
(* and ~NATTraversal at last waits for the agent's callback in progress.   *)
BeginDestroy(e) == /\ ~undefined /\ signaling[e] = "idle"
                   /\ StopFlag(e) /\ UNCHANGED link

DestroyAgent(e) ==
    /\ ~undefined /\ owner[e] = "freed" /\ agent[e] = "idle"
    /\ owner' = [owner EXCEPT ![e] = "gone"]
    /\ UNCHANGED <<session, network, hasty, link>>

-----------------------------------------------------------------------------
Session(e) == ~undefined /\ (RunStep(e) \/ StopStep(e)) /\ UNCHANGED link
Fault(e, f) == ~undefined /\ Lose(e, f) /\ UNCHANGED link

Init ==
    /\ DtlsInit
    /\ iceConnected = [e \in End |-> FALSE]
    /\ remoteFp = [e \in End |-> NoFp]
    /\ started = [e \in End |-> FALSE]
    /\ agent = [e \in End |-> "idle"]
    /\ signaling = [e \in End |-> "idle"]
    /\ notices = [e \in End |-> 0]
    /\ tells = [e \in End |-> 0]
    /\ media = [e \in End |-> {}]
    /\ heard = [e \in End |-> FALSE]
    /\ undefined = FALSE

Next ==
    \E e \in End :
        \/ Session(e)
        \/ \E fp \in Told[e] : setRemoteFingerprint(e, fp)
        \/ StartWhenTold(e) \/ OnConnected(e) \/ StartWhenConnected(e)
        \/ \E f \in Flight : OnRecord(e, f) \/ Fault(e, f)
        \/ \E k \in End : OnMedia(e, k)
        \/ Drop(e) \/ LateCallback(e) \/ send(e)
        \/ BeginDestroy(e) \/ DestroyAgent(e)

Spec == Init /\ [][Next]_vars

\* The threads run when they can, timers run out, datagrams that are not lost
\* arrive.  Nobody has to connect, to tell a fingerprint, to send or to destroy.
Fairness ==
    \A e \in End :
        /\ WF_vars(Session(e))
        /\ WF_vars(StartWhenTold(e)) /\ WF_vars(StartWhenConnected(e))
        /\ WF_vars(DestroyAgent(e)) /\ WF_vars(LateCallback(e))
        /\ \A f \in Flight : WF_vars(OnRecord(e, f))

FairSpec == Spec /\ Fairness

-----------------------------------------------------------------------------
(* Properties.                                                             *)

\* The variables have their types.
TypeOK ==
    /\ DtlsTypeOK
    /\ iceConnected \in [End -> BOOLEAN] /\ started \in [End -> BOOLEAN]
    /\ remoteFp \in [End -> Fingerprint]
    /\ agent \in [End -> {"idle", "connected"}]
    /\ signaling \in [End -> {"idle", "told"}]
    /\ notices \in [End -> 0 .. MaxNotices] /\ tells \in [End -> 0 .. MaxTells]
    /\ media \in [End -> SUBSET End]
    /\ heard \in [End -> BOOLEAN] /\ undefined \in BOOLEAN

\* The handshake has two conditions, met on two threads (RtpTransport.cpp:26, :72):
\* whichever comes last starts it, and when both are met and neither thread is
\* between storing its own and the test, it has been started.
StartNotMissed ==
    \A e \in End :
        iceConnected[e] /\ remoteFp[e] # NoFp /\ agent[e] = "idle" /\ signaling[e] = "idle"
            => started[e] \/ owner[e] # "alive" \/ undefined

\* The handshake thread never sleeps over a record (DtlsSrtp.cpp:136, :164).
NoSleepOverRecord == \A e \in End : thread[e] = "asleep" => inQ[e] = <<>>

\* An end that is ready has the fingerprint of its peer, and has the keys of a
\* handshake in which the peer took part to the end; two that are ready read what
\* the other writes.
KeysAgree ==
    \A e \in End :
        ready[e] => /\ usedFp[e] = "peer"
                    /\ seen[Peer(e)] >= seen[e] - 1
                    /\ owner[e] \in {"alive", "flagged", "joining"}
                       /\ ready[Peer(e)] /\ owner[Peer(e)] \in {"alive", "flagged", "joining"}
                            => inKey[e] = outKey[Peer(e)]

\* The two sessions fit together at every moment: types, records and keys.
LinkInv == TypeOK /\ NoSleepOverRecord /\ KeysAgree

\* No packet reaches the application unless both ends have verified the other.
MediaIsVerified ==
    \A e \in End : heard[e] => ready[e] /\ ready[Peer(e)] /\ usedFp[Peer(e)] = "peer"

\* A handshake that has begun ends, whatever is lost and whoever stops: its thread
\* always has a timer to wake it (DtlsSrtp.cpp:152, :171).
HandshakeEnds ==
    \A e \in End : thread[e] # "none" ~> thread[e] = "ended" \/ undefined

\* A destructor that has begun ends, though stop() notifies without the mutex
\* (DtlsSrtp.cpp:258) and the notification may come just before the wait.
TeardownCompletes ==
    \A e \in End : owner[e] = "flagged" ~> owner[e] = "gone" \/ undefined

\* Neither thread waits for ever, the one that shakes hands or the one that joins it.
ThreadsEnd == HandshakeEnds /\ TeardownCompletes

\* Both ends are connected, have been told the other's fingerprint, and live on;
\* what is ready to happen happens before a timer of a second.
Undisturbed ==
    /\ \A e \in End : usedFp[e] = "peer" /\ owner[e] = "alive"
    /\ ~hasty

BothReady == \A e \in End : ready[e]

\* The timers of the two ends repair the loss of a flight, so that both come to
\* have keys -- if it was not the last flight.
LossIsRepaired == <>[](Undisturbed /\ ~lastLost) => <>BothReady

\* "Once ICE connects and the peer fingerprint is known, a DTLS handshake runs and
\* all RTP is SRTP-encrypted" (RtpTransport.h:63), after "a brief window right
\* after ICE connects" (RtpTransport.cpp:90).
Secured == <>[]Undisturbed => <>BothReady
=============================================================================
