------------------------------- MODULE DtlsSrtp -------------------------------
(***************************************************************************)
(* The DTLS-SRTP sessions of the two ends of a link, DtlsSrtp.cpp, and the *)
(* datagrams between them.                                                 *)
(*                                                                         *)
(* run() is a thread of its own: it lets OpenSSL work, sends what OpenSSL  *)
(* wrote, and sleeps on qcv_ until the agent's thread has queued a record  *)
(* or a timer has run out.  OpenSSL itself is external.  A full handshake  *)
(* is four flights, the client's 1 and 3 and the server's 2 and 4; an      *)
(* engine answers the flight it waits for, drops any other, and repeats    *)
(* its own last flight when its timer asks for it.  All records of a       *)
(* flight are one datagram here: to lose one of them is to lose the flight *)
(* until it is repeated.                                                   *)
(***************************************************************************)
EXTENDS Naturals, Sequences

CONSTANTS
    Patience,   \* timer rounds before the deadline of run(): 1+2+4+8 s in 15 s
    MaxFaults,  \* bound: datagrams lost or repeated in a behaviour
    Mortal      \* the ends that may be destroyed

ASSUME DtlsSrtpAssumption ==
    /\ Patience \in Nat \ {0} /\ MaxFaults \in Nat
    /\ Mortal \subseteq {"client", "server"}

VARIABLES
    thread,     \* thread[e]: where run() is; "none" before start
    seen,       \* the last flight of the peer that OpenSSL has taken, 0 for none
    inQ,        \* inQ_
    rounds,     \* timer rounds that have passed since start
    usedFp,     \* remoteFp_ of the session
    outKey,     \* srtpOut_: whose key it encrypts with
    inKey,      \* srtpIn_
    ready,      \* ready_
    owner,      \* how far the destruction of the session has come
    net,        \* net[e]: flights under way to e
    lastLost,   \* history: a last flight has been lost
    faults,     \* faults of the network so far
    hasty       \* history: a timer has run out though there was work to do

session == <<thread, seen, inQ, rounds, usedFp, outKey, inKey, ready>>
network == <<net, lastLost, faults>>
dtls == <<session, owner, network, hasty>>

-----------------------------------------------------------------------------
End == {"client", "server"}
Flight == 1 .. 4
Place == {"none", "begin", "wait", "asleep", "finish", "ended"}
Peer(e) == IF e = "client" THEN "server" ELSE "client"

\* Fingerprints as signaling tells them: the peer's own, another one, or none.
NoFp == "none"
Fingerprint == {"peer", "other", NoFp}

NoKey == "none"

-----------------------------------------------------------------------------
(* The engine.                                                             *)

\* The flights e waits for, first and last.
Opening(e) == IF e = "client" THEN 2 ELSE 1
Closing(e) == IF e = "client" THEN 4 ELSE 3

Awaited(e) == IF seen[e] = 0 THEN Opening(e) ELSE seen[e] + 2
Finished(e) == seen[e] = Closing(e)

\* The flight e sent last, to be repeated by its timer; a server that has heard
\* nothing has no timer.
LastFlight(e) == IF seen[e] = 0 THEN Opening(e) - 1 ELSE seen[e] + 1

-----------------------------------------------------------------------------
(* start: the session is new, and run() gets a thread.                     *)
start(e, fp) ==
    /\ thread' = [thread EXCEPT ![e] = "begin"]
    /\ usedFp' = [usedFp EXCEPT ![e] = fp]
    /\ UNCHANGED <<seen, inQ, rounds, outKey, inKey, ready>>

\* Slip: queued without notifying.
feedDtls_mute(e, f) ==
    /\ inQ' = [inQ EXCEPT ![e] = Append(@, f)]
    /\ UNCHANGED <<thread, seen, rounds, usedFp, outKey, inKey, ready>>

(* feedDtls: queue a record and notify; run() then looks at the queue.     *)
feedDtls(e, f) ==
    /\ inQ' = [inQ EXCEPT ![e] = Append(@, f)]
    /\ thread' = [thread EXCEPT ![e] = IF @ = "asleep" THEN "wait" ELSE @]
    /\ UNCHANGED <<seen, rounds, usedFp, outKey, inKey, ready>>

-----------------------------------------------------------------------------
(* run.  A pass of the loop starts where run() returns from its wait, and  *)
(* ends where it waits again: what others do meanwhile it only sees then.  *)

\* Neither stopped nor past the deadline, which is `Patience' timers away.
Running(e, passed) == owner[e] = "alive" /\ passed < Patience

\* The rest of a pass, with the peer's flights up to `now' taken and `passed'
\* timers run out: if it runs, SSL_do_handshake writes and flushOutbound sends
\* `flight' (0: nothing); the loop ends when the handshake is finished.
Pass(e, now, flight, passed) ==
    LET running == Running(e, passed)
    IN  /\ rounds' = [rounds EXCEPT ![e] = passed]
        /\ seen' = [seen EXCEPT ![e] = IF running THEN now ELSE @]
        /\ net' = [net EXCEPT ![Peer(e)] = IF running THEN @ \cup ({flight} \cap Flight) ELSE @]
        /\ thread' = [thread EXCEPT ![e] =
                          IF running /\ now # Closing(e) THEN "wait" ELSE "finish"]
        /\ UNCHANGED <<usedFp, outKey, inKey, ready, owner, lastLost, faults>>

\* The first pass: a client opens, a server has nothing to say yet.
Begin(e) ==
    /\ thread[e] = "begin"
    /\ Pass(e, 0, LastFlight(e), 0)
    /\ UNCHANGED <<inQ, hasty>>

\* Under qmu_: the first queued record is taken.  The engine answers it if it is
\* the awaited flight, ...
TakeRecord(e) ==
    /\ thread[e] = "wait" /\ inQ[e] # <<>>
    /\ LET f == Head(inQ[e])
       IN  IF f = Awaited(e) THEN Pass(e, f, f + 1, rounds[e])
                             ELSE Pass(e, seen[e], 0, rounds[e])
    /\ inQ' = [inQ EXCEPT ![e] = Tail(@)]
    /\ UNCHANGED hasty

\* ... or, there being none, the thread sleeps.
Sleep(e) ==
    /\ thread[e] = "wait" /\ inQ[e] = <<>>
    /\ thread' = [thread EXCEPT ![e] = "asleep"]
    /\ UNCHANGED <<seen, inQ, rounds, usedFp, outKey, inKey, ready, owner, network, hasty>>

\* Nothing is left to do before e's timer: no datagram is under way, both ends
\* sleep or have ended, and the peer's timer, started no later, is no round behind.
Quiet(e) ==
    /\ \A x \in End : net[x] = {} /\ thread[x] \in {"asleep", "ended"}
    /\ thread[Peer(e)] = "asleep" => rounds[e] <= rounds[Peer(e)]

\* Slip: wait instead of wait_for.
TimeOut_untimed(e) ==
    /\ thread[e] = "asleep" /\ inQ[e] # <<>>
    /\ Pass(e, seen[e], LastFlight(e), rounds[e] + 1)
    /\ hasty' = (hasty \/ ~Quiet(e))
    /\ UNCHANGED inQ

\* Slip: DTLSv1_handle_timeout is not called.
TimeOut_mute(e) ==
    /\ thread[e] = "asleep"
    /\ Pass(e, seen[e], 0, rounds[e] + 1)
    /\ hasty' = (hasty \/ ~Quiet(e))
    /\ UNCHANGED inQ

\* wait_for times out and DTLSv1_handle_timeout repeats the last flight.
TimeOut(e) ==
    /\ thread[e] = "asleep"
    /\ Pass(e, seen[e], LastFlight(e), rounds[e] + 1)
    /\ hasty' = (hasty \/ ~Quiet(e))
    /\ UNCHANGED inQ

\* Slip: any fingerprint will do.
Verified_unchecked(e) == usedFp[e] # NoFp

\* verifyPeerFingerprint: the certificate is the peer's.
Verified(e) == usedFp[e] = "peer"

\* deriveSrtpKeys: whose key each side encrypts with, and reads with.
OutKey(e) == e

InKey(e) == Peer(e)

\* After the loop: verify, derive the keys, publish them.  run() returns.
Finish(e) ==
    /\ thread[e] = "finish"
    /\ IF Finished(e) /\ Verified(e)
       THEN /\ outKey' = [outKey EXCEPT ![e] = OutKey(e)]
            /\ inKey' = [inKey EXCEPT ![e] = InKey(e)]
            /\ ready' = [ready EXCEPT ![e] = TRUE]
       ELSE UNCHANGED <<outKey, inKey, ready>>
    /\ thread' = [thread EXCEPT ![e] = "ended"]
    /\ UNCHANGED <<seen, inQ, rounds, usedFp, owner, network, hasty>>

RunStep(e) ==
    Begin(e) \/ TakeRecord(e) \/ Sleep(e) \/ TimeOut(e) \/ Finish(e)

-----------------------------------------------------------------------------
(* stop, called by the destructor: the flag is stored, then the thread is  *)
(* notified, without qmu_, then joined if there is one; then all is freed. *)

StopFlag(e) ==
    /\ owner[e] = "alive"
    /\ e \in Mortal
    /\ owner' = [owner EXCEPT ![e] = "flagged"]
    /\ UNCHANGED <<session, network, hasty>>

StopNotify(e) ==
    /\ owner[e] = "flagged"
    /\ owner' = [owner EXCEPT ![e] = "joining"]
    /\ thread' = [thread EXCEPT ![e] = IF @ = "asleep" THEN "finish" ELSE @]
    /\ UNCHANGED <<seen, inQ, rounds, usedFp, outKey, inKey, ready, network, hasty>>

StopJoin(e) ==
    /\ owner[e] = "joining"
    /\ thread[e] \in {"none", "ended"}
    /\ owner' = [owner EXCEPT ![e] = "freed"]
    /\ outKey' = [outKey EXCEPT ![e] = NoKey]
    /\ inKey' = [inKey EXCEPT ![e] = NoKey]
    /\ UNCHANGED <<thread, seen, inQ, rounds, usedFp, ready, network, hasty>>

StopStep(e) == StopNotify(e) \/ StopJoin(e)

-----------------------------------------------------------------------------
(* The network loses datagrams; it also delays and reorders them, as any   *)
(* may arrive next, and repeats them (see RtpTransport).                   *)
Lose(e, f) ==
    /\ f \in net[e] /\ faults < MaxFaults
    /\ net' = [net EXCEPT ![e] = @ \ {f}]
    /\ lastLost' = (lastLost \/ f = 4)
    /\ faults' = faults + 1
    /\ UNCHANGED <<session, owner, hasty>>

DtlsInit ==
    /\ thread = [e \in End |-> "none"]
    /\ seen = [e \in End |-> 0]
    /\ inQ = [e \in End |-> <<>>]
    /\ rounds = [e \in End |-> 0]
    /\ usedFp = [e \in End |-> NoFp]
    /\ outKey = [e \in End |-> NoKey]
    /\ inKey = [e \in End |-> NoKey]
    /\ ready = [e \in End |-> FALSE]
    /\ owner = [e \in End |-> "alive"]
    /\ net = [e \in End |-> {}]
    /\ lastLost = FALSE /\ faults = 0 /\ hasty = FALSE

DtlsTypeOK ==
    /\ thread \in [End -> Place]
    /\ seen \in [End -> 0 .. 4]
    /\ inQ \in [End -> Seq(Flight)]
    /\ rounds \in [End -> 0 .. Patience]
    /\ usedFp \in [End -> Fingerprint]
    /\ outKey \in [End -> End \cup {NoKey}] /\ inKey \in [End -> End \cup {NoKey}]
    /\ ready \in [End -> BOOLEAN]
    /\ owner \in [End -> {"alive", "flagged", "joining", "freed", "gone"}]
    /\ net \in [End -> SUBSET Flight]
    /\ lastLost \in BOOLEAN /\ faults \in 0 .. MaxFaults /\ hasty \in BOOLEAN
=============================================================================
