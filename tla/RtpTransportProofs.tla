------------------------- MODULE RtpTransportProofs -------------------------
(***************************************************************************)
(* The sessions of the two ends fit together, the start is not missed and  *)
(* no packet is heard before both ends are verified: for any deadline, any *)
(* number of reports, fingerprints and faults, and whoever is destroyed    *)
(* when.  The last theorem is about SignalingFormat.tla: a description     *)
(* that brings a fingerprint is taken apart as it was put together.        *)
(***************************************************************************)
EXTENDS RtpTransport, SignalingFormat, TLAPS, SequenceTheorems

Undestroyed == {"alive", "flagged", "joining"}

\* What run() has done by the point it is at.
ThreadInv ==
    \A e \in End :
        /\ thread[e] = "none" <=> ~started[e]
        /\ thread[e] \in {"none", "begin"} => seen[e] = 0
        /\ thread[e] \in {"wait", "asleep"} => rounds[e] < Patience

\* An end is ready at the end of run(), when the certificate was its peer's, and
\* has its keys until it is destroyed.
ReadyInv ==
    \A e \in End : ready[e] =>
        /\ thread[e] = "ended" /\ usedFp[e] = "peer"
        /\ owner[e] \in Undestroyed => outKey[e] = e /\ inKey[e] = Peer(e)

\* A flight that is under way, queued or taken was sent by a peer that had taken
\* the one before it.
FlightsWereSent ==
    \A e \in End :
        /\ seen[e] <= seen[Peer(e)] + 1
        /\ \A f \in net[e] : f <= seen[Peer(e)] + 1
        /\ \A i \in DOMAIN inQ[e] : inQ[e][i] <= seen[Peer(e)] + 1

\* Packets under way were sent by an end that was ready.
MediaInv == \A e \in End : media[e] # {} => ready[Peer(e)]

SessionInv == ThreadInv /\ ReadyInv /\ FlightsWereSent /\ NoSleepOverRecord

\* KeysAgree relates the two ends; it is inductive only with the flights that
\* are between them and with what each thread has done by the time.
IInv == TypeOK /\ SessionInv /\ MediaInv /\ MediaIsVerified /\ StartNotMissed

-----------------------------------------------------------------------------
LEMMA Ends ==
    ASSUME NEW e \in End
    PROVE  /\ Peer(e) \in End /\ Peer(e) # e /\ Peer(Peer(e)) = e
           /\ End = {e, Peer(e)}
BY DEF End, Peer

LEMMA CountsAreNat ==
    ASSUME NEW s \in [End -> 0 .. 4]
    PROVE  \A x \in End : s[x] \in Nat
OBVIOUS

LEMMA InitIInv == Init => IInv
<1>. SUFFICES ASSUME Init PROVE IInv
  OBVIOUS
<1>. USE DEF Init, DtlsInit
<1>1. DtlsTypeOK
  <2>1. /\ thread \in [End -> Place] /\ usedFp \in [End -> Fingerprint]
        /\ outKey \in [End -> End \cup {NoKey}] /\ inKey \in [End -> End \cup {NoKey}]
    BY DEF Place, Fingerprint
  <2>2. /\ seen \in [End -> 0 .. 4] /\ rounds \in [End -> 0 .. Patience]
        /\ faults \in 0 .. MaxFaults
    BY DtlsSrtpAssumption
  <2>3. inQ \in [End -> Seq(Flight)] /\ net \in [End -> SUBSET Flight]
    OBVIOUS
  <2>. QED
    BY <2>1, <2>2, <2>3 DEF DtlsTypeOK
<1>2. TypeOK
  <2>1. /\ iceConnected \in [End -> BOOLEAN] /\ started \in [End -> BOOLEAN]
        /\ heard \in [End -> BOOLEAN] /\ undefined \in BOOLEAN
    OBVIOUS
  <2>2. /\ remoteFp \in [End -> Fingerprint]
        /\ agent \in [End -> {"idle", "connected"}]
        /\ signaling \in [End -> {"idle", "told"}]
        /\ media \in [End -> SUBSET End]
    BY DEF Fingerprint
  <2>3. notices \in [End -> 0 .. MaxNotices] /\ tells \in [End -> 0 .. MaxTells]
    BY RtpTransportAssumption
  <2>. QED
    BY <1>1, <2>1, <2>2, <2>3 DEF TypeOK
<1>3. ThreadInv /\ ReadyInv /\ NoSleepOverRecord
  BY DEF ThreadInv, ReadyInv, NoSleepOverRecord
<1>4. FlightsWereSent
  BY Ends DEF FlightsWereSent
<1>5. MediaInv /\ MediaIsVerified /\ StartNotMissed
  BY DEF MediaInv, MediaIsVerified, StartNotMissed
<1>. QED
  BY <1>2, <1>3, <1>4, <1>5 DEF IInv, SessionInv

-----------------------------------------------------------------------------
(* The session: run() and stop().                                          *)

\* A pass takes no flight that was not sent, and sends none it may not.
LEMMA PassKeeps ==
    ASSUME DtlsTypeOK, FlightsWereSent, NEW e \in End,
           NEW now \in 0 .. 4, NEW flight \in Nat, NEW passed \in 0 .. Patience,
           Pass(e, now, flight, passed),
           seen[e] <= now, now <= seen[Peer(e)] + 1, flight <= now + 1,
           inQ' \in [End -> Seq(Flight)],
           \A x \in End : \A i \in DOMAIN inQ'[x] : inQ'[x][i] <= seen[Peer(x)] + 1
    PROVE  /\ FlightsWereSent'
           /\ seen' \in [End -> 0 .. 4] /\ net' \in [End -> SUBSET Flight]
           /\ thread' \in [End -> Place] /\ rounds' \in [End -> 0 .. Patience]
           /\ thread'[e] \in {"wait", "finish"}
           /\ thread'[e] = "wait" => passed < Patience
           /\ \A x \in End \ {e} : thread'[x] = thread[x] /\ rounds'[x] = rounds[x]
                                   /\ seen'[x] = seen[x]
           /\ rounds'[e] = passed
<1>. DEFINE running == Running(e, passed)
            new == {flight} \cap Flight
<1>1. /\ seen' = [seen EXCEPT ![e] = IF running THEN now ELSE @]
      /\ net' = [net EXCEPT ![Peer(e)] = IF running THEN @ \cup new ELSE @]
      /\ rounds' = [rounds EXCEPT ![e] = passed]
      /\ thread' = [thread EXCEPT ![e] =
                          IF running /\ now # Closing(e) THEN "wait" ELSE "finish"]
      /\ running => passed < Patience
  BY DEF Pass, Running
<1>. HIDE DEF running
<1>2. /\ seen' \in [End -> 0 .. 4] /\ net' \in [End -> SUBSET Flight]
      /\ thread' \in [End -> Place] /\ rounds' \in [End -> 0 .. Patience]
  BY <1>1 DEF DtlsTypeOK, Place
<1>3. \A x \in End : seen[x] \in Nat /\ seen'[x] \in Nat /\ seen[x] <= seen'[x]
  <2>1. \A x \in End : seen[x] \in Nat
    BY CountsAreNat DEF DtlsTypeOK
  <2>2. \A x \in End : seen'[x] \in Nat
    BY <1>2, CountsAreNat
  <2>3. \A x \in End : seen'[x] \in {seen[x]} \cup (IF x = e THEN {now} ELSE {})
    BY <1>1 DEF DtlsTypeOK
  <2>. QED
    BY <2>1, <2>2, <2>3
<1>4. \A x \in End : seen'[x] <= seen'[Peer(x)] + 1
  <2>. SUFFICES ASSUME NEW x \in End PROVE seen'[x] <= seen'[Peer(x)] + 1
    OBVIOUS
  <2>1. seen'[x] \in {seen[x]} \cup (IF x = e THEN {now} ELSE {})
    BY <1>1 DEF DtlsTypeOK
  <2>2. seen[x] <= seen[Peer(x)] + 1 /\ Peer(x) \in End
    BY Ends DEF FlightsWereSent
  <2>3. seen'[x] <= seen[Peer(x)] + 1
    BY <2>1, <2>2
  <2>4. seen[Peer(x)] <= seen'[Peer(x)] /\ seen[Peer(x)] \in Nat
    BY <1>3, <2>2
  <2>. QED
    BY <1>3, <2>2, <2>3, <2>4
<1>5. \A x \in End : \A f \in net'[x] : f \in Nat /\ f <= seen'[Peer(x)] + 1
  <2>. SUFFICES ASSUME NEW x \in End, NEW f \in net'[x]
                PROVE  f \in Nat /\ f <= seen'[Peer(x)] + 1
    OBVIOUS
  <2>1. f \in Flight /\ Peer(x) \in End
    BY <1>2, Ends
  <2>. f \in Nat
    BY <2>1 DEF Flight
  <2>2. CASE f \in net[x]
    BY <1>3, <2>1, <2>2 DEF FlightsWereSent
  <2>3. CASE f \notin net[x]
    <3>1. x = Peer(e) /\ running /\ f = flight
      BY <1>1, <2>3, Ends DEF DtlsTypeOK
    <3>2. Peer(x) = e /\ seen'[e] = now
      BY <1>1, <3>1, Ends DEF DtlsTypeOK
    <3>. QED
      BY <2>1, <3>1, <3>2
  <2>. QED
    BY <2>2, <2>3
<1>6. \A x \in End : \A i \in DOMAIN inQ'[x] : inQ'[x][i] <= seen'[Peer(x)] + 1
  <2>. SUFFICES ASSUME NEW x \in End, NEW i \in DOMAIN inQ'[x]
                PROVE  inQ'[x][i] <= seen'[Peer(x)] + 1
    OBVIOUS
  <2>1. inQ'[x][i] \in Nat
    BY DEF Flight
  <2>2. inQ'[x][i] <= seen[Peer(x)] + 1
    OBVIOUS
  <2>3. Peer(x) \in End
    BY Ends
  <2>. DEFINE f == inQ'[x][i]  old == seen[Peer(x)]  fresh == seen'[Peer(x)]
  <2>4. f \in Nat /\ old \in Nat /\ fresh \in Nat /\ old <= fresh /\ f <= old + 1
    BY <1>3, <2>1, <2>2, <2>3
  <2>. HIDE DEF f, old, fresh
  <2>5. f <= fresh + 1
    BY <2>4
  <2>. QED
    BY <2>5 DEF f, fresh
<1>. QED
  BY <1>1, <1>2, <1>4, <1>5, <1>6 DEF FlightsWereSent, DtlsTypeOK

\* What a session does not touch, and a link that stays as it is.
LEMMA LinkUnchanged ==
    ASSUME IInv, UNCHANGED link, UNCHANGED <<usedFp, ready>>,
           \A x \in End : owner'[x] = "alive" => owner[x] = "alive"
    PROVE  /\ DtlsTypeOK' => TypeOK'
           /\ MediaInv' /\ MediaIsVerified' /\ StartNotMissed'
BY DEF IInv, TypeOK, MediaInv, MediaIsVerified, StartNotMissed, link

\* A pass of the loop, from the return of the wait to the next wait.
LEMMA PassStep ==
    ASSUME IInv, NEW e \in End,
           NEW now \in 0 .. 4, NEW flight \in Nat, NEW passed \in 0 .. Patience,
           Pass(e, now, flight, passed), UNCHANGED link, hasty' \in BOOLEAN,
           thread[e] \in {"begin", "wait", "asleep"},
           seen[e] <= now, now <= seen[Peer(e)] + 1, flight <= now + 1,
           inQ' \in [End -> Seq(Flight)],
           \A x \in End \ {e} : inQ'[x] = inQ[x],
           \A i \in DOMAIN inQ'[e] : inQ'[e][i] <= seen[Peer(e)] + 1
    PROVE  IInv'
<1>. USE DEF IInv, SessionInv
<1>1. \A x \in End : \A i \in DOMAIN inQ'[x] : inQ'[x][i] <= seen[Peer(x)] + 1
  BY DEF FlightsWereSent
<1>2. DtlsTypeOK
  BY DEF TypeOK
<1>3. /\ FlightsWereSent'
      /\ seen' \in [End -> 0 .. 4] /\ net' \in [End -> SUBSET Flight]
      /\ thread' \in [End -> Place] /\ rounds' \in [End -> 0 .. Patience]
      /\ thread'[e] \in {"wait", "finish"}
      /\ thread'[e] = "wait" => passed < Patience
      /\ \A x \in End \ {e} : thread'[x] = thread[x] /\ rounds'[x] = rounds[x]
                              /\ seen'[x] = seen[x]
      /\ rounds'[e] = passed
  BY <1>1, <1>2, PassKeeps
<1>4. UNCHANGED <<usedFp, outKey, inKey, ready, owner, lastLost, faults, started>>
  BY DEF Pass, link
<1>5. DtlsTypeOK'
  BY <1>2, <1>3, <1>4 DEF DtlsTypeOK
<1>6. ThreadInv'
  BY <1>3, <1>4 DEF ThreadInv
<1>7. ReadyInv'
  <2>1. ~ready[e]
    BY DEF ReadyInv
  <2>. QED
    BY <1>3, <1>4, <2>1 DEF ReadyInv
<1>8. NoSleepOverRecord'
  BY <1>3 DEF NoSleepOverRecord
<1>9. TypeOK' /\ MediaInv' /\ MediaIsVerified' /\ StartNotMissed'
  BY <1>4, <1>5, LinkUnchanged
<1>. QED
  BY <1>3, <1>6, <1>7, <1>8, <1>9

LEMMA LastFlightMaySend ==
    ASSUME NEW e \in End, seen[e] \in 0 .. 4
    PROVE  LastFlight(e) \in Nat /\ LastFlight(e) <= seen[e] + 1
BY DEF LastFlight, Opening

LEMMA BeginStep ==
    ASSUME IInv, NEW e \in End, Begin(e), UNCHANGED link
    PROVE  IInv'
<1>1. seen[e] = 0 /\ seen[Peer(e)] \in 0 .. 4 /\ inQ' = inQ /\ hasty' = hasty
  BY Ends DEF Begin, IInv, SessionInv, ThreadInv, TypeOK, DtlsTypeOK
<1>2. LastFlight(e) \in Nat /\ LastFlight(e) <= 0 + 1
  BY <1>1, LastFlightMaySend
<1>3. 0 \in 0 .. Patience /\ 0 <= seen[Peer(e)] + 1
  BY <1>1, DtlsSrtpAssumption
<1>4. inQ' \in [End -> Seq(Flight)] /\ hasty' \in BOOLEAN
  BY <1>1 DEF IInv, TypeOK, DtlsTypeOK
<1>5. \A i \in DOMAIN inQ'[e] : inQ'[e][i] <= seen[Peer(e)] + 1
  BY <1>1 DEF IInv, SessionInv, FlightsWereSent
<1>. QED
  BY <1>1, <1>2, <1>3, <1>4, <1>5, PassStep DEF Begin

LEMMA TimeOutStep ==
    ASSUME IInv, NEW e \in End, TimeOut(e), UNCHANGED link
    PROVE  IInv'
<1>1. /\ seen[e] \in 0 .. 4 /\ inQ' = inQ
      /\ seen[e] <= seen[Peer(e)] + 1
  BY DEF TimeOut, IInv, SessionInv, FlightsWereSent, TypeOK, DtlsTypeOK
<1>2. LastFlight(e) \in Nat /\ LastFlight(e) <= seen[e] + 1
  BY <1>1, LastFlightMaySend
<1>3. rounds[e] + 1 \in 0 .. Patience
  <2>1. rounds[e] < Patience /\ rounds[e] \in 0 .. Patience
    BY DEF TimeOut, IInv, SessionInv, ThreadInv, TypeOK, DtlsTypeOK
  <2>. QED
    BY <2>1, DtlsSrtpAssumption
<1>4. inQ' \in [End -> Seq(Flight)] /\ hasty' \in BOOLEAN
  BY <1>1 DEF IInv, TypeOK, DtlsTypeOK, TimeOut
<1>5. \A i \in DOMAIN inQ'[e] : inQ'[e][i] <= seen[Peer(e)] + 1
  BY <1>1 DEF IInv, SessionInv, FlightsWereSent
<1>. QED
  BY <1>1, <1>2, <1>3, <1>4, <1>5, PassStep DEF TimeOut

LEMMA TakeRecordStep ==
    ASSUME IInv, NEW e \in End, TakeRecord(e), UNCHANGED link
    PROVE  IInv'
<1>. DEFINE f == Head(inQ[e])
<1>1. /\ seen[e] \in 0 .. 4 /\ seen[Peer(e)] \in 0 .. 4 /\ inQ \in [End -> Seq(Flight)]
      /\ inQ[e] # <<>> /\ hasty' = hasty /\ hasty \in BOOLEAN
      /\ seen[e] <= seen[Peer(e)] + 1 /\ rounds[e] \in 0 .. Patience
  BY Ends DEF TakeRecord, IInv, SessionInv, FlightsWereSent, TypeOK, DtlsTypeOK
<1>2. inQ' = [inQ EXCEPT ![e] = Tail(@)]
  BY DEF TakeRecord
<1>3. \A i \in DOMAIN inQ[e] : inQ[e][i] <= seen[Peer(e)] + 1
  BY DEF IInv, SessionInv, FlightsWereSent
<1>4. f \in Flight /\ f <= seen[Peer(e)] + 1
  <2>1. inQ[e] \in Seq(Flight) /\ 1 \in DOMAIN inQ[e] /\ f = inQ[e][1]
    BY <1>1
  <2>. QED
    BY <1>3, <2>1
<1>5. /\ inQ' \in [End -> Seq(Flight)]
      /\ \A x \in End \ {e} : inQ'[x] = inQ[x]
      /\ \A i \in DOMAIN inQ'[e] : inQ'[e][i] <= seen[Peer(e)] + 1
  <2>. DEFINE q == inQ[e]
  <2>1. q \in Seq(Flight) /\ q # <<>> /\ inQ'[e] = Tail(q)
    BY <1>1, <1>2
  <2>2. /\ Tail(q) \in Seq(Flight)
        /\ \A i \in DOMAIN Tail(q) : i + 1 \in DOMAIN q /\ Tail(q)[i] = q[i + 1]
    BY <2>1
  <2>. QED
    BY <1>1, <1>2, <1>3, <2>1, <2>2
<1>6. CASE f = Awaited(e)
  <2>1. Pass(e, f, f + 1, rounds[e])
    BY <1>6 DEF TakeRecord
  <2>2. f \in 0 .. 4 /\ f + 1 \in Nat /\ seen[e] <= f
    BY <1>1, <1>4, <1>6 DEF Flight, Awaited, Opening
  <2>3. thread[e] \in {"begin", "wait", "asleep"}
    BY DEF TakeRecord
  <2>. HIDE DEF f
  <2>4. f + 1 <= f + 1
    BY <2>2
  <2>. QED
    BY <1>1, <1>4, <1>5, <2>1, <2>2, <2>3, <2>4, PassStep
<1>7. CASE f # Awaited(e)
  <2>1. Pass(e, seen[e], 0, rounds[e])
    BY <1>7 DEF TakeRecord
  <2>2. 0 <= seen[e] + 1 /\ seen[e] <= seen[e]
    BY <1>1
  <2>3. thread[e] \in {"begin", "wait", "asleep"}
    BY DEF TakeRecord
  <2>. QED
    BY <1>1, <1>5, <2>1, <2>2, <2>3, PassStep
<1>. QED
  BY <1>6, <1>7

LEMMA SleepStep ==
    ASSUME IInv, NEW e \in End, Sleep(e), UNCHANGED link
    PROVE  IInv'
<1>1. TypeOK' /\ MediaInv' /\ MediaIsVerified' /\ StartNotMissed'
  BY LinkUnchanged DEF Sleep, IInv, TypeOK, DtlsTypeOK, Place, network
<1>2. ThreadInv' /\ ReadyInv' /\ NoSleepOverRecord'
  BY DEF Sleep, IInv, SessionInv, TypeOK, DtlsTypeOK, ThreadInv, ReadyInv, NoSleepOverRecord,
     network, link
<1>3. FlightsWereSent'
  BY DEF Sleep, IInv, SessionInv, FlightsWereSent, network
<1>. QED
  BY <1>1, <1>2, <1>3 DEF IInv, SessionInv

LEMMA FinishStep ==
    ASSUME IInv, NEW e \in End, Finish(e), UNCHANGED link
    PROVE  IInv'
<1>. USE DEF IInv, SessionInv
<1>1. /\ thread[e] = "finish" /\ thread' = [thread EXCEPT ![e] = "ended"]
      /\ UNCHANGED <<seen, inQ, rounds, usedFp, owner, net, lastLost, faults, hasty, started>>
  BY DEF Finish, network, link
<1>2. \/ UNCHANGED <<outKey, inKey, ready>>
      \/ /\ usedFp[e] = "peer"
         /\ outKey' = [outKey EXCEPT ![e] = e]
         /\ inKey' = [inKey EXCEPT ![e] = Peer(e)]
         /\ ready' = [ready EXCEPT ![e] = TRUE]
  BY DEF Finish, Verified, OutKey, InKey
<1>3. \A x \in End : ready[x] => ready'[x]
  BY <1>2 DEF TypeOK, DtlsTypeOK
<1>4. TypeOK'
  <2>1. Peer(e) \in End
    BY Ends
  <2>2. /\ outKey' \in [End -> End \cup {NoKey}] /\ inKey' \in [End -> End \cup {NoKey}]
        /\ ready' \in [End -> BOOLEAN]
    <3>1. CASE UNCHANGED <<outKey, inKey, ready>>
      BY <3>1 DEF TypeOK, DtlsTypeOK
    <3>2. CASE /\ outKey' = [outKey EXCEPT ![e] = e]
               /\ inKey' = [inKey EXCEPT ![e] = Peer(e)]
               /\ ready' = [ready EXCEPT ![e] = TRUE]
      BY <2>1, <3>2 DEF TypeOK, DtlsTypeOK
    <3>. QED
      BY <1>2, <3>1, <3>2
  <2>3. thread' \in [End -> Place]
    BY <1>1 DEF TypeOK, DtlsTypeOK, Place
  <2>4. DtlsTypeOK'
    BY <1>1, <2>2, <2>3 DEF TypeOK, DtlsTypeOK
  <2>. QED
    BY <2>4 DEF TypeOK, link
<1>5. ThreadInv' /\ NoSleepOverRecord'
  BY <1>1 DEF TypeOK, DtlsTypeOK, ThreadInv, NoSleepOverRecord
<1>6. ReadyInv'
  BY <1>1, <1>2 DEF TypeOK, DtlsTypeOK, ReadyInv
<1>7. FlightsWereSent'
  BY <1>1 DEF FlightsWereSent
<1>8. MediaInv' /\ MediaIsVerified' /\ StartNotMissed'
  BY <1>1, <1>3, Ends DEF link, MediaInv, MediaIsVerified, StartNotMissed
<1>. QED
  BY <1>4, <1>5, <1>6, <1>7, <1>8

LEMMA StopStepStep ==
    ASSUME IInv, NEW e \in End, StopStep(e), UNCHANGED link
    PROVE  IInv'
<1>. USE DEF IInv, SessionInv
<1>1. /\ UNCHANGED <<seen, inQ, rounds, usedFp, ready, net, lastLost, faults, hasty, started>>
      /\ \/ /\ owner[e] = "flagged" /\ owner' = [owner EXCEPT ![e] = "joining"]
            /\ thread' = [thread EXCEPT ![e] = IF @ = "asleep" THEN "finish" ELSE @]
            /\ UNCHANGED <<outKey, inKey>>
         \/ /\ owner[e] = "joining" /\ owner' = [owner EXCEPT ![e] = "freed"]
            /\ outKey' = [outKey EXCEPT ![e] = NoKey]
            /\ inKey' = [inKey EXCEPT ![e] = NoKey]
            /\ UNCHANGED thread
  BY DEF StopStep, StopNotify, StopJoin, network, link
<1>2. DtlsTypeOK'
  <2>0. /\ owner \in [End -> {"alive", "flagged", "joining", "freed", "gone"}]
        /\ thread \in [End -> Place]
    BY DEF TypeOK, DtlsTypeOK
  <2>a. \E next \in {"joining", "freed"} : owner' = [owner EXCEPT ![e] = next]
    BY <1>1
  <2>b. \E next \in {thread[e], "finish"} : thread' = [thread EXCEPT ![e] = next]
    BY <1>1, <2>0
  <2>1. owner' \in [End -> {"alive", "flagged", "joining", "freed", "gone"}]
    BY <2>0, <2>a
  <2>2. thread' \in [End -> Place]
    BY <2>0, <2>b DEF Place
  <2>3. outKey' \in [End -> End \cup {NoKey}] /\ inKey' \in [End -> End \cup {NoKey}]
    BY <1>1 DEF TypeOK, DtlsTypeOK
  <2>. QED
    BY <1>1, <2>1, <2>2, <2>3 DEF TypeOK, DtlsTypeOK
<1>3. \A x \in End : owner'[x] = "alive" => owner[x] = "alive"
  BY <1>1 DEF TypeOK, DtlsTypeOK
<1>4. TypeOK' /\ MediaInv' /\ MediaIsVerified' /\ StartNotMissed'
  BY <1>1, <1>2, <1>3, LinkUnchanged
<1>5. ThreadInv' /\ NoSleepOverRecord'
  BY <1>1 DEF ThreadInv, NoSleepOverRecord, TypeOK, DtlsTypeOK
<1>6. ReadyInv'
  <2>. SUFFICES ASSUME NEW x \in End, ready'[x]
                PROVE  /\ thread'[x] = "ended" /\ usedFp'[x] = "peer"
                       /\ owner'[x] \in Undestroyed => outKey'[x] = x /\ inKey'[x] = Peer(x)
    BY DEF ReadyInv
  <2>1. /\ thread[x] = "ended" /\ usedFp[x] = "peer"
        /\ owner[x] \in Undestroyed => outKey[x] = x /\ inKey[x] = Peer(x)
    BY <1>1 DEF ReadyInv
  <2>2. thread'[x] = "ended"
    BY <1>1, <2>1 DEF TypeOK, DtlsTypeOK
  <2>3. ASSUME owner'[x] \in Undestroyed
        PROVE  owner[x] \in Undestroyed /\ outKey'[x] = outKey[x] /\ inKey'[x] = inKey[x]
    <3>1. CASE owner[e] = "flagged" /\ UNCHANGED <<outKey, inKey>>
      BY <1>1, <2>3, <3>1 DEF TypeOK, DtlsTypeOK, Undestroyed
    <3>2. CASE /\ owner' = [owner EXCEPT ![e] = "freed"]
               /\ outKey' = [outKey EXCEPT ![e] = NoKey]
               /\ inKey' = [inKey EXCEPT ![e] = NoKey]
      BY <2>3, <3>2 DEF TypeOK, DtlsTypeOK, Undestroyed
    <3>. QED
      BY <1>1, <3>1, <3>2
  <2>. QED
    BY <1>1, <2>1, <2>2, <2>3
<1>7. FlightsWereSent'
  BY <1>1 DEF FlightsWereSent
<1>. QED
  BY <1>4, <1>5, <1>6, <1>7

-----------------------------------------------------------------------------
(* The agent, the signaling thread, the media threads and the network.     *)

\* The session is in the same state, and no end is brought back to life.
LEMMA SessionUnchanged ==
    ASSUME IInv, UNCHANGED <<session, started>>,
           owner' \in [End -> {"alive", "flagged", "joining", "freed", "gone"}],
           \A x \in End : owner'[x] \in Undestroyed => owner[x] \in Undestroyed,
           \A x \in End : net'[x] \subseteq net[x],
           net' \in [End -> SUBSET Flight],
           lastLost' \in BOOLEAN, faults' \in 0 .. MaxFaults, hasty' \in BOOLEAN
    PROVE  DtlsTypeOK' /\ SessionInv'
<1>. USE DEF IInv, SessionInv
<1>1. DtlsTypeOK'
  BY DEF session, TypeOK, DtlsTypeOK
<1>2. ThreadInv' /\ NoSleepOverRecord' /\ ReadyInv'
  BY DEF session, ThreadInv, NoSleepOverRecord, ReadyInv
<1>3. FlightsWereSent'
  BY DEF session, FlightsWereSent
<1>. QED
  BY <1>1, <1>2, <1>3

LEMMA StartStep ==
    ASSUME IInv, NEW e \in End, maybeStartHandshake(e),
           UNCHANGED <<owner, network, hasty, iceConnected, remoteFp, notices, tells, media, heard>>
    PROVE  /\ DtlsTypeOK' /\ SessionInv' /\ MediaInv' /\ MediaIsVerified'
           /\ started' \in [End -> BOOLEAN] /\ undefined' \in BOOLEAN
           /\ \A x \in End : started[x] => started'[x]
           /\ undefined => undefined'
           /\ iceConnected[e] /\ remoteFp[e] # NoFp =>
                  started'[e] \/ owner[e] # "alive" \/ undefined'
<1>. USE DEF IInv, SessionInv
<1>1. CASE UNCHANGED <<session, started>>
  <2>1. DtlsTypeOK' /\ SessionInv'
    BY <1>1, SessionUnchanged DEF network, TypeOK, DtlsTypeOK
  <2>2. MediaInv' /\ MediaIsVerified'
    BY <1>1 DEF session, MediaInv, MediaIsVerified
  <2>. QED
    BY <1>1, <2>1, <2>2 DEF maybeStartHandshake, MayStart, TypeOK
<1>2. CASE MayStart(e) /\ owner[e] = "alive"
  <2>1. /\ ~started[e] /\ started' = [started EXCEPT ![e] = TRUE]
        /\ thread' = [thread EXCEPT ![e] = "begin"]
        /\ usedFp' = [usedFp EXCEPT ![e] = remoteFp[e]]
        /\ UNCHANGED <<seen, inQ, rounds, outKey, inKey, ready, undefined>>
        /\ UNCHANGED <<owner, net, lastLost, faults, hasty, media, heard>>
    BY <1>2 DEF maybeStartHandshake, MayStart, start, network
  <2>2. thread[e] = "none" /\ ~ready[e]
    BY <2>1 DEF ThreadInv, ReadyInv
  <2>3. DtlsTypeOK' /\ started' \in [End -> BOOLEAN]
    <3>1. thread' \in [End -> Place] /\ usedFp' \in [End -> Fingerprint]
      BY <2>1 DEF TypeOK, DtlsTypeOK, Place
    <3>. QED
      BY <2>1, <3>1 DEF TypeOK, DtlsTypeOK
  <2>4. ThreadInv' /\ NoSleepOverRecord'
    BY <2>1, <2>2 DEF ThreadInv, NoSleepOverRecord, TypeOK, DtlsTypeOK
  <2>5. ReadyInv'
    BY <2>1, <2>2 DEF ReadyInv, TypeOK, DtlsTypeOK
  <2>6. FlightsWereSent' /\ MediaInv'
    BY <2>1 DEF FlightsWereSent, MediaInv
  <2>7. MediaIsVerified'
    <3>. SUFFICES ASSUME NEW x \in End, heard'[x]
                  PROVE  ready'[x] /\ ready'[Peer(x)] /\ usedFp'[Peer(x)] = "peer"
      BY DEF MediaIsVerified
    <3>1. ready[x] /\ ready[Peer(x)] /\ usedFp[Peer(x)] = "peer" /\ Peer(x) \in End
      BY <2>1, Ends DEF MediaIsVerified
    <3>. QED
      BY <2>1, <2>2, <3>1 DEF TypeOK, DtlsTypeOK
  <2>. QED
    BY <2>1, <2>3, <2>4, <2>5, <2>6, <2>7 DEF TypeOK
<1>. QED
  BY <1>1, <1>2 DEF maybeStartHandshake

LEMMA StartWhenToldStep ==
    ASSUME IInv, NEW e \in End, StartWhenTold(e)
    PROVE  IInv'
<1>1. /\ maybeStartHandshake(e) /\ signaling' = [signaling EXCEPT ![e] = "idle"]
      /\ UNCHANGED <<owner, network, hasty, iceConnected, remoteFp, agent, notices, tells,
                     media, heard>>
  BY DEF StartWhenTold
<1>2. /\ DtlsTypeOK' /\ SessionInv' /\ MediaInv' /\ MediaIsVerified'
      /\ started' \in [End -> BOOLEAN] /\ undefined' \in BOOLEAN
      /\ \A x \in End : started[x] => started'[x]
      /\ undefined => undefined'
      /\ iceConnected[e] /\ remoteFp[e] # NoFp =>
             started'[e] \/ owner[e] # "alive" \/ undefined'
  BY <1>1, StartStep
<1>3. TypeOK'
  BY <1>1, <1>2 DEF IInv, TypeOK
<1>4. StartNotMissed'
  BY <1>1, <1>2 DEF IInv, TypeOK, StartNotMissed
<1>. QED
  BY <1>2, <1>3, <1>4 DEF IInv

LEMMA StartWhenConnectedStep ==
    ASSUME IInv, NEW e \in End, StartWhenConnected(e)
    PROVE  IInv'
<1>1. /\ maybeStartHandshake(e) /\ agent' = [agent EXCEPT ![e] = "idle"]
      /\ UNCHANGED <<owner, network, hasty, iceConnected, remoteFp, signaling, notices, tells,
                     media, heard>>
  BY DEF StartWhenConnected
<1>2. /\ DtlsTypeOK' /\ SessionInv' /\ MediaInv' /\ MediaIsVerified'
      /\ started' \in [End -> BOOLEAN] /\ undefined' \in BOOLEAN
      /\ \A x \in End : started[x] => started'[x]
      /\ undefined => undefined'
      /\ iceConnected[e] /\ remoteFp[e] # NoFp =>
             started'[e] \/ owner[e] # "alive" \/ undefined'
  BY <1>1, StartStep
<1>3. TypeOK'
  BY <1>1, <1>2 DEF IInv, TypeOK
<1>4. StartNotMissed'
  BY <1>1, <1>2 DEF IInv, TypeOK, StartNotMissed
<1>. QED
  BY <1>2, <1>3, <1>4 DEF IInv

LEMMA SetFingerprintStep ==
    ASSUME IInv, NEW e \in End, NEW fp \in Told[e], setRemoteFingerprint(e, fp)
    PROVE  IInv'
<1>. USE DEF IInv
<1>1. fp \in Fingerprint
  BY RtpTransportAssumption
<1>2. tells[e] + 1 \in 0 .. MaxTells
  BY RtpTransportAssumption DEF setRemoteFingerprint, TypeOK
<1>3. DtlsTypeOK' /\ SessionInv'
  BY SessionUnchanged DEF setRemoteFingerprint, dtls, network, TypeOK, DtlsTypeOK
<1>4. TypeOK'
  BY <1>1, <1>2, <1>3 DEF setRemoteFingerprint, TypeOK
<1>5. MediaInv' /\ MediaIsVerified'
  BY DEF setRemoteFingerprint, dtls, session, MediaInv, MediaIsVerified
<1>6. StartNotMissed'
  BY DEF setRemoteFingerprint, dtls, TypeOK, StartNotMissed
<1>. QED
  BY <1>3, <1>4, <1>5, <1>6

LEMMA OnConnectedStep ==
    ASSUME IInv, NEW e \in End, OnConnected(e)
    PROVE  IInv'
<1>. USE DEF IInv
<1>1. notices[e] + 1 \in 0 .. MaxNotices
  BY RtpTransportAssumption DEF OnConnected, TypeOK
<1>2. DtlsTypeOK' /\ SessionInv'
  BY SessionUnchanged DEF OnConnected, dtls, network, TypeOK, DtlsTypeOK
<1>3. TypeOK'
  BY <1>1, <1>2 DEF OnConnected, TypeOK
<1>4. MediaInv' /\ MediaIsVerified'
  BY DEF OnConnected, dtls, session, MediaInv, MediaIsVerified
<1>5. StartNotMissed'
  BY DEF OnConnected, dtls, TypeOK, StartNotMissed
<1>. QED
  BY <1>2, <1>3, <1>4, <1>5

LEMMA OnRecordStep ==
    ASSUME IInv, NEW e \in End, NEW f \in Flight, OnRecord(e, f)
    PROVE  IInv'
<1>. USE DEF IInv, SessionInv
<1>1. /\ f \in net[e]
      /\ inQ' = [inQ EXCEPT ![e] = Append(@, f)]
      /\ thread' = [thread EXCEPT ![e] = IF @ = "asleep" THEN "wait" ELSE @]
      /\ UNCHANGED <<seen, rounds, usedFp, outKey, inKey, ready, owner, lastLost, hasty>>
      /\ UNCHANGED link
      /\ net' \in [End -> SUBSET Flight] /\ \A x \in End : net'[x] \subseteq net[x]
      /\ faults' \in 0 .. MaxFaults
  <2>1. CASE net' = [net EXCEPT ![e] = @ \ {f}] /\ UNCHANGED faults
    BY <2>1 DEF OnRecord, feedDtls, TypeOK, DtlsTypeOK
  <2>2. CASE faults < MaxFaults /\ faults' = faults + 1 /\ UNCHANGED net
    <3>1. faults + 1 \in 0 .. MaxFaults
      BY <2>2, DtlsSrtpAssumption DEF TypeOK, DtlsTypeOK
    <3>. QED
      BY <2>2, <3>1 DEF OnRecord, feedDtls, TypeOK, DtlsTypeOK
  <2>. QED
    BY <2>1, <2>2 DEF OnRecord
<1>2. /\ inQ' \in [End -> Seq(Flight)]
      /\ \A x \in End \ {e} : inQ'[x] = inQ[x]
      /\ \A i \in DOMAIN inQ'[e] : inQ'[e][i] <= seen[Peer(e)] + 1
  <2>. DEFINE q == inQ[e]
  <2>1. q \in Seq(Flight) /\ inQ'[e] = Append(q, f) /\ f <= seen[Peer(e)] + 1
    BY <1>1 DEF TypeOK, DtlsTypeOK, FlightsWereSent
  <2>2. /\ Append(q, f) \in Seq(Flight)
        /\ \A i \in DOMAIN Append(q, f) : \/ (i \in DOMAIN q /\ Append(q, f)[i] = q[i])
                                          \/ Append(q, f)[i] = f
    BY <2>1
  <2>. QED
    BY <1>1, <2>1, <2>2 DEF TypeOK, DtlsTypeOK, FlightsWereSent
<1>3. DtlsTypeOK'
  <2>1. thread' \in [End -> Place]
    BY <1>1 DEF TypeOK, DtlsTypeOK, Place
  <2>. QED
    BY <1>1, <1>2, <2>1 DEF TypeOK, DtlsTypeOK
<1>4. TypeOK' /\ MediaInv' /\ MediaIsVerified' /\ StartNotMissed'
  BY <1>1, <1>3, LinkUnchanged
<1>5. ThreadInv' /\ ReadyInv'
  BY <1>1 DEF TypeOK, DtlsTypeOK, ThreadInv, ReadyInv, link
<1>6. NoSleepOverRecord'
  BY <1>1, <1>2 DEF TypeOK, DtlsTypeOK, NoSleepOverRecord
<1>7. FlightsWereSent'
  BY <1>1, <1>2 DEF FlightsWereSent
<1>. QED
  BY <1>4, <1>5, <1>6, <1>7

LEMMA OnMediaStep ==
    ASSUME IInv, NEW e \in End, NEW k \in End, OnMedia(e, k)
    PROVE  IInv'
<1>. USE DEF IInv, SessionInv
<1>1. DtlsTypeOK' /\ SessionInv'
  BY SessionUnchanged DEF OnMedia, dtls, network, TypeOK, DtlsTypeOK
<1>2. TypeOK'
  BY <1>1 DEF OnMedia, TypeOK, Decrypts
<1>3. MediaInv'
  BY DEF OnMedia, dtls, session, TypeOK, MediaInv
<1>4. MediaIsVerified'
  <2>. SUFFICES ASSUME NEW x \in End, heard'[x]
                PROVE  ready[x] /\ ready[Peer(x)] /\ usedFp[Peer(x)] = "peer"
    BY DEF OnMedia, dtls, session, MediaIsVerified
  <2>1. CASE heard[x]
    BY <2>1 DEF MediaIsVerified
  <2>2. CASE ~heard[x]
    <3>1. x = e /\ ready[e] /\ media[e] # {}
      BY <2>2 DEF OnMedia, Decrypts, TypeOK
    <3>2. ready[Peer(e)] /\ Peer(e) \in End
      BY <3>1, Ends DEF MediaInv
    <3>. QED
      BY <3>1, <3>2 DEF ReadyInv
  <2>. QED
    BY <2>1, <2>2
<1>5. StartNotMissed'
  BY DEF OnMedia, dtls, StartNotMissed
<1>. QED
  BY <1>1, <1>2, <1>3, <1>4, <1>5

LEMMA SendStep ==
    ASSUME IInv, NEW e \in End, send(e)
    PROVE  IInv'
<1>. USE DEF IInv, SessionInv
<1>1. DtlsTypeOK' /\ SessionInv'
  BY SessionUnchanged DEF send, dtls, network, TypeOK, DtlsTypeOK
<1>2. Peer(e) \in End /\ Peer(Peer(e)) = e /\ outKey[e] = e /\ ready[e]
  BY Ends DEF send, ReadyInv, Undestroyed
<1>3. TypeOK'
  BY <1>1, <1>2 DEF send, TypeOK
<1>4. MediaInv'
  BY <1>2, Ends DEF send, dtls, session, TypeOK, MediaInv
<1>5. MediaIsVerified' /\ StartNotMissed'
  BY DEF send, dtls, session, MediaIsVerified, StartNotMissed
<1>. QED
  BY <1>1, <1>3, <1>4, <1>5

\* The destructor's own steps, datagrams that are lost, and callbacks too late.
LEMMA RestStep ==
    ASSUME IInv, NEW e \in End, NEW f \in Flight,
           \/ Drop(e) \/ LateCallback(e) \/ BeginDestroy(e) \/ DestroyAgent(e) \/ Fault(e, f)
    PROVE  IInv'
<1>. USE DEF IInv
<1>1. /\ UNCHANGED <<session, iceConnected, remoteFp, started, agent, signaling, notices, tells,
                     heard>>
      /\ undefined' \in BOOLEAN /\ (undefined => undefined')
      /\ media' \in [End -> SUBSET End] /\ \A x \in End : media'[x] \subseteq media[x]
      /\ net' \in [End -> SUBSET Flight] /\ \A x \in End : net'[x] \subseteq net[x]
      /\ owner' \in [End -> {"alive", "flagged", "joining", "freed", "gone"}]
      /\ \A x \in End : owner'[x] \in Undestroyed => owner[x] \in Undestroyed
      /\ \A x \in End : owner'[x] = "alive" => owner[x] = "alive"
      /\ lastLost' \in BOOLEAN /\ faults' \in 0 .. MaxFaults /\ hasty' \in BOOLEAN
  <2>1. CASE Drop(e)
    BY <2>1 DEF Drop, TypeOK, DtlsTypeOK, Undestroyed
  <2>2. CASE LateCallback(e)
    BY <2>2 DEF LateCallback, dtls, network, TypeOK, DtlsTypeOK
  <2>3. CASE BeginDestroy(e)
    BY <2>3 DEF BeginDestroy, StopFlag, link, network, TypeOK, DtlsTypeOK, Undestroyed
  <2>4. CASE DestroyAgent(e)
    BY <2>4 DEF DestroyAgent, link, network, TypeOK, DtlsTypeOK, Undestroyed
  <2>5. CASE Fault(e, f)
    <3>1. faults + 1 \in 0 .. MaxFaults
      BY <2>5, DtlsSrtpAssumption DEF Fault, Lose, TypeOK, DtlsTypeOK
    <3>. QED
      BY <2>5, <3>1 DEF Fault, Lose, link, TypeOK, DtlsTypeOK, Undestroyed
  <2>. QED
    BY <2>1, <2>2, <2>3, <2>4, <2>5
<1>2. DtlsTypeOK' /\ SessionInv'
  BY <1>1, SessionUnchanged
<1>3. TypeOK'
  BY <1>1, <1>2 DEF TypeOK
<1>4. MediaInv' /\ MediaIsVerified'
  BY <1>1 DEF session, MediaInv, MediaIsVerified
<1>5. StartNotMissed'
  BY <1>1 DEF StartNotMissed
<1>. QED
  BY <1>2, <1>3, <1>4, <1>5

LEMMA StepIInv == IInv /\ [Next]_vars => IInv'
<1>. SUFFICES ASSUME IInv, [Next]_vars PROVE IInv'
  OBVIOUS
<1>1. ASSUME NEW e \in End, Session(e) PROVE IInv'
  BY <1>1, BeginStep, TakeRecordStep, SleepStep, TimeOutStep, FinishStep, StopStepStep
     DEF Session, RunStep
<1>2. CASE UNCHANGED vars
  BY <1>2 DEF vars, dtls, session, network, IInv, SessionInv, TypeOK, DtlsTypeOK, ThreadInv,
     ReadyInv, FlightsWereSent, NoSleepOverRecord, MediaInv, MediaIsVerified, StartNotMissed
<1>3. 1 \in Flight
  BY DEF Flight
<1>. QED
  BY <1>1, <1>2, <1>3, SetFingerprintStep, StartWhenToldStep, OnConnectedStep,
     StartWhenConnectedStep, OnRecordStep, OnMediaStep, SendStep, RestStep DEF Next

LEMMA AlwaysIInv == Spec => []IInv
BY InitIInv, StepIInv, PTL DEF Spec

-----------------------------------------------------------------------------
\* An end that is ready has the keys of a handshake in which its peer, verified,
\* took part to the end; the two read what the other writes; and the handshake
\* thread never sleeps over a record (DtlsSrtp.cpp:136, :155).
THEOREM LinkIsSound == Spec => []LinkInv
<1>1. IInv => LinkInv
  <2>. SUFFICES ASSUME IInv PROVE KeysAgree
    BY DEF IInv, SessionInv, LinkInv
  <2>. SUFFICES ASSUME NEW e \in End, ready[e]
                PROVE  /\ usedFp[e] = "peer"
                       /\ seen[Peer(e)] >= seen[e] - 1
                       /\ (owner[e] \in Undestroyed /\ ready[Peer(e)]
                              /\ owner[Peer(e)] \in Undestroyed)
                             => inKey[e] = outKey[Peer(e)]
    BY DEF KeysAgree, Undestroyed
  <2>1. seen[Peer(e)] \in Nat /\ seen[e] \in Nat /\ Peer(e) \in End
    BY CountsAreNat, Ends DEF IInv, TypeOK, DtlsTypeOK
  <2>2. seen[e] <= seen[Peer(e)] + 1
    BY DEF IInv, SessionInv, FlightsWereSent
  <2>3. seen[Peer(e)] >= seen[e] - 1
    BY <2>1, <2>2
  <2>4. \A x \in End : ready[x] =>
           /\ usedFp[x] = "peer"
           /\ owner[x] \in Undestroyed => outKey[x] = x /\ inKey[x] = Peer(x)
    BY DEF IInv, SessionInv, ReadyInv
  <2>5. ASSUME owner[e] \in Undestroyed, ready[Peer(e)], owner[Peer(e)] \in Undestroyed
        PROVE  inKey[e] = outKey[Peer(e)]
    BY <2>1, <2>4, <2>5
  <2>6. usedFp[e] = "peer"
    BY <2>4
  <2>. QED
    BY <2>3, <2>5, <2>6
<1>. QED
  BY <1>1, AlwaysIInv, PTL

\* Whichever of connection and fingerprint comes second starts the handshake
\* (RtpTransport.cpp:26, :72).
THEOREM StartIsNotMissed == Spec => []StartNotMissed
<1>1. IInv => StartNotMissed
  BY DEF IInv
<1>. QED
  BY <1>1, AlwaysIInv, PTL

\* No packet reaches the application unless both ends have verified the other
\* (RtpTransport.cpp:90).
THEOREM MediaWaitsForBoth == Spec => []MediaIsVerified
<1>1. IInv => MediaIsVerified
  BY DEF IInv
<1>. QED
  BY <1>1, AlwaysIInv, PTL

-----------------------------------------------------------------------------
(* Descriptions. *)

\* c is a and then b.
Behind(C, a, b, c) ==
    /\ c \in Seq(C) /\ Len(c) = Len(a) + Len(b)
    /\ \A i \in 1 .. Len(a) : c[i] = a[i]
    /\ \A i \in 1 .. Len(b) : c[Len(a) + i] = b[i]

LEMMA PutBehind ==
    ASSUME NEW C, NEW a \in Seq(C), NEW b \in Seq(C)
    PROVE  Behind(C, a, b, a \o b)
<1>1. /\ a \o b \in Seq(C) /\ Len(a \o b) = Len(a) + Len(b)
      /\ \A i \in 1 .. Len(a) + Len(b) :
            (a \o b)[i] = IF i <= Len(a) THEN a[i] ELSE b[i - Len(a)]
  BY ConcatProperties
<1>. DEFINE c == a \o b
            m == Len(a)
            n == Len(b)
<1>2. m \in Nat /\ n \in Nat
  OBVIOUS
<1>3. /\ c \in Seq(C) /\ Len(c) = m + n
      /\ \A i \in 1 .. m + n : c[i] = IF i <= m THEN a[i] ELSE b[i - m]
  BY <1>1
<1>. HIDE DEF c, m, n
<1>4. ASSUME NEW i \in 1 .. m PROVE c[i] = a[i]
  <2>1. i \in 1 .. m + n /\ i <= m
    BY <1>2
  <2>. QED
    BY <1>3, <2>1
<1>5. ASSUME NEW i \in 1 .. n PROVE c[m + i] = b[i]
  <2>1. m + i \in 1 .. m + n /\ ~(m + i <= m) /\ (m + i) - m = i
    BY <1>2
  <2>. QED
    BY <1>3, <2>1
<1>. QED
  BY <1>3, <1>4, <1>5 DEF Behind, c, m, n

\* s is what c has from place m + 1 to m + n.
CutOut(C, s, c, m, n) ==
    s \in Seq(C) /\ Len(s) = n /\ \A i \in 1 .. n : s[i] = c[m + i]

LEMMA Cutting ==
    ASSUME NEW C, NEW c \in Seq(C), NEW m \in Nat, NEW n \in Nat, m + n <= Len(c)
    PROVE  CutOut(C, SubSeq(c, m + 1, m + n), c, m, n)
<1>. DEFINE from == m + 1
            to == m + n
            s == SubSeq(c, from, to)
<1>1. from \in Int /\ to \in Int /\ \A i \in from .. to : c[i] \in C
  <2>1. \A i \in from .. to : i \in 1 .. Len(c)
    OBVIOUS
  <2>. QED
    BY <2>1
<1>. HIDE DEF from, to
<1>2. /\ s \in Seq(C) /\ Len(s) = IF from <= to THEN to - from + 1 ELSE 0
      /\ \A i \in 1 .. to - from + 1 : s[i] = c[from + i - 1]
  BY <1>1, SubSeqProperties
<1>3. to - from + 1 = n /\ (IF from <= to THEN to - from + 1 ELSE 0) = n
  BY DEF from, to
<1>. HIDE DEF s
<1>4. \A i \in 1 .. n : from + i - 1 = m + i
  BY DEF from
<1>5. CutOut(C, s, c, m, n)
  BY <1>2, <1>3, <1>4 DEF CutOut
<1>. QED
  BY <1>5 DEF s, from, to

\* Texts of one length that agree at each place are one text.
LEMMA SameText ==
    ASSUME NEW C, NEW s \in Seq(C), NEW t \in Seq(C), Len(s) = Len(t),
           \A i \in 1 .. Len(t) : s[i] = t[i]
    PROVE  s = t
<1>1. s = [i \in 1 .. Len(s) |-> s[i]] /\ t = [i \in 1 .. Len(t) |-> t[i]]
  OBVIOUS
<1>. QED
  BY <1>1

\* C has the signs of the marker.
HasMarker(C) == {"\n", "#", "f", "p", " "} \subseteq C

\* What the marker is, and that it begins nowhere within itself.
LEMMA MarkerIs ==
    ASSUME NEW C, HasMarker(C)
    PROVE  /\ Marker \in Seq(C) /\ Len(Marker) = 5
           /\ \A i \in 2 .. 5 : Marker[i] # Marker[1]
<1>1. Marker \in Seq(C) /\ Len(Marker) = 5
  <2>. DEFINE a == "\n"
              b == "#"
              c == "f"
              d == "p"
              e == " "
  <2>1. Marker = <<a, b, c, d, e>>
    BY DEF Marker
  <2>2. a \in C /\ b \in C /\ c \in C /\ d \in C /\ e \in C
    BY DEF HasMarker
  <2>. HIDE DEF a, b, c, d, e
  <2>3. <<a, b, c, d, e>> \in Seq(C) /\ Len(<<a, b, c, d, e>>) = 5
    BY <2>2
  <2>. QED
    BY <2>1, <2>3
<1>2. /\ Marker[1] = "\n" /\ Marker[2] = "#" /\ Marker[3] = "f" /\ Marker[4] = "p"
      /\ Marker[5] = " "
  BY DEF Marker
<1>3. /\ Marker[2] # Marker[1] /\ Marker[3] # Marker[1]
      /\ Marker[4] # Marker[1] /\ Marker[5] # Marker[1]
  BY <1>2
<1>4. \A i \in 2 .. 5 : i = 2 \/ i = 3 \/ i = 4 \/ i = 5
  OBVIOUS
<1>. QED
  BY <1>1, <1>3, <1>4

\* The description c of ice and fp, place by place.
Packed(C, c, ice, fp) ==
    /\ c \in Seq(C) /\ Len(c) = Len(ice) + 5 + Len(fp)
    /\ \A i \in 1 .. Len(ice) : c[i] = ice[i]
    /\ \A i \in 1 .. 5 : c[Len(ice) + i] = Marker[i]
    /\ \A i \in 1 .. Len(fp) : c[Len(ice) + 5 + i] = fp[i]

LEMMA Packing ==
    ASSUME NEW C, HasMarker(C), NEW ice \in Seq(C), NEW fp \in Seq(C)
    PROVE  Packed(C, packDescription(ice, fp), ice, fp)
<1>. DEFINE b == ice \o Marker
            c == b \o fp
            m == Len(ice)
            n == Len(fp)
<1>1. m \in Nat /\ n \in Nat /\ packDescription(ice, fp) = c
  BY DEF packDescription
<1>2. Behind(C, ice, Marker, b)
  BY MarkerIs, PutBehind
<1>3. /\ b \in Seq(C) /\ Len(b) = m + 5
      /\ \A i \in 1 .. m : b[i] = ice[i]
      /\ \A i \in 1 .. 5 : b[m + i] = Marker[i]
  BY <1>2, MarkerIs DEF Behind
<1>. HIDE DEF b
<1>4. Behind(C, b, fp, c)
  BY <1>3, PutBehind
<1>. HIDE DEF c
<1>5. /\ c \in Seq(C) /\ Len(c) = m + 5 + n
      /\ \A i \in 1 .. m + 5 : c[i] = b[i]
      /\ \A i \in 1 .. n : c[m + 5 + i] = fp[i]
  BY <1>3, <1>4 DEF Behind
<1>. HIDE DEF m, n
<1>6. ASSUME NEW i \in 1 .. m PROVE c[i] = ice[i]
  <2>1. i \in 1 .. m + 5
    BY <1>1
  <2>. QED
    BY <1>3, <1>5, <2>1
<1>7. ASSUME NEW i \in 1 .. 5 PROVE c[m + i] = Marker[i]
  <2>1. m + i \in 1 .. m + 5
    BY <1>1
  <2>. QED
    BY <1>3, <1>5, <2>1
<1>. QED
  BY <1>1, <1>5, <1>6, <1>7 DEF Packed, m, n

\* The first marker in c is at the place that is given.
FirstMarker(c, place) ==
    LET found == {i \in 1 .. Len(c) - 4 : SubSeq(c, i, i + 4) = Marker}
    IN  found # {} /\ Min(found) = place

\* The marker is found where it was put, and nowhere before.
LEMMA MarkerFound ==
    ASSUME NEW C, HasMarker(C), NEW ice \in Seq(C), Unmarked(ice), NEW fp \in Seq(C),
           NEW c, Packed(C, c, ice, fp)
    PROVE  FirstMarker(c, Len(ice) + 1)
<1>. DEFINE m == Len(ice)
            n == Len(fp)
            found == {i \in 1 .. Len(c) - 4 : SubSeq(c, i, i + 4) = Marker}
<1>1. /\ m \in Nat /\ n \in Nat /\ c \in Seq(C) /\ Len(c) = m + 5 + n
      /\ \A i \in 1 .. m : c[i] = ice[i]
      /\ \A i \in 1 .. 5 : c[m + i] = Marker[i]
  BY DEF Packed
<1>. HIDE DEF m, n
<1>2. ASSUME NEW i \in 1 .. Len(c) - 4
      PROVE  LET s == SubSeq(c, i, i + 4)
             IN  s \in Seq(C) /\ Len(s) = 5 /\ \A j \in 1 .. 5 : s[j] = c[i - 1 + j]
  <2>. DEFINE k == i - 1
  <2>1. k \in Nat /\ 5 \in Nat /\ k + 5 <= Len(c) /\ k + 1 = i /\ k + 5 = i + 4
    BY <1>1
  <2>. HIDE DEF k
  <2>2. CutOut(C, SubSeq(c, k + 1, k + 5), c, k, 5)
    BY <1>1, <2>1, Cutting
  <2>. QED
    BY <2>1, <2>2 DEF CutOut, k
<1>3. m + 1 \in found
  <2>. DEFINE s == SubSeq(c, m + 1, (m + 1) + 4)
  <2>1. m + 1 \in 1 .. Len(c) - 4 /\ (m + 1) - 1 = m
    BY <1>1
  <2>2. s \in Seq(C) /\ Len(s) = 5 /\ \A j \in 1 .. 5 : s[j] = c[(m + 1) - 1 + j]
    BY <1>2, <2>1
  <2>. HIDE DEF s
  <2>3. \A j \in 1 .. 5 : s[j] = Marker[j]
    BY <1>1, <2>1, <2>2
  <2>4. s = Marker
    BY <2>2, <2>3, MarkerIs, SameText
  <2>. QED
    BY <2>1, <2>4 DEF s
<1>4. ASSUME NEW i \in found PROVE m + 1 <= i
  <2>. SUFFICES ASSUME i <= m PROVE FALSE
    BY <1>1
  <2>0. i \in 1 .. Len(c) - 4 /\ i \in Nat /\ i >= 1 /\ SubSeq(c, i, i + 4) = Marker
    BY <1>1
  <2>1. \A j \in 1 .. 5 : Marker[j] = c[i - 1 + j]
    BY <1>2, <2>0
  <2>. HIDE DEF found
  <2>2. CASE i + 4 <= m
    <3>. DEFINE s == SubSeq(ice, i, i + 4)
    <3>1. i \in 1 .. m - 4
      BY <1>1, <2>0, <2>2
    <3>2. s # Marker
      BY <3>1 DEF Unmarked, m
    <3>. DEFINE k == i - 1
    <3>3. k \in Nat /\ 5 \in Nat /\ k + 5 <= m /\ k + 1 = i /\ k + 5 = i + 4
      BY <1>1, <2>0, <2>2
    <3>. HIDE DEF k
    <3>4. CutOut(C, SubSeq(ice, k + 1, k + 5), ice, k, 5)
      BY <3>3, Cutting DEF m
    <3>5. s \in Seq(C) /\ Len(s) = 5 /\ \A j \in 1 .. 5 : s[j] = ice[i - 1 + j]
      BY <3>3, <3>4 DEF CutOut, k
    <3>. HIDE DEF s
    <3>6. ASSUME NEW j \in 1 .. 5 PROVE s[j] = Marker[j]
      <4>1. i - 1 + j \in 1 .. m
        BY <1>1, <2>0, <2>2
      <4>. QED
        BY <1>1, <2>1, <3>5, <4>1
    <3>7. s = Marker
      BY <3>5, <3>6, MarkerIs, SameText
    <3>. QED
      BY <3>2, <3>7
  <2>3. CASE ~(i + 4 <= m)
    <3>. DEFINE j == m + 2 - i
    <3>1. j \in 2 .. 5 /\ j \in 1 .. 5 /\ 1 \in 1 .. 5 /\ i - 1 + j = m + 1
      BY <1>1, <2>0, <2>3
    <3>. HIDE DEF j
    <3>2. Marker[j] = c[m + 1] /\ c[m + 1] = Marker[1]
      BY <1>1, <2>1, <3>1
    <3>. QED
      BY <3>1, <3>2, MarkerIs
  <2>. QED
    BY <2>2, <2>3
<1>5. \A i \in found : i \in Int
  OBVIOUS
<1>. HIDE DEF found
<1>6. \A x \in found : (\A y \in found : x <= y) => x = m + 1
  BY <1>1, <1>3, <1>4, <1>5
<1>7. Min(found) = m + 1
  BY <1>3, <1>4, <1>6 DEF Min
<1>. QED
  BY <1>3, <1>7 DEF FirstMarker, found, m

\* It is taken apart there.
LEMMA Unpacking ==
    ASSUME NEW C, HasMarker(C), NEW ice \in Seq(C), Unmarked(ice), NEW fp \in Seq(C),
           NEW c, Packed(C, c, ice, fp)
    PROVE  unpackDescription(c) = [ice |-> ice, fp |-> fp]
<1>. DEFINE m == Len(ice)
            n == Len(fp)
            found == {i \in 1 .. Len(c) - 4 : SubSeq(c, i, i + 4) = Marker}
<1>2. found # {} /\ Min(found) = m + 1
  <2>1. FirstMarker(c, Len(ice) + 1)
    BY MarkerFound
  <2>. QED
    BY <2>1 DEF FirstMarker
<1>3. /\ m \in Nat /\ n \in Nat /\ c \in Seq(C) /\ Len(c) = m + 5 + n
      /\ \A i \in 1 .. m : c[i] = ice[i]
      /\ \A i \in 1 .. n : c[m + 5 + i] = fp[i]
  BY DEF Packed
<1>4. unpackDescription(c) = [ice |-> SubSeq(c, 1, (m + 1) - 1),
                              fp |-> SubSeq(c, (m + 1) + 5, Len(c))]
  BY <1>2 DEF unpackDescription
<1>. HIDE DEF found, m, n
<1>5. SubSeq(c, 1, (m + 1) - 1) = ice
  <2>. DEFINE s == SubSeq(c, 0 + 1, 0 + m)
  <2>1. 0 \in Nat /\ 0 + m <= Len(c) /\ 0 + 1 = 1 /\ 0 + m = (m + 1) - 1
    BY <1>3
  <2>2. CutOut(C, s, c, 0, m)
    BY <1>3, <2>1, Cutting
  <2>. HIDE DEF s
  <2>3. s \in Seq(C) /\ Len(s) = m /\ \A i \in 1 .. m : s[i] = c[0 + i]
    BY <2>2 DEF CutOut
  <2>4. \A i \in 1 .. m : 0 + i = i
    BY <1>3
  <2>5. \A i \in 1 .. m : s[i] = ice[i]
    BY <1>3, <2>3, <2>4
  <2>6. s = ice
    BY <2>3, <2>5, SameText DEF m
  <2>. QED
    BY <2>1, <2>6 DEF s
<1>6. SubSeq(c, (m + 1) + 5, Len(c)) = fp
  <2>. DEFINE k == m + 5
              s == SubSeq(c, k + 1, k + n)
  <2>1. k \in Nat /\ k + n <= Len(c) /\ k + 1 = (m + 1) + 5 /\ k + n = Len(c)
    BY <1>3
  <2>2. \A i \in 1 .. n : c[k + i] = fp[i]
    BY <1>3
  <2>. HIDE DEF k
  <2>3. CutOut(C, s, c, k, n)
    BY <1>3, <2>1, Cutting
  <2>. HIDE DEF s
  <2>4. s \in Seq(C) /\ Len(s) = n /\ \A i \in 1 .. n : s[i] = fp[i]
    BY <2>2, <2>3 DEF CutOut
  <2>5. s = fp
    BY <2>4, SameText DEF n
  <2>. QED
    BY <2>1, <2>5 DEF s
<1>. QED
  BY <1>4, <1>5, <1>6

\* Whatever an agent says of itself without the marker, and whatever the
\* fingerprint is, the other end finds both as they were, and no fingerprint
\* where none was given (DtlsSrtp.cpp:91, :95).
THEOREM DescriptionsArrive ==
    ASSUME NEW Chars, HasMarker(Chars),
           NEW ice \in Seq(Chars), Unmarked(ice), NEW fp \in Seq(Chars)
    PROVE  DescriptionArrives(ice, fp)
<1>1. Packed(Chars, packDescription(ice, fp), ice, fp)
  BY Packing
<1>2. unpackDescription(packDescription(ice, fp)) = [ice |-> ice, fp |-> fp]
  BY <1>1, Unpacking
<1>3. unpackDescription(ice) = [ice |-> ice, fp |-> <<>>]
  <2>1. {i \in 1 .. Len(ice) - 4 : SubSeq(ice, i, i + 4) = Marker} = {}
    BY DEF Unmarked
  <2>. QED
    BY <2>1 DEF unpackDescription
<1>. QED
  BY <1>2, <1>3 DEF DescriptionArrives

\* What the run evaluates of descriptions is an instance of it.
LEMMA BoundedDescriptionsArrive ==
    \A ice \in IceTexts : Unmarked(ice) => DescriptionArrives(ice, <<"A">>)
<1>. SUFFICES ASSUME NEW ice \in IceTexts, Unmarked(ice) PROVE DescriptionArrives(ice, <<"A">>)
  OBVIOUS
<1>. DEFINE C == {"\n", "#", "f", "p", " "} \cup {"A"}
            fp == <<"A">>
<1>1. HasMarker(C)
  BY DEF HasMarker
<1>2. fp \in Seq(C)
  OBVIOUS
<1>3. PICK n \in 0 .. 5 : ice \in [1 .. n -> {"\n", "#", "f", "p", " "}]
  BY Zenon DEF IceTexts
<1>4. ice \in [1 .. n -> C]
  BY <1>3
<1>. HIDE DEF C, fp
<1>5. ice \in Seq(C)
  <2>1. n \in Nat
    OBVIOUS
  <2>. QED
    BY <1>4, <2>1
<1>6. DescriptionArrives(ice, fp)
  BY <1>1, <1>2, <1>5, DescriptionsArrive
<1>. QED
  BY <1>6 DEF fp
=============================================================================
