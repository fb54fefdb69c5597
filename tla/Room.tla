-------------------------------- MODULE Room --------------------------------
(***************************************************************************)
(* One Room of the SFU (Room.cpp, Participant.cpp) and its two policies:   *)
(* a newcomer makes the Room ask everybody who sends video for a keyframe, *)
(* and the estimates of what each participant can receive bound what the   *)
(* others should send.                                                     *)
(*                                                                         *)
(* Every method locks the Room's mutex, so each is one step, except add:   *)
(* it asks for the keyframes one by one after it has unlocked, and other   *)
(* threads come in between.  A participant that has been removed may be    *)
(* added again under its id, as the tests do; it starts afresh.            *)
(***************************************************************************)
EXTENDS Integers, FiniteSets, FiniteSetsExt

CONSTANTS
    Thread,
    ParticipantId,
    Bitrate,            \* the REMB estimates that are reported; 0 is "none"
    SeqNumber,          \* the sequence numbers of a stream
    NoSeq,              \* lastForwardedSeq is nullopt
    maxParticipants     \* the constructor's, Room.h:41 by default

ASSUME RoomAssumption ==
    /\ Bitrate \subseteq Nat \ {0}
    /\ NoSeq \notin SeqNumber
    /\ maxParticipants \in Nat \ {0}

VARIABLES
    participants,   \* the keys of participants_
    video,          \* who has a videoSsrc_
    needsKeyframe,  \* whose needsKeyframe_ is set
    remb,           \* rembEstimateBps_
    target,         \* targetBitrateBps_
    lastSeq,        \* lastSeq[p][s]: lastForwardedSeq_ of p for s's stream
    asking,         \* asking[t]: whom the add of thread t has still to ask
    owed,           \* history: <<p, s>> where s sent video when p came, and s
                    \* has not been asked for a keyframe since
    newcomers       \* history: who came after the last recomputation

room == <<participants, video, needsKeyframe, remb, target, lastSeq, asking>>
vars == <<room, owed, newcomers>>

-----------------------------------------------------------------------------
Unheard == [s \in ParticipantId |-> NoSeq]

\* Whom the Room will ask: those it saw with video before it let id in.
Senders_one(id) ==                           \* slip: only one of them is asked
    IF video \cap participants = {} THEN {}
    ELSE {CHOOSE s \in video \cap participants : TRUE}

Senders(id) == video \cap participants

add(t, id) ==
    /\ asking[t] = {}
    /\ id \notin participants
    /\ Cardinality(participants) < maxParticipants
    /\ participants' = participants \cup {id}
    /\ needsKeyframe' = needsKeyframe \cup {id}
    /\ asking' = [asking EXCEPT ![t] = Senders(id)]
    /\ owed' = owed \cup ({id} \X (video \cap participants))
    /\ newcomers' = newcomers \cup {id}
    /\ UNCHANGED <<video, remb, target, lastSeq>>

\* keyframeRequest_(sender), for one sender after the other.
RequestKeyframe(t, sender) ==
    /\ sender \in asking[t]
    /\ asking' = [asking EXCEPT ![t] = @ \ {sender}]
    /\ owed' = {d \in owed : d[2] # sender}
    /\ UNCHANGED <<participants, video, needsKeyframe, remb, target, lastSeq,
                   newcomers>>

-----------------------------------------------------------------------------
\* The lowest estimate among those that receive sender, 0 if none has one.
LowestEstimate(estimate, receivers) ==
    LET known == {estimate[r] : r \in receivers} \ {0}
    IN  IF known = {} THEN 0 ELSE Min(known)

\* slip: a sender's own estimate counts
recomputeTargets_own(members, estimate) ==
    [s \in ParticipantId |->
        IF s \in members THEN LowestEstimate(estimate, members) ELSE 0]

recomputeTargets(members, estimate) ==
    [s \in ParticipantId |->
        IF s \in members THEN LowestEstimate(estimate, members \ {s}) ELSE 0]

\* The Participant goes with all it holds.
remove(t, id) ==
    /\ asking[t] = {}
    /\ id \in participants
    /\ participants' = participants \ {id}
    /\ video' = video \ {id}
    /\ needsKeyframe' = needsKeyframe \ {id}
    /\ remb' = [remb EXCEPT ![id] = 0]
    /\ target' = recomputeTargets(participants \ {id}, remb)
    /\ lastSeq' = [lastSeq EXCEPT ![id] = Unheard]
    /\ owed' = {d \in owed : id \notin {d[1], d[2]}}
    /\ newcomers' = {}
    /\ UNCHANGED asking

onRemb(t, id, bitrate) ==
    /\ asking[t] = {}
    /\ id \in participants
    /\ remb' = [remb EXCEPT ![id] = bitrate]
    /\ target' = recomputeTargets(participants, remb')
    /\ newcomers' = {}
    /\ UNCHANGED <<participants, video, needsKeyframe, lastSeq, asking,
                   owed>>

\* The owner of the Participant that add returned names its video stream.
setVideoSsrc(t, id) ==
    /\ asking[t] = {}
    /\ id \in participants \ video
    /\ video' = video \cup {id}
    /\ UNCHANGED <<participants, needsKeyframe, remb, target, lastSeq, asking,
                   owed, newcomers>>

\* Everybody but the sender gets the packet.
Receivers(sender) == participants \ {sender}

\* Each receiver's Participant::deliver notes the number before it sends.
forward(t, sender, seq) ==
    /\ asking[t] = {}
    /\ sender \in participants
    /\ lastSeq' = [p \in ParticipantId |->
                     IF p \in Receivers(sender)
                     THEN [lastSeq[p] EXCEPT ![sender] = seq]
                     ELSE lastSeq[p]]
    /\ UNCHANGED <<participants, video, needsKeyframe, remb, target, asking,
                   owed, newcomers>>

-----------------------------------------------------------------------------
Init ==
    /\ participants = {}
    /\ video = {}
    /\ needsKeyframe = {}
    /\ remb = [p \in ParticipantId |-> 0]
    /\ target = [p \in ParticipantId |-> 0]
    /\ lastSeq = [p \in ParticipantId |-> Unheard]
    /\ asking = [t \in Thread |-> {}]
    /\ owed = {}
    /\ newcomers = {}

Next ==
    \E t \in Thread :
        \E id \in ParticipantId :
              \/ RequestKeyframe(t, id)
              \/ add(t, id)
              \/ remove(t, id)
              \/ \E bitrate \in Bitrate \cup {0} : onRemb(t, id, bitrate)
              \/ setVideoSsrc(t, id)
              \/ \E seq \in SeqNumber : forward(t, id, seq)

Spec == Init /\ [][Next]_vars

-----------------------------------------------------------------------------
(* Properties. *)

\* Every variable holds values of its type, and whoever is not in the Room has
\* nothing left in it.
TypeOK ==
    /\ participants \in SUBSET ParticipantId
    /\ video \in SUBSET participants
    /\ needsKeyframe \in SUBSET participants
    /\ remb \in [ParticipantId -> Bitrate \cup {0}]
    /\ target \in [ParticipantId -> Bitrate \cup {0}]
    /\ lastSeq \in [ParticipantId -> [ParticipantId -> SeqNumber \cup {NoSeq}]]
    /\ asking \in [Thread -> SUBSET ParticipantId]
    /\ \A p \in ParticipantId \ participants : remb[p] = 0 /\ target[p] = 0

\* "A newly added participant cannot decode an in-progress video stream"
\* (Room.h:11): each sender of video it found is asked for a keyframe after it
\* came, or an add that is under way is still to ask it: whatever other threads
\* do meanwhile, no newcomer is forgotten.
NewcomersAreServed ==
    \A debt \in owed : \E t \in Thread : debt[2] \in asking[t]

\* The target of every sender is the minimum over its present receivers: no
\* estimate of somebody who left bounds it, none that was replaced.  The one
\* exception is a participant that came after the last recomputation, whose
\* target is 0 whatever its receivers have reported.
IsMinimum(bitrate, receivers) ==
    IF \A r \in receivers : remb[r] = 0
    THEN bitrate = 0
    ELSE /\ bitrate \in {remb[r] : r \in receivers} \ {0}
         /\ \A r \in receivers : remb[r] # 0 => bitrate <= remb[r]

TargetsFollowReceivers ==
    \A s \in participants :
        IF s \in newcomers THEN target[s] = 0
                          ELSE IsMinimum(target[s], participants \ {s})

\* All who have ever been forwarded a packet of a stream have been forwarded
\* its latest: no receiver is passed over, and nobody hears itself.
NoReceiverLags ==
    /\ \A p, q, s \in ParticipantId :
          NoSeq \in {lastSeq[p][s], lastSeq[q][s]} \/ lastSeq[p][s] = lastSeq[q][s]
    /\ \A p \in ParticipantId : lastSeq[p][p] = NoSeq

\* What a Room keeps of its participants agrees with who they are, between any
\* two critical sections: targets, estimates and what each has been forwarded
\* (Room.cpp:49, :87).
RoomInv == TypeOK /\ TargetsFollowReceivers /\ NoReceiverLags
=============================================================================
