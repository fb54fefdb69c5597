----------------------------- MODULE RoomProofs -----------------------------
(***************************************************************************)
(* What a Room keeps of its participants agrees with who they are, and no  *)
(* newcomer is forgotten, for any threads, participants and estimates.     *)
(***************************************************************************)
EXTENDS Room, TLAPS, WellFoundedInduction

\* Who is not in the Room has been forwarded nothing since it came, if ever.
AbsentAreUnheard == \A p \in ParticipantId \ participants : lastSeq[p] = Unheard

\* RoomInv is not inductive alone: a stream's next packet goes to those who are
\* in the Room, so the others must have nothing of it.
IInv == RoomInv /\ AbsentAreUnheard

-----------------------------------------------------------------------------
(* The least of a set of estimates. *)

LEMMA SmallestNat ==
    ASSUME NEW S \in SUBSET Nat, S # {}
    PROVE  \E x \in S : \A y \in S : x <= y
<1>1. PICK x \in S : \A y \in S : <<y, x>> \notin OpToRel(<, Nat)
  BY NatLessThanWellFounded, WFMin
<1>2. \A y \in S : ~(y < x)
  BY <1>1 DEF OpToRel
<1>. QED
  BY <1>2

LEMMA MinIsLeast ==
    ASSUME NEW S \in SUBSET Nat, S # {}
    PROVE  Min(S) \in S /\ \A y \in S : Min(S) <= y
BY SmallestNat DEF Min

\* What LowestEstimate computes is the minimum of the estimates that are known.
LEMMA LowestIsMinimum ==
    ASSUME NEW estimate \in [ParticipantId -> Bitrate \cup {0}],
           NEW receivers \in SUBSET ParticipantId
    PROVE  LET b == LowestEstimate(estimate, receivers)
           IN  /\ b \in Bitrate \cup {0}
               /\ IF \A r \in receivers : estimate[r] = 0
                  THEN b = 0
                  ELSE /\ b \in {estimate[r] : r \in receivers} \ {0}
                       /\ \A r \in receivers : estimate[r] # 0 => b <= estimate[r]
<1>. DEFINE known == {estimate[r] : r \in receivers} \ {0}
            b == LowestEstimate(estimate, receivers)
<1>1. known \in SUBSET Nat /\ known \in SUBSET Bitrate
  BY RoomAssumption
<1>2. CASE known = {}
  <2>1. b = 0
    BY <1>2 DEF LowestEstimate
  <2>2. \A r \in receivers : estimate[r] = 0
    BY <1>2
  <2>. QED
    BY <2>1, <2>2
<1>3. CASE known # {}
  <2>1. b = Min(known)
    BY <1>3 DEF LowestEstimate
  <2>2. b \in known /\ \A y \in known : b <= y
    BY <1>1, <1>3, <2>1, MinIsLeast
  <2>3. ~ \A r \in receivers : estimate[r] = 0
    BY <1>3
  <2>. QED
    BY <1>1, <2>2, <2>3
<1>. QED
  BY <1>2, <1>3

\* After a recomputation every target is that of a member's receivers, or 0.
LEMMA Recomputed ==
    ASSUME NEW estimate \in [ParticipantId -> Bitrate \cup {0}],
           NEW members \in SUBSET ParticipantId
    PROVE  LET new == recomputeTargets(members, estimate)
           IN  /\ new \in [ParticipantId -> Bitrate \cup {0}]
               /\ \A s \in ParticipantId \ members : new[s] = 0
               /\ \A s \in members :
                     IF \A r \in members \ {s} : estimate[r] = 0
                     THEN new[s] = 0
                     ELSE /\ new[s] \in {estimate[r] : r \in members \ {s}} \ {0}
                          /\ \A r \in members \ {s} :
                                estimate[r] # 0 => new[s] <= estimate[r]
<1>. DEFINE new == recomputeTargets(members, estimate)
<1>1. \A s \in members : new[s] = LowestEstimate(estimate, members \ {s})
  BY DEF recomputeTargets
<1>2. \A s \in ParticipantId \ members : new[s] = 0
  BY DEF recomputeTargets
<1>3. \A s \in members : LowestEstimate(estimate, members \ {s}) \in Bitrate \cup {0}
  BY LowestIsMinimum
<1>4. new \in [ParticipantId -> Bitrate \cup {0}]
  BY <1>3 DEF recomputeTargets
<1>5. ASSUME NEW s \in members
      PROVE  IF \A r \in members \ {s} : estimate[r] = 0
             THEN new[s] = 0
             ELSE /\ new[s] \in {estimate[r] : r \in members \ {s}} \ {0}
                  /\ \A r \in members \ {s} : estimate[r] # 0 => new[s] <= estimate[r]
  <2>. DEFINE receivers == members \ {s}
  <2>1. receivers \in SUBSET ParticipantId /\ new[s] = LowestEstimate(estimate, receivers)
    BY <1>1
  <2>. HIDE DEF receivers, new
  <2>2. IF \A r \in receivers : estimate[r] = 0
        THEN new[s] = 0
        ELSE /\ new[s] \in {estimate[r] : r \in receivers} \ {0}
             /\ \A r \in receivers : estimate[r] # 0 => new[s] <= estimate[r]
    BY <2>1, LowestIsMinimum
  <2>. QED
    BY <2>2 DEF receivers
<1>. QED
  BY <1>2, <1>4, <1>5

-----------------------------------------------------------------------------
(* Each operation preserves the invariant. *)

LEMMA InitIInv == Init => IInv
BY RoomAssumption DEF Init, IInv, RoomInv, TypeOK, TargetsFollowReceivers, NoReceiverLags,
   AbsentAreUnheard, Unheard

LEMMA AddIInv ==
    ASSUME IInv, NEW t \in Thread, NEW id \in ParticipantId, add(t, id)
    PROVE  IInv'
<1>. USE DEF IInv, RoomInv
<1>1. TypeOK'
  BY DEF add, TypeOK, Senders
<1>2. TargetsFollowReceivers'
  <2>. SUFFICES ASSUME NEW s \in participants'
                PROVE  IF s \in newcomers' THEN target'[s] = 0
                       ELSE IsMinimum(target[s], participants \ {s})'
    BY DEF TargetsFollowReceivers
  <2>1. CASE s = id
    BY <2>1 DEF add, TypeOK
  <2>2. CASE s # id
    <3>1. /\ s \in participants /\ target'[s] = target[s] /\ remb' = remb
          /\ newcomers' = newcomers \cup {id}
      BY <2>2 DEF add
    <3>2. CASE s \in newcomers
      BY <3>1, <3>2 DEF TargetsFollowReceivers
    <3>3. CASE s \notin newcomers
      <4>1. IsMinimum(target[s], participants \ {s})
        BY <3>1, <3>3 DEF TargetsFollowReceivers
      <4>2. participants' \ {s} = (participants \ {s}) \cup {id} /\ remb[id] = 0
        BY <2>2 DEF add, TypeOK
      <4>. QED
        BY <2>2, <3>1, <3>3, <4>1, <4>2 DEF IsMinimum
    <3>. QED
      BY <3>2, <3>3
  <2>. QED
    BY <2>1, <2>2
<1>3. NoReceiverLags' /\ AbsentAreUnheard'
  BY DEF add, NoReceiverLags, AbsentAreUnheard
<1>. QED
  BY <1>1, <1>2, <1>3

LEMMA RemoveIInv ==
    ASSUME IInv, NEW t \in Thread, NEW id \in ParticipantId, remove(t, id)
    PROVE  IInv'
<1>. USE DEF IInv, RoomInv
<1>. DEFINE members == participants \ {id}
<1>1. /\ participants' = members /\ members \in SUBSET ParticipantId
      /\ target' = recomputeTargets(members, remb) /\ newcomers' = {}
      /\ remb' = [remb EXCEPT ![id] = 0]
      /\ remb \in [ParticipantId -> Bitrate \cup {0}]
  BY DEF remove, TypeOK
<1>2. \A r \in members : remb'[r] = remb[r]
  BY <1>1
<1>3. TypeOK'
  <2>1. /\ target' \in [ParticipantId -> Bitrate \cup {0}]
        /\ \A s \in ParticipantId \ members : target'[s] = 0
    BY <1>1, Recomputed
  <2>2. \A p \in ParticipantId \ members : remb'[p] = 0
    BY <1>1 DEF TypeOK
  <2>3. lastSeq' \in [ParticipantId -> [ParticipantId -> SeqNumber \cup {NoSeq}]]
    BY DEF remove, TypeOK, Unheard
  <2>. QED
    BY <1>1, <2>1, <2>2, <2>3 DEF remove, TypeOK
<1>4. TargetsFollowReceivers'
  <2>. SUFFICES ASSUME NEW s \in members
                PROVE  IsMinimum(target[s], participants \ {s})'
    BY <1>1 DEF TargetsFollowReceivers
  <2>1. IF \A r \in members \ {s} : remb[r] = 0
        THEN target'[s] = 0
        ELSE /\ target'[s] \in {remb[r] : r \in members \ {s}} \ {0}
             /\ \A r \in members \ {s} : remb[r] # 0 => target'[s] <= remb[r]
    BY <1>1, Recomputed
  <2>2. \A r \in members \ {s} : remb'[r] = remb[r]
    BY <1>2
  <2>. QED
    BY <1>1, <2>1, <2>2 DEF IsMinimum
<1>5. NoReceiverLags' /\ AbsentAreUnheard'
  BY DEF remove, TypeOK, NoReceiverLags, AbsentAreUnheard, Unheard
<1>. QED
  BY <1>3, <1>4, <1>5

LEMMA RembIInv ==
    ASSUME IInv, NEW t \in Thread, NEW id \in ParticipantId,
           NEW bitrate \in Bitrate \cup {0}, onRemb(t, id, bitrate)
    PROVE  IInv'
<1>. USE DEF IInv, RoomInv
<1>. DEFINE new == [remb EXCEPT ![id] = bitrate]
<1>1. /\ participants' = participants /\ participants \in SUBSET ParticipantId
      /\ remb' = new /\ target' = recomputeTargets(participants, new) /\ newcomers' = {}
      /\ new \in [ParticipantId -> Bitrate \cup {0}]
  BY DEF onRemb, TypeOK
<1>. HIDE DEF new
<1>2. TypeOK'
  <2>1. /\ target' \in [ParticipantId -> Bitrate \cup {0}]
        /\ \A s \in ParticipantId \ participants : target'[s] = 0
    BY <1>1, Recomputed
  <2>2. \A p \in ParticipantId \ participants : remb'[p] = 0
    BY DEF onRemb, TypeOK
  <2>. QED
    BY <1>1, <2>1, <2>2 DEF onRemb, TypeOK
<1>3. TargetsFollowReceivers'
  <2>. SUFFICES ASSUME NEW s \in participants
                PROVE  IsMinimum(target[s], participants \ {s})'
    BY <1>1 DEF TargetsFollowReceivers
  <2>1. IF \A r \in participants \ {s} : new[r] = 0
        THEN target'[s] = 0
        ELSE /\ target'[s] \in {new[r] : r \in participants \ {s}} \ {0}
             /\ \A r \in participants \ {s} : new[r] # 0 => target'[s] <= new[r]
    BY <1>1, Recomputed
  <2>. QED
    BY <1>1, <2>1 DEF IsMinimum
<1>4. NoReceiverLags' /\ AbsentAreUnheard'
  BY DEF onRemb, NoReceiverLags, AbsentAreUnheard
<1>. QED
  BY <1>2, <1>3, <1>4

LEMMA ForwardIInv ==
    ASSUME IInv, NEW t \in Thread, NEW sender \in ParticipantId, NEW seq \in SeqNumber,
           forward(t, sender, seq)
    PROVE  IInv'
<1>. USE DEF IInv, RoomInv
<1>1. TypeOK' /\ TargetsFollowReceivers'
  BY DEF forward, TypeOK, TargetsFollowReceivers, IsMinimum
<1>2. \A p, s \in ParticipantId :
         lastSeq'[p][s] = IF p \in participants \ {sender} /\ s = sender THEN seq
                          ELSE lastSeq[p][s]
  BY DEF forward, Receivers, TypeOK
<1>3. \A p \in ParticipantId \ participants : lastSeq'[p] = Unheard
  BY DEF forward, Receivers, AbsentAreUnheard
<1>4. \A p \in ParticipantId \ participants, s \in ParticipantId : lastSeq[p][s] = NoSeq
  BY DEF AbsentAreUnheard, Unheard
<1>5. \A p \in ParticipantId : lastSeq[p][p] = NoSeq
  BY DEF NoReceiverLags
<1>6. NoReceiverLags'
  <2>1. ASSUME NEW p \in ParticipantId, NEW q \in ParticipantId, NEW s \in ParticipantId
        PROVE  NoSeq \in {lastSeq'[p][s], lastSeq'[q][s]} \/ lastSeq'[p][s] = lastSeq'[q][s]
    BY <1>2, <1>4, <1>5 DEF NoReceiverLags
  <2>2. \A p \in ParticipantId : lastSeq'[p][p] = NoSeq
    BY <1>2, <1>5
  <2>. QED
    BY <2>1, <2>2 DEF NoReceiverLags
<1>. QED
  BY <1>1, <1>3, <1>6 DEF forward, AbsentAreUnheard

LEMMA StepIInv == IInv /\ [Next]_vars => IInv'
<1>. SUFFICES ASSUME IInv, [Next]_vars PROVE IInv'
  OBVIOUS
<1>1. ASSUME NEW t \in Thread, NEW id \in ParticipantId, RequestKeyframe(t, id)
      PROVE  IInv'
  BY <1>1 DEF RequestKeyframe, IInv, RoomInv, TypeOK, TargetsFollowReceivers, IsMinimum,
     NoReceiverLags, AbsentAreUnheard
<1>2. ASSUME NEW t \in Thread, NEW id \in ParticipantId, setVideoSsrc(t, id)
      PROVE  IInv'
  BY <1>2 DEF setVideoSsrc, IInv, RoomInv, TypeOK, TargetsFollowReceivers, IsMinimum,
     NoReceiverLags, AbsentAreUnheard
<1>3. CASE UNCHANGED vars
  BY <1>3 DEF vars, room, IInv, RoomInv, TypeOK, TargetsFollowReceivers, IsMinimum,
     NoReceiverLags, AbsentAreUnheard
<1>. QED
  BY <1>1, <1>2, <1>3, AddIInv, RemoveIInv, RembIInv, ForwardIInv DEF Next

-----------------------------------------------------------------------------
\* Targets, estimates and what each has been forwarded agree with who is in the
\* Room between any two critical sections (Room.cpp:49, :87).
THEOREM RoomIsSound == Spec => []RoomInv
<1>1. IInv => RoomInv
  BY DEF IInv
<1>. QED
  BY <1>1, InitIInv, StepIInv, PTL DEF Spec

\* Each sender of video a newcomer found is asked for a keyframe after it came,
\* whatever other threads do between the unlock and the request (Room.h:11).
THEOREM NewcomersGetKeyframes == Spec => []NewcomersAreServed
<1>. DEFINE Served == NewcomersAreServed /\ asking \in [Thread -> SUBSET ParticipantId]
                                          /\ participants \in SUBSET ParticipantId
<1>1. Init => Served
  BY DEF Init, NewcomersAreServed
<1>2. Served /\ [Next]_vars => Served'
  <2>. SUFFICES ASSUME Served, [Next]_vars PROVE Served'
    OBVIOUS
  <2>1. ASSUME NEW t \in Thread, NEW id \in ParticipantId, add(t, id)
        PROVE  Served'
    <3>1. asking'[t] = video \cap participants /\ \A u \in Thread \ {t} : asking'[u] = asking[u]
      BY <2>1 DEF add, Senders
    <3>2. ASSUME NEW debt \in owed' PROVE \E u \in Thread : debt[2] \in asking'[u]
      <4>1. CASE debt \in owed
        <5>1. PICK u \in Thread : debt[2] \in asking[u]
          BY <4>1 DEF NewcomersAreServed
        <5>2. u # t
          BY <2>1, <5>1 DEF add
        <5>. QED
          BY <3>1, <5>1, <5>2
      <4>2. CASE debt \in {id} \X (video \cap participants)
        BY <3>1, <4>2
      <4>. QED
        BY <2>1, <4>1, <4>2 DEF add
    <3>3. /\ asking' \in [Thread -> SUBSET ParticipantId]
          /\ participants' \in SUBSET ParticipantId
      BY <2>1 DEF add, Senders
    <3>. QED
      BY <3>2, <3>3 DEF NewcomersAreServed
  <2>2. ASSUME NEW t \in Thread, NEW id \in ParticipantId, RequestKeyframe(t, id)
        PROVE  Served'
    BY <2>2 DEF RequestKeyframe, NewcomersAreServed
  <2>3. CASE /\ UNCHANGED asking /\ owed' \subseteq owed
             /\ participants' \in SUBSET ParticipantId
    BY <2>3 DEF NewcomersAreServed
  <2>. QED
    BY <2>1, <2>2, <2>3 DEF Next, remove, onRemb, setVideoSsrc, forward, vars, room
<1>3. Served => NewcomersAreServed
  OBVIOUS
<1>. QED
  BY <1>1, <1>2, <1>3, PTL DEF Spec
=============================================================================
