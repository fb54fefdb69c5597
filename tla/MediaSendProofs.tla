-------------------------- MODULE MediaSendProofs ---------------------------
(***************************************************************************)
(* Whatever the camera, the microphone, the window and the link do, they   *)
(* use the pool as FramePool.tla says it may be used, so what is proved    *)
(* of the pool holds in a call.  The theorems about the flags the threads  *)
(* share follow from one inductive invariant, SendInv.  The last ones are  *)
(* about RtpFormat.tla: what is sent as bytes is what is read back.        *)
(***************************************************************************)
EXTENDS MediaSend, FiniteSetTheorems, SequenceTheorems, WellFoundedInduction, TLAPS

-----------------------------------------------------------------------------
(* The free list and the references of the pool agree, for every capacity  *)
(* and whatever places hold frames.                                        *)

\* PoolTypeOK and PoolSound together are inductive.
Inv == PoolTypeOK /\ PoolSound

\* Taking the last free slot keeps the list and the references apart.
LEMMA AcquireSound ==
    ASSUME Inv, NEW h \in Holders, acquire(h)
    PROVE  Inv'
<1> DEFINE n == Len(freeSlots)
           s == freeSlots[n]
<1> USE FramePoolAssumption
<1>1. /\ n \in Nat \ {0} /\ s \in Slots /\ s # none
      /\ \A i \in 1 .. n : freeSlots[i] \in Slots
  BY DEF Inv, PoolTypeOK, acquire, Slots, none
<1>2. /\ freeSlots' \in Seq(Slots) /\ Len(freeSlots') = n - 1
      /\ \A i \in 1 .. n - 1 : freeSlots'[i] = freeSlots[i]
  BY <1>1 DEF acquire
<1>3. holder' = [holder EXCEPT ![h] = s] /\ holder' \in [Holders -> Slots \cup {none}]
  BY <1>1 DEF Inv, PoolTypeOK, acquire
<1>4. InUse' = InUse \cup {s}
  BY <1>1, <1>3 DEF Inv, PoolTypeOK, acquire, InUse
<1>5. PoolTypeOK'
  BY <1>2, <1>3 DEF PoolTypeOK, Slots, none
<1>6. PoolSound'
  <2>1. \A i, j \in 1 .. n - 1 : freeSlots'[i] = freeSlots'[j] => i = j
    BY <1>1, <1>2 DEF Inv, PoolSound
  <2>2. \A i \in 1 .. n - 1 : freeSlots'[i] \notin InUse'
    BY <1>1, <1>2, <1>4 DEF Inv, PoolSound
  <2>3. ASSUME NEW t \in Slots
        PROVE  t \in InUse' \/ \E i \in 1 .. n - 1 : freeSlots'[i] = t
    BY <1>1, <1>2, <1>4 DEF Inv, PoolSound
  <2> QED BY <1>2, <2>1, <2>2, <2>3 DEF PoolSound, Slots
<1> QED BY <1>5, <1>6 DEF Inv

\* Assigning a reference keeps them apart, whether it was the last one to its
\* slot or not.
LEMMA PointSound ==
    ASSUME Inv, NEW h \in Holders, NEW slot \in InUse \cup {none}, Point(h, slot)
    PROVE  Inv'
<1> DEFINE old == holder[h]
           n == Len(freeSlots)
           last == /\ old \notin {none, slot}
                   /\ \A g \in Holders \ {h} : holder[g] # old
<1> USE FramePoolAssumption
<1>1. /\ n \in Nat /\ old \in Slots \cup {none} /\ slot \in Slots \cup {none}
      /\ \A i \in 1 .. n : freeSlots[i] \in Slots
  BY DEF Inv, PoolTypeOK, InUse
<1>2. holder' = [holder EXCEPT ![h] = slot] /\ holder' \in [Holders -> Slots \cup {none}]
  BY <1>1 DEF Inv, PoolTypeOK, Point
<1>3. CASE last
  <2>1. /\ freeSlots' = Append(freeSlots, old) /\ old \in Slots /\ old \in InUse
        /\ freeSlots \in Seq(Slots)
    BY <1>1, <1>3 DEF Point, InUse, Inv, PoolTypeOK
  <2>2. /\ freeSlots' \in Seq(Slots) /\ Len(freeSlots') = n + 1 /\ freeSlots'[n + 1] = old
        /\ \A i \in 1 .. n : freeSlots'[i] = freeSlots[i]
    BY <2>1
  <2>3. InUse' = InUse \ {old}
    BY <1>1, <1>2, <1>3 DEF Inv, PoolTypeOK, InUse
  <2>4. \A i \in 1 .. n : freeSlots[i] # old
    BY <1>1, <2>1 DEF Inv, PoolSound
  <2>5. \A i, j \in 1 .. n + 1 : freeSlots'[i] = freeSlots'[j] => i = j
    BY <1>1, <2>2, <2>4 DEF Inv, PoolSound
  <2>6. \A i \in 1 .. n + 1 : freeSlots'[i] \notin InUse'
    BY <1>1, <2>2, <2>3 DEF Inv, PoolSound
  <2>7. ASSUME NEW t \in Slots
        PROVE  t \in InUse' \/ \E i \in 1 .. n + 1 : freeSlots'[i] = t
    BY <1>1, <2>2, <2>3 DEF Inv, PoolSound
  <2> QED BY <1>2, <2>2, <2>5, <2>6, <2>7 DEF Inv, PoolTypeOK, PoolSound, Slots
<1>4. CASE ~last
  <2>1. freeSlots' = freeSlots
    BY <1>4 DEF Point
  <2>2. InUse' = InUse
    BY <1>1, <1>2, <1>4 DEF Inv, PoolTypeOK, InUse
  <2> QED BY <1>2, <2>1, <2>2 DEF Inv, PoolTypeOK, PoolSound, Slots
<1> QED BY <1>3, <1>4

\* FramePool::create makes a sound pool.
LEMMA InitSound == PoolInit => Inv
<1> SUFFICES ASSUME PoolInit PROVE Inv
  OBVIOUS
<1> USE FramePoolAssumption
<1>1. freeSlots \in Seq(Slots) /\ Len(freeSlots) = count
  BY DEF PoolInit, Slots
<1>2. InUse = {}
  BY DEF PoolInit, InUse
<1>3. \A s \in Slots : s + 1 \in 1 .. count /\ freeSlots[s + 1] = s
  BY DEF PoolInit, Slots
<1>4. holder \in [Holders -> Slots \cup {none}]
  BY DEF PoolInit
<1>5. \A i, j \in 1 .. count : freeSlots[i] = freeSlots[j] => i = j
  BY DEF PoolInit
<1> QED BY <1>1, <1>2, <1>3, <1>4, <1>5 DEF Inv, PoolTypeOK, PoolSound

LEMMA PoolInvariance == PoolSpec => []Inv
<1>1. PoolInit => Inv
  BY InitSound
<1>2. Inv /\ [PoolNext]_pool => Inv'
  <2> SUFFICES ASSUME Inv, [PoolNext]_pool PROVE Inv'
    OBVIOUS
  <2>1. ASSUME NEW h \in Holders, acquire(h) PROVE Inv'
    BY <2>1, AcquireSound
  <2>2. ASSUME NEW h \in Holders, release(h) PROVE Inv'
    BY <2>2, PointSound DEF release
  <2>3. ASSUME NEW from \in Holders, NEW to \in Holders, copy(from, to) PROVE Inv'
    <3>1. holder[from] \in InUse
      BY <2>3 DEF copy, InUse
    <3> QED BY <2>3, <3>1, PointSound DEF copy
  <2>4. CASE UNCHANGED pool
    BY <2>4 DEF pool, Inv, PoolTypeOK, PoolSound, InUse, Slots
  <2> QED BY <2>1, <2>2, <2>3, <2>4 DEF PoolNext
<1> QED BY <1>1, <1>2, PTL DEF PoolSpec

\* No slot is ever handed out twice or lost (FramePool.h:6-9), for every
\* capacity and every set of places that keep frames.
THEOREM PoolStaysSound == PoolSpec => []PoolSound
<1>1. Inv => PoolSound
  BY DEF Inv
<1> QED BY <1>1, PoolInvariance, PTL

-----------------------------------------------------------------------------
(* A call implements the pool. *)

\* Every step of a call is one operation of the pool or none.
LEMMA StepsUsePool == [Next]_vars => [PoolNext]_pool
<1>1. "frame" \in Holders /\ "pendingFrame" \in Holders /\ "painted" \in Holders
  BY MediaSendAssumption
<1>. SUFFICES ASSUME [Next]_vars PROVE PoolNext \/ UNCHANGED pool
  OBVIOUS
<1>2. CASE Capture
  BY <1>1, <1>2 DEF Capture, PoolNext
<1>3. CASE Unexpected
  BY <1>1, <1>3 DEF Unexpected, Done, PoolNext
<1>4. CASE setFrame
  BY <1>1, <1>4 DEF setFrame, PoolNext
<1>5. CASE Skip
  BY <1>1, <1>5 DEF Skip, Done, PoolNext
<1>6. CASE EncodeFails
  BY <1>1, <1>6 DEF EncodeFails, PoolNext
<1>7. CASE FrameSent
  BY <1>1, <1>7 DEF FrameSent, Done, PoolNext
<1>8. CASE Paint
  BY <1>1, <1>8 DEF Paint, PoolNext
<1>9. CASE Painted
  BY <1>1, <1>9 DEF Painted, PoolNext
<1>10. CASE Deliver \/ Unusable \/ Encode \/ TestFlag \/ ClearFlag
  BY <1>10 DEF Deliver, Unusable, Encode, TestFlag, ClearFlag
<1>11. CASE Compress \/ SendVideo
  BY <1>11 DEF Compress, SendVideo
<1>12. CASE (\E n \in 1 .. need + 1 : Tap(n)) \/ TapStep
  BY <1>12 DEF Tap, TapStep, AudioFrame, pushAudioFrame, AudioFails
<1>13. CASE Leave \/ Left \/ Return \/ UseDestroyed
  BY <1>13 DEF Leave, Left, Return, UseDestroyed
<1>14. CASE toggleCamera \/ toggleMute \/ onStateChanged \/ requestKeyframe
  BY <1>14 DEF toggleCamera, toggleMute, onStateChanged, requestKeyframe, Event
<1>15. CASE UNCHANGED vars
  BY <1>15 DEF vars
<1>. QED
  BY <1>2, <1>3, <1>4, <1>5, <1>6, <1>7, <1>8, <1>9, <1>10, <1>11, <1>12, <1>13, <1>14,
     <1>15 DEF Next, QueueStep

\* The call implements the pool: its threads take, copy and drop references
\* to frames only in the ways that keep the pool sound (MacCapture.mm:109,
\* VideoWidget.cpp:82, 184).
THEOREM CallUsesPool == Spec => PoolSpec
<1>1. Init => PoolInit
  BY DEF Init
<1>. QED
  BY <1>1, StepsUsePool, PTL DEF Spec, PoolSpec

\* No two frames of a call share a buffer and none is lost to the pool, for
\* any number of buffers, frames and events.
THEOREM CallKeepsPoolSound == Spec => []PoolSound
BY CallUsesPool, PoolStaysSound, PTL
-----------------------------------------------------------------------------
(* Types, and which place holds a frame when. *)

QueueType ==
    /\ queue \in {"idle", "copied", "captured", "shown", "encoding", "forcing", "prepared",
                  "sending"}
    /\ queue \in {"idle", "copied"} <=> holder["frame"] = none

PaintType ==
    /\ gui \in {"call", "painting", "stopping", "left", "returned", "undefined"}
    /\ gui = "painting" <=> holder["painted"] # none

\* Only a whole frame is heard.
TapType ==
    /\ tap \in {"idle", "heard", "removed"}
    /\ accum \in 0 .. 2 * need
    /\ tap = "heard" => accum >= need

FlagType ==
    /\ sinceIdr \in none .. gopSize - 1
    /\ {cb, videoReady, forceKeyframe, forced, hasPending, cameraOff, muted, iceConnected,
        asked} \subseteq BOOLEAN

CallTypes == QueueType /\ PaintType /\ TapType /\ FlagType

LEMMA InitCallTypes == Init => CallTypes
<1>. SUFFICES ASSUME Init PROVE CallTypes
  OBVIOUS
<1>1. holder["frame"] = none /\ holder["painted"] = none
  BY MediaSendAssumption DEF Init, PoolInit
<1>2. QueueType /\ PaintType
  BY <1>1 DEF Init, CameraInit, QueueType, PaintType
<1>3. TapType
  BY MediaSendAssumption DEF Init, MicInit, TapType
<1>4. FlagType
  <2>1. sinceIdr \in none .. gopSize - 1
    BY MediaSendAssumption, SMT DEF Init, EncoderInit, none
  <2>. QED
    BY <2>1 DEF Init, CameraInit, EncoderInit, FlagType
<1>. QED
  BY <1>2, <1>3, <1>4 DEF CallTypes

\* What the operations of the pool do to its holders.
LEMMA Acquired ==
    ASSUME Inv, NEW h \in Holders, acquire(h)
    PROVE  /\ holder'[h] # none
           /\ \A g \in Holders \ {h} : holder'[g] = holder[g]
<1>1. freeSlots[Len(freeSlots)] \in Slots
  BY DEF Inv, PoolTypeOK, acquire
<1>2. none \notin Slots
  BY FramePoolAssumption DEF Slots, none
<1>. QED
  BY <1>1, <1>2 DEF Inv, PoolTypeOK, acquire

LEMMA Pointed ==
    ASSUME Inv, NEW h \in Holders, NEW slot, Point(h, slot)
    PROVE  /\ holder'[h] = slot
           /\ \A g \in Holders \ {h} : holder'[g] = holder[g]
BY DEF Inv, PoolTypeOK, Point

LEMMA QueueTypeStep == ASSUME Inv, QueueType, [Next]_vars PROVE QueueType'
<1>1. "frame" \in Holders /\ "pendingFrame" \in Holders /\ "painted" \in Holders
  BY MediaSendAssumption
<1>2. CASE Capture
  BY <1>1, <1>2, Acquired DEF Capture, QueueType
<1>3. CASE release("frame") /\ queue' = "idle"
  BY <1>1, <1>3, Pointed DEF release, QueueType
<1>4. CASE setFrame
  BY <1>1, <1>4, Pointed DEF setFrame, copy, QueueType
<1>5. CASE Paint
  BY <1>1, <1>5, Pointed DEF Paint, copy, QueueType
<1>6. CASE Painted
  BY <1>1, <1>6, Pointed DEF Painted, release, QueueType
<1>7. CASE Deliver \/ Unusable
  BY <1>7 DEF Deliver, Unusable, QueueType, pool
<1>8. CASE Encode \/ TestFlag \/ ClearFlag \/ Compress
  BY <1>8 DEF Encode, TestFlag, ClearFlag, Compress, QueueType, pool
<1>9. CASE UNCHANGED <<pool, queue>>
  BY <1>9 DEF QueueType, pool
<1>10. CASE \/ SendVideo \/ (\E n \in 1 .. need + 1 : Tap(n)) \/ TapStep
           \/ Leave \/ Left \/ Return \/ UseDestroyed
  BY <1>9, <1>10 DEF SendVideo, Tap, TapStep, AudioFrame, pushAudioFrame, AudioFails,
                     Leave, Left, Return, UseDestroyed
<1>11. CASE toggleCamera \/ toggleMute \/ onStateChanged \/ requestKeyframe
  BY <1>9, <1>11 DEF toggleCamera, toggleMute, onStateChanged, requestKeyframe, Event
<1>12. CASE Unexpected \/ Skip \/ EncodeFails \/ FrameSent
  BY <1>3, <1>12 DEF Unexpected, Skip, EncodeFails, FrameSent, Done
<1>13. CASE UNCHANGED vars
  BY <1>9, <1>13 DEF vars
<1>. QED
  BY <1>2, <1>4, <1>5, <1>6, <1>7, <1>8, <1>10, <1>11, <1>12, <1>13 DEF Next, QueueStep

LEMMA PaintTypeStep == ASSUME Inv, PaintType, [Next]_vars PROVE PaintType'
<1>1. "frame" \in Holders /\ "pendingFrame" \in Holders /\ "painted" \in Holders
  BY MediaSendAssumption
<1>2. CASE Capture
  BY <1>1, <1>2, Acquired DEF Capture, PaintType
<1>3. CASE release("frame") /\ UNCHANGED gui
  BY <1>1, <1>3, Pointed DEF release, PaintType
<1>4. CASE setFrame
  BY <1>1, <1>4, Pointed DEF setFrame, copy, PaintType
<1>5. CASE Paint
  BY <1>1, <1>5, Pointed DEF Paint, copy, PaintType
<1>6. CASE Painted
  BY <1>1, <1>6, Pointed DEF Painted, release, PaintType
<1>7. CASE Leave \/ Left \/ Return \/ UseDestroyed
  BY <1>7 DEF Leave, Left, Return, UseDestroyed, PaintType, pool
<1>8. CASE UNCHANGED <<pool, gui>>
  BY <1>8 DEF PaintType, pool
<1>9. CASE Deliver \/ Unusable \/ Encode \/ TestFlag \/ ClearFlag \/ Compress \/ SendVideo
  BY <1>8, <1>9 DEF Deliver, Unusable, Encode, TestFlag, ClearFlag, Compress, SendVideo
<1>10. CASE (\E n \in 1 .. need + 1 : Tap(n)) \/ TapStep
  BY <1>8, <1>10 DEF Tap, TapStep, AudioFrame, pushAudioFrame, AudioFails
<1>11. CASE toggleCamera \/ toggleMute \/ onStateChanged \/ requestKeyframe
  BY <1>8, <1>11 DEF toggleCamera, toggleMute, onStateChanged, requestKeyframe, Event
<1>12. CASE Unexpected \/ Skip \/ EncodeFails \/ FrameSent
  BY <1>3, <1>12 DEF Unexpected, Skip, EncodeFails, FrameSent, Done
<1>13. CASE UNCHANGED vars
  BY <1>8, <1>13 DEF vars
<1>. QED
  BY <1>2, <1>4, <1>5, <1>6, <1>7, <1>9, <1>10, <1>11, <1>12, <1>13 DEF Next, QueueStep

LEMMA TapTypeStep == ASSUME TapType, [Next]_vars PROVE TapType'
<1>. USE MediaSendAssumption DEF TapType
<1>1. CASE \E n \in 1 .. need + 1 : Tap(n)
  BY <1>1 DEF Tap
<1>2. CASE AudioFrame
  BY <1>2 DEF AudioFrame, Emitted
<1>3. CASE pushAudioFrame \/ AudioFails
  BY <1>3 DEF pushAudioFrame, AudioFails, Emitted
<1>4. CASE Left
  BY <1>4 DEF Left
<1>5. CASE UNCHANGED <<accum, tap>>
  BY <1>5
<1>6. CASE Deliver \/ QueueStep
  BY <1>5, <1>6 DEF Deliver, QueueStep, Unusable, Capture, Unexpected, setFrame, Skip, Encode,
     TestFlag, ClearFlag, EncodeFails, Compress, SendVideo, FrameSent, Done, mic
<1>7. CASE Paint \/ Painted \/ Leave \/ Return \/ UseDestroyed
  BY <1>5, <1>7 DEF Paint, Painted, Leave, Return, UseDestroyed, mic
<1>8. CASE toggleCamera \/ toggleMute \/ onStateChanged \/ requestKeyframe
  BY <1>5, <1>8 DEF toggleCamera, toggleMute, onStateChanged, requestKeyframe, Event, mic
<1>9. CASE UNCHANGED vars
  BY <1>5, <1>9 DEF vars, mic
<1>. QED
  BY <1>1, <1>2, <1>3, <1>4, <1>6, <1>7, <1>8, <1>9 DEF Next, TapStep

LEMMA FlagTypeStep == ASSUME FlagType, [Next]_vars PROVE FlagType'
<1>. USE DEF FlagType
<1>1. CASE Encode
  <2>1. sinceIdr' \in none .. gopSize - 1
    BY <1>1, MediaSendAssumption, SMT DEF Encode, open, none
  <2>. QED
    BY <1>1, <2>1 DEF Encode, open, camera, switches
<1>2. CASE TestFlag \/ ClearFlag
  BY <1>2 DEF TestFlag, ClearFlag, camera, switches
<1>3. CASE EncodeFails
  BY <1>3 DEF EncodeFails, camera, switches
<1>4. CASE Compress
  <2>1. sinceIdr' \in none .. gopSize - 1
    BY <1>4, MediaSendAssumption DEF Compress, Idr, none
  <2>. QED
    BY <1>4, <2>1 DEF Compress, camera, switches
<1>5. CASE Capture \/ Deliver
  BY <1>5 DEF Capture, Deliver, encoder, switches
<1>6. CASE Paint \/ Painted \/ Leave \/ Left \/ Return \/ UseDestroyed
  BY <1>6 DEF Paint, Painted, Leave, Left, Return, UseDestroyed, camera, encoder, switches
<1>7. CASE UNCHANGED <<camera, encoder, switches, hasPending>>
  BY <1>7 DEF camera, encoder, switches
<1>8. CASE Unusable \/ Unexpected \/ Skip \/ SendVideo \/ FrameSent
  BY <1>7, <1>8 DEF Unusable, Unexpected, Skip, SendVideo, FrameSent, Done
<1>9. CASE (\E n \in 1 .. need + 1 : Tap(n)) \/ TapStep
  BY <1>7, <1>9 DEF Tap, TapStep, AudioFrame, pushAudioFrame, AudioFails
<1>10. CASE toggleCamera \/ toggleMute \/ onStateChanged \/ requestKeyframe
  BY <1>10 DEF toggleCamera, toggleMute, onStateChanged, requestKeyframe, Event, camera
<1>11. CASE UNCHANGED vars
  BY <1>7, <1>11 DEF vars
<1>12. CASE setFrame
  BY <1>12 DEF setFrame, camera, encoder, switches
<1>. QED
  BY <1>1, <1>2, <1>3, <1>4, <1>5, <1>6, <1>8, <1>9, <1>10, <1>11, <1>12
     DEF Next, QueueStep

LEMMA CallTypesInvariance == Spec => []CallTypes
<1>1. Inv /\ CallTypes /\ [Next]_vars => CallTypes'
  BY QueueTypeStep, PaintTypeStep, TapTypeStep, FlagTypeStep DEF CallTypes
<1>. QED
  BY <1>1, InitCallTypes, CallUsesPool, PoolInvariance, PTL DEF Spec

-----------------------------------------------------------------------------
(* The flags. *)

\* Between the tests of the switches and the packets of the frame.
InEncoder == queue \in {"encoding", "forcing", "prepared"}

\* A delivery in progress may still call back, unless that was done.
Uncalled == queue \in {"copied", "captured"}

KeyframeInv ==
    /\ queue = "forcing" => forced
    /\ KeyframeFollows

CameraInv ==
    /\ sinceOff \in {0, 1}
    /\ sinceOff = 1 => cameraOff /\ ~InEncoder

MicInv ==
    /\ sinceMuted \in {0, 1}
    /\ sinceMuted = 1 => muted /\ tap # "heard"

StopInv ==
    /\ late \in {0, 1}
    /\ gui \in {"stopping", "left", "returned", "undefined"} => ~cb
    /\ late = 1 => gui \in {"left", "returned", "undefined"} /\ ~Uncalled

TimeInv ==
    /\ accum \in Int /\ samplesEmitted \in Int /\ tapped \in Int
    /\ AudioKeepsTime

SendInv == KeyframeInv /\ CameraInv /\ MicInv /\ StopInv /\ TimeInv

LEMMA InitSendInv == Init => SendInv
<1>. SUFFICES ASSUME Init PROVE SendInv
  OBVIOUS
<1>1. KeyframeInv
  BY DEF Init, CameraInit, EncoderInit, KeyframeInv, KeyframeFollows
<1>2. CameraInv
  BY DEF Init, CameraInv
<1>3. MicInv
  BY DEF Init, MicInv
<1>4. StopInv
  BY DEF Init, CameraInit, StopInv
<1>5. TimeInv
  BY DEF Init, MicInit, TimeInv, AudioKeepsTime
<1>. QED
  BY <1>1, <1>2, <1>3, <1>4, <1>5 DEF SendInv

\* A request is in the flag, in the picture being made, or an IDR is due.
LEMMA KeyframeStep ==
    ASSUME KeyframeInv, [Next]_vars
    PROVE  KeyframeInv'
<1>. USE DEF KeyframeInv, KeyframeFollows
<1>1. CASE Deliver \/ Unusable \/ Capture \/ setFrame
  BY <1>1 DEF Deliver, Unusable, Capture, setFrame, encoder
<1>2. CASE Unexpected \/ Skip \/ FrameSent
  BY <1>2 DEF Unexpected, Skip, FrameSent, Done, encoder
<1>3. CASE Encode
  BY <1>3 DEF Encode, open
<1>4. CASE TestFlag
  BY <1>4 DEF TestFlag
<1>5. CASE ClearFlag
  BY <1>5 DEF ClearFlag
<1>6. CASE EncodeFails
  BY <1>6 DEF EncodeFails
<1>7. CASE Compress
  BY <1>7 DEF Compress, Idr
<1>8. CASE SendVideo
  BY <1>8 DEF SendVideo, encoder
<1>9. CASE (\E n \in 1 .. need + 1 : Tap(n)) \/ TapStep
  BY <1>9 DEF Tap, TapStep, AudioFrame, pushAudioFrame, AudioFails, encoder
<1>10. CASE Paint \/ Painted \/ Leave \/ Left \/ Return \/ UseDestroyed
  BY <1>10 DEF Paint, Painted, Leave, Left, Return, UseDestroyed, encoder
<1>11. CASE toggleCamera \/ toggleMute \/ onStateChanged \/ requestKeyframe
  BY <1>11 DEF toggleCamera, toggleMute, onStateChanged, requestKeyframe, Event
<1>12. CASE UNCHANGED vars
  BY <1>12 DEF vars, encoder
<1>. QED
  BY <1>1, <1>2, <1>3, <1>4, <1>5, <1>6, <1>7, <1>8, <1>9, <1>10, <1>11, <1>12
     DEF Next, QueueStep

\* Only the frame that is in the encoder can be sent with the camera off.
LEMMA CameraStep ==
    ASSUME CameraInv, [Next]_vars
    PROVE  CameraInv'
<1>. USE DEF CameraInv, InEncoder
<1>1. CASE Deliver \/ Unusable \/ Capture \/ setFrame
  BY <1>1 DEF Deliver, Unusable, Capture, setFrame, counts, switches
<1>2. CASE Unexpected \/ Skip \/ FrameSent \/ EncodeFails
  BY <1>2 DEF Unexpected, Skip, FrameSent, EncodeFails, Done, counts, switches
<1>3. CASE Encode
  BY <1>3 DEF Encode, NotSent, counts, switches
<1>4. CASE TestFlag \/ ClearFlag
  BY <1>4 DEF TestFlag, ClearFlag, counts, switches
<1>5. CASE Compress
  BY <1>5 DEF Compress, Flag, switches
<1>6. CASE SendVideo
  BY <1>6 DEF SendVideo, counts, switches
<1>7. CASE (\E n \in 1 .. need + 1 : Tap(n)) \/ TapStep
  BY <1>7 DEF Tap, TapStep, AudioFrame, pushAudioFrame, AudioFails, counts, switches
<1>8. CASE Paint \/ Painted \/ Leave \/ Left \/ Return \/ UseDestroyed
  BY <1>8 DEF Paint, Painted, Leave, Left, Return, UseDestroyed, counts, switches
<1>9. CASE toggleCamera \/ toggleMute \/ onStateChanged \/ requestKeyframe
  BY <1>9 DEF toggleCamera, toggleMute, onStateChanged, requestKeyframe, Event
<1>10. CASE UNCHANGED vars
  BY <1>10 DEF vars, counts, switches
<1>. QED
  BY <1>1, <1>2, <1>3, <1>4, <1>5, <1>6, <1>7, <1>8, <1>9, <1>10 DEF Next, QueueStep

\* Only the frame that has passed the test can be sent while muted.
LEMMA MicStep ==
    ASSUME MicInv, [Next]_vars
    PROVE  MicInv'
<1>. USE DEF MicInv
<1>1. CASE Deliver \/ QueueStep
  BY <1>1 DEF Deliver, QueueStep, Unusable, Capture, Unexpected, setFrame, Skip, Encode,
      TestFlag, ClearFlag, EncodeFails, Compress, SendVideo, FrameSent, Done, counts,
      switches, mic
<1>2. CASE \E n \in 1 .. need + 1 : Tap(n)
  BY <1>2 DEF Tap, counts, switches
<1>3. CASE AudioFrame
  BY <1>3 DEF AudioFrame, counts, switches
<1>4. CASE pushAudioFrame
  BY <1>4 DEF pushAudioFrame, Flag, switches
<1>5. CASE AudioFails
  BY <1>5 DEF AudioFails, counts, switches
<1>6. CASE Paint \/ Painted \/ Leave \/ Left \/ Return \/ UseDestroyed
  BY <1>6 DEF Paint, Painted, Leave, Left, Return, UseDestroyed, counts, switches, mic
<1>7. CASE toggleCamera \/ toggleMute \/ onStateChanged \/ requestKeyframe
  BY <1>7 DEF toggleCamera, toggleMute, onStateChanged, requestKeyframe, Event, mic
<1>8. CASE UNCHANGED vars
  BY <1>8 DEF vars, counts, switches, mic
<1>. QED
  BY <1>1, <1>2, <1>3, <1>4, <1>5, <1>6, <1>7, <1>8 DEF Next, TapStep

\* Once the callback is cleared only the delivery that had copied it calls it.
LEMMA StopStep ==
    ASSUME StopInv, [Next]_vars
    PROVE  StopInv'
<1>. USE DEF StopInv, Uncalled
<1>1. CASE Deliver
  BY <1>1 DEF Deliver, counts
<1>2. CASE Unusable \/ Capture
  BY <1>2 DEF Unusable, Capture, counts, camera
<1>3. CASE setFrame
  BY <1>3 DEF setFrame, Flag, camera
<1>4. CASE Unexpected \/ Skip \/ FrameSent \/ EncodeFails
  BY <1>4 DEF Unexpected, Skip, FrameSent, EncodeFails, Done, counts, camera
<1>5. CASE Encode \/ TestFlag \/ ClearFlag \/ Compress \/ SendVideo
  BY <1>5 DEF Encode, TestFlag, ClearFlag, Compress, SendVideo, counts, camera
<1>6. CASE (\E n \in 1 .. need + 1 : Tap(n)) \/ TapStep
  BY <1>6 DEF Tap, TapStep, AudioFrame, pushAudioFrame, AudioFails, counts, camera
<1>7. CASE Paint \/ Painted \/ Leave \/ Left \/ Return \/ UseDestroyed
  BY <1>7 DEF Paint, Painted, Leave, Left, Return, UseDestroyed, counts, camera
<1>8. CASE toggleCamera \/ toggleMute \/ onStateChanged \/ requestKeyframe
  BY <1>8 DEF toggleCamera, toggleMute, onStateChanged, requestKeyframe, Event, camera
<1>9. CASE UNCHANGED vars
  BY <1>9 DEF vars, counts, camera
<1>. QED
  BY <1>1, <1>2, <1>3, <1>4, <1>5, <1>6, <1>7, <1>8, <1>9 DEF Next, QueueStep

\* A frame takes from the samples that wait what it adds to the time.
LEMMA TimeStep ==
    ASSUME TimeInv, [Next]_vars
    PROVE  TimeInv'
<1>. USE MediaSendAssumption DEF TimeInv, AudioKeepsTime
<1>1. CASE Deliver \/ QueueStep
  BY <1>1 DEF Deliver, QueueStep, Unusable, Capture, Unexpected, setFrame, Skip, Encode,
      TestFlag, ClearFlag, EncodeFails, Compress, SendVideo, FrameSent, Done, mic
<1>2. CASE \E n \in 1 .. need + 1 : Tap(n)
  BY <1>2 DEF Tap
<1>3. CASE AudioFrame
  BY <1>3 DEF AudioFrame, Emitted
<1>4. CASE pushAudioFrame \/ AudioFails
  BY <1>4 DEF pushAudioFrame, AudioFails, Emitted
<1>5. CASE Paint \/ Painted \/ Leave \/ Left \/ Return \/ UseDestroyed
  BY <1>5 DEF Paint, Painted, Leave, Left, Return, UseDestroyed, mic
<1>6. CASE toggleCamera \/ toggleMute \/ onStateChanged \/ requestKeyframe
  BY <1>6 DEF toggleCamera, toggleMute, onStateChanged, requestKeyframe, Event, mic
<1>7. CASE UNCHANGED vars
  BY <1>7 DEF vars, mic
<1>. QED
  BY <1>1, <1>2, <1>3, <1>4, <1>5, <1>6, <1>7 DEF Next, TapStep

LEMMA SendInvariant == Spec => []SendInv
<1>1. SendInv /\ [Next]_vars => SendInv'
  BY KeyframeStep, CameraStep, MicStep, StopStep, TimeStep DEF SendInv
<1>. QED
  BY InitSendInv, <1>1, PTL DEF Spec

\* A keyframe request is not lost, whatever is skipped before the next encode
\* and even if it came in the middle of one, unless x264 refuses the frame
\* (VideoEncoder.cpp:120-147).
THEOREM KeyframesFollow == Spec => []KeyframeFollows
<1>1. SendInv => KeyframeFollows
  BY DEF SendInv, KeyframeInv
<1>. QED
  BY SendInvariant, <1>1, PTL

\* At every moment of a call the variables have their types; a switch that is off
\* lets at most the frame pass that had passed the test, and so does stop; and a
\* sample's time is when it was captured, whatever was muted or failed before it
\* (group_call.cpp:247, 271, MacCapture.mm:304, MacAudio.mm:142).
THEOREM CallIsSound == Spec => []CallInv
<1>1. Inv /\ CallTypes => TypeOK
  BY DEF Inv, CallTypes, QueueType, PaintType, TapType, FlagType, TypeOK
<1>2. SendInv => SwitchesObeyed
  BY DEF SendInv, CameraInv, MicInv, SwitchesObeyed
<1>3. SendInv => StopIsFinal
  BY DEF SendInv, StopInv, StopIsFinal
<1>4. SendInv => AudioKeepsTime
  BY DEF SendInv, TimeInv
<1>5. Inv /\ CallTypes /\ SendInv => CallInv
  BY <1>1, <1>2, <1>3, <1>4 DEF CallInv
<1>. QED
  BY <1>5, CallTypesInvariance, SendInvariant, CallUsesPool, PoolInvariance, PTL
-----------------------------------------------------------------------------
(* Numbers and times of 16 and 32 bits. *)

IsU16(n) == n \in Nat /\ n < 65536

LEMMA Kept ==
    ASSUME NEW x \in Int
    PROVE  IsU16(U16(x))
BY SMT DEF U16, IsU16

\* What is kept of a sum depends on what was kept of its parts.
LEMMA KeptSum ==
    ASSUME NEW x \in Int, NEW k \in Int
    PROVE  U16(U16(x) + k) = U16(x + k)
BY SMT DEF U16

\* The halves of a number.
LEMMA Halves ==
    ASSUME NEW x \in Int
    PROVE  x \div 65536 \in Int /\ x = 65536 * (x \div 65536) + U16(x)
BY SMT DEF U16

\* Turns of the circle are not kept.
LEMMA KeptTurns ==
    ASSUME NEW d, NEW k \in Int, IsU16(d)
    PROVE  U16(d - 65536 * k) = d
<1>. DEFINE n == d - 65536 * k
            q == n \div 65536
            r == U16(n)
<1>1. n \in Int /\ d = n + 65536 * k
  BY SMT DEF IsU16
<1>. HIDE DEF n
<1>2. q \in Int /\ n = 65536 * q + r /\ IsU16(r)
  BY <1>1, Halves, Kept, SMT
<1>. HIDE DEF q, r
<1>. DEFINE m == q + k
<1>3. m \in Int /\ d - r = 65536 * m
  BY <1>1, <1>2, SMT DEF IsU16
<1>. HIDE DEF m
<1>4. d = r
  BY <1>2, <1>3, SMT DEF IsU16
<1>. QED
  BY <1>4 DEF n, r

\* What a difference of kept numbers says of the numbers.
LEMMA KeptDifference ==
    ASSUME NEW x \in Int, NEW y \in Int, NEW b \in {0, 1}, IsU16(y - x - b)
    PROVE  U16(U16(y) - U16(x) - b) = y - x - b
<1>. DEFINE k == (y \div 65536) - (x \div 65536)
            d == y - x - b
<1>1. k \in Int /\ U16(y) - U16(x) - b = d - 65536 * k
  <2>1. /\ x \div 65536 \in Int /\ x = 65536 * (x \div 65536) + U16(x)
        /\ y \div 65536 \in Int /\ y = 65536 * (y \div 65536) + U16(y)
    BY Halves, SMT
  <2>2. IsU16(U16(x)) /\ IsU16(U16(y))
    BY Kept, SMT
  <2>. QED
    BY <2>1, <2>2, SMT DEF IsU16
<1>2. IsU16(d)
  OBVIOUS
<1>. HIDE DEF k, d
<1>3. U16(d - 65536 * k) = d
  BY <1>1, <1>2, KeptTurns
<1>. QED
  BY <1>1, <1>3 DEF d

LEMMA LaterTimes ==
    ASSUME NEW e \in Int, NEW ticks \in Int, NEW t \in Int, NEW u \in Int,
           (t - e) * ticks < (u - e) * ticks, (u - e) * ticks - (t - e) * ticks < 2147483648
    PROVE  Later(toRtp(t, e, ticks), toRtp(u, e, ticks))
<1>. DEFINE x == (t - e) * ticks
            y == (u - e) * ticks
            X == x \div 65536
            Y == y \div 65536
            r == U16(x)
            s == U16(y)
            b == Flag(s < r, 1)
<1>1. x \in Int /\ y \in Int /\ x < y /\ y - x < 2147483648
  BY SMT
<1>2. /\ toRtp(t, e, ticks) = <<U16(X), r>>
      /\ toRtp(u, e, ticks) = <<U16(Y), s>>
  BY SMT DEF toRtp
<1>. HIDE DEF x, y
<1>3. /\ X \in Int /\ x = 65536 * X + r
      /\ Y \in Int /\ y = 65536 * Y + s
  BY <1>1, Halves, SMT
<1>4. IsU16(r) /\ IsU16(s)
  BY <1>1, Kept, SMT
<1>5. b \in {0, 1} /\ (b = 1 <=> s < r)
  BY SMT DEF Flag
<1>. HIDE DEF X, Y, r, s, b
<1>6. 0 <= Y - X - b /\ Y - X - b < 32768
  BY <1>1, <1>3, <1>4, <1>5, SMT DEF IsU16
<1>7. U16(U16(Y) - U16(X) - b) = Y - X - b
  <2>1. IsU16(Y - X - b)
    BY <1>3, <1>5, <1>6, SMT DEF IsU16
  <2>. QED
    BY <1>3, <1>5, <2>1, KeptDifference, SMT
<1>8. ~(U16(X) = U16(Y) /\ r = s)
  <2>. SUFFICES ASSUME U16(X) = U16(Y), r = s PROVE FALSE
    OBVIOUS
  <2>1. b = 0
    BY <1>4, <1>5, SMT DEF IsU16
  <2>2. U16(U16(Y) - U16(X) - b) = 0
    BY <1>3, <2>1, SMT DEF U16
  <2>. QED
    BY <1>1, <1>3, <1>4, <1>7, <2>1, <2>2, SMT DEF IsU16
<1>. QED
  BY <1>2, <1>5, <1>6, <1>7, <1>8, SMT DEF Later, b

-----------------------------------------------------------------------------
(* An access unit becomes a sequence of packets. *)

LEMMA LeastNat ==
    ASSUME NEW S \in SUBSET Nat, S # {}
    PROVE  \E x \in S : \A y \in S : x <= y
<1>1. PICK x \in S : \A y \in S : <<y, x>> \notin OpToRel(<, Nat)
  BY NatLessThanWellFounded, WFMin
<1>2. \A y \in S : ~(y < x)
  BY <1>1 DEF OpToRel
<1>. QED
  BY <1>2

\* Of a finite set of numbers there is a first, a second, ... and a last.
LEMMA KthExists ==
    ASSUME NEW m \in Nat, NEW T \in SUBSET (1 .. m), NEW k \in 1 .. Cardinality(T)
    PROVE  \E i \in T : Cardinality({j \in T : j <= i}) = k
<1>. DEFINE upTo(i) == {j \in T : j <= i}
            c(i) == Cardinality(upTo(i))
            S == {i \in Nat : c(i) >= k}
<1>1. IsFiniteSet(T) /\ Cardinality(T) \in Nat
  <2>1. IsFiniteSet(1 .. m)
    BY FS_Interval
  <2>. QED
    BY <2>1, FS_Subset, FS_CardinalityType
<1>2. ASSUME NEW i PROVE IsFiniteSet(upTo(i)) /\ c(i) \in Nat
  <2>1. upTo(i) \subseteq T
    OBVIOUS
  <2>. QED
    BY <1>1, <2>1, FS_Subset, FS_CardinalityType
<1>3. upTo(m) = T /\ upTo(0) = {}
  <2>1. \A j \in T : j \in 1 .. m
    OBVIOUS
  <2>2. \A j \in T : j <= m /\ ~(j <= 0)
    BY <2>1
  <2>. QED
    BY <2>2
<1>4. c(0) = 0
  BY <1>3, FS_EmptySet
<1>5. PICK i \in S : \A j \in S : i <= j
  <2>1. m \in S
    BY <1>1, <1>3
  <2>2. S \in SUBSET Nat /\ S # {}
    BY <2>1
  <2>. HIDE DEF S
  <2>. QED
    BY <2>2, LeastNat
<1>6. i \in Nat /\ c(i) >= k /\ i # 0
  BY <1>4, <1>5
<1>7. i - 1 \in Nat /\ c(i - 1) < k
  <2>1. i - 1 \in Nat /\ ~(i <= i - 1)
    BY <1>6
  <2>2. i - 1 \notin S
    <3>. HIDE DEF S
    <3>. QED
      BY <1>5, <2>1
  <2>3. c(i - 1) \in Nat /\ ~(c(i - 1) >= k)
    BY <1>2, <2>1, <2>2
  <2>. HIDE DEF c
  <2>. QED
    BY <2>1, <2>3
<1>8. i \in T
  <2>. SUFFICES ASSUME i \notin T PROVE FALSE
    OBVIOUS
  <2>1. \A j \in T : j \in Int /\ j # i
    OBVIOUS
  <2>2. \A j \in T : j <= i <=> j <= i - 1
    BY <1>6, <2>1
  <2>3. upTo(i) = upTo(i - 1)
    BY <2>2
  <2>. QED
    BY <1>2, <1>6, <1>7, <2>3
<1>9. c(i) = c(i - 1) + 1
  <2>1. upTo(i) = upTo(i - 1) \cup {i} /\ i \notin upTo(i - 1)
    <3>1. \A j \in T : j \in Int
      OBVIOUS
    <3>2. \A j \in T : (j <= i <=> (j <= i - 1 \/ j = i)) /\ ~(i <= i - 1)
      BY <1>6, <3>1
    <3>. QED
      BY <1>8, <3>2
  <2>2. IsFiniteSet(upTo(i - 1))
    BY <1>2
  <2>. HIDE DEF upTo
  <2>. QED
    BY <2>1, <2>2, FS_AddElement
<1>10. c(i) = k
  <2>1. c(i - 1) \in Nat
    BY <1>2
  <2>. HIDE DEF c
  <2>. QED
    BY <1>6, <1>7, <1>9, <2>1
<1>. QED
  BY <1>8, <1>10

\* An access unit is taken apart into a sequence of byte strings.
LEMMA NalsAreStrings ==
    ASSUME NEW d \in Seq(Nat)
    PROVE  findNalUnits(d) \in Seq(Seq(Nat))
<1>. DEFINE codes == {i \in 1 .. Len(d) - 2 : d[i] = 0 /\ d[i + 1] = 0 /\ d[i + 2] = 1}
            codeBegin(i) == IF i > 1 /\ d[i - 1] = 0 /\ \E j \in codes : j + 3 <= i - 1
                            THEN i - 1 ELSE i
            after(i) == {j \in codes : j > i}
            end(i) == IF after(i) = {} THEN Len(d) + 1 ELSE codeBegin(Min(after(i)))
            begun == {i \in codes : i + 3 < end(i)}
            kth(k) == CHOOSE i \in begun : Cardinality({j \in begun : j <= i}) = k
            n == Cardinality(begun)
            nal(k) == SubSeq(d, kth(k) + 3, end(kth(k)) - 1)
<1>1. Len(d) \in Nat /\ codes \subseteq 1 .. Len(d) /\ begun \subseteq codes
  OBVIOUS
<1>2. n \in Nat
  <2>1. IsFiniteSet(1 .. Len(d))
    BY <1>1, FS_Interval
  <2>2. begun \subseteq 1 .. Len(d)
    BY <1>1
  <2>. HIDE DEF begun
  <2>. QED
    BY <2>1, <2>2, FS_Subset, FS_CardinalityType
<1>3. ASSUME NEW i PROVE end(i) \in Int /\ end(i) <= Len(d) + 1
  <2>1. CASE after(i) = {}
    BY <1>1, <2>1
  <2>2. CASE after(i) # {}
    <3>1. after(i) \in SUBSET Nat /\ \A x \in after(i) : x <= Len(d)
      BY <1>1
    <3>2. \E x \in after(i) : \A y \in after(i) : x <= y
      <4>. HIDE DEF after
      <4>. QED
        BY <2>2, <3>1, LeastNat
    <3>3. Min(after(i)) \in Nat /\ Min(after(i)) <= Len(d)
      <4>. HIDE DEF after
      <4>. QED
        BY <3>1, <3>2 DEF Min
    <3>4. end(i) = Min(after(i)) \/ end(i) = Min(after(i)) - 1
      BY <2>2
    <3>. HIDE DEF after, codes, end
    <3>. QED
      BY <1>1, <3>3, <3>4
  <2>. QED
    BY <2>1, <2>2
<1>4. ASSUME NEW k \in 1 .. n PROVE nal(k) \in Seq(Nat)
  <2>1. begun \in SUBSET (1 .. Len(d))
    BY <1>1
  <2>2. kth(k) \in 1 .. Len(d)
    <3>. HIDE DEF begun
    <3>1. \E i \in begun : Cardinality({j \in begun : j <= i}) = k
      BY <1>1, <2>1, KthExists
    <3>2. kth(k) \in begun
      BY <3>1
    <3>. HIDE DEF kth
    <3>. QED
      BY <2>1, <3>2
  <2>3. end(kth(k)) \in Int /\ end(kth(k)) <= Len(d) + 1
    BY <1>3
  <2>4. /\ kth(k) + 3 \in Int /\ 1 <= kth(k) + 3
        /\ end(kth(k)) - 1 \in Int /\ end(kth(k)) - 1 <= Len(d)
    <3>. HIDE DEF kth, end
    <3>. QED
      BY <1>1, <2>2, <2>3
  <2>. DEFINE a == kth(k) + 3
              b == end(kth(k)) - 1
  <2>5. a \in Int /\ b \in Int /\ 1 <= a /\ b <= Len(d)
    BY <2>4
  <2>. HIDE DEF a, b
  <2>6. SubSeq(d, a, b) \in Seq(Nat)
    BY <2>5
  <2>. QED
    BY <2>6 DEF a, b
<1>5. findNalUnits(d) = [k \in 1 .. n |-> nal(k)]
  BY DEF findNalUnits
<1>. HIDE DEF n, nal
<1>6. [k \in 1 .. n |-> nal(k)] \in Seq(Seq(Nat))
  BY <1>2, <1>4
<1>. QED
  BY <1>5, <1>6

\* What can be said of a sequence whatever it holds.
IsSequence(s) == s \in Seq({s[i] : i \in DOMAIN s})

LEMMA SequenceOf ==
    ASSUME NEW n \in Nat, NEW s, s = [i \in 1 .. n |-> s[i]]
    PROVE  IsSequence(s) /\ Len(s) = n
<1>. DEFINE V == {s[i] : i \in DOMAIN s}
<1>1. DOMAIN s = 1 .. n
  OBVIOUS
<1>2. \A i \in 1 .. n : s[i] \in V
  BY <1>1
<1>. HIDE DEF V
<1>3. s \in [1 .. n -> V]
  BY <1>2
<1>4. s \in Seq(V) /\ Len(s) = n
  BY <1>3
<1>. QED
  BY <1>4 DEF IsSequence, V

LEMMA SequencesHold ==
    ASSUME NEW V, NEW s \in Seq(V)
    PROVE  IsSequence(s)
<1>1. Len(s) \in Nat /\ s = [i \in 1 .. Len(s) |-> s[i]]
  OBVIOUS
<1>. QED
  BY <1>1, SequenceOf

LEMMA FragmentsAreSequences ==
    ASSUME NEW nal \in Seq(Nat), Len(nal) > maxPayload
    PROVE  IsSequence(fragments(nal))
<1>. DEFINE chunk == IF maxPayload > 2 THEN maxPayload - 2 ELSE 1
            n == (Len(nal) + chunk - 2) \div chunk
            part(k) ==
                <<nal[1] - NalType(nal[1]) + FuA,
                  NalType(nal[1]) + Flag(k = 1, 128) + Flag(k = n, 64)>>
                \o Bytes(nal, 1 + (k - 1) * chunk, Min({Len(nal), 1 + k * chunk}))
<1>1. chunk \in Nat \ {0} /\ Len(nal) + chunk - 2 \in Nat
  BY RtpFormatAssumption
<1>2. n \in Nat
  <2>. DEFINE a == Len(nal) + chunk - 2
  <2>1. a \in Nat /\ chunk \in Nat \ {0}
    BY <1>1
  <2>2. n = a \div chunk
    OBVIOUS
  <2>. HIDE DEF a, chunk, n
  <2>3. a \div chunk \in Nat
    BY <2>1
  <2>. QED
    BY <2>2, <2>3
<1>3. fragments(nal) = [k \in 1 .. n |-> part(k)]
  BY DEF fragments
<1>. HIDE DEF n, part
<1>4. fragments(nal) = [k \in 1 .. n |-> fragments(nal)[k]]
  BY <1>3
<1>. QED
  BY <1>2, <1>4, SequenceOf

LEMMA SplitParts ==
    ASSUME NEW nals \in Seq(Seq(Nat))
    PROVE  /\ Len(Split(nals)) = Len(nals)
           /\ \A k \in 1 .. Len(nals) : IsSequence(Split(nals)[k])
<1>1. Len(nals) \in Nat /\ DOMAIN nals = 1 .. Len(nals)
  OBVIOUS
<1>2. ASSUME NEW k \in 1 .. Len(nals) PROVE IsSequence(Split(nals)[k])
  <2>1. nals[k] \in Seq(Nat)
    OBVIOUS
  <2>2. Split(nals)[k] = IF Len(nals[k]) <= maxPayload THEN <<nals[k]>> ELSE fragments(nals[k])
    BY <1>1 DEF Split
  <2>3. IsSequence(<<nals[k]>>)
    <3>1. <<nals[k]>> \in Seq(Seq(Nat))
      BY <2>1
    <3>. QED
      BY <3>1, SequencesHold
  <2>4. CASE ~(Len(nals[k]) <= maxPayload)
    <3>1. Len(nals[k]) > maxPayload
      BY <2>1, <2>4, RtpFormatAssumption
    <3>. QED
      BY <2>1, <2>2, <2>4, <3>1, FragmentsAreSequences
  <2>. QED
    BY <2>2, <2>3, <2>4
<1>3. Split(nals) = [k \in 1 .. Len(nals) |-> Split(nals)[k]]
  BY <1>1 DEF Split
<1>4. Len(Split(nals)) = Len(nals)
  BY <1>1, <1>3, SequenceOf
<1>. QED
  BY <1>2, <1>4

\* g is what joining has made after each of the first m parts.
Joins(g, parts, m) == g = [n \in 0 .. m |-> IF n = 0 THEN <<>> ELSE g[n - 1] \o parts[n]]

LEMMA JoiningExists ==
    ASSUME NEW parts, NEW m \in Nat
    PROVE  \E g : Joins(g, parts, m)
<1>. DEFINE Made(k) == \E g : Joins(g, parts, k)
            S == {k \in Nat : ~Made(k)}
<1>. SUFFICES ASSUME S # {} PROVE FALSE
  OBVIOUS
<1>1. PICK k \in S : \A j \in S : k <= j
  <2>1. S \in SUBSET Nat
    OBVIOUS
  <2>. HIDE DEF S
  <2>. QED
    BY <2>1, LeastNat
<1>2. k \in Nat /\ ~Made(k)
  OBVIOUS
<1>3. CASE k = 0
  <2>. DEFINE g == [n \in 0 .. 0 |-> <<>>]
  <2>1. g = [n \in 0 .. 0 |-> IF n = 0 THEN <<>> ELSE g[n - 1] \o parts[n]]
    OBVIOUS
  <2>2. Made(0)
    BY <2>1 DEF Joins
  <2>. QED
    BY <1>2, <1>3, <2>2
<1>4. CASE k # 0
  <2>1. k - 1 \in Nat /\ k - 1 \notin S
    BY <1>1, <1>2, <1>4
  <2>2. PICK f : f = [n \in 0 .. k - 1 |-> IF n = 0 THEN <<>> ELSE f[n - 1] \o parts[n]]
    BY <2>1 DEF Joins
  <2>. DEFINE last == f[k - 1] \o parts[k]
              g == [n \in 0 .. k |-> IF n = k THEN last ELSE f[n]]
  <2>3. ASSUME NEW n \in 0 .. k
        PROVE  g[n] = IF n = 0 THEN <<>> ELSE g[n - 1] \o parts[n]
    <3>1. CASE n = k
      <4>1. g[n] = last /\ n # 0
        BY <1>4, <3>1
      <4>2. g[n - 1] = f[k - 1]
        BY <1>2, <1>4, <3>1
      <4>. QED
        BY <3>1, <4>1, <4>2
    <3>2. CASE n # k
      <4>1. n \in 0 .. k - 1 /\ g[n] = f[n]
        BY <1>2, <3>2
      <4>2. n # 0 => g[n - 1] = f[n - 1]
        BY <1>2, <4>1
      <4>3. f[n] = IF n = 0 THEN <<>> ELSE f[n - 1] \o parts[n]
        BY <2>2, <4>1
      <4>. HIDE DEF g
      <4>. QED
        BY <4>1, <4>2, <4>3
    <3>. QED
      BY <3>1, <3>2
  <2>4. g = [n \in 0 .. k |-> g[n]]
    OBVIOUS
  <2>. HIDE DEF g
  <2>5. g = [n \in 0 .. k |-> IF n = 0 THEN <<>> ELSE g[n - 1] \o parts[n]]
    BY <2>3, <2>4
  <2>. QED
    BY <1>2, <2>5 DEF Joins
<1>. QED
  BY <1>3, <1>4

\* Sequences joined are a sequence.
LEMMA JoinedIsSequence ==
    ASSUME NEW parts, Len(parts) \in Nat, \A k \in 1 .. Len(parts) : IsSequence(parts[k])
    PROVE  IsSequence(Joined(parts))
<1>. DEFINE m == Len(parts)
            g == CHOOSE h : Joins(h, parts, m)
            V == UNION {{parts[k][i] : i \in DOMAIN parts[k]} : k \in 1 .. m}
            S == {n \in 0 .. m : g[n] \notin Seq(V)}
<1>1. Joined(parts) = g[m]
  BY DEF Joined, Joins
<1>2. g = [n \in 0 .. m |-> IF n = 0 THEN <<>> ELSE g[n - 1] \o parts[n]]
  <2>1. \E h : Joins(h, parts, m)
    BY JoiningExists
  <2>2. Joins(g, parts, m)
    BY <2>1
  <2>. HIDE DEF g
  <2>. QED
    BY <2>2 DEF Joins
<1>. HIDE DEF g
<1>3. ASSUME NEW k \in 1 .. m PROVE parts[k] \in Seq(V)
  <2>. DEFINE W == {parts[k][i] : i \in DOMAIN parts[k]}
  <2>1. W \subseteq V
    OBVIOUS
  <2>2. parts[k] \in Seq(W)
    BY DEF IsSequence
  <2>. HIDE DEF V, W
  <2>. QED
    BY <2>1, <2>2
<1>. HIDE DEF V
<1>4. S = {}
  <2>. SUFFICES ASSUME S # {} PROVE FALSE
    OBVIOUS
  <2>1. PICK k \in S : \A j \in S : k <= j
    <3>1. S \in SUBSET Nat
      OBVIOUS
    <3>. HIDE DEF S
    <3>. QED
      BY <3>1, LeastNat
  <2>2. k \in 0 .. m /\ g[k] \notin Seq(V)
    OBVIOUS
  <2>3. g[0] = <<>>
    BY <1>2
  <2>4. k # 0
    <3>1. <<>> \in Seq(V)
      OBVIOUS
    <3>. QED
      BY <2>2, <2>3, <3>1
  <2>5. k - 1 \in 0 .. m /\ ~(k <= k - 1)
    BY <2>2, <2>4
  <2>6. g[k - 1] \in Seq(V)
    BY <2>1, <2>5
  <2>7. g[k] = g[k - 1] \o parts[k]
    BY <1>2, <2>2, <2>4
  <2>8. parts[k] \in Seq(V)
    BY <1>3, <2>2, <2>4
  <2>. QED
    BY <2>2, <2>6, <2>7, <2>8
<1>5. g[m] \in Seq(V)
  <2>1. m \in 0 .. m
    OBVIOUS
  <2>. QED
    BY <1>4, <2>1
<1>. QED
  BY <1>1, <1>5, SequencesHold

-----------------------------------------------------------------------------
(* What leaves is one run of numbers, at times that increase. *)

\* The packets in hand are the last that were numbered, and the marker is on
\* the last of them.
PacketsInv ==
    /\ seqs \in [{Video, Audio} -> Nat]
    /\ IsSequence(packets)
    /\ packets # <<>> => queue = "sending"
    /\ \A i \in 1 .. Len(packets) :
          /\ packets[i].sequenceNumber = U16(seqs[Video] - Len(packets) + i - 1)
          /\ packets[i].timestamp = stamp
          /\ packets[i].marker = (i = Len(packets))

\* The packet that was sent last comes right before those in hand, and is of
\* their access unit unless it had the marker.
SentInv ==
    /\ DOMAIN wire = {Video, Audio}
    /\ wire[Video] # <<>> =>
          /\ wire[Video].sequenceNumber = U16(seqs[Video] - Len(packets) - 1)
          /\ wire[Video].marker \in BOOLEAN
          /\ ~wire[Video].marker => packets # <<>> /\ wire[Video].timestamp = stamp

\* A frame is in hand of which nothing was sent yet.
Fresh == queue # "idle" /\ (queue = "sending" => wire[Video].marker /\ packets # <<>>)

\* What was sent last was captured before a frame of which nothing was sent.
VideoTimes ==
    /\ captured \in 0 .. MaxFrames /\ (queue # "idle" => captured # 0)
    /\ rtpEpoch = none \/ rtpEpoch \in 1 .. captured
    /\ queue \notin {"idle", "copied"} =>
          rtpEpoch # none /\ stamp = toRtp(captured, rtpEpoch, 3000)
    /\ wire[Video] # <<>> =>
          /\ rtpEpoch # none
          /\ \E t \in rtpEpoch .. captured :
                wire[Video].timestamp = toRtp(t, rtpEpoch, 3000) /\ (Fresh => t < captured)

\* The last audio packet is that of samples before those that wait.
AudioInv ==
    /\ tapped <= MaxSamples /\ samplesEmitted >= 0
    /\ wire[Audio] # <<>> =>
          /\ wire[Audio].sequenceNumber = U16(seqs[Audio] - 1)
          /\ wire[Audio].marker = TRUE
          /\ \E t \in 0 .. samplesEmitted - 1 : wire[Audio].timestamp = toRtp(t, 0, 1)

OrderInv == PacketsInv /\ SentInv /\ VideoTimes /\ AudioInv

\* The packets of a unit are numbered on, and the last has the marker.
LEMMA OutgoingPackets ==
    ASSUME NEW d \in Units, seqs \in [{Video, Audio} -> Nat]
    PROVE  /\ IsSequence(Outgoing(d))
           /\ \A i \in 1 .. Len(Outgoing(d)) :
                 /\ Outgoing(d)[i].sequenceNumber = U16(seqs[Video] + i - 1)
                 /\ Outgoing(d)[i].timestamp = stamp
                 /\ Outgoing(d)[i].marker = (i = Len(Outgoing(d)))
<1>. DEFINE nals == findNalUnits(d)
            payloads == Joined(Split(nals))
            n == Len(payloads)
            packet(i) ==
                [version |-> 2, padding |-> FALSE, extension |-> FALSE, csrcs |-> <<>>,
                 marker |-> i = n, payloadType |-> 96,
                 sequenceNumber |-> U16(seqs[Video] + i - 1), timestamp |-> stamp,
                 ssrc |-> Ssrc(Video), payload |-> payloads[i]]
<1>1. nals \in Seq(Seq(Nat))
  <2>1. d \in Seq(Nat)
    BY MediaSendAssumption DEF Units
  <2>. QED
    BY <2>1, NalsAreStrings
<1>2. IsSequence(payloads)
  <2>1. Len(nals) \in Nat
    BY <1>1
  <2>2. Len(Split(nals)) = Len(nals) /\ \A k \in 1 .. Len(nals) : IsSequence(Split(nals)[k])
    BY <1>1, SplitParts
  <2>. HIDE DEF nals
  <2>. QED
    BY <2>1, <2>2, JoinedIsSequence
<1>3. n \in Nat /\ DOMAIN payloads = 1 .. n
  <2>. HIDE DEF payloads
  <2>. QED
    BY <1>2 DEF IsSequence
<1>4. Outgoing(d) = [i \in DOMAIN payloads |-> packet(i)]
  BY DEF Outgoing, packetizeH264, Packets
<1>5. Outgoing(d) = [i \in 1 .. n |-> packet(i)]
  BY <1>3, <1>4
<1>6. ASSUME NEW i
      PROVE  /\ packet(i).sequenceNumber = U16(seqs[Video] + i - 1)
             /\ packet(i).timestamp = stamp /\ packet(i).marker = (i = n)
  OBVIOUS
<1>. HIDE DEF packet, n
<1>7. Outgoing(d) = [i \in 1 .. n |-> Outgoing(d)[i]]
  BY <1>5
<1>8. IsSequence(Outgoing(d)) /\ Len(Outgoing(d)) = n
  BY <1>3, <1>7, SequenceOf
<1>9. \A i \in 1 .. n : Outgoing(d)[i] = packet(i)
  BY <1>5
<1>. QED
  BY <1>6, <1>8, <1>9

LEMMA RestOfSequence ==
    ASSUME NEW s, IsSequence(s), s # <<>>
    PROVE  /\ Len(s) \in Nat \ {0} /\ Len(Tail(s)) = Len(s) - 1
           /\ IsSequence(Tail(s))
           /\ \A i \in 1 .. Len(s) - 1 : Tail(s)[i] = s[i + 1]
           /\ Tail(s) = <<>> <=> Len(s) = 1
<1>. DEFINE V == {s[i] : i \in DOMAIN s}
<1>1. s \in Seq(V)
  BY DEF IsSequence
<1>. HIDE DEF V
<1>2. Tail(s) \in Seq(V) /\ Len(Tail(s)) = Len(s) - 1 /\ Len(s) \in Nat \ {0}
  BY <1>1
<1>3. \A i \in 1 .. Len(s) - 1 : Tail(s)[i] = s[i + 1]
  BY <1>1
<1>4. IsSequence(Tail(s))
  BY <1>2, SequencesHold
<1>5. Tail(s) = <<>> <=> Len(s) = 1
  BY <1>2
<1>. QED
  BY <1>2, <1>3, <1>4, <1>5

\* p ends a unit of that time, with that number.
EndsUnit(p, seq, time) ==
    p.sequenceNumber = U16(seq) /\ p.timestamp = time /\ p.marker = TRUE

\* An audio frame is one packet.
LEMMA OpusPacket ==
    ASSUME NEW ssrc, NEW seq \in Nat, NEW timestamp, NEW ps,
           ps = packetizeOpus(OpusFrame, ssrc, seq, timestamp)
    PROVE  Len(ps) = 1 /\ EndsUnit(ps[1], seq, timestamp)
<1>. DEFINE packet(i) ==
                [version |-> 2, padding |-> FALSE, extension |-> FALSE, csrcs |-> <<>>,
                 marker |-> i = Len(<<OpusFrame>>), payloadType |-> 111,
                 sequenceNumber |-> U16(seq + i - 1), timestamp |-> timestamp,
                 ssrc |-> ssrc, payload |-> <<OpusFrame>>[i]]
<1>1. ps = [i \in DOMAIN <<OpusFrame>> |-> packet(i)]
  BY DEF packetizeOpus, Packets
<1>2. DOMAIN <<OpusFrame>> = 1 .. 1 /\ Len(<<OpusFrame>>) = 1
  OBVIOUS
<1>3. /\ packet(1).sequenceNumber = U16(seq) /\ packet(1).timestamp = timestamp
      /\ packet(1).marker = TRUE
  <2>1. seq + 1 - 1 = seq
    OBVIOUS
  <2>. QED
    BY <1>2, <2>1
<1>. HIDE DEF packet
<1>4. ps = [i \in 1 .. 1 |-> packet(i)]
  BY <1>1, <1>2
<1>5. ps[1] = packet(1) /\ ps = [i \in 1 .. 1 |-> ps[i]]
  BY <1>4
<1>6. Len(ps) = 1
  <2>1. 1 \in Nat
    OBVIOUS
  <2>. QED
    BY <1>5, <2>1, SequenceOf
<1>. QED
  BY <1>3, <1>5, <1>6 DEF EndsUnit

LEMMA InitOrder == Init => OrderInv
<1>. SUFFICES ASSUME Init PROVE OrderInv
  OBVIOUS
<1>1. PacketsInv
  <2>1. packets = <<>> /\ Len(packets) = 0 /\ packets \in Seq(Nat)
    BY DEF Init
  <2>2. IsSequence(packets)
    BY <2>1, SequencesHold
  <2>. QED
    BY <2>1, <2>2 DEF Init, PacketsInv
<1>2. wire = [s \in {Video, Audio} |-> <<>>]
  BY DEF Init
<1>3. SentInv
  BY <1>2 DEF SentInv
<1>4. VideoTimes
  BY <1>2, CallLengthAssumption, SMT DEF Init, CameraInit, VideoTimes
<1>5. AudioInv
  BY <1>2, CallLengthAssumption, SMT DEF Init, MicInit, AudioInv
<1>. QED
  BY <1>1, <1>3, <1>4, <1>5 DEF OrderInv

\* Only these steps touch the packets of the camera's frames.
QueueOnly ==
    /\ UNCHANGED <<captured, rtpEpoch, stamp, packets, seqs, wire>>
    /\ queue' \notin {"idle", "copied", "sending"} => queue \notin {"idle", "copied"}
    /\ queue' # "idle" => queue # "sending"
    /\ queue' = "copied" => queue = "copied"
    /\ queue' = "sending" => queue = "sending"
    /\ packets # <<>> => queue # "sending"

Neither == UNCHANGED <<queue, captured, rtpEpoch, stamp, packets, seqs, wire>>

LEMMA CameraSteps ==
    ASSUME [Next]_vars
    PROVE  Deliver \/ Capture \/ QueueOnly \/ Compress \/ SendVideo \/ pushAudioFrame \/ Neither
<1>1. CASE Unusable \/ setFrame \/ Encode \/ TestFlag \/ ClearFlag
  BY <1>1 DEF Unusable, setFrame, Encode, TestFlag, ClearFlag, QueueOnly, sending, camera
<1>2. CASE Unexpected \/ EncodeFails \/ FrameSent
  BY <1>2 DEF Unexpected, EncodeFails, FrameSent, Done, QueueOnly, sending, camera
<1>7. CASE Skip
  BY <1>7 DEF Skip, Done, QueueOnly, sending, camera
<1>3. CASE (\E n \in 1 .. need + 1 : Tap(n)) \/ AudioFrame \/ AudioFails
  BY <1>3 DEF Tap, AudioFrame, AudioFails, Neither, sending, camera
<1>4. CASE Paint \/ Painted \/ Leave \/ Left \/ Return \/ UseDestroyed
  BY <1>4 DEF Paint, Painted, Leave, Left, Return, UseDestroyed, Neither, sending, camera
<1>5. CASE toggleCamera \/ toggleMute \/ onStateChanged \/ requestKeyframe
  BY <1>5 DEF toggleCamera, toggleMute, onStateChanged, requestKeyframe, Event, Neither,
     sending, camera
<1>6. CASE UNCHANGED vars
  BY <1>6 DEF vars, Neither, sending, camera
<1>. QED
  BY <1>1, <1>2, <1>3, <1>4, <1>5, <1>6, <1>7 DEF Next, QueueStep, TapStep

LEMMA PushedAudio ==
    ASSUME PacketsInv, pushAudioFrame
    PROVE  /\ seqs' = [seqs EXCEPT ![Audio] = U16(@ + 1)]
           /\ \E p : /\ wire' = [wire EXCEPT ![Audio] = Header(p)]
                     /\ EndsUnit(p, seqs[Audio], toRtp(samplesEmitted, 0, 1))
<1>. DEFINE ps == packetizeOpus(OpusFrame, Ssrc(Audio), seqs[Audio], toRtp(samplesEmitted, 0, 1))
<1>1. wire' = [wire EXCEPT ![Audio] = Header(ps[1])] /\ seqs' = Sent(Audio, ps)
  BY DEF pushAudioFrame
<1>2. seqs[Audio] \in Nat
  BY DEF PacketsInv
<1>3. Len(ps) = 1 /\ EndsUnit(ps[1], seqs[Audio], toRtp(samplesEmitted, 0, 1))
  <2>. DEFINE seq == seqs[Audio]
              time == toRtp(samplesEmitted, 0, 1)
              ssrc == Ssrc(Audio)
  <2>1. ps = packetizeOpus(OpusFrame, ssrc, seq, time) /\ seq \in Nat
    BY <1>2
  <2>. HIDE DEF ps, seq, time, ssrc
  <2>2. Len(ps) = 1
    BY <2>1, OpusPacket
  <2>3. EndsUnit(ps[1], seq, time)
    BY <2>1, OpusPacket
  <2>. QED
    BY <2>2, <2>3 DEF seq, time
<1>. HIDE DEF ps
<1>. QED
  BY <1>1, <1>3 DEF Sent

LEMMA PacketsStep ==
    ASSUME PacketsInv, [Next]_vars
    PROVE  PacketsInv'
<1>1. CASE Deliver
  BY <1>1 DEF Deliver, PacketsInv, sending
<1>2. CASE Capture
  <2>1. UNCHANGED <<packets, seqs>> /\ packets = <<>> /\ Len(packets) = 0
    BY <1>2 DEF Capture, PacketsInv, sending
  <2>. QED
    BY <2>1 DEF PacketsInv
<1>3. CASE QueueOnly
  <2>1. UNCHANGED <<packets, seqs, stamp>> /\ packets = <<>>
    BY <1>3 DEF QueueOnly, PacketsInv
  <2>. QED
    BY <2>1 DEF PacketsInv
<1>4. CASE Compress
  <2>1. PICK d \in Units : packets' = Outgoing(d)
    BY <1>4, MediaSendAssumption DEF Compress, Units
  <2>. DEFINE n == Len(packets')
              x == seqs[Video]
  <2>2. seqs' = [seqs EXCEPT ![Video] = U16(@ + n)] /\ stamp' = stamp /\ queue' = "sending"
    BY <1>4 DEF Compress, Sent, camera
  <2>3. seqs \in [{Video, Audio} -> Nat]
    BY DEF PacketsInv
  <2>4. /\ IsSequence(packets')
        /\ \A i \in 1 .. n :
              /\ packets'[i].sequenceNumber = U16(x + i - 1)
              /\ packets'[i].timestamp = stamp /\ packets'[i].marker = (i = n)
    BY <2>1, <2>3, OutgoingPackets
  <2>5. n \in Nat /\ x \in Nat
    BY <2>3, <2>4 DEF IsSequence
  <2>6. seqs'[Video] = U16(x + n) /\ U16(x + n) \in Nat
    BY <2>2, <2>3, <2>5, Kept DEF IsU16
  <2>. HIDE DEF n, x
  <2>7. ASSUME NEW i \in 1 .. n
        PROVE  U16(seqs'[Video] - n + i - 1) = U16(x + i - 1)
    <3>1. x + n \in Int /\ i - 1 - n \in Int
      BY <2>5
    <3>2. U16(U16(x + n) + (i - 1 - n)) = U16((x + n) + (i - 1 - n))
      BY <3>1, KeptSum
    <3>3. /\ U16(x + n) + (i - 1 - n) = seqs'[Video] - n + i - 1
          /\ (x + n) + (i - 1 - n) = x + i - 1
      BY <2>5, <2>6
    <3>. QED
      BY <3>2, <3>3
  <2>8. seqs' \in [{Video, Audio} -> Nat]
    <3>1. U16(seqs[Video] + n) \in Nat
      BY <2>6 DEF x
    <3>. QED
      BY <2>2, <2>3, <3>1
  <2>. QED
    BY <2>2, <2>4, <2>7, <2>8 DEF PacketsInv, n
<1>5. CASE SendVideo
  <2>1. /\ UNCHANGED <<seqs, stamp, queue>> /\ queue = "sending"
        /\ packets # <<>> /\ packets' = Tail(packets)
    BY <1>5 DEF SendVideo, camera
  <2>. DEFINE n == Len(packets)
  <2>2. /\ n \in Nat \ {0} /\ Len(packets') = n - 1 /\ IsSequence(packets')
        /\ \A i \in 1 .. n - 1 : packets'[i] = packets[i + 1]
    BY <2>1, RestOfSequence DEF PacketsInv
  <2>3. seqs[Video] \in Nat
    BY DEF PacketsInv
  <2>4. ASSUME NEW i \in 1 .. n - 1
        PROVE  /\ packets'[i].sequenceNumber = U16(seqs[Video] - (n - 1) + i - 1)
               /\ packets'[i].timestamp = stamp /\ packets'[i].marker = (i = n - 1)
    <3>1. i + 1 \in 1 .. n /\ packets'[i] = packets[i + 1]
      BY <2>2
    <3>2. /\ packets'[i].sequenceNumber = U16(seqs[Video] - n + (i + 1) - 1)
          /\ packets'[i].timestamp = stamp /\ packets'[i].marker = (i + 1 = n)
      BY <3>1 DEF PacketsInv
    <3>. HIDE DEF n
    <3>3. seqs[Video] - n + (i + 1) - 1 = seqs[Video] - (n - 1) + i - 1 /\ (i + 1 = n <=> i = n - 1)
      BY <2>2, <2>3
    <3>. QED
      BY <3>2, <3>3
  <2>5. seqs \in [{Video, Audio} -> Nat]
    BY DEF PacketsInv
  <2>. HIDE DEF n
  <2>. QED
    BY <2>1, <2>2, <2>4, <2>5 DEF PacketsInv
<1>6. CASE pushAudioFrame
  <2>1. /\ UNCHANGED <<packets, stamp, queue>>
    BY <1>6 DEF pushAudioFrame, camera
  <2>2. seqs' = [seqs EXCEPT ![Audio] = U16(@ + 1)]
    BY <1>6, PushedAudio
  <2>3. seqs \in [{Video, Audio} -> Nat]
    BY DEF PacketsInv
  <2>4. U16(seqs[Audio] + 1) \in Nat
    <3>1. seqs[Audio] + 1 \in Int
      BY <2>3
    <3>. QED
      BY <3>1, Kept DEF IsU16
  <2>5. seqs' \in [{Video, Audio} -> Nat] /\ seqs'[Video] = seqs[Video]
    BY <2>2, <2>3, <2>4 DEF Video, Audio
  <2>. QED
    BY <2>1, <2>5 DEF PacketsInv
<1>7. CASE Neither
  BY <1>7 DEF Neither, PacketsInv
<1>. QED
  BY <1>1, <1>2, <1>3, <1>4, <1>5, <1>6, <1>7, CameraSteps

LEMMA SentStep ==
    ASSUME PacketsInv, SentInv, [Next]_vars
    PROVE  SentInv'
<1>0. seqs \in [{Video, Audio} -> Nat] /\ Len(packets) \in Nat
  BY DEF PacketsInv, IsSequence
<1>1. CASE Deliver
  BY <1>1 DEF Deliver, SentInv, sending
<1>2. CASE Capture
  <2>1. UNCHANGED sending /\ packets = <<>>
    BY <1>2 DEF Capture, PacketsInv
  <2>. QED
    BY <2>1 DEF SentInv, sending
<1>3. CASE QueueOnly
  BY <1>3 DEF QueueOnly, SentInv
<1>4. CASE Compress
  <2>1. /\ wire' = wire /\ packets = <<>> /\ stamp' = stamp
        /\ seqs' = [seqs EXCEPT ![Video] = U16(@ + Len(packets'))]
    BY <1>4 DEF Compress, PacketsInv, Sent, camera
  <2>2. Len(packets') \in Nat
    <3>1. PacketsInv'
      BY PacketsStep
    <3>. QED
      BY <3>1 DEF PacketsInv, IsSequence
  <2>. DEFINE n == Len(packets')
              x == seqs[Video]
  <2>3. n \in Nat /\ x \in Nat /\ seqs'[Video] = U16(x + n)
    BY <1>0, <2>1, <2>2
  <2>. HIDE DEF n, x
  <2>4. U16(seqs'[Video] - n - 1) = U16(x - 1)
    <3>1. x + n \in Int /\ -n - 1 \in Int
      BY <2>3
    <3>2. U16(U16(x + n) + (-n - 1)) = U16((x + n) + (-n - 1))
      BY <3>1, KeptSum
    <3>3. IsU16(U16(x + n))
      BY <3>1, Kept
    <3>4. U16(x + n) + (-n - 1) = seqs'[Video] - n - 1 /\ (x + n) + (-n - 1) = x - 1
      BY <2>3, <3>3 DEF IsU16
    <3>. QED
      BY <3>2, <3>4
  <2>5. Len(packets) = 0
    BY <2>1
  <2>6. x - Len(packets) - 1 = x - 1
    BY <2>3, <2>5
  <2>. QED
    BY <2>1, <2>4, <2>6 DEF SentInv, n, x
<1>5. CASE SendVideo
  <2>1. /\ UNCHANGED <<seqs, stamp>> /\ packets # <<>> /\ packets' = Tail(packets)
        /\ wire' = [wire EXCEPT ![Video] = Header(packets[1])]
    BY <1>5 DEF SendVideo, camera
  <2>. DEFINE n == Len(packets)
              x == seqs[Video]
              p == packets[1]
  <2>2. /\ n \in Nat \ {0} /\ Len(packets') = n - 1 /\ (packets' = <<>> <=> n = 1)
    BY <2>1, RestOfSequence DEF PacketsInv
  <2>3. p.sequenceNumber = U16(x - n + 1 - 1) /\ p.timestamp = stamp /\ p.marker = (1 = n)
    BY <2>2 DEF PacketsInv
  <2>4. wire'[Video] = Header(p) /\ DOMAIN wire' = {Video, Audio}
    BY <2>1 DEF SentInv
  <2>5. x \in Nat
    BY <1>0
  <2>6. /\ Header(p).sequenceNumber = p.sequenceNumber /\ Header(p).timestamp = p.timestamp
        /\ Header(p).marker = p.marker
    BY DEF Header
  <2>. HIDE DEF n, x, p
  <2>7. x - n + 1 - 1 = x - (n - 1) - 1
    BY <2>2, <2>5
  <2>8. wire'[Video].sequenceNumber = U16(x - Len(packets') - 1)
    BY <2>2, <2>3, <2>4, <2>6, <2>7
  <2>9. wire'[Video].marker = (1 = n) /\ wire'[Video].timestamp = stamp
    BY <2>3, <2>4, <2>6
  <2>. QED
    BY <2>1, <2>2, <2>4, <2>8, <2>9 DEF SentInv, x
<1>6. CASE pushAudioFrame
  <2>1. /\ UNCHANGED <<packets, stamp>>
        /\ \E h : wire' = [wire EXCEPT ![Audio] = h]
    BY <1>6 DEF pushAudioFrame, camera
  <2>2. seqs' = [seqs EXCEPT ![Audio] = U16(@ + 1)]
    BY <1>6, PushedAudio
  <2>3. seqs'[Video] = seqs[Video] /\ wire'[Video] = wire[Video] /\ DOMAIN wire' = {Video, Audio}
    BY <1>0, <2>1, <2>2 DEF SentInv, Video, Audio
  <2>. QED
    BY <2>1, <2>3 DEF SentInv
<1>7. CASE Neither
  BY <1>7 DEF Neither, SentInv
<1>. QED
  BY <1>1, <1>2, <1>3, <1>4, <1>5, <1>6, <1>7, CameraSteps

LEMMA VideoTimesStep ==
    ASSUME PacketsInv, SentInv, VideoTimes, [Next]_vars
    PROVE  VideoTimes'
<1>1. CASE Deliver
  <2>1. /\ UNCHANGED <<rtpEpoch, stamp, wire>> /\ queue = "idle" /\ queue' = "copied"
        /\ captured < MaxFrames /\ captured' = captured + 1
    BY <1>1 DEF Deliver, sending
  <2>2. captured' \in 0 .. MaxFrames /\ captured' # 0
    BY <2>1, CallLengthAssumption, SMT DEF VideoTimes
  <2>3. rtpEpoch' = none \/ rtpEpoch' \in 1 .. captured'
    BY <2>1 DEF VideoTimes
  <2>4. ASSUME wire'[Video] # <<>>
        PROVE  /\ rtpEpoch' # none
               /\ \E t \in rtpEpoch' .. captured' :
                     wire'[Video].timestamp = toRtp(t, rtpEpoch', 3000) /\ t < captured'
    BY <2>1, <2>4 DEF VideoTimes
  <2>. QED
    BY <2>1, <2>2, <2>3, <2>4 DEF VideoTimes
<1>2. CASE Capture
  <2>1. /\ UNCHANGED <<captured, wire>> /\ queue = "copied" /\ queue' = "captured"
        /\ rtpEpoch' = IF rtpEpoch = none THEN captured ELSE rtpEpoch
        /\ stamp' = toRtp(captured, rtpEpoch', 3000)
    BY <1>2 DEF Capture, sending
  <2>2. captured \in 1 .. captured /\ captured \in 0 .. MaxFrames /\ captured # none
    BY <2>1 DEF VideoTimes, none
  <2>3. rtpEpoch' # none /\ rtpEpoch' \in 1 .. captured
    BY <2>1, <2>2 DEF VideoTimes
  <2>4. ASSUME wire[Video] # <<>>
        PROVE  /\ rtpEpoch' = rtpEpoch
               /\ \E t \in rtpEpoch .. captured :
                     wire[Video].timestamp = toRtp(t, rtpEpoch, 3000) /\ t < captured
    BY <2>1, <2>4 DEF VideoTimes, Fresh
  <2>. QED
    BY <2>1, <2>2, <2>3, <2>4 DEF VideoTimes
<1>3. CASE QueueOnly
  BY <1>3 DEF QueueOnly, VideoTimes, Fresh
<1>4. CASE Compress
  BY <1>4 DEF Compress, VideoTimes, Fresh, camera
<1>5. CASE SendVideo
  <2>1. /\ UNCHANGED <<captured, rtpEpoch, stamp, queue>> /\ queue = "sending"
        /\ packets # <<>> /\ packets' = Tail(packets)
        /\ wire' = [wire EXCEPT ![Video] = Header(packets[1])]
    BY <1>5 DEF SendVideo, camera
  <2>. DEFINE n == Len(packets)
              p == packets[1]
  <2>2. n \in Nat \ {0} /\ (packets' = <<>> <=> n = 1)
    BY <2>1, RestOfSequence DEF PacketsInv
  <2>3. p.timestamp = stamp /\ p.marker = (1 = n)
    <3>1. 1 \in 1 .. n
      BY <2>2
    <3>2. packets[1].timestamp = stamp /\ packets[1].marker = (1 = Len(packets))
      BY <3>1 DEF PacketsInv
    <3>. QED
      BY <3>2
  <2>4. wire'[Video] = Header(p)
    BY <2>1 DEF SentInv
  <2>5. Header(p).timestamp = p.timestamp /\ Header(p).marker = p.marker
    BY DEF Header
  <2>. HIDE DEF n, p
  <2>6. wire'[Video].marker = (1 = n) /\ wire'[Video].timestamp = stamp
    BY <2>3, <2>4, <2>5
  <2>7. ~Fresh'
    <3>. HIDE DEF n
    <3>1. wire'[Video].marker => n = 1
      BY <2>6
    <3>. QED
      BY <2>1, <2>2, <3>1 DEF Fresh
  <2>8. rtpEpoch # none /\ stamp = toRtp(captured, rtpEpoch, 3000) /\ rtpEpoch \in 1 .. captured
    BY <2>1 DEF VideoTimes
  <2>9. captured \in rtpEpoch .. captured
    BY <2>8 DEF VideoTimes
  <2>. QED
    BY <2>1, <2>6, <2>7, <2>8, <2>9 DEF VideoTimes
<1>6. CASE pushAudioFrame
  <2>1. /\ UNCHANGED <<queue, captured, rtpEpoch, stamp, packets>>
        /\ \E h : wire' = [wire EXCEPT ![Audio] = h]
    BY <1>6 DEF pushAudioFrame, camera
  <2>2. wire'[Video] = wire[Video]
    BY <2>1 DEF SentInv, Video, Audio
  <2>. QED
    BY <2>1, <2>2 DEF VideoTimes, Fresh
<1>7. CASE Neither
  BY <1>7 DEF Neither, VideoTimes, Fresh
<1>. QED
  BY <1>1, <1>2, <1>3, <1>4, <1>5, <1>6, <1>7, CameraSteps

LEMMA AudioStep ==
    ASSUME PacketsInv, SentInv, TapType, TimeInv, AudioInv, [Next]_vars
    PROVE  AudioInv'
<1>1. CASE Deliver \/ Unusable \/ Capture \/ setFrame \/ Encode \/ TestFlag \/ ClearFlag
  BY <1>1 DEF Deliver, Unusable, Capture, setFrame, Encode, TestFlag, ClearFlag, sending, mic,
     AudioInv
<1>2. CASE Unexpected \/ Skip \/ EncodeFails \/ FrameSent
  BY <1>2 DEF Unexpected, Skip, EncodeFails, FrameSent, Done, sending, mic, AudioInv
<1>3. CASE Compress
  <2>1. /\ UNCHANGED <<wire, tapped, samplesEmitted>>
        /\ \E k : seqs' = [seqs EXCEPT ![Video] = k]
    BY <1>3 DEF Compress, Sent, mic
  <2>2. seqs'[Audio] = seqs[Audio]
    BY <2>1 DEF PacketsInv, Video, Audio
  <2>. QED
    BY <2>1, <2>2 DEF AudioInv
<1>4. CASE SendVideo
  <2>1. /\ UNCHANGED <<seqs, tapped, samplesEmitted>>
        /\ \E h : wire' = [wire EXCEPT ![Video] = h]
    BY <1>4 DEF SendVideo, mic
  <2>2. wire'[Audio] = wire[Audio]
    BY <2>1 DEF SentInv, Video, Audio
  <2>. QED
    BY <2>1, <2>2 DEF AudioInv
<1>5. CASE \E n \in 1 .. need + 1 : Tap(n)
  <2>1. UNCHANGED <<seqs, wire, samplesEmitted>> /\ tapped' <= MaxSamples
    BY <1>5 DEF Tap, sending
  <2>. QED
    BY <2>1 DEF AudioInv
<1>6. CASE AudioFrame \/ AudioFails
  <2>1. /\ UNCHANGED <<seqs, wire, tapped>>
        /\ samplesEmitted' = samplesEmitted \/ samplesEmitted' = samplesEmitted + need
    BY <1>6 DEF AudioFrame, AudioFails, Emitted, sending
  <2>. QED
    BY <2>1, MediaSendAssumption DEF AudioInv, TimeInv
<1>7. CASE pushAudioFrame
  <2>1. tapped' = tapped /\ samplesEmitted' = samplesEmitted + need
    BY <1>7 DEF pushAudioFrame, Emitted
  <2>2. PICK p : /\ wire' = [wire EXCEPT ![Audio] = Header(p)]
                 /\ EndsUnit(p, seqs[Audio], toRtp(samplesEmitted, 0, 1))
    BY <1>7, PushedAudio
  <2>3. seqs'[Audio] = U16(seqs[Audio] + 1) /\ seqs[Audio] \in Nat
    BY <1>7, PushedAudio DEF PacketsInv
  <2>4. wire'[Audio] = Header(p)
    BY <2>2 DEF SentInv
  <2>5. /\ wire'[Audio].sequenceNumber = U16(seqs[Audio]) /\ wire'[Audio].marker = TRUE
        /\ wire'[Audio].timestamp = toRtp(samplesEmitted, 0, 1)
    BY <2>2, <2>4 DEF Header, EndsUnit
  <2>6. U16(seqs'[Audio] - 1) = U16(seqs[Audio])
    <3>4. seqs[Audio] + 1 \in Int /\ -1 \in Int
      BY <2>3
    <3>1. U16(U16(seqs[Audio] + 1) + (-1)) = U16((seqs[Audio] + 1) + (-1))
      BY <3>4, KeptSum
    <3>2. IsU16(U16(seqs[Audio] + 1))
      BY <2>3, Kept
    <3>3. /\ U16(seqs[Audio] + 1) + (-1) = seqs'[Audio] - 1
          /\ (seqs[Audio] + 1) + (-1) = seqs[Audio]
      BY <2>3, <3>2 DEF IsU16
    <3>. QED
      BY <3>1, <3>3
  <2>7. samplesEmitted \in 0 .. samplesEmitted' - 1
    BY <2>1, MediaSendAssumption DEF AudioInv, TimeInv
  <2>8. samplesEmitted' >= 0
    BY <2>1, MediaSendAssumption DEF AudioInv, TimeInv
  <2>. QED
    BY <2>1, <2>5, <2>6, <2>7, <2>8 DEF AudioInv
<1>8. CASE Paint \/ Painted \/ Leave \/ Left \/ Return \/ UseDestroyed
  BY <1>8 DEF Paint, Painted, Leave, Left, Return, UseDestroyed, sending, mic, AudioInv
<1>9. CASE toggleCamera \/ toggleMute \/ onStateChanged \/ requestKeyframe
  BY <1>9 DEF toggleCamera, toggleMute, onStateChanged, requestKeyframe, Event, sending, mic,
     AudioInv
<1>10. CASE UNCHANGED vars
  BY <1>10 DEF vars, sending, mic, AudioInv
<1>. QED
  BY <1>1, <1>2, <1>3, <1>4, <1>5, <1>6, <1>7, <1>8, <1>9, <1>10 DEF Next, QueueStep, TapStep

LEMMA OrderInvariant == Spec => [](OrderInv /\ TapType /\ TimeInv)
<1>1. OrderInv /\ TapType /\ TimeInv /\ [Next]_vars => OrderInv'
  BY PacketsStep, SentStep, VideoTimesStep, AudioStep DEF OrderInv
<1>2. CallTypes => TapType
  BY DEF CallTypes
<1>3. SendInv => TimeInv
  BY DEF SendInv
<1>. QED
  BY <1>1, <1>2, <1>3, InitOrder, CallTypesInvariance, SendInvariant, PTL DEF Spec

\* A frame is later than one captured before it, if the call is not too long.
LEMMA LaterFrame ==
    ASSUME NEW e \in Nat, NEW t \in Nat, NEW u \in Nat, t < u, e <= t, u <= MaxFrames
    PROVE  Later(toRtp(t, e, 3000), toRtp(u, e, 3000))
<1>. DEFINE x == (t - e) * 3000
            y == (u - e) * 3000
<1>1. x < y /\ y - x < 2147483648
  BY CallLengthAssumption, SMT
<1>. QED
  BY <1>1, LaterTimes, SMT

LEMMA LaterSample ==
    ASSUME NEW t \in Nat, NEW u \in Nat, t < u, u <= MaxSamples
    PROVE  Later(toRtp(t, 0, 1), toRtp(u, 0, 1))
<1>1. (t - 0) * 1 < (u - 0) * 1 /\ (u - 0) * 1 - (t - 0) * 1 < 2147483648
  BY CallLengthAssumption, SMT
<1>. QED
  BY <1>1, LaterTimes, SMT

\* What StreamsInOrder says of one stream.
GoesOn(p, q) ==
    /\ q.sequenceNumber = U16(p.sequenceNumber + 1)
    /\ IF p.marker THEN Later(p.timestamp, q.timestamp) ELSE p.timestamp = q.timestamp

LEMMA VideoGoesOn ==
    ASSUME PacketsInv, SentInv, VideoTimes, SendVideo, wire[Video] # <<>>
    PROVE  GoesOn(wire[Video], wire'[Video])
<1>. DEFINE n == Len(packets)
            x == seqs[Video]
            p == packets[1]
            w == wire[Video]
<1>1. /\ packets # <<>> /\ queue = "sending" /\ wire' = [wire EXCEPT ![Video] = Header(p)]
  BY DEF SendVideo
<1>2. n \in Nat \ {0} /\ x \in Nat
  BY <1>1, RestOfSequence DEF PacketsInv
<1>3. p.sequenceNumber = U16(x - n + 1 - 1) /\ p.timestamp = stamp
  BY <1>2 DEF PacketsInv
<1>4. wire'[Video] = Header(p)
  BY <1>1 DEF SentInv
<1>5. wire'[Video].sequenceNumber = p.sequenceNumber /\ wire'[Video].timestamp = stamp
  BY <1>3, <1>4 DEF Header
<1>6. w.sequenceNumber = U16(x - n - 1)
  BY DEF SentInv
<1>7. wire'[Video].sequenceNumber = U16(w.sequenceNumber + 1)
  <2>. HIDE DEF n, x, p, w
  <2>1. x - n - 1 \in Int /\ 1 \in Int /\ (x - n - 1) + 1 = x - n + 1 - 1
    BY <1>2
  <2>2. U16(U16(x - n - 1) + 1) = U16((x - n - 1) + 1)
    BY <2>1, KeptSum
  <2>. QED
    BY <1>3, <1>5, <1>6, <2>1, <2>2
<1>8. ~w.marker => w.timestamp = stamp
  BY DEF SentInv
<1>9. ASSUME w.marker
      PROVE  Later(w.timestamp, stamp)
  <2>1. Fresh
    BY <1>1, <1>9 DEF Fresh
  <2>2. /\ rtpEpoch # none /\ rtpEpoch \in 1 .. captured /\ captured \in 0 .. MaxFrames
        /\ stamp = toRtp(captured, rtpEpoch, 3000)
    BY <1>1 DEF VideoTimes
  <2>3. PICK t \in rtpEpoch .. captured :
           w.timestamp = toRtp(t, rtpEpoch, 3000) /\ t < captured
    BY <2>1 DEF VideoTimes
  <2>4. /\ rtpEpoch \in Nat /\ t \in Nat /\ captured \in Nat
        /\ rtpEpoch <= t /\ captured <= MaxFrames
    BY <2>2, <2>3
  <2>. QED
    BY <2>2, <2>3, <2>4, LaterFrame
<1>. QED
  BY <1>5, <1>7, <1>8, <1>9 DEF GoesOn

LEMMA AudioGoesOn ==
    ASSUME PacketsInv, SentInv, TapType, TimeInv, AudioInv, pushAudioFrame, wire[Audio] # <<>>
    PROVE  GoesOn(wire[Audio], wire'[Audio])
<1>. DEFINE w == wire[Audio]
            now == toRtp(samplesEmitted, 0, 1)
<1>1. PICK p : /\ wire' = [wire EXCEPT ![Audio] = Header(p)]
               /\ EndsUnit(p, seqs[Audio], now)
  BY PushedAudio
<1>2. wire'[Audio] = Header(p)
  BY <1>1 DEF SentInv
<1>3. wire'[Audio].sequenceNumber = U16(seqs[Audio]) /\ wire'[Audio].timestamp = now
  BY <1>1, <1>2 DEF Header, EndsUnit
<1>4. w.sequenceNumber = U16(seqs[Audio] - 1) /\ w.marker = TRUE
  BY DEF AudioInv
<1>5. U16(w.sequenceNumber + 1) = U16(seqs[Audio])
  <2>1. seqs[Audio] - 1 \in Int /\ 1 \in Int /\ (seqs[Audio] - 1) + 1 = seqs[Audio]
    BY DEF PacketsInv
  <2>2. U16(U16(seqs[Audio] - 1) + 1) = U16((seqs[Audio] - 1) + 1)
    BY <2>1, KeptSum
  <2>. QED
    BY <1>4, <2>1, <2>2
<1>6. Later(w.timestamp, now)
  <2>1. PICK t \in 0 .. samplesEmitted - 1 : w.timestamp = toRtp(t, 0, 1)
    BY DEF AudioInv
  <2>2. samplesEmitted \in Nat /\ samplesEmitted <= MaxSamples /\ t \in Nat /\ t < samplesEmitted
    <3>1. accum >= 0
      BY MediaSendAssumption DEF TapType
    <3>. QED
      BY <2>1, <3>1, CallLengthAssumption, SMT DEF AudioInv, TimeInv, AudioKeepsTime
  <2>. QED
    BY <2>1, <2>2, LaterSample
<1>. QED
  BY <1>3, <1>4, <1>5, <1>6 DEF GoesOn

LEMMA OnlySent ==
    ASSUME SentInv, [Next]_vars
    PROVE  /\ wire'[Video] # wire[Video] => SendVideo
           /\ wire'[Audio] # wire[Audio] => pushAudioFrame
<1>1. wire' = wire \/ SendVideo \/ pushAudioFrame
  <2>1. Deliver \/ Capture => wire' = wire
    BY DEF Deliver, Capture, sending
  <2>2. QueueOnly \/ Neither => wire' = wire
    BY DEF QueueOnly, Neither
  <2>3. Compress => wire' = wire
    BY DEF Compress
  <2>. QED
    BY <2>1, <2>2, <2>3, CameraSteps
<1>2. SendVideo => wire'[Audio] = wire[Audio]
  BY DEF SendVideo, SentInv, Video, Audio
<1>3. pushAudioFrame => wire'[Video] = wire[Video]
  BY DEF pushAudioFrame, SentInv, Video, Audio
<1>. QED
  BY <1>1, <1>2, <1>3

\* What each stream hands to the transport is one run of sequence numbers,
\* at times that stay within an access unit and increase between them, for
\* access units of any size, whatever is dropped, refused, muted or switched
\* off between two of them (MacCapture.mm:116, RTPHandler.cpp:86).
THEOREM StreamsLeaveInOrder == Spec => StreamsInOrder
<1>1. OrderInv /\ TapType /\ TimeInv /\ [Next]_vars =>
         \A s \in {Video, Audio} :
            wire'[s] # wire[s] /\ wire[s] # <<>> => GoesOn(wire[s], wire'[s])
  BY OnlySent, VideoGoesOn, AudioGoesOn DEF OrderInv
<1>2. OrderInv /\ TapType /\ TimeInv /\ [Next]_vars =>
         [\A s \in {Video, Audio} :
            wire'[s] # wire[s] /\ wire[s] # <<>> =>
              LET p == wire[s]
                  q == wire'[s]
              IN  /\ q.sequenceNumber = U16(p.sequenceNumber + 1)
                  /\ IF p.marker THEN Later(p.timestamp, q.timestamp)
                     ELSE p.timestamp = q.timestamp]_vars
  BY <1>1 DEF GoesOn
<1>. QED
  BY <1>2, OrderInvariant, PTL DEF Spec, StreamsInOrder

-----------------------------------------------------------------------------
(* Parts that are joined, and where each is. *)

\* The parts are sequences of members of V, and g is what joining them makes.
Joining(g, parts, m, V) ==
    /\ Joins(g, parts, m)
    /\ \A k \in 1 .. m : parts[k] \in Seq(V)

\* c is a with b behind it.
Extended(a, b, c) ==
    /\ Len(a) \in Nat /\ Len(b) \in Nat /\ Len(c) = Len(a) + Len(b)
    /\ \A i \in 1 .. Len(a) : c[i] = a[i]
    /\ \A i \in 1 .. Len(b) : c[Len(a) + i] = b[i]

\* Two strings make one that begins with the first and ends with the second.
LEMMA Extending ==
    ASSUME NEW V, NEW a \in Seq(V), NEW b \in Seq(V)
    PROVE  a \o b \in Seq(V) /\ Extended(a, b, a \o b)
<1>1. a \o b \in Seq(V) /\ Len(a) \in Nat /\ Len(b) \in Nat /\ Len(a \o b) = Len(a) + Len(b)
  OBVIOUS
<1>2. \A i \in 1 .. Len(a) : (a \o b)[i] = a[i]
  OBVIOUS
<1>3. \A i \in 1 .. Len(b) : (a \o b)[Len(a) + i] = b[i]
  OBVIOUS
<1>. QED
  BY <1>1, <1>2, <1>3 DEF Extended

\* The f-th of the second string comes f places behind the first.
LEMMA ExtendedAt ==
    ASSUME NEW a, NEW b, NEW c, Extended(a, b, c), NEW f \in 1 .. Len(b)
    PROVE  Len(a) + f \in 1 .. Len(c) /\ c[Len(a) + f] = b[f]
<1>1. Len(a) \in Nat /\ Len(b) \in Nat /\ Len(c) = Len(a) + Len(b)
  BY DEF Extended
<1>2. c[Len(a) + f] = b[f]
  BY DEF Extended
<1>. QED
  BY <1>1, <1>2

\* c begins with a.
Begins(a, c) == Len(a) <= Len(c) /\ \A i \in 1 .. Len(a) : c[i] = a[i]

\* What begins a string begins a longer one.
LEMMA BeginsExtended ==
    ASSUME NEW a, NEW b, NEW c, NEW d, Len(a) \in Nat, Begins(a, b), Extended(b, c, d)
    PROVE  Begins(a, d)
<1>1. Len(b) \in Nat /\ Len(c) \in Nat /\ Len(d) = Len(b) + Len(c) /\ Len(a) <= Len(b)
  BY DEF Extended, Begins
<1>2. ASSUME NEW i \in 1 .. Len(a) PROVE d[i] = a[i]
  <2>1. i \in 1 .. Len(b)
    BY <1>1
  <2>2. d[i] = b[i] /\ b[i] = a[i]
    BY <2>1 DEF Extended, Begins
  <2>. QED
    BY <2>2
<1>3. Len(a) <= Len(d)
  BY <1>1
<1>. QED
  BY <1>2, <1>3 DEF Begins

\* c is a followed by b.
Follows(a, b, c) == c = a \o b

\* Nothing is joined of no parts.
LEMMA JoiningStart ==
    ASSUME NEW V, NEW parts, NEW m \in Nat, NEW g, Joining(g, parts, m, V)
    PROVE  g[0] = <<>> /\ g[0] \in Seq(V) /\ Len(g[0]) = 0
<1>1. g = [n \in 0 .. m |-> IF n = 0 THEN <<>> ELSE g[n - 1] \o parts[n]]
  BY DEF Joins, Joining
<1>2. 0 \in 0 .. m
  OBVIOUS
<1>3. g[0] = <<>>
  BY <1>1, <1>2
<1>. QED
  BY <1>3

\* Each part is put behind those before it.
LEMMA JoiningStep ==
    ASSUME NEW V, NEW parts, NEW m \in Nat, NEW g, Joining(g, parts, m, V), NEW n \in 1 .. m
    PROVE  /\ n - 1 \in 0 .. m /\ n \in 0 .. m
           /\ Follows(g[n - 1], parts[n], g[n])
           /\ parts[n] \in Seq(V)
<1>1. g = [i \in 0 .. m |-> IF i = 0 THEN <<>> ELSE g[i - 1] \o parts[i]]
  BY DEF Joins, Joining
<1>2. n \in 0 .. m /\ n # 0 /\ n - 1 \in 0 .. m
  OBVIOUS
<1>3. g[n] = g[n - 1] \o parts[n]
  BY <1>1, <1>2
<1>4. parts[n] \in Seq(V)
  BY DEF Joining
<1>. QED
  BY <1>2, <1>3, <1>4 DEF Follows

\* What is joined is a string at every step.
LEMMA JoiningHolds ==
    ASSUME NEW V, NEW parts, NEW m \in Nat, NEW g, Joining(g, parts, m, V), NEW n \in 0 .. m
    PROVE  g[n] \in Seq(V) /\ Len(g[n]) \in Nat
<1>. DEFINE S == {i \in 0 .. m : g[i] \notin Seq(V)}
<1>1. S = {}
  <2>. SUFFICES ASSUME S # {} PROVE FALSE
    OBVIOUS
  <2>1. PICK i \in S : \A j \in S : i <= j
    <3>1. S \in SUBSET Nat
      OBVIOUS
    <3>. HIDE DEF S
    <3>. QED
      BY <3>1, LeastNat
  <2>2. i \in 0 .. m /\ g[i] \notin Seq(V)
    OBVIOUS
  <2>3. i # 0
    BY <2>2, JoiningStart
  <2>4. i \in 1 .. m /\ ~(i <= i - 1)
    BY <2>2, <2>3
  <2>5. i - 1 \in 0 .. m /\ Follows(g[i - 1], parts[i], g[i]) /\ parts[i] \in Seq(V)
    BY <2>4, JoiningStep
  <2>6. i - 1 \notin S
    <3>. HIDE DEF S
    <3>. QED
      BY <2>1, <2>4
  <2>7. g[i - 1] \in Seq(V)
    BY <2>5, <2>6
  <2>8. g[i] \in Seq(V)
    BY <2>5, <2>7, Extending DEF Follows
  <2>. QED
    BY <2>2, <2>8
<1>2. g[n] \in Seq(V)
  BY <1>1
<1>. QED
  BY <1>2

\* A step keeps what was joined and adds the part.
LEMMA JoiningAdds ==
    ASSUME NEW V, NEW parts, NEW m \in Nat, NEW g, Joining(g, parts, m, V), NEW n \in 1 .. m
    PROVE  Extended(g[n - 1], parts[n], g[n])
<1>1. n - 1 \in 0 .. m /\ Follows(g[n - 1], parts[n], g[n]) /\ parts[n] \in Seq(V)
  BY JoiningStep
<1>2. g[n - 1] \in Seq(V)
  BY <1>1, JoiningHolds
<1>. QED
  BY <1>1, <1>2, Extending DEF Follows

\* What joining has made after some parts is kept by what it makes later.
LEMMA JoiningKeeps ==
    ASSUME NEW V, NEW parts, NEW m \in Nat, NEW g, Joining(g, parts, m, V), NEW k \in 0 .. m,
           NEW n \in k .. m
    PROVE  Begins(g[k], g[n])
<1>. DEFINE S == {i \in k .. m : ~Begins(g[k], g[i])}
<1>0. ASSUME NEW i \in k .. m PROVE i \in 0 .. m
  OBVIOUS
<1>1. S = {}
  <2>. SUFFICES ASSUME S # {} PROVE FALSE
    OBVIOUS
  <2>1. PICK i \in S : \A j \in S : i <= j
    <3>1. S \in SUBSET Nat
      BY <1>0
    <3>. HIDE DEF S
    <3>. QED
      BY <3>1, LeastNat
  <2>2. i \in k .. m /\ ~Begins(g[k], g[i])
    OBVIOUS
  <2>3. Len(g[k]) \in Nat
    BY JoiningHolds
  <2>4. i # k
    <3>1. Begins(g[k], g[k])
      BY <2>3 DEF Begins
    <3>. QED
      BY <2>2, <3>1
  <2>5. i \in 1 .. m /\ i - 1 \in k .. m /\ ~(i <= i - 1)
    BY <2>2, <2>4
  <2>6. i - 1 \notin S
    <3>. HIDE DEF S
    <3>. QED
      BY <2>1, <2>5
  <2>7. Begins(g[k], g[i - 1])
    BY <2>5, <2>6
  <2>8. Extended(g[i - 1], parts[i], g[i])
    BY <2>5, JoiningAdds
  <2>9. Begins(g[k], g[i])
    BY <2>3, <2>7, <2>8, BeginsExtended
  <2>. QED
    BY <2>2, <2>9
<1>. QED
  BY <1>1

\* The p-th of what is joined is the f-th of part k.
At(g, parts, m, p, k, f) ==
    k \in 1 .. m /\ f \in 1 .. Len(parts[k]) /\ p = Len(g[k - 1]) + f

\* What is at a place of a part is at its place of the whole.
LEMMA JoinedAt ==
    ASSUME NEW V, NEW parts, NEW m \in Nat, NEW g, Joining(g, parts, m, V),
           NEW p, NEW k, NEW f, At(g, parts, m, p, k, f)
    PROVE  p \in 1 .. Len(g[m]) /\ g[m][p] = parts[k][f] /\ p <= Len(g[k])
<1>1. k \in 1 .. m /\ f \in 1 .. Len(parts[k]) /\ p = Len(g[k - 1]) + f
  BY DEF At
<1>2. Extended(g[k - 1], parts[k], g[k])
  BY <1>1, JoiningAdds
<1>3. p \in 1 .. Len(g[k]) /\ g[k][p] = parts[k][f]
  BY <1>1, <1>2, ExtendedAt
<1>4. k \in 0 .. m /\ m \in 0 .. m /\ m \in k .. m
  BY <1>1
<1>5. Len(g[k]) \in Nat /\ Len(g[m]) \in Nat
  BY <1>4, JoiningHolds
<1>6. Begins(g[k], g[m])
  BY <1>4, JoiningKeeps
<1>. QED
  BY <1>3, <1>5, <1>6 DEF Begins

\* Every place of the whole is of some part.
LEMMA JoinedFrom ==
    ASSUME NEW V, NEW parts, NEW m \in Nat, NEW g, Joining(g, parts, m, V),
           NEW p \in 1 .. Len(g[m])
    PROVE  \E k, f : At(g, parts, m, p, k, f)
<1>. DEFINE S == {n \in 0 .. m : p <= Len(g[n])}
<1>0. m \in 0 .. m /\ Len(g[m]) \in Nat
  BY JoiningHolds
<1>1. PICK n \in S : \A j \in S : n <= j
  <2>1. S \in SUBSET Nat /\ m \in S
    BY <1>0
  <2>. HIDE DEF S
  <2>. QED
    BY <2>1, LeastNat
<1>2. n \in 0 .. m /\ p <= Len(g[n]) /\ p \in Nat \ {0}
  BY <1>0
<1>3. n # 0
  <2>1. Len(g[0]) = 0
    BY JoiningStart
  <2>. QED
    BY <1>2, <2>1
<1>4. n \in 1 .. m /\ n - 1 \in 0 .. m /\ ~(n <= n - 1)
  BY <1>2, <1>3
<1>5. ~(p <= Len(g[n - 1]))
  <2>1. n - 1 \notin S
    <3>. HIDE DEF S
    <3>. QED
      BY <1>1, <1>4
  <2>. QED
    BY <1>4, <2>1
<1>6. Extended(g[n - 1], parts[n], g[n])
  BY <1>4, JoiningAdds
<1>. DEFINE a == Len(g[n - 1])
            b == Len(parts[n])
            f == p - a
<1>7. a \in Nat /\ b \in Nat /\ Len(g[n]) = a + b
  BY <1>6 DEF Extended
<1>8. f \in 1 .. b /\ p = a + f
  <2>1. p <= a + b /\ ~(p <= a)
    BY <1>2, <1>5, <1>7
  <2>. HIDE DEF a, b
  <2>. QED
    BY <1>2, <1>7, <2>1
<1>9. At(g, parts, m, p, n, f)
  <2>. HIDE DEF f
  <2>. QED
    BY <1>4, <1>8 DEF At
<1>. QED
  BY <1>9

\* The next place is of the same part, or the first of the next part.
LEMMA JoinedNext ==
    ASSUME NEW V, NEW parts, NEW m \in Nat, NEW g, Joining(g, parts, m, V),
           \A k \in 1 .. m : parts[k] # <<>>,
           NEW p, NEW k, NEW f, At(g, parts, m, p, k, f), p < Len(g[m])
    PROVE  \/ f < Len(parts[k]) /\ At(g, parts, m, p + 1, k, f + 1)
           \/ f = Len(parts[k]) /\ At(g, parts, m, p + 1, k + 1, 1)
<1>1. k \in 1 .. m /\ f \in 1 .. Len(parts[k]) /\ p = Len(g[k - 1]) + f
  BY DEF At
<1>2. Extended(g[k - 1], parts[k], g[k])
  BY <1>1, JoiningAdds
<1>. DEFINE a == Len(g[k - 1])
            b == Len(parts[k])
<1>3. a \in Nat /\ b \in Nat /\ Len(g[k]) = a + b /\ f \in 1 .. b /\ p = a + f
  BY <1>1, <1>2 DEF Extended
<1>4. CASE f < b
  <2>1. f + 1 \in 1 .. b /\ p + 1 = a + (f + 1)
    <3>. HIDE DEF a, b
    <3>. QED
      BY <1>3, <1>4
  <2>. QED
    BY <1>1, <1>4, <2>1 DEF At
<1>5. CASE f = b
  <2>1. p = Len(g[k])
    BY <1>3, <1>5
  <2>2. k # m
    <3>1. p \in Nat /\ m \in 0 .. m /\ Len(g[m]) \in Nat
      <4>1. m \in 0 .. m
        OBVIOUS
      <4>. HIDE DEF a, b
      <4>. QED
        BY <1>3, <4>1, JoiningHolds
    <3>2. p # Len(g[m])
      BY <3>1
    <3>. QED
      BY <2>1, <3>2
  <2>3. k + 1 \in 1 .. m /\ (k + 1) - 1 = k
    BY <1>1, <2>2
  <2>4. parts[k + 1] \in Seq(V) /\ parts[k + 1] # <<>>
    BY <2>3, JoiningStep
  <2>5. 1 \in 1 .. Len(parts[k + 1])
    BY <2>4
  <2>. QED
    BY <1>5, <2>1, <2>3, <2>5 DEF At
<1>6. f < b \/ f = b
  <2>. HIDE DEF a, b
  <2>. QED
    BY <1>3
<1>. QED
  BY <1>4, <1>5, <1>6

-----------------------------------------------------------------------------
(* Units without start codes, and lists of numbers. *)

\* The numbers of an increasing list are its first, second, ... and last.
LEMMA Increasing ==
    ASSUME NEW m \in Nat, NEW P \in [1 .. m -> Nat],
           \A x, y \in 1 .. m : x < y => P[x] < P[y],
           NEW l \in 0 .. m
    PROVE  Cardinality({P[x] : x \in 1 .. l}) = l
<1>. DEFINE T == {P[x] : x \in 1 .. l}
            f == [x \in 1 .. l |-> P[x]]
<1>1. ASSUME NEW x \in 1 .. l PROVE x \in 1 .. m /\ f[x] = P[x]
  OBVIOUS
<1>2. f \in [1 .. l -> T]
  OBVIOUS
<1>3. \A t \in T : \E x \in 1 .. l : f[x] = t
  OBVIOUS
<1>4. ASSUME NEW x \in 1 .. l, NEW y \in 1 .. l, f[x] = f[y] PROVE x = y
  <2>1. x \in 1 .. m /\ y \in 1 .. m /\ P[x] = P[y] /\ P[x] \in Nat /\ P[y] \in Nat
    BY <1>1, <1>4
  <2>2. ~(P[x] < P[y]) /\ ~(P[y] < P[x])
    BY <2>1
  <2>3. ~(x < y) /\ ~(y < x)
    BY <2>1, <2>2
  <2>. QED
    BY <2>3
<1>. HIDE DEF f, T
<1>5. f \in Bijection(1 .. l, T)
  BY <1>2, <1>3, <1>4 DEF Bijection, Injection, Surjection, IsInjective
<1>6. IsFiniteSet(1 .. l) /\ Cardinality(1 .. l) = l
  BY FS_Interval
<1>. QED
  BY <1>5, <1>6, FS_Bijection DEF ExistsBijection, T

UpTo(T, i) == {j \in T : j <= i}

\* P lists the numbers of T from the least to the greatest.
Lists(P, m, T) ==
    /\ P \in [1 .. m -> Nat] /\ T = {P[x] : x \in 1 .. m}
    /\ \A x, y \in 1 .. m : x < y => P[x] < P[y]

\* The k-th number of a set is the k-th of its list.
LEMMA KthIs ==
    ASSUME NEW m \in Nat, NEW P, NEW T, Lists(P, m, T), NEW k \in 1 .. m
    PROVE  /\ P[k] \in T /\ Cardinality(UpTo(T, P[k])) = k
           /\ \A i \in T : Cardinality(UpTo(T, i)) = k => i = P[k]
<1>. USE DEF UpTo
<1>0. /\ P \in [1 .. m -> Nat] /\ T = {P[x] : x \in 1 .. m}
      /\ \A x, y \in 1 .. m : x < y => P[x] < P[y]
  BY DEF Lists
<1>1. ASSUME NEW l \in 1 .. m PROVE Cardinality({j \in T : j <= P[l]}) = l
  <2>1. ASSUME NEW x \in 1 .. m PROVE P[x] <= P[l] <=> x <= l
    <3>1. P[x] \in Nat /\ P[l] \in Nat
      BY <1>0
    <3>2. CASE x < l
      BY <1>0, <3>1, <3>2
    <3>3. CASE x = l
      BY <3>1, <3>3
    <3>4. CASE l < x
      BY <1>0, <3>1, <3>4
    <3>. QED
      BY <3>2, <3>3, <3>4
  <2>2. ASSUME NEW j \in T, j <= P[l] PROVE j \in {P[x] : x \in 1 .. l}
    <3>1. PICK x \in 1 .. m : j = P[x]
      BY <1>0
    <3>2. x \in 1 .. l
      BY <2>1, <2>2, <3>1
    <3>. QED
      BY <3>1, <3>2
  <2>3. ASSUME NEW j \in {P[x] : x \in 1 .. l} PROVE j \in T /\ j <= P[l]
    <3>1. PICK x \in 1 .. l : j = P[x]
      OBVIOUS
    <3>2. x \in 1 .. m /\ x <= l
      OBVIOUS
    <3>. QED
      BY <1>0, <2>1, <3>1, <3>2
  <2>4. {j \in T : j <= P[l]} = {P[x] : x \in 1 .. l}
    BY <2>2, <2>3
  <2>5. l \in 0 .. m
    OBVIOUS
  <2>. QED
    BY <1>0, <2>4, <2>5, Increasing
<1>2. P[k] \in T /\ Cardinality({j \in T : j <= P[k]}) = k
  BY <1>0, <1>1
<1>3. ASSUME NEW i \in T, Cardinality({j \in T : j <= i}) = k PROVE i = P[k]
  <2>1. PICK x \in 1 .. m : i = P[x]
    BY <1>0
  <2>2. x = k
    BY <1>1, <1>3, <2>1
  <2>. QED
    BY <2>1, <2>2
<1>. QED
  BY <1>2, <1>3

-----------------------------------------------------------------------------
IsCode(d, i) == d[i] = 0 /\ d[i + 1] = 0 /\ d[i + 2] = 1

\* A unit that is not empty and holds no start code.
Clean(nal) ==
    /\ nal \in Seq(Nat) /\ nal # <<>>
    /\ \A i \in 1 .. Len(nal) - 2 : ~IsCode(nal, i)

\* Every unit that is found in a byte string is clean.
LEMMA NalsAreClean ==
    ASSUME NEW d \in Seq(Nat), NEW k \in DOMAIN findNalUnits(d)
    PROVE  Clean(findNalUnits(d)[k])
<1>. DEFINE codes == {i \in 1 .. Len(d) - 2 : d[i] = 0 /\ d[i + 1] = 0 /\ d[i + 2] = 1}
            codeBegin(i) == IF i > 1 /\ d[i - 1] = 0 /\ \E j \in codes : j + 3 <= i - 1
                            THEN i - 1 ELSE i
            after(i) == {j \in codes : j > i}
            end(i) == IF after(i) = {} THEN Len(d) + 1 ELSE codeBegin(Min(after(i)))
            begun == {i \in codes : i + 3 < end(i)}
            kth(l) == CHOOSE i \in begun : Cardinality({j \in begun : j <= i}) = l
            nal(l) == SubSeq(d, kth(l) + 3, end(kth(l)) - 1)
<1>1. Len(d) \in Nat /\ codes \subseteq 1 .. Len(d) /\ begun \subseteq codes
  OBVIOUS
<1>2. ASSUME NEW i
      PROVE  /\ end(i) \in Int /\ end(i) <= Len(d) + 1
             /\ \A j \in after(i) : end(i) <= j
  <2>1. CASE after(i) = {}
    <3>1. end(i) = Len(d) + 1
      BY <2>1
    <3>. HIDE DEF after, codes, end
    <3>. QED
      BY <1>1, <2>1, <3>1
  <2>2. CASE after(i) # {}
    <3>1. after(i) \in SUBSET Nat /\ \A x \in after(i) : x <= Len(d)
      BY <1>1
    <3>2. \E x \in after(i) : \A y \in after(i) : x <= y
      <4>. HIDE DEF after
      <4>. QED
        BY <2>2, <3>1, LeastNat
    <3>3. /\ Min(after(i)) \in Nat /\ Min(after(i)) <= Len(d)
          /\ \A j \in after(i) : Min(after(i)) <= j
      <4>. HIDE DEF after
      <4>. QED
        BY <3>1, <3>2 DEF Min
    <3>4. end(i) = Min(after(i)) \/ end(i) = Min(after(i)) - 1
      BY <2>2
    <3>. HIDE DEF after, codes, end
    <3>. QED
      BY <1>1, <3>1, <3>3, <3>4
  <2>. QED
    BY <2>1, <2>2
<1>3. /\ findNalUnits(d) = [l \in 1 .. Cardinality(begun) |-> nal(l)]
      /\ k \in 1 .. Cardinality(begun)
  BY DEF findNalUnits
<1>4. kth(k) \in begun
  <2>1. begun \in SUBSET (1 .. Len(d))
    BY <1>1
  <2>. HIDE DEF begun
  <2>2. \E i \in begun : Cardinality({j \in begun : j <= i}) = k
    BY <1>1, <1>3, <2>1, KthExists
  <2>. QED
    BY <2>2
<1>. DEFINE x == kth(k)
            e == end(x)
            u == SubSeq(d, x + 3, e - 1)
<1>5. findNalUnits(d)[k] = u
  <2>. HIDE DEF begun, nal
  <2>1. findNalUnits(d)[k] = nal(k)
    BY <1>3
  <2>. QED
    BY <2>1 DEF nal
<1>6. x \in codes /\ x + 3 < e /\ x \in 1 .. Len(d)
  <2>. HIDE DEF kth
  <2>. QED
    BY <1>1, <1>4
<1>7. e \in Int /\ e <= Len(d) + 1 /\ \A j \in codes : j > x => e <= j
  <2>. HIDE DEF kth
  <2>1. \A j \in codes : j > x => j \in after(x)
    OBVIOUS
  <2>. HIDE DEF after, end
  <2>. QED
    BY <1>2, <2>1
<1>. HIDE DEF x, e
<1>8. /\ u \in Seq(Nat) /\ Len(u) = e - x - 3
      /\ \A i \in 1 .. e - x - 3 : u[i] = d[x + 2 + i]
  <2>. HIDE DEF codes
  <2>1. x + 3 \in Int /\ e - 1 \in Int /\ 1 <= x + 3 /\ e - 1 <= Len(d) /\ x + 3 <= e - 1
    BY <1>1, <1>6, <1>7
  <2>2. \A i \in x + 3 .. e - 1 : d[i] \in Nat
    BY <1>1, <2>1
  <2>3. /\ u \in Seq(Nat)
        /\ Len(u) = IF x + 3 <= e - 1 THEN (e - 1) - (x + 3) + 1 ELSE 0
        /\ \A i \in 1 .. (e - 1) - (x + 3) + 1 : u[i] = d[(x + 3) + i - 1]
    <3>. DEFINE from == x + 3
                to == e - 1
                cut == SubSeq(d, from, to)
    <3>1. from \in Int /\ to \in Int /\ \A i \in from .. to : d[i] \in Nat
      BY <2>1, <2>2
    <3>. HIDE DEF from, to
    <3>2. /\ cut \in Seq(Nat)
          /\ Len(cut) = IF from <= to THEN to - from + 1 ELSE 0
          /\ \A i \in 1 .. to - from + 1 : cut[i] = d[from + i - 1]
      BY <3>1, SubSeqProperties
    <3>3. u = cut
      BY DEF from, to
    <3>. HIDE DEF u, cut
    <3>. QED
      BY <3>2, <3>3 DEF from, to
  <2>. HIDE DEF u
  <2>4. Len(u) = e - x - 3
    BY <1>6, <1>7, <2>1, <2>3
  <2>5. ASSUME NEW i \in 1 .. e - x - 3 PROVE u[i] = d[x + 2 + i]
    <3>1. i \in 1 .. (e - 1) - (x + 3) + 1 /\ (x + 3) + i - 1 = x + 2 + i
      BY <1>6, <1>7
    <3>. QED
      BY <2>3, <3>1
  <2>. QED
    BY <2>3, <2>4, <2>5
<1>. HIDE DEF u
<1>9. u # <<>>
  <2>1. Len(u) > 0
    BY <1>6, <1>7, <1>8
  <2>. QED
    BY <2>1
<1>10. ASSUME NEW i \in 1 .. Len(u) - 2, IsCode(u, i) PROVE FALSE
  <2>. DEFINE j == x + 2 + i
  <2>1. /\ i \in 1 .. e - x - 3 /\ i + 1 \in 1 .. e - x - 3 /\ i + 2 \in 1 .. e - x - 3
        /\ i \in Int /\ x \in Int
    BY <1>6, <1>7, <1>8
  <2>2. /\ d[x + 2 + i] = 0 /\ d[x + 2 + (i + 1)] = 0 /\ d[x + 2 + (i + 2)] = 1
    BY <1>8, <1>10, <2>1 DEF IsCode
  <2>3. j + 1 = x + 2 + (i + 1) /\ j + 2 = x + 2 + (i + 2) /\ j > x /\ j + 2 <= e - 1
    BY <1>6, <1>7, <2>1
  <2>4. j \in 1 .. Len(d) - 2
    <3>. HIDE DEF codes
    <3>. QED
      BY <1>1, <1>6, <1>7, <2>1, <2>3
  <2>. HIDE DEF j
  <2>5. d[j] = 0 /\ d[j + 1] = 0 /\ d[j + 2] = 1
    BY <2>2, <2>3 DEF j
  <2>6. j \in codes
    BY <2>4, <2>5
  <2>7. e <= j
    BY <1>7, <2>3, <2>6
  <2>. QED
    BY <1>7, <2>3, <2>4, <2>7
<1>. QED
  BY <1>5, <1>8, <1>9, <1>10 DEF Clean

-----------------------------------------------------------------------------
(* Units behind start codes: findNalUnits finds the units that were joined. *)

\* The units, each behind a start code.
Coded(nals) == [k \in DOMAIN nals |-> StartCode \o nals[k]]

\* nals are m units that can be told apart once they are joined to h[m].
Stream(h, nals, m) ==
    /\ nals \in Seq(Seq(Nat)) /\ m \in 0 .. Len(nals)
    /\ \A k \in 1 .. Len(nals) : Clean(nals[k])
    /\ Joins(h, Coded(nals), m)

\* A unit behind a start code, byte by byte.
LEMMA CodedUnit ==
    ASSUME NEW nal \in Seq(Nat), nal # <<>>
    PROVE  LET c == StartCode \o nal
           IN  /\ c \in Seq(Nat) /\ Len(c) = 4 + Len(nal) /\ Len(nal) \in Nat \ {0}
               /\ c[1] = 0 /\ c[2] = 0 /\ c[3] = 0 /\ c[4] = 1
               /\ \A i \in 1 .. Len(nal) : c[4 + i] = nal[i]
<1>1. StartCode \in Seq(Nat) /\ Len(StartCode) = 4
  BY DEF StartCode
<1>2. Extended(StartCode, nal, StartCode \o nal) /\ StartCode \o nal \in Seq(Nat)
  BY <1>1, Extending
<1>3. Len(nal) \in Nat \ {0}
  OBVIOUS
<1>. DEFINE c == StartCode \o nal
<1>4. c \in Seq(Nat) /\ Extended(StartCode, nal, c)
  BY <1>2
<1>. HIDE DEF c
<1>5. /\ Len(c) = 4 + Len(nal)
      /\ \A i \in 1 .. 4 : c[i] = StartCode[i]
      /\ \A i \in 1 .. Len(nal) : c[4 + i] = nal[i]
  BY <1>1, <1>4 DEF Extended
<1>6. c[1] = 0 /\ c[2] = 0 /\ c[3] = 0 /\ c[4] = 1
  BY <1>5 DEF StartCode
<1>7. /\ c \in Seq(Nat) /\ Len(c) = 4 + Len(nal) /\ Len(nal) \in Nat \ {0}
      /\ c[1] = 0 /\ c[2] = 0 /\ c[3] = 0 /\ c[4] = 1
      /\ \A i \in 1 .. Len(nal) : c[4 + i] = nal[i]
  BY <1>3, <1>4, <1>5, <1>6
<1>. QED
  BY <1>7 DEF c

\* Where unit k is in what is joined: its start code ends with 0 0 1, and the
\* next unit begins where it ends.
Placed(h, nals, m, k) ==
    LET at == Len(h[k - 1])
        d == h[m]
    IN  /\ at \in Nat /\ Len(nals[k]) \in Nat \ {0}
        /\ Len(h[k]) = at + 4 + Len(nals[k]) /\ Len(h[k]) <= Len(d)
        /\ d[at + 1] = 0 /\ d[at + 2] = 0 /\ d[at + 3] = 0 /\ d[at + 4] = 1
        /\ \A i \in 1 .. Len(nals[k]) : d[at + 4 + i] = nals[k][i]

\* A stream is what joining the coded units makes.
LEMMA StreamJoining ==
    ASSUME NEW h, NEW nals, NEW m, Stream(h, nals, m)
    PROVE  m \in Nat /\ Joining(h, Coded(nals), m, Nat)
<1>1. m \in Nat /\ \A k \in 1 .. m : k \in 1 .. Len(nals)
  BY DEF Stream
<1>2. ASSUME NEW k \in 1 .. m PROVE Coded(nals)[k] \in Seq(Nat)
  <2>1. k \in DOMAIN nals /\ Clean(nals[k])
    BY <1>1 DEF Stream
  <2>2. Coded(nals)[k] = StartCode \o nals[k]
    BY <2>1 DEF Coded
  <2>. QED
    BY <2>1, <2>2, CodedUnit DEF Clean
<1>. QED
  BY <1>1, <1>2 DEF Joining, Stream

\* A unit is at its place in the stream.
LEMMA UnitPlaced ==
    ASSUME NEW h, NEW nals, NEW m, Stream(h, nals, m), NEW k \in 1 .. m
    PROVE  Placed(h, nals, m, k)
<1>1. m \in Nat /\ Joining(h, Coded(nals), m, Nat) /\ k \in 1 .. m
  BY StreamJoining
<1>2. k \in DOMAIN nals /\ Clean(nals[k])
  <2>1. nals \in Seq(Seq(Nat)) /\ m \in 0 .. Len(nals)
    BY DEF Stream
  <2>2. k \in 1 .. Len(nals)
    BY <2>1
  <2>. QED
    BY <2>1, <2>2 DEF Stream
<1>. DEFINE c == Coded(nals)[k]
            at == Len(h[k - 1])
            d == h[m]
            u == nals[k]
<1>3. /\ Len(c) = 4 + Len(u) /\ Len(u) \in Nat \ {0}
      /\ c[1] = 0 /\ c[2] = 0 /\ c[3] = 0 /\ c[4] = 1
      /\ \A i \in 1 .. Len(u) : c[4 + i] = u[i]
  <2>1. c = StartCode \o u
    BY <1>2 DEF Coded
  <2>2. u \in Seq(Nat) /\ u # <<>>
    BY <1>2 DEF Clean
  <2>. HIDE DEF c, u
  <2>. QED
    BY <2>1, <2>2, CodedUnit
<1>4. Extended(h[k - 1], c, h[k])
  <2>. HIDE DEF c
  <2>. QED
    BY <1>1, JoiningAdds DEF c
<1>5. Begins(h[k], d)
  <2>1. k \in 0 .. m /\ m \in k .. m
    BY <1>1
  <2>. QED
    BY <1>1, <2>1, JoiningKeeps
<1>6. at \in Nat /\ Len(h[k]) = at + Len(c) /\ Len(h[k]) <= Len(d)
  BY <1>4, <1>5 DEF Extended, Begins
<1>7. ASSUME NEW f \in 1 .. Len(c) PROVE d[at + f] = c[f]
  <2>1. at + f \in 1 .. Len(h[k]) /\ h[k][at + f] = c[f]
    <3>. HIDE DEF c
    <3>. QED
      BY <1>4, ExtendedAt
  <2>. QED
    BY <1>5, <2>1 DEF Begins
<1>. HIDE DEF c, at, d, u
<1>8. 1 \in 1 .. Len(c) /\ 2 \in 1 .. Len(c) /\ 3 \in 1 .. Len(c) /\ 4 \in 1 .. Len(c)
  BY <1>3
<1>9. d[at + 1] = 0 /\ d[at + 2] = 0 /\ d[at + 3] = 0 /\ d[at + 4] = 1
  BY <1>3, <1>7, <1>8
<1>10. ASSUME NEW i \in 1 .. Len(u) PROVE d[at + 4 + i] = u[i]
  <2>1. 4 + i \in 1 .. Len(c) /\ at + 4 + i = at + (4 + i)
    BY <1>3, <1>6
  <2>2. d[at + (4 + i)] = c[4 + i]
    BY <1>7, <2>1
  <2>. QED
    BY <1>3, <2>1, <2>2
<1>11. Len(h[k]) = at + 4 + Len(u)
  BY <1>3, <1>6
<1>. QED
  BY <1>3, <1>6, <1>9, <1>10, <1>11 DEF Placed, at, d, u

\* What comes after a unit begins where it ends, or later.
LEMMA UnitsInOrder ==
    ASSUME NEW h, NEW nals, NEW m, Stream(h, nals, m), NEW k \in 1 .. m, NEW l \in k + 1 .. m
    PROVE  Len(h[k]) <= Len(h[l - 1])
<1>1. m \in Nat /\ Joining(h, Coded(nals), m, Nat)
  BY StreamJoining
<1>2. k \in 0 .. m /\ l - 1 \in k .. m
  BY <1>1
<1>3. Begins(h[k], h[l - 1])
  BY <1>1, <1>2, JoiningKeeps
<1>. QED
  BY <1>3 DEF Begins

\* The only start codes are those that were put in.
LEMMA CodesAre ==
    ASSUME NEW h, NEW nals, NEW m, Stream(h, nals, m)
    PROVE  {i \in 1 .. Len(h[m]) - 2 : IsCode(h[m], i)} = {Len(h[k - 1]) + 2 : k \in 1 .. m}
<1>. DEFINE d == h[m]
<1>1. m \in Nat /\ Joining(h, Coded(nals), m, Nat)
  BY StreamJoining
<1>2. d \in Seq(Nat) /\ Len(d) \in Nat
  BY <1>1, JoiningHolds
<1>3. ASSUME NEW k \in 1 .. m
      PROVE  Len(h[k - 1]) + 2 \in 1 .. Len(d) - 2 /\ IsCode(d, Len(h[k - 1]) + 2)
  <2>. DEFINE at == Len(h[k - 1])
  <2>1. /\ at \in Nat /\ Len(nals[k]) \in Nat \ {0}
        /\ at + 4 + Len(nals[k]) <= Len(d)
        /\ d[at + 2] = 0 /\ d[at + 3] = 0 /\ d[at + 4] = 1
    <3>1. Placed(h, nals, m, k)
      BY UnitPlaced
    <3>2. /\ at \in Nat /\ Len(nals[k]) \in Nat \ {0}
          /\ Len(h[k]) = at + 4 + Len(nals[k]) /\ Len(h[k]) <= Len(d)
      BY <3>1 DEF Placed
    <3>. QED
      BY <3>1, <3>2 DEF Placed
  <2>. HIDE DEF at, d
  <2>2. at + 2 \in 1 .. Len(d) - 2 /\ (at + 2) + 1 = at + 3 /\ (at + 2) + 2 = at + 4
    <3>. DEFINE n == Len(nals[k])
                len == Len(d)
    <3>1. n \in Nat \ {0} /\ len \in Nat /\ at \in Nat /\ at + 4 + n <= len
      BY <1>2, <2>1
    <3>. HIDE DEF n, len
    <3>2. at + 2 \in 1 .. len - 2 /\ (at + 2) + 1 = at + 3 /\ (at + 2) + 2 = at + 4
      BY <3>1
    <3>. QED
      BY <3>2 DEF len
  <2>3. IsCode(d, at + 2)
    BY <2>1, <2>2 DEF IsCode
  <2>. QED
    BY <2>2, <2>3 DEF at
<1>4. ASSUME NEW i \in 1 .. Len(d) - 2, IsCode(d, i)
      PROVE  \E k \in 1 .. m : i = Len(h[k - 1]) + 2
  <2>1. i \in Nat /\ i + 2 \in 1 .. Len(d)
    <3>. DEFINE len == Len(d)
    <3>1. len \in Nat /\ i \in 1 .. len - 2
      BY <1>2
    <3>. HIDE DEF len
    <3>2. i \in Nat /\ i + 2 \in 1 .. len
      BY <3>1
    <3>. QED
      BY <3>2 DEF len
  <2>2. PICK k, f : At(h, Coded(nals), m, i + 2, k, f)
    BY <1>1, <2>1, JoinedFrom
  <2>. DEFINE at == Len(h[k - 1])
              u == nals[k]
  <2>3. k \in 1 .. m /\ f \in 1 .. Len(Coded(nals)[k]) /\ i + 2 = at + f
    BY <2>2 DEF At
  <2>4. k \in 1 .. Len(nals) /\ k \in DOMAIN nals /\ Clean(u)
    BY <2>3 DEF Stream
  <2>5. Len(Coded(nals)[k]) = 4 + Len(u) /\ Len(u) \in Nat \ {0}
    <3>1. Coded(nals)[k] = StartCode \o u
      BY <2>4 DEF Coded
    <3>2. u \in Seq(Nat) /\ u # <<>>
      BY <2>4 DEF Clean
    <3>. HIDE DEF u
    <3>. QED
      BY <3>1, <3>2, CodedUnit
  <2>6. /\ at \in Nat
        /\ d[at + 1] = 0 /\ d[at + 2] = 0 /\ d[at + 3] = 0 /\ d[at + 4] = 1
        /\ \A j \in 1 .. Len(u) : d[at + 4 + j] = u[j]
    <3>1. Placed(h, nals, m, k)
      BY <2>3, UnitPlaced
    <3>. QED
      BY <3>1 DEF Placed
  <2>7. d[i] = 0 /\ d[i + 1] = 0 /\ d[i + 2] = 1
    BY <1>4 DEF IsCode
  <2>8. \A j \in 1 .. Len(u) - 2 : ~IsCode(u, j)
    BY <2>4 DEF Clean
  <2>. HIDE DEF at, u, d
  <2>9. f \in 1 .. 4 + Len(u) /\ i = at + f - 2 /\ i + 1 = at + f - 1
    BY <2>1, <2>3, <2>5, <2>6
  <2>10. f = 4
    <3>1. f # 1
      BY <2>3, <2>6, <2>7
    <3>2. f # 2
      BY <2>3, <2>6, <2>7
    <3>3. f # 3
      BY <2>3, <2>6, <2>7
    <3>4. f # 5
      <4>1. f = 5 => i + 1 = at + 4
        BY <2>6, <2>9
      <4>. QED
        BY <2>6, <2>7, <4>1
    <3>5. f # 6
      <4>1. f = 6 => i = at + 4
        BY <2>6, <2>9
      <4>. QED
        BY <2>6, <2>7, <4>1
    <3>6. ~(f > 6)
      <4>. SUFFICES ASSUME f > 6 PROVE FALSE
        OBVIOUS
      <4>. DEFINE j == f - 6
      <4>1. /\ j \in 1 .. Len(u) - 2 /\ j \in 1 .. Len(u) /\ j + 1 \in 1 .. Len(u)
            /\ j + 2 \in 1 .. Len(u)
            /\ i = at + 4 + j /\ i + 1 = at + 4 + (j + 1) /\ i + 2 = at + 4 + (j + 2)
        BY <2>1, <2>5, <2>6, <2>9
      <4>. HIDE DEF j
      <4>2. u[j] = 0 /\ u[j + 1] = 0 /\ u[j + 2] = 1
        BY <2>6, <2>7, <4>1
      <4>. QED
        BY <2>8, <4>1, <4>2 DEF IsCode
    <3>. QED
      BY <2>5, <2>9, <3>1, <3>2, <3>3, <3>4, <3>5, <3>6
  <2>11. i = at + 2
    BY <2>6, <2>9, <2>10
  <2>. QED
    BY <2>3, <2>11 DEF at
<1>. HIDE DEF d
<1>5. {i \in 1 .. Len(d) - 2 : IsCode(d, i)} = {Len(h[k - 1]) + 2 : k \in 1 .. m}
  BY <1>3, <1>4
<1>. QED
  BY <1>5 DEF d

\* What is found in units that were joined are the units.
THEOREM NalsFound ==
    ASSUME NEW h, NEW nals, NEW m, Stream(h, nals, m)
    PROVE  findNalUnits(h[m]) = SubSeq(nals, 1, m)
<1>. DEFINE d == h[m]
            codes == {i \in 1 .. Len(d) - 2 : d[i] = 0 /\ d[i + 1] = 0 /\ d[i + 2] = 1}
            codeBegin(i) == IF i > 1 /\ d[i - 1] = 0 /\ \E j \in codes : j + 3 <= i - 1
                            THEN i - 1 ELSE i
            after(i) == {j \in codes : j > i}
            end(i) == IF after(i) = {} THEN Len(d) + 1 ELSE codeBegin(Min(after(i)))
            begun == {i \in codes : i + 3 < end(i)}
            kth(l) == CHOOSE i \in begun : Cardinality({j \in begun : j <= i}) = l
            nal(l) == SubSeq(d, kth(l) + 3, end(kth(l)) - 1)
            P == [k \in 1 .. m |-> Len(h[k - 1]) + 2]
<1>1. m \in Nat /\ Joining(h, Coded(nals), m, Nat)
  BY StreamJoining
<1>2. d \in Seq(Nat) /\ Len(d) \in Nat
  BY <1>1, JoiningHolds
<1>3. codes = {P[k] : k \in 1 .. m}
  <2>1. codes = {i \in 1 .. Len(h[m]) - 2 : IsCode(h[m], i)}
    BY DEF IsCode
  <2>2. codes = {Len(h[k - 1]) + 2 : k \in 1 .. m}
    <3>. HIDE DEF codes
    <3>. QED
      BY <2>1, CodesAre
  <2>. HIDE DEF codes
  <2>. QED
    BY <2>2
<1>4. ASSUME NEW k \in 1 .. m
      PROVE  /\ P[k] \in Nat /\ P[k] > 1 /\ Len(nals[k]) \in Nat \ {0}
             /\ Len(h[k]) = P[k] + 2 + Len(nals[k]) /\ Len(h[k]) <= Len(d)
             /\ d[P[k] - 1] = 0
             /\ \A i \in 1 .. Len(nals[k]) : d[P[k] + 2 + i] = nals[k][i]
  <2>. DEFINE at == Len(h[k - 1])
              n == Len(nals[k])
              len == Len(h[k])
  <2>1. Placed(h, nals, m, k)
    BY UnitPlaced
  <2>2. /\ at \in Nat /\ n \in Nat \ {0}
        /\ len = at + 4 + n /\ len <= Len(d)
        /\ d[at + 1] = 0
        /\ \A i \in 1 .. n : d[at + 4 + i] = nals[k][i]
    BY <2>1 DEF Placed
  <2>3. P[k] = at + 2
    OBVIOUS
  <2>. HIDE DEF P, at, n, len, d
  <2>4. /\ P[k] \in Nat /\ P[k] > 1 /\ len = P[k] + 2 + n /\ P[k] - 1 = at + 1
        /\ \A i \in 1 .. n : P[k] + 2 + i = at + 4 + i
    BY <2>2, <2>3
  <2>5. ASSUME NEW i \in 1 .. n PROVE d[P[k] + 2 + i] = nals[k][i]
    BY <2>2, <2>4
  <2>. QED
    BY <2>2, <2>4, <2>5 DEF n, len
<1>5. ASSUME NEW k \in 1 .. m, NEW l \in 1 .. m, k < l
      PROVE  Len(h[k]) + 2 <= P[l]
  <2>1. l \in k + 1 .. m
    BY <1>1, <1>5
  <2>2. Len(h[k]) <= Len(h[l - 1])
    BY <2>1, UnitsInOrder
  <2>3. l - 1 \in 0 .. m /\ k \in 0 .. m
    BY <1>1
  <2>4. Len(h[k]) \in Nat /\ Len(h[l - 1]) \in Nat
    BY <1>1, <2>3, JoiningHolds
  <2>5. P[l] = Len(h[l - 1]) + 2
    OBVIOUS
  <2>. HIDE DEF P
  <2>. QED
    BY <2>2, <2>4, <2>5
<1>6. /\ P \in [1 .. m -> Nat]
      /\ \A x, y \in 1 .. m : x < y => P[x] < P[y]
  <2>1. P \in [1 .. m -> Nat]
    <3>1. P = [k \in 1 .. m |-> P[k]]
      OBVIOUS
    <3>. HIDE DEF P
    <3>. QED
      BY <1>4, <3>1
  <2>. HIDE DEF P, d
  <2>2. ASSUME NEW x \in 1 .. m, NEW y \in 1 .. m, x < y PROVE P[x] < P[y]
    <3>1. /\ P[x] \in Nat /\ P[y] \in Nat /\ Len(nals[x]) \in Nat
          /\ Len(h[x]) = P[x] + 2 + Len(nals[x])
      BY <1>4
    <3>2. Len(h[x]) + 2 <= P[y]
      BY <1>5, <2>2
    <3>. QED
      BY <3>1, <3>2
  <2>. QED
    BY <2>1, <2>2
<1>. HIDE DEF P
\* A unit ends where the next one begins: the first zero of the start code
\* is not the unit's, and any other is.
<1>7. ASSUME NEW k \in 1 .. m PROVE end(P[k]) = Len(h[k]) + 1
  <2>. HIDE DEF d
  <2>1. CASE k = m
    <3>1. ASSUME NEW j \in codes, j > P[k] PROVE FALSE
      <4>1. PICK l \in 1 .. m : j = P[l]
        BY <1>3
      <4>2. ~(k < l)
        BY <1>1, <2>1
      <4>3. l = k \/ l < k
        BY <4>2
      <4>4. P[l] \in Nat /\ P[k] \in Nat /\ (l < k => P[l] < P[k])
        BY <1>4, <1>6
      <4>. QED
        BY <3>1, <4>1, <4>3, <4>4
    <3>2. after(P[k]) = {}
      BY <3>1
    <3>3. end(P[k]) = Len(d) + 1
      BY <3>2
    <3>. HIDE DEF end
    <3>. QED
      BY <2>1, <3>3 DEF d
  <2>2. CASE k # m
    <3>. DEFINE l == k + 1
                T == after(P[k])
    <3>1. l \in 1 .. m /\ k < l /\ l - 1 = k
      BY <1>1, <2>2
    <3>2. P[l] \in codes /\ P[k] \in codes
      BY <1>3, <3>1
    <3>3. /\ P[k] \in Nat /\ P[l] \in Nat /\ P[k] < P[l]
          /\ Len(nals[k]) \in Nat \ {0}
          /\ Len(h[k]) = P[k] + 2 + Len(nals[k])
          /\ d[P[l] - 1] = 0
      BY <1>4, <1>6, <3>1
    <3>4. P[l] = Len(h[k]) + 2
      <4>1. P[l] = Len(h[l - 1]) + 2
        BY <3>1 DEF P
      <4>. QED
        BY <3>1, <4>1
    <3>5. P[l] \in T
      <4>. HIDE DEF codes
      <4>. QED
        BY <3>2, <3>3
    <3>6. ASSUME NEW j \in T PROVE j \in Nat /\ P[l] <= j
      <4>1. j \in codes /\ j > P[k]
        OBVIOUS
      <4>2. PICK x \in 1 .. m : j = P[x]
        BY <1>3, <4>1
      <4>3. P[x] \in Nat /\ (x < k => P[x] < P[k]) /\ (l < x => P[l] < P[x])
        BY <1>4, <1>6, <3>1
      <4>4. x = l \/ l < x \/ x = k \/ x < k
        BY <3>1
      <4>. HIDE DEF P
      <4>5. j \in Nat /\ j = P[x] /\ P[x] > P[k] /\ P[l] \in Nat /\ P[k] \in Nat
        BY <3>3, <4>1, <4>2, <4>3
      <4>6. x # k /\ ~(x < k)
        BY <4>3, <4>5
      <4>7. x = l \/ P[l] < P[x]
        BY <4>3, <4>4, <4>6
      <4>. QED
        BY <4>5, <4>7
    <3>7. Min(T) = P[l]
      <4>. HIDE DEF T
      <4>1. \A x \in T : (\A y \in T : x <= y) => x = P[l]
        BY <3>3, <3>5, <3>6
      <4>2. \A y \in T : P[l] <= y
        BY <3>6
      <4>. QED
        BY <3>5, <4>1, <4>2 DEF Min
    <3>8. T # {}
      <4>. HIDE DEF T
      <4>. QED
        BY <3>5
    <3>9. end(P[k]) = codeBegin(P[l])
      <4>. HIDE DEF codeBegin
      <4>. QED
        BY <3>7, <3>8
    <3>. HIDE DEF T, l, codes
    <3>10. P[l] > 1 /\ P[k] + 3 <= P[l] - 1 /\ P[l] - 1 = Len(h[k]) + 1
      BY <3>3, <3>4
    <3>11. codeBegin(P[l]) = P[l] - 1
      BY <3>2, <3>3, <3>10
    <3>. HIDE DEF end, codeBegin
    <3>. QED
      BY <3>9, <3>10, <3>11
  <2>. QED
    BY <2>1, <2>2
<1>8. begun = {P[k] : k \in 1 .. m}
  <2>1. ASSUME NEW k \in 1 .. m PROVE P[k] + 3 < end(P[k])
    <3>. HIDE DEF end, d
    <3>1. P[k] \in Nat /\ Len(nals[k]) \in Nat \ {0} /\ Len(h[k]) = P[k] + 2 + Len(nals[k])
      BY <1>4
    <3>2. end(P[k]) = Len(h[k]) + 1
      BY <1>7
    <3>. QED
      BY <3>1, <3>2
  <2>. HIDE DEF end, codes
  <2>2. begun = codes
    BY <1>3, <2>1
  <2>. QED
    BY <1>3, <2>2
<1>9. Cardinality(begun) = m
  <2>1. m \in 0 .. m
    BY <1>1
  <2>. HIDE DEF begun
  <2>. QED
    BY <1>1, <1>6, <1>8, <2>1, Increasing
<1>10. ASSUME NEW k \in 1 .. m PROVE kth(k) = P[k]
  <2>. HIDE DEF begun
  <2>1. Lists(P, m, begun)
    BY <1>6, <1>8 DEF Lists
  <2>2. /\ P[k] \in begun /\ Cardinality(UpTo(begun, P[k])) = k
        /\ \A i \in begun : Cardinality(UpTo(begun, i)) = k => i = P[k]
    BY <1>1, <2>1, KthIs
  <2>. QED
    BY <2>2 DEF UpTo
<1>11. findNalUnits(d) = [k \in 1 .. Cardinality(begun) |-> nal(k)]
  BY DEF findNalUnits
<1>12. ASSUME NEW k \in 1 .. m PROVE nal(k) = nals[k]
  <2>1. nals[k] \in Seq(Nat)
    <3>1. nals \in Seq(Seq(Nat)) /\ m \in 0 .. Len(nals)
      BY DEF Stream
    <3>2. k \in 1 .. Len(nals)
      BY <3>1
    <3>. QED
      BY <3>1, <3>2
  <2>. DEFINE u == nals[k]
              at == P[k] + 2
  <2>2. nal(k) = SubSeq(d, P[k] + 3, (Len(h[k]) + 1) - 1)
    <3>. HIDE DEF kth, end, d
    <3>. QED
      BY <1>7, <1>10
  <2>. HIDE DEF nal, d
  <2>3. /\ at \in Nat /\ Len(u) \in Nat \ {0}
        /\ Len(h[k]) = at + Len(u) /\ Len(h[k]) <= Len(d)
        /\ \A i \in 1 .. Len(u) : d[at + i] = u[i]
    <3>1. /\ P[k] \in Nat /\ Len(u) \in Nat \ {0}
          /\ Len(h[k]) = P[k] + 2 + Len(u) /\ Len(h[k]) <= Len(d)
          /\ \A i \in 1 .. Len(u) : d[P[k] + 2 + i] = u[i]
      BY <1>4
    <3>2. at = P[k] + 2
      OBVIOUS
    <3>. HIDE DEF P, u, at
    <3>3. at \in Nat /\ \A i \in 1 .. Len(u) : d[at + i] = u[i]
      BY <3>1, <3>2
    <3>. QED
      BY <3>1, <3>2, <3>3
  <2>4. P[k] + 3 = at + 1 /\ (Len(h[k]) + 1) - 1 = at + Len(u)
    <3>1. P[k] \in Nat
      BY <1>4
    <3>. QED
      BY <2>3, <3>1
  <2>5. nal(k) = SubSeq(d, at + 1, at + Len(u))
    BY <2>2, <2>4
  <2>6. u \in Seq(Nat) /\ at + Len(u) <= Len(d)
    BY <2>1, <2>3
  <2>. HIDE DEF u, at
  <2>7. ASSUME NEW i \in at + 1 .. at + Len(u) PROVE d[i] \in Nat
    <3>1. i \in 1 .. Len(d)
      BY <1>2, <2>3, <2>6
    <3>. QED
      BY <1>2, <3>1
  <2>. DEFINE v == SubSeq(d, at + 1, at + Len(u))
  <2>8. /\ v \in Seq(Nat)
        /\ Len(v) = IF at + 1 <= at + Len(u) THEN (at + Len(u)) - (at + 1) + 1 ELSE 0
        /\ \A i \in 1 .. (at + Len(u)) - (at + 1) + 1 : v[i] = d[(at + 1) + i - 1]
    BY <2>3, <2>7, SubSeqProperties
  <2>. HIDE DEF v
  <2>9. Len(v) = Len(u)
    BY <2>3, <2>8
  <2>10. ASSUME NEW i \in 1 .. Len(u) PROVE v[i] = u[i]
    <3>1. i \in 1 .. (at + Len(u)) - (at + 1) + 1 /\ (at + 1) + i - 1 = at + i
      BY <2>3
    <3>2. v[i] = d[at + i]
      BY <2>8, <3>1
    <3>. QED
      BY <2>3, <3>2
  <2>11. v = u
    <3>1. v = [i \in 1 .. Len(v) |-> v[i]] /\ u = [i \in 1 .. Len(u) |-> u[i]]
      BY <2>6, <2>8
    <3>. QED
      BY <2>9, <2>10, <3>1
  <2>. QED
    BY <2>5, <2>11 DEF u, v
<1>13. findNalUnits(d) = [k \in 1 .. m |-> nals[k]]
  <2>. HIDE DEF nal, begun, d
  <2>. QED
    BY <1>9, <1>11, <1>12
<1>14. SubSeq(nals, 1, m) = [k \in 1 .. m |-> nals[k]]
  <2>1. nals \in Seq(Seq(Nat)) /\ m \in 0 .. Len(nals)
    BY DEF Stream
  <2>2. \A i \in 1 .. m : nals[i] \in Seq(Nat)
    BY <2>1
  <2>. DEFINE s == SubSeq(nals, 1, m)
  <2>3. /\ s \in Seq(Seq(Nat)) /\ Len(s) = IF 1 <= m THEN m - 1 + 1 ELSE 0
        /\ \A i \in 1 .. m - 1 + 1 : s[i] = nals[1 + i - 1]
    BY <1>1, <2>2, SubSeqProperties
  <2>. HIDE DEF s
  <2>4. Len(s) = m
    BY <1>1, <2>3
  <2>5. ASSUME NEW i \in 1 .. m PROVE s[i] = nals[i]
    <3>1. i \in 1 .. m - 1 + 1 /\ 1 + i - 1 = i
      BY <1>1
    <3>. QED
      BY <2>3, <3>1
  <2>6. s = [i \in 1 .. m |-> s[i]]
    BY <2>3, <2>4
  <2>7. s = [i \in 1 .. m |-> nals[i]]
    BY <2>5, <2>6
  <2>. QED
    BY <2>7 DEF s
<1>. QED
  BY <1>13, <1>14

-----------------------------------------------------------------------------
(* The fragments of a unit. *)

Chunk == IF maxPayload > 2 THEN maxPayload - 2 ELSE 1
Count(nal) == (Len(nal) + Chunk - 2) \div Chunk

\* How much of a unit the first f fragments carry; its header goes ahead.
Carried(nal, f) == Min({Len(nal), 1 + f * Chunk})

\* A quotient lies between two multiples.
LEMMA Quotient ==
    ASSUME NEW c \in Nat \ {0}, NEW a \in Nat, a >= c, NEW n, n = a \div c
    PROVE  n \in Nat \ {0} /\ n * c <= a /\ a < n * c + c
<1>1. n \in Int /\ a = n * c + (a % c) /\ 0 <= a % c /\ a % c < c
  BY Z3
<1>2. n # 0
  BY <1>1
<1>3. ~(n < 0)
  <2>. SUFFICES ASSUME n < 0 PROVE FALSE
    OBVIOUS
  <2>1. n * c <= 0 - c
    BY <1>1
  <2>. QED
    BY <1>1, <2>1
<1>. QED
  BY <1>1, <1>2, <1>3

\* Multiples grow with their factor.
LEMMA Multiples ==
    ASSUME NEW c \in Nat \ {0}, NEW f \in Nat, NEW n \in Nat, f <= n
    PROVE  f * c \in Nat /\ n * c \in Nat /\ f * c <= n * c
<1>1. f * c \in Nat /\ n * c \in Nat
  OBVIOUS
<1>2. (n - f) * c >= 0 /\ (n - f) * c = n * c - f * c
  BY Z3
<1>. QED
  BY <1>1, <1>2

\* The smaller of two numbers.
LEMMA MinOfTwo ==
    ASSUME NEW a \in Int, NEW b \in Int
    PROVE  Min({a, b}) = IF a <= b THEN a ELSE b
BY DEF Min

\* Each fragment goes on where the last one ended, and the last ends the unit.
LEMMA Carrying ==
    ASSUME NEW nal \in Seq(Nat), Len(nal) > maxPayload
    PROVE  /\ Count(nal) \in Nat \ {0}
           /\ Carried(nal, Count(nal)) = Len(nal)
           /\ \A f \in 1 .. Count(nal) :
                 /\ 1 + (f - 1) * Chunk \in 1 .. Len(nal)
                 /\ Carried(nal, f - 1) = 1 + (f - 1) * Chunk
                 /\ Carried(nal, f) \in 1 + (f - 1) * Chunk .. Len(nal)
<1>. DEFINE len == Len(nal)
            c == Chunk
            n == Count(nal)
<1>1. c \in Nat \ {0} /\ len \in Nat /\ len >= 2
  BY RtpFormatAssumption DEF Chunk
<1>2. n = (len + c - 2) \div c
  BY DEF Count
<1>. HIDE DEF len, c, n
<1>3. n \in Nat \ {0} /\ n * c <= len + c - 2 /\ len + c - 2 < n * c + c
  <2>. DEFINE a == len + c - 2
  <2>1. a \in Nat /\ a >= c /\ n = a \div c
    BY <1>1, <1>2
  <2>. HIDE DEF a
  <2>2. n \in Nat \ {0} /\ n * c <= a /\ a < n * c + c
    BY <1>1, <2>1, Quotient
  <2>. QED
    BY <2>2 DEF a
<1>4. Carried(nal, n) = len
  <2>1. n * c \in Nat
    BY <1>1, <1>3, Multiples
  <2>. DEFINE b == 1 + n * c
  <2>2. b \in Int /\ len <= b
    BY <1>1, <1>3, <2>1
  <2>3. Carried(nal, n) = Min({len, b})
    BY DEF Carried, len, c
  <2>. HIDE DEF b
  <2>. QED
    BY <1>1, <2>2, <2>3, MinOfTwo
<1>5. ASSUME NEW f \in 1 .. n
      PROVE  /\ 1 + (f - 1) * c \in 1 .. len
             /\ Carried(nal, f - 1) = 1 + (f - 1) * c
             /\ Carried(nal, f) \in 1 + (f - 1) * c .. len
  <2>. DEFINE x == (f - 1) * c
              y == f * c
              z == (n - 1) * c
  <2>1. x \in Nat /\ z \in Nat /\ x <= z
    <3>1. f - 1 \in Nat /\ n - 1 \in Nat /\ f - 1 <= n - 1
      BY <1>3
    <3>. QED
      BY <1>1, <3>1, Multiples
  <2>2. z = n * c - c /\ y = x + c /\ n * c \in Nat
    <3>1. f \in Nat /\ n \in Nat /\ c \in Nat
      BY <1>1, <1>3
    <3>. QED
      BY <3>1, Z3
  <2>3. Carried(nal, f - 1) = Min({len, 1 + x}) /\ Carried(nal, f) = Min({len, 1 + y})
    BY DEF Carried, len, c
  <2>. HIDE DEF x, y, z
  <2>4. 1 + x <= len /\ 1 + x \in Int /\ 1 + y \in Int
    BY <1>1, <1>3, <2>1, <2>2
  <2>5. Carried(nal, f - 1) = 1 + x
    <3>1. Min({len, 1 + x}) = IF len <= 1 + x THEN len ELSE 1 + x
      BY <1>1, <2>4, MinOfTwo
    <3>. QED
      BY <1>1, <2>3, <2>4, <3>1
  <2>6. Carried(nal, f) \in 1 + x .. len
    <3>1. Min({len, 1 + y}) = IF len <= 1 + y THEN len ELSE 1 + y
      BY <1>1, <2>4, MinOfTwo
    <3>. QED
      BY <1>1, <2>1, <2>2, <2>3, <2>4, <3>1
  <2>7. 1 + x \in 1 .. len
    BY <1>1, <2>1, <2>4
  <2>. QED
    BY <2>5, <2>6, <2>7 DEF x
<1>. QED
  BY <1>3, <1>4, <1>5 DEF len, c, n

\* The two bytes ahead of a fragment.
LEMMA Indicator ==
    ASSUME NEW b \in Nat
    PROVE  /\ NalType(b) \in 0 .. 31
           /\ NalType(b - NalType(b) + FuA) = FuA
           /\ (b - NalType(b) + FuA) - FuA + NalType(b) = b
<1>. DEFINE t == b % 32
            q == b \div 32
<1>1. t \in 0 .. 31 /\ q \in Nat /\ b = 32 * q + t
  BY Z3
<1>2. b - t + 28 = 32 * q + 28
  BY <1>1
<1>3. (32 * q + 28) % 32 = 28
  <2>. HIDE DEF q
  <2>. QED
    BY <1>1, Z3
<1>4. (b - t + 28) - 28 + t = b
  BY <1>1
<1>. QED
  BY <1>1, <1>2, <1>3, <1>4 DEF NalType, FuA

Marked(t, x, y, b) == b = t + x + y

\* The two flags of a fragment do not disturb the type or each other.
LEMMA Marks ==
    ASSUME NEW t \in 0 .. 31, NEW x \in {0, 128}, NEW y \in {0, 64}, NEW b, Marked(t, x, y, b)
    PROVE  b \in Nat /\ NalType(b) = t /\ (Has(b, 128) <=> x = 128) /\ (Has(b, 64) <=> y = 64)
<1>1. b = t + x + y
  BY DEF Marked
<1>2. b \in Nat
  BY <1>1
<1>3. b % 32 = t
  BY <1>1, Z3
<1>4. b \div 128 = IF x = 128 THEN 1 ELSE 0
  BY <1>1, Z3
<1>5. b \div 64 = (IF x = 128 THEN 2 ELSE 0) + (IF y = 64 THEN 1 ELSE 0)
  BY <1>1, Z3
<1>6. Has(b, 128) <=> x = 128
  BY <1>4 DEF Has
<1>7. Has(b, 64) <=> y = 64
  <2>1. (b \div 64) % 2 = IF y = 64 THEN 1 ELSE 0
    BY <1>5
  <2>. QED
    BY <2>1 DEF Has
<1>. QED
  BY <1>2, <1>3, <1>6, <1>7 DEF NalType

\* The bytes ahead of fragment f of n of a unit that begins with byte x.
FuIndicator(x) == x - NalType(x) + FuA
FuHeader(x, f, n) == NalType(x) + Flag(f = 1, 128) + Flag(f = n, 64)

HeaderTells(x, f, n) ==
    LET a == FuIndicator(x)
        b == FuHeader(x, f, n)
    IN  /\ a \in Nat /\ NalType(a) = FuA
        /\ b \in Nat /\ a - NalType(a) + NalType(b) = x
        /\ Has(b, 128) <=> f = 1
        /\ Has(b, 64) <=> f = n

\* The header of a unit is recovered from the two bytes of a fragment.
LEMMA HeaderIs ==
    ASSUME NEW x \in Nat, NEW f, NEW n
    PROVE  HeaderTells(x, f, n)
<1>. DEFINE t == NalType(x)
            a == FuIndicator(x)
            b == FuHeader(x, f, n)
            v == Flag(f = 1, 128)
            w == Flag(f = n, 64)
<1>1. t \in 0 .. 31 /\ NalType(a) = FuA /\ a - FuA + t = x
  BY Indicator DEF FuIndicator
<1>2. v \in {0, 128} /\ (v = 128 <=> f = 1) /\ w \in {0, 64} /\ (w = 64 <=> f = n)
  BY DEF Flag
<1>3. Marked(t, v, w, b)
  BY DEF Marked, FuHeader
<1>4. a \in Nat
  <2>1. t <= x
    <3>1. x % 32 <= x
      BY Z3
    <3>. QED
      BY <3>1 DEF NalType
  <2>2. a = x - t + 28
    BY DEF FuIndicator, FuA
  <2>. HIDE DEF a, t
  <2>. QED
    BY <1>1, <2>1, <2>2
<1>. HIDE DEF t, a, b, v, w
<1>5. b \in Nat /\ NalType(b) = t /\ (Has(b, 128) <=> v = 128) /\ (Has(b, 64) <=> w = 64)
  BY <1>1, <1>2, <1>3, Marks
<1>6. a - NalType(a) + NalType(b) = x
  BY <1>1, <1>5
<1>. QED
  BY <1>1, <1>2, <1>4, <1>5, <1>6 DEF HeaderTells, a, b

-----------------------------------------------------------------------------
(* One turn of the loop that puts a unit together. *)

\* What the loop holds after a packet it has taken, and one it has refused.
Taken(o, f, k) == [out |-> o, fu |-> f, key |-> k, ok |-> TRUE]
Refused(u) == "ok" \in DOMAIN u /\ u.ok = FALSE

Written(o, nal) == o \o StartCode \o nal
IsKey(nal) == NalType(nal[1]) \in {5, 7, 8}

\* A loop that has refused a packet refuses the rest.
LEMMA RefusedForGood ==
    ASSUME NEW u, Refused(u), NEW p
    PROVE  Refused(Reassembled(u, p))
BY DEF Refused, Reassembled

\* A packet that is a unit is written.
LEMMA WholeUnit ==
    ASSUME NEW o, NEW k \in BOOLEAN, NEW nal, nal # <<>>, NalType(nal[1]) # FuA
    PROVE  Reassembled(Taken(o, <<>>, k), nal) = Taken(Written(o, nal), <<>>, k \/ IsKey(nal))
<1>. DEFINE u == Taken(o, <<>>, k)
<1>1. u.ok /\ u.fu = <<>> /\ u.out = o /\ u.key = k
  BY DEF Taken
<1>2. Reassembled(u, nal) = [u EXCEPT !.out = u.out \o StartCode \o nal,
                                      !.key = u.key \/ NalType(nal[1]) \in {5, 7, 8}]
  <2>. HIDE DEF u
  <2>. QED
    BY <1>1 DEF Reassembled
<1>3. Reassembled(u, nal) = [u EXCEPT !.out = Written(o, nal), !.key = k \/ IsKey(nal)]
  <2>. HIDE DEF u
  <2>. QED
    BY <1>1, <1>2 DEF Written, IsKey
<1>. QED
  BY <1>3 DEF Taken

\* p is a, b and s.
Ahead(p, a, b, s) ==
    /\ p \in Seq(Nat) /\ p # <<>> /\ p[1] = a /\ p[2] = b
    /\ ~(Len(p) < 2) /\ Tail(Tail(p)) = s

\* Two bytes ahead of a string are taken off again.
LEMMA TwoAhead ==
    ASSUME NEW a \in Nat, NEW b \in Nat, NEW s \in Seq(Nat)
    PROVE  Ahead(<<a, b>> \o s, a, b, s)
<1>. DEFINE p == <<a, b>> \o s
            q == Tail(p)
            r == Tail(q)
<1>1. <<a, b>> \in Seq(Nat) /\ Len(<<a, b>>) = 2
  OBVIOUS
<1>2. p \in Seq(Nat) /\ Extended(<<a, b>>, s, p)
  BY <1>1, Extending
<1>. HIDE DEF p
<1>3. /\ Len(s) \in Nat /\ Len(p) = 2 + Len(s)
      /\ \A i \in 1 .. 2 : p[i] = <<a, b>>[i]
      /\ \A i \in 1 .. Len(s) : p[2 + i] = s[i]
  BY <1>1, <1>2 DEF Extended
<1>4. p # <<>> /\ p[1] = a /\ p[2] = b
  BY <1>2, <1>3
<1>5. /\ q \in Seq(Nat) /\ Len(q) = 1 + Len(s)
      /\ \A i \in 1 .. 1 + Len(s) : q[i] = p[i + 1]
  <2>1. q \in Seq(Nat) /\ Len(q) = Len(p) - 1 /\ \A i \in 1 .. Len(q) : q[i] = p[i + 1]
    BY <1>2, <1>4, HeadTailProperties
  <2>. HIDE DEF q
  <2>2. Len(q) = 1 + Len(s)
    BY <1>3, <2>1
  <2>. QED
    BY <2>1, <2>2
<1>. HIDE DEF q
<1>6. r \in Seq(Nat) /\ Len(r) = Len(s) /\ \A i \in 1 .. Len(s) : r[i] = q[i + 1]
  <2>1. q # <<>>
    BY <1>3, <1>5
  <2>2. r \in Seq(Nat) /\ Len(r) = Len(q) - 1 /\ \A i \in 1 .. Len(r) : r[i] = q[i + 1]
    BY <1>5, <2>1, HeadTailProperties
  <2>. HIDE DEF r
  <2>3. Len(r) = Len(s)
    BY <1>3, <1>5, <2>2
  <2>. QED
    BY <2>2, <2>3
<1>. HIDE DEF r
<1>7. ASSUME NEW i \in 1 .. Len(s) PROVE r[i] = s[i]
  <2>1. i + 1 \in 1 .. 1 + Len(s) /\ (i + 1) + 1 = 2 + i
    BY <1>3
  <2>2. r[i] = q[i + 1] /\ q[i + 1] = p[(i + 1) + 1]
    BY <1>5, <1>6, <2>1
  <2>. QED
    BY <1>3, <2>1, <2>2
<1>8. r = s
  <2>1. r = [i \in 1 .. Len(r) |-> r[i]] /\ s = [i \in 1 .. Len(s) |-> s[i]]
    BY <1>6
  <2>. QED
    BY <1>6, <1>7, <2>1
<1>. QED
  BY <1>2, <1>3, <1>4, <1>8 DEF p, q, r, Ahead

\* What is put together of a unit after f of its fragments.
Begun(nal, f) == SubSeq(nal, 1, Carried(nal, f))

\* The bytes of fragment f of a unit.
FragmentOf(nal, f, p) ==
    /\ p \in Seq(Nat) /\ p # <<>> /\ ~(Len(p) < 2) /\ NalType(p[1]) = FuA
    /\ p[1] - NalType(p[1]) + NalType(p[2]) = nal[1]
    /\ Has(p[2], 128) <=> f = 1
    /\ Has(p[2], 64) <=> f = Count(nal)
    /\ Tail(Tail(p)) = SubSeq(nal, 1 + (f - 1) * Chunk + 1, Carried(nal, f))

\* The fragments that are sent are those bytes.
LEMMA FragmentIs ==
    ASSUME NEW nal \in Seq(Nat), Len(nal) > maxPayload, NEW f \in 1 .. Count(nal)
    PROVE  FragmentOf(nal, f, fragments(nal)[f])
<1>. DEFINE n == Count(nal)
            x == 1 + (f - 1) * Chunk
            y == Carried(nal, f)
            s == SubSeq(nal, x + 1, y)
            a == FuIndicator(nal[1])
            b == FuHeader(nal[1], f, n)
            p == <<a, b>> \o s
<1>1. Len(nal) \in Nat \ {0} /\ nal[1] \in Nat
  <2>1. Len(nal) \in Nat \ {0}
    BY RtpFormatAssumption
  <2>. QED
    BY <2>1
<1>2. n \in Nat \ {0} /\ x \in 1 .. Len(nal) /\ y \in x .. Len(nal)
  BY Carrying
<1>3. HeaderTells(nal[1], f, n)
  <2>. HIDE DEF n
  <2>. QED
    BY <1>1, HeaderIs
<1>4. /\ a \in Nat /\ NalType(a) = FuA
      /\ b \in Nat /\ a - NalType(a) + NalType(b) = nal[1]
      /\ Has(b, 128) <=> f = 1
      /\ Has(b, 64) <=> f = n
  <2>. HIDE DEF n
  <2>. QED
    BY <1>3 DEF HeaderTells
<1>6. s \in Seq(Nat)
  <2>. HIDE DEF x, y, n
  <2>1. \A i \in x + 1 .. y : nal[i] \in Nat
    BY <1>1, <1>2
  <2>2. x + 1 \in Int /\ y \in Int
    BY <1>1, <1>2
  <2>. QED
    BY <2>1, <2>2, SubSeqProperties
<1>7. p \in Seq(Nat) /\ p # <<>> /\ p[1] = a /\ p[2] = b /\ ~(Len(p) < 2) /\ Tail(Tail(p)) = s
  <2>. HIDE DEF a, b, s
  <2>1. Ahead(p, a, b, s)
    BY <1>4, <1>6, TwoAhead
  <2>. HIDE DEF p
  <2>. QED
    BY <2>1 DEF Ahead
<1>8. fragments(nal)[f] = p
  <2>0. f \in 1 .. n
    OBVIOUS
  <2>1. fragments(nal) =
          [k \in 1 .. n |->
            <<nal[1] - NalType(nal[1]) + FuA,
              NalType(nal[1]) + Flag(k = 1, 128) + Flag(k = n, 64)>>
            \o Bytes(nal, 1 + (k - 1) * Chunk, Min({Len(nal), 1 + k * Chunk}))]
    BY DEF fragments, Count, Chunk
  <2>. HIDE DEF n
  <2>2. fragments(nal)[f] =
            <<nal[1] - NalType(nal[1]) + FuA,
              NalType(nal[1]) + Flag(f = 1, 128) + Flag(f = n, 64)>>
            \o Bytes(nal, 1 + (f - 1) * Chunk, Min({Len(nal), 1 + f * Chunk}))
    BY <2>0, <2>1
  <2>. QED
    BY <2>2 DEF Bytes, Carried, FuIndicator, FuHeader
<1>. HIDE DEF p, a, b, s, n, x, y
<1>. QED
  BY <1>4, <1>7, <1>8 DEF FragmentOf, n, s, x, y

\* A fragment goes on with the unit its first part is of.
LEMMA FragmentTaken ==
    ASSUME NEW nal \in Seq(Nat), Len(nal) > maxPayload, NEW f \in 1 .. Count(nal),
           NEW o, NEW k \in BOOLEAN
    PROVE  Reassembled(Taken(o, IF f = 1 THEN <<>> ELSE Begun(nal, f - 1), k), fragments(nal)[f])
           = IF f = Count(nal) THEN Taken(Written(o, nal), <<>>, k \/ IsKey(nal))
             ELSE Taken(o, Begun(nal, f), k)
<1>. DEFINE n == Count(nal)
            x == 1 + (f - 1) * Chunk
            y == Carried(nal, f)
            before == IF f = 1 THEN <<>> ELSE Begun(nal, f - 1)
            p == fragments(nal)[f]
            u == Taken(o, before, k)
            rest == SubSeq(nal, x + 1, y)
<1>1. /\ n \in Nat \ {0} /\ Carried(nal, n) = Len(nal)
      /\ x \in 1 .. Len(nal) /\ y \in x .. Len(nal) /\ Carried(nal, f - 1) = x
  BY Carrying
<1>2. /\ p # <<>> /\ ~(Len(p) < 2) /\ NalType(p[1]) = FuA
      /\ p[1] - NalType(p[1]) + NalType(p[2]) = nal[1]
      /\ Has(p[2], 128) <=> f = 1
      /\ Has(p[2], 64) <=> f = n
      /\ Tail(Tail(p)) = rest
  <2>1. FragmentOf(nal, f, p)
    BY FragmentIs
  <2>. HIDE DEF p
  <2>. QED
    BY <2>1 DEF FragmentOf
<1>3. Len(nal) \in Nat \ {0} /\ 1 \in 1 .. Len(nal) /\ f \in Nat
  <2>1. Len(nal) \in Nat \ {0}
    BY RtpFormatAssumption
  <2>. QED
    BY <1>1, <2>1
<1>4. f = 1 => x = 1
  <2>1. Chunk \in Nat /\ 1 - 1 = 0
    BY RtpFormatAssumption DEF Chunk
  <2>2. 0 * Chunk = 0
    BY <2>1
  <2>. QED
    BY <2>1, <2>2
<1>5. before # <<>> <=> f # 1
  <2>1. CASE f # 1
    <3>1. before = SubSeq(nal, 1, x)
      BY <1>1, <2>1 DEF Begun
    <3>. HIDE DEF x, before
    <3>2. x \in Int /\ \A i \in 1 .. x : nal[i] \in Nat
      BY <1>1, <1>3
    <3>3. Len(SubSeq(nal, 1, x)) = x - 1 + 1
      BY <1>1, <1>3, <3>2, SubSeqProperties
    <3>4. Len(before) # 0
      BY <1>1, <1>3, <3>1, <3>3
    <3>. QED
      BY <2>1, <3>4
  <2>2. CASE f = 1
    BY <2>2
  <2>. QED
    BY <2>1, <2>2
<1>6. u.ok = TRUE /\ u.fu = before /\ u.out = o /\ u.key = k
  BY DEF Taken
<1>. DEFINE nalu == (IF f = 1 THEN <<nal[1]>> ELSE before) \o rest
<1>7. nalu = SubSeq(nal, 1, y)
  <2>1. CASE f = 1
    <3>1. nalu = <<nal[1]>> \o SubSeq(nal, 1 + 1, y)
      BY <1>4, <2>1
    <3>2. y \in 1 .. Len(nal)
      BY <1>1, <1>4, <2>1
    <3>. HIDE DEF nalu, y
    <3>. QED
      BY <1>3, <3>1, <3>2, SubSeqRecursiveFirst
  <2>2. CASE f # 1
    <3>1. nalu = SubSeq(nal, 1, x) \o SubSeq(nal, x + 1, y)
      BY <1>1, <2>2 DEF Begun
    <3>. HIDE DEF nalu, x, y
    <3>2. 1 \in 1 .. Len(nal) + 1 /\ x \in 1 - 1 .. Len(nal) /\ y \in x .. Len(nal)
      BY <1>1, <1>3
    <3>. QED
      BY <3>1, <3>2, ConcatAdjacentSubSeq
  <2>. QED
    BY <2>1, <2>2
<1>8. nalu[1] = nal[1] /\ (f = n => nalu = nal)
  <2>. HIDE DEF nalu, x
  <2>1. y \in 1 .. Len(nal)
    BY <1>1, <1>3
  <2>. HIDE DEF y
  <2>2. nalu[1] = nal[1]
    <3>1. \A i \in 1 .. y : nal[i] \in Nat
      BY <1>3, <2>1
    <3>2. \A i \in 1 .. y - 1 + 1 : nalu[i] = nal[1 + i - 1]
      BY <1>7, <2>1, <3>1, SubSeqProperties
    <3>3. 1 \in 1 .. y - 1 + 1 /\ 1 + 1 - 1 = 1
      BY <2>1
    <3>. QED
      BY <3>2, <3>3
  <2>3. f = n => nalu = nal
    BY <1>1, <1>7, SubSeqFull DEF y
  <2>. QED
    BY <2>2, <2>3
<1>. DEFINE header == p[1] - NalType(p[1]) + NalType(p[2])
            start == Has(p[2], 128)
            made == (IF start THEN <<header>> ELSE u.fu) \o Tail(Tail(p))
<1>9. made = nalu
  <2>. HIDE DEF p, u, before, rest
  <2>. QED
    BY <1>2, <1>6
<1>10. Reassembled(u, p) =
          IF Has(p[2], 64)
          THEN [u EXCEPT !.out = u.out \o StartCode \o made, !.fu = <<>>,
                         !.key = u.key \/ NalType(made[1]) \in {5, 7, 8}]
          ELSE [u EXCEPT !.fu = made]
  <2>1. u.ok /\ ~(start <=> u.fu # <<>>) /\ ~(Len(p) < 2)
    <3>. HIDE DEF p, u, before
    <3>. QED
      BY <1>2, <1>5, <1>6
  <2>. HIDE DEF p, u
  <2>. QED
    BY <1>2, <2>1 DEF Reassembled
<1>. HIDE DEF made, nalu
<1>11. CASE f = n
  <2>1. made = nal
    BY <1>8, <1>9, <1>11
  <2>2. Reassembled(u, p) = [u EXCEPT !.out = Written(o, nal), !.fu = <<>>,
                                      !.key = k \/ IsKey(nal)]
    <3>. HIDE DEF p, u, n
    <3>. QED
      BY <1>2, <1>6, <1>10, <1>11, <2>1 DEF Written, IsKey
  <2>3. Reassembled(u, p) = Taken(Written(o, nal), <<>>, k \/ IsKey(nal))
    <3>. HIDE DEF p
    <3>. QED
      BY <2>2 DEF Taken
  <2>. QED
    BY <1>11, <2>3
<1>12. CASE f # n
  <2>1. Reassembled(u, p) = [u EXCEPT !.fu = Begun(nal, f)]
    <3>. HIDE DEF p, u, n
    <3>. QED
      BY <1>2, <1>7, <1>9, <1>10, <1>12 DEF Begun
  <2>2. Reassembled(u, p) = Taken(o, Begun(nal, f), k)
    <3>. HIDE DEF p
    <3>. QED
      BY <2>1 DEF Taken
  <2>. QED
    BY <1>12, <2>2
<1>. QED
  BY <1>11, <1>12

\* A unit whose first part is missing is refused.
LEMMA FragmentRefused ==
    ASSUME NEW nal \in Seq(Nat), Len(nal) > maxPayload, NEW f \in 2 .. Count(nal),
           NEW o, NEW k \in BOOLEAN
    PROVE  Refused(Reassembled(Taken(o, <<>>, k), fragments(nal)[f]))
<1>. DEFINE p == fragments(nal)[f]
            u == Taken(o, <<>>, k)
<1>1. f \in 1 .. Count(nal) /\ f # 1
  BY Carrying
<1>2. p # <<>> /\ NalType(p[1]) = FuA /\ (Has(p[2], 128) <=> f = 1)
  <2>1. FragmentOf(nal, f, p)
    BY <1>1, FragmentIs
  <2>. HIDE DEF p
  <2>. QED
    BY <2>1 DEF FragmentOf
<1>3. u.ok = TRUE /\ u.fu = <<>> /\ "ok" \in DOMAIN u
  BY DEF Taken
<1>. HIDE DEF p, u
<1>4. Reassembled(u, p) = [u EXCEPT !.ok = FALSE]
  <2>1. ~Has(p[2], 128) /\ ~(u.fu # <<>>)
    BY <1>1, <1>2, <1>3
  <2>. QED
    BY <1>2, <1>3, <2>1 DEF Reassembled
<1>5. Refused(Reassembled(u, p))
  BY <1>3, <1>4 DEF Refused
<1>. QED
  BY <1>5 DEF u, p

-----------------------------------------------------------------------------
(* The loop. *)

\* The units a sender splits: clean, and none of them of the type FU-A.
Sendable(nals) ==
    /\ nals \in Seq(Seq(Nat))
    /\ \A k \in 1 .. Len(nals) : Clean(nals[k]) /\ NalType(nals[k][1]) # FuA

\* The payloads of unit k: itself or its fragments.
LEMMA PartIs ==
    ASSUME NEW nals, Sendable(nals), NEW k \in 1 .. Len(nals)
    PROVE  LET part == Split(nals)[k]
               nal == nals[k]
           IN  /\ part \in Seq(Seq(Nat)) /\ part # <<>>
               /\ \/ part = <<nal>>
                  \/ Len(nal) > maxPayload /\ part = fragments(nal) /\ Len(part) = Count(nal)
<1>. DEFINE part == Split(nals)[k]
            nal == nals[k]
<1>1. k \in DOMAIN nals /\ Clean(nal) /\ nal \in Seq(Nat)
  BY DEF Sendable, Clean
<1>2. part = IF Len(nal) <= maxPayload THEN <<nal>> ELSE fragments(nal)
  BY <1>1 DEF Split
<1>. HIDE DEF nal, part
<1>3. CASE Len(nal) <= maxPayload
  <2>1. part = <<nal>>
    BY <1>2, <1>3
  <2>2. part \in Seq(Seq(Nat)) /\ part # <<>>
    BY <1>1, <2>1
  <2>. QED
    BY <2>1, <2>2 DEF part, nal
<1>4. CASE ~(Len(nal) <= maxPayload)
  <2>1. Len(nal) > maxPayload
    BY <1>1, <1>4, RtpFormatAssumption
  <2>. DEFINE n == Count(nal)
  <2>2. n \in Nat \ {0}
    BY <1>1, <2>1, Carrying
  <2>3. fragments(nal) = [f \in 1 .. n |-> fragments(nal)[f]]
    BY DEF fragments, Count, Chunk
  <2>4. ASSUME NEW f \in 1 .. n PROVE fragments(nal)[f] \in Seq(Nat)
    BY <1>1, <2>1, FragmentIs DEF FragmentOf
  <2>. HIDE DEF n
  <2>5. fragments(nal) \in [1 .. n -> Seq(Nat)]
    BY <2>3, <2>4
  <2>6. fragments(nal) \in Seq(Seq(Nat)) /\ Len(fragments(nal)) = n
    BY <2>2, <2>5
  <2>7. fragments(nal) # <<>>
    BY <2>2, <2>6
  <2>8. part = fragments(nal)
    BY <1>2, <1>4
  <2>. QED
    BY <2>1, <2>6, <2>7, <2>8 DEF part, nal, n
<1>. QED
  BY <1>3, <1>4

\* What the loop holds after each of m payloads.
Turns(turn, payloads, m) ==
    turn = [n \in 0 .. m |-> IF n = 0 THEN Taken(<<>>, <<>>, FALSE)
                             ELSE Reassembled(turn[n - 1], payloads[n])]

\* The loop is well defined.
LEMMA TurnsExist ==
    ASSUME NEW payloads, NEW m \in Nat
    PROVE  \E turn : Turns(turn, payloads, m)
<1>. DEFINE Made(k) == \E g : Turns(g, payloads, k)
            S == {k \in Nat : ~Made(k)}
<1>. SUFFICES ASSUME S # {} PROVE FALSE
  OBVIOUS
<1>1. PICK k \in S : \A j \in S : k <= j
  <2>1. S \in SUBSET Nat
    OBVIOUS
  <2>. HIDE DEF S
  <2>. QED
    BY <2>1, LeastNat
<1>2. k \in Nat /\ ~Made(k)
  OBVIOUS
<1>. DEFINE Start == Taken(<<>>, <<>>, FALSE)
<1>. HIDE DEF Start
<1>3. CASE k = 0
  <2>. DEFINE g == [n \in 0 .. 0 |-> Start]
  <2>1. g = [n \in 0 .. 0 |-> IF n = 0 THEN Start ELSE Reassembled(g[n - 1], payloads[n])]
    OBVIOUS
  <2>2. Made(0)
    BY <2>1 DEF Turns, Start
  <2>. QED
    BY <1>2, <1>3, <2>2
<1>4. CASE k # 0
  <2>1. k - 1 \in Nat /\ k - 1 \notin S
    BY <1>1, <1>2, <1>4
  <2>2. PICK f : f = [n \in 0 .. k - 1 |-> IF n = 0 THEN Start
                                           ELSE Reassembled(f[n - 1], payloads[n])]
    BY <2>1 DEF Turns, Start
  <2>. DEFINE last == Reassembled(f[k - 1], payloads[k])
              g == [n \in 0 .. k |-> IF n = k THEN last ELSE f[n]]
  <2>3. ASSUME NEW n \in 0 .. k
        PROVE  g[n] = IF n = 0 THEN Start ELSE Reassembled(g[n - 1], payloads[n])
    <3>1. CASE n = k
      <4>1. g[n] = last /\ n # 0
        BY <1>4, <3>1
      <4>2. g[n - 1] = f[k - 1]
        BY <1>2, <1>4, <3>1
      <4>. QED
        BY <3>1, <4>1, <4>2
    <3>2. CASE n # k
      <4>1. n \in 0 .. k - 1 /\ g[n] = f[n]
        BY <1>2, <3>2
      <4>2. n # 0 => g[n - 1] = f[n - 1]
        BY <1>2, <4>1
      <4>3. f[n] = IF n = 0 THEN Start ELSE Reassembled(f[n - 1], payloads[n])
        BY <2>2, <4>1
      <4>. HIDE DEF g
      <4>. QED
        BY <4>1, <4>2, <4>3
    <3>. QED
      BY <3>1, <3>2
  <2>4. g = [n \in 0 .. k |-> g[n]]
    OBVIOUS
  <2>. HIDE DEF g
  <2>5. g = [n \in 0 .. k |-> IF n = 0 THEN Start ELSE Reassembled(g[n - 1], payloads[n])]
    BY <2>3, <2>4
  <2>. QED
    BY <1>2, <2>5 DEF Turns, Start
<1>. QED
  BY <1>3, <1>4

\* The loop begins with nothing.
LEMMA FirstTurn ==
    ASSUME NEW payloads, NEW m \in Nat, NEW turn, Turns(turn, payloads, m)
    PROVE  turn[0] = Taken(<<>>, <<>>, FALSE)
BY DEF Turns

\* A turn takes the next payload.
LEMMA NextTurn ==
    ASSUME NEW payloads, NEW m \in Nat, NEW turn, Turns(turn, payloads, m), NEW n \in 1 .. m
    PROVE  turn[n] = Reassembled(turn[n - 1], payloads[n])
<1>1. turn = [i \in 0 .. m |-> IF i = 0 THEN Taken(<<>>, <<>>, FALSE)
                               ELSE Reassembled(turn[i - 1], payloads[i])]
  BY DEF Turns
<1>2. n \in 0 .. m /\ n # 0
  OBVIOUS
<1>. QED
  BY <1>1, <1>2

\* The packets' payloads.
Carries(ps, payloads, m) == Len(ps) = m /\ \A n \in 1 .. m : ps[n].payload = payloads[n]

\* The frame fr is what a loop leaves that ends with u.
Framed(fr, u) == \E t :
    fr = IF ~u.ok \/ u.fu # <<>> THEN Failed
         ELSE [keyframe |-> u.key, timestamp |-> t, payload |-> u.out]

\* What depacketize returns, from the last turn of its loop.
LEMMA Depacketized ==
    ASSUME NEW ps, ps # <<>>, NEW m \in Nat, NEW payloads, Carries(ps, payloads, m)
    PROVE  \E turn : Turns(turn, payloads, m) /\ Framed(depacketize(ps), turn[m])
<1>0. Len(ps) = m /\ \A n \in 1 .. m : ps[n].payload = payloads[n]
  BY DEF Carries
<1>. DEFINE Loop(t) == t = [n \in 0 .. m |->
                IF n = 0 THEN [out |-> <<>>, fu |-> <<>>, key |-> FALSE, ok |-> TRUE]
                ELSE Reassembled(t[n - 1], ps[n].payload)]
            turn == CHOOSE t : Loop(t)
<1>1. ASSUME NEW t PROVE Loop(t) <=> Turns(t, payloads, m)
  <2>1. ASSUME NEW n \in 0 .. m
        PROVE  (IF n = 0 THEN [out |-> <<>>, fu |-> <<>>, key |-> FALSE, ok |-> TRUE]
                ELSE Reassembled(t[n - 1], ps[n].payload))
               = IF n = 0 THEN Taken(<<>>, <<>>, FALSE) ELSE Reassembled(t[n - 1], payloads[n])
    <3>1. n # 0 => n \in 1 .. m
      OBVIOUS
    <3>. QED
      BY <1>0, <3>1 DEF Taken
  <2>2. [n \in 0 .. m |->
                IF n = 0 THEN [out |-> <<>>, fu |-> <<>>, key |-> FALSE, ok |-> TRUE]
                ELSE Reassembled(t[n - 1], ps[n].payload)]
        = [n \in 0 .. m |-> IF n = 0 THEN Taken(<<>>, <<>>, FALSE)
                            ELSE Reassembled(t[n - 1], payloads[n])]
    BY <2>1
  <2>. QED
    BY <2>2 DEF Turns
<1>2. Loop(turn)
  <2>1. \E t : Loop(t)
    <3>1. \E t : Turns(t, payloads, m)
      BY TurnsExist
    <3>. HIDE DEF Loop
    <3>. QED
      BY <1>1, <3>1
  <2>. HIDE DEF Loop
  <2>. QED
    BY <2>1
<1>3. depacketize(ps) =
                    IF ps = <<>> \/ ~turn[m].ok \/ turn[m].fu # <<>> THEN Failed
                    ELSE [keyframe |-> turn[m].key, timestamp |-> ps[1].timestamp,
                          payload |-> turn[m].out]
  BY <1>0 DEF depacketize
<1>. HIDE DEF Loop, turn
<1>4. Framed(depacketize(ps), turn[m])
  <2>. DEFINE u == turn[m]
              t == ps[1].timestamp
              fr == depacketize(ps)
  <2>1. fr = IF ~u.ok \/ u.fu # <<>> THEN Failed
             ELSE [keyframe |-> u.key, timestamp |-> t, payload |-> u.out]
    BY <1>3
  <2>. HIDE DEF u, t, fr
  <2>2. Framed(fr, u)
    BY <2>1 DEF Framed
  <2>. QED
    BY <2>2 DEF fr, u
<1>. QED
  BY <1>1, <1>2, <1>4

-----------------------------------------------------------------------------
(* What the loop holds after each packet. *)

\* One of the units a .. b is a parameter set or an IDR picture.
Keys(nals, a, b) == \E x \in a .. b : IsKey(nals[x])

\* The units from a on, as a stream: what is written after unit k is
\* h[k - a + 1].
Rest(nals, a) == SubSeq(nals, a, Len(nals))
Streamed(h, nals, a) ==
    /\ Sendable(nals) /\ a \in 1 .. Len(nals)
    /\ Stream(h, Rest(nals, a), Len(nals) - a + 1)

\* What the loop holds when it has taken the packets from the first of unit a
\* to the f-th of unit k.
Holds(h, nals, a, k, f, u) ==
    IF f = Len(Split(nals)[k])
    THEN u = Taken(h[k - a + 1], <<>>, Keys(nals, a, k))
    ELSE u = Taken(h[k - a], Begun(nals[k], f), Keys(nals, a, k - 1))

\* The units from a on, one by one.
LEMMA RestIs ==
    ASSUME NEW nals, Sendable(nals), NEW a \in 1 .. Len(nals)
    PROVE  /\ Rest(nals, a) \in Seq(Seq(Nat)) /\ Len(Rest(nals, a)) = Len(nals) - a + 1
           /\ \A x \in 1 .. Len(nals) - a + 1 :
                 x + a - 1 \in 1 .. Len(nals) /\ Rest(nals, a)[x] = nals[x + a - 1]
<1>. DEFINE m == Len(nals)
            s == SubSeq(nals, a, m)
<1>1. nals \in Seq(Seq(Nat)) /\ m \in Nat /\ a \in 1 .. m
  BY DEF Sendable
<1>2. \A x \in a .. m : nals[x] \in Seq(Nat)
  BY <1>1
<1>. HIDE DEF m
<1>3. /\ s \in Seq(Seq(Nat)) /\ Len(s) = IF a <= m THEN m - a + 1 ELSE 0
      /\ \A x \in 1 .. m - a + 1 : s[x] = nals[a + x - 1]
  BY <1>1, <1>2, SubSeqProperties
<1>. HIDE DEF s
<1>4. Len(s) = m - a + 1
  BY <1>1, <1>3
<1>5. ASSUME NEW x \in 1 .. m - a + 1
      PROVE  x + a - 1 \in 1 .. m /\ s[x] = nals[x + a - 1]
  <2>1. x + a - 1 \in 1 .. m /\ a + x - 1 = x + a - 1
    BY <1>1
  <2>. QED
    BY <1>3, <2>1
<1>. QED
  BY <1>3, <1>4, <1>5 DEF Rest, s, m

\* What the loop should write is well defined.
LEMMA StreamExists ==
    ASSUME NEW nals, Sendable(nals), NEW a \in 1 .. Len(nals)
    PROVE  \E h : Streamed(h, nals, a)
<1>. DEFINE s == Rest(nals, a)
            m == Len(nals) - a + 1
<1>1. Len(nals) \in Nat
  BY DEF Sendable
<1>2. m \in Nat
  <2>. DEFINE l == Len(nals)
  <2>1. l \in Nat /\ a \in 1 .. l
    BY <1>1
  <2>. HIDE DEF l
  <2>2. l - a + 1 \in Nat
    BY <2>1
  <2>. QED
    BY <2>2 DEF l
<1>3. /\ s \in Seq(Seq(Nat)) /\ Len(s) = m
      /\ \A x \in 1 .. m : x + a - 1 \in 1 .. Len(nals) /\ s[x] = nals[x + a - 1]
  BY RestIs
<1>4. ASSUME NEW x \in 1 .. Len(s) PROVE Clean(s[x])
  <2>. HIDE DEF s, m
  <2>1. x + a - 1 \in 1 .. Len(nals) /\ s[x] = nals[x + a - 1]
    BY <1>3
  <2>. QED
    BY <2>1 DEF Sendable
<1>. HIDE DEF s, m
<1>5. PICK h : Joins(h, Coded(s), m)
  BY <1>2, JoiningExists
<1>6. m \in 0 .. Len(s)
  BY <1>2, <1>3
<1>7. Stream(h, s, m)
  BY <1>3, <1>4, <1>5, <1>6 DEF Stream
<1>. QED
  BY <1>7 DEF Streamed, s, m

\* Putting strings behind one another is done in any order.
LEMMA Grouping ==
    ASSUME NEW a \in Seq(Nat), NEW b \in Seq(Nat), NEW c \in Seq(Nat)
    PROVE  (a \o b) \o c = a \o (b \o c)
BY ConcatAssociative

\* Putting a coded unit behind what is written is writing the unit.
LEMMA Writing ==
    ASSUME NEW o \in Seq(Nat), NEW nal \in Seq(Nat), NEW c, c = StartCode \o nal,
           NEW w, Follows(o, c, w)
    PROVE  w = Written(o, nal)
<1>1. StartCode \in Seq(Nat)
  BY DEF StartCode
<1>2. (o \o StartCode) \o nal = o \o (StartCode \o nal)
  BY <1>1, Grouping
<1>3. w = o \o c
  BY DEF Follows
<1>4. w = o \o (StartCode \o nal)
  BY <1>3
<1>. QED
  BY <1>2, <1>4 DEF Written

\* Writing a unit behind what is written is what joining does.
LEMMA StreamGrows ==
    ASSUME NEW h, NEW nals, NEW a, Streamed(h, nals, a), NEW k \in a .. Len(nals)
    PROVE  h[k - a + 1] = Written(h[k - a], nals[k])
<1>. DEFINE s == Rest(nals, a)
            m == Len(nals) - a + 1
            x == k - a + 1
<1>1. Sendable(nals) /\ a \in 1 .. Len(nals) /\ Len(nals) \in Nat
  <2>1. Sendable(nals) /\ a \in 1 .. Len(nals)
    BY DEF Streamed
  <2>2. nals \in Seq(Seq(Nat))
    BY <2>1 DEF Sendable
  <2>. QED
    BY <2>1, <2>2
<1>2. Stream(h, s, m)
  BY DEF Streamed
<1>3. /\ s \in Seq(Seq(Nat)) /\ Len(s) = m
      /\ \A y \in 1 .. m : y + a - 1 \in 1 .. Len(nals) /\ s[y] = nals[y + a - 1]
  BY <1>1, RestIs
<1>4. x \in 1 .. m /\ x + a - 1 = k /\ x - 1 = k - a
  <2>. DEFINE l == Len(nals)
  <2>1. l \in Nat /\ a \in 1 .. l /\ k \in a .. l
    BY <1>1
  <2>. HIDE DEF l
  <2>2. k - a + 1 \in 1 .. l - a + 1 /\ k - a + 1 + a - 1 = k /\ (k - a + 1) - 1 = k - a
    BY <2>1
  <2>. QED
    BY <2>2 DEF l
<1>. HIDE DEF s, m, x
<1>5. s[x] = nals[k]
  BY <1>3, <1>4
<1>6. m \in Nat /\ Joining(h, Coded(s), m, Nat)
  BY <1>2, StreamJoining
<1>7. Follows(h[x - 1], Coded(s)[x], h[x]) /\ x - 1 \in 0 .. m
  BY <1>4, <1>6, JoiningStep
<1>8. Coded(s)[x] = StartCode \o s[x]
  <2>1. x \in DOMAIN s
    BY <1>3, <1>4
  <2>. QED
    BY <2>1 DEF Coded
<1>9. h[x - 1] \in Seq(Nat)
  BY <1>6, <1>7, JoiningHolds
<1>10. s[x] \in Seq(Nat)
  BY <1>3, <1>4
<1>11. h[x] = Written(h[x - 1], s[x])
  BY <1>7, <1>8, <1>9, <1>10, Writing
<1>. QED
  BY <1>4, <1>5, <1>11 DEF x

\* The keyframe flag grows by the unit that is written.
LEMMA KeysGrow ==
    ASSUME NEW nals, NEW a \in Nat, NEW k \in Nat, a <= k
    PROVE  Keys(nals, a, k) = (Keys(nals, a, k - 1) \/ IsKey(nals[k]))
<1>1. ASSUME NEW x \in a .. k PROVE x \in a .. k - 1 \/ x = k
  OBVIOUS
<1>2. ASSUME NEW x \in a .. k - 1 PROVE x \in a .. k
  OBVIOUS
<1>3. k \in a .. k
  OBVIOUS
<1>. QED
  BY <1>1, <1>2, <1>3 DEF Keys

\* No unit, no keyframe.
LEMMA NoKeys ==
    ASSUME NEW nals, NEW a \in Nat
    PROVE  Keys(nals, a, a - 1) = FALSE
BY DEF Keys

\* The first packet of a unit is taken when the unit before it is complete.
LEMMA UnitStarts ==
    ASSUME NEW h, NEW nals, NEW a, Streamed(h, nals, a), NEW k \in a .. Len(nals)
    PROVE  Holds(h, nals, a, k, 1,
                 Reassembled(Taken(h[k - a], <<>>, Keys(nals, a, k - 1)), Split(nals)[k][1]))
<1>. DEFINE o == h[k - a]
            key == Keys(nals, a, k - 1)
            nal == nals[k]
            part == Split(nals)[k]
<1>1. Sendable(nals) /\ a \in 1 .. Len(nals) /\ Len(nals) \in Nat
  <2>1. Sendable(nals) /\ a \in 1 .. Len(nals)
    BY DEF Streamed
  <2>2. nals \in Seq(Seq(Nat))
    BY <2>1 DEF Sendable
  <2>. QED
    BY <2>1, <2>2
<1>2. k \in 1 .. Len(nals) /\ a \in Nat /\ k \in Nat /\ a <= k
  <2>. DEFINE l == Len(nals)
  <2>1. l \in Nat /\ a \in 1 .. l /\ k \in a .. l
    BY <1>1
  <2>. HIDE DEF l
  <2>2. k \in 1 .. l /\ a \in Nat /\ k \in Nat /\ a <= k
    BY <2>1
  <2>. QED
    BY <2>2 DEF l
<1>3. h[k - a + 1] = Written(o, nal)
  BY StreamGrows
<1>4. key \in BOOLEAN /\ Keys(nals, a, k) = (key \/ IsKey(nal))
  <2>1. key \in BOOLEAN
    BY DEF Keys
  <2>. QED
    BY <1>2, <2>1, KeysGrow
<1>5. nal \in Seq(Nat) /\ nal # <<>> /\ NalType(nal[1]) # FuA
  BY <1>1, <1>2 DEF Sendable, Clean
<1>6. \/ part = <<nal>>
      \/ Len(nal) > maxPayload /\ part = fragments(nal) /\ Len(part) = Count(nal)
  BY <1>1, <1>2, PartIs
<1>. HIDE DEF o, key, nal, part
<1>7. CASE part = <<nal>>
  <2>1. Len(part) = 1 /\ part[1] = nal
    BY <1>7
  <2>2. Reassembled(Taken(o, <<>>, key), nal) = Taken(Written(o, nal), <<>>, key \/ IsKey(nal))
    BY <1>4, <1>5, WholeUnit
  <2>3. Reassembled(Taken(o, <<>>, key), part[1])
          = Taken(h[k - a + 1], <<>>, Keys(nals, a, k))
    BY <1>3, <1>4, <2>1, <2>2
  <2>. QED
    BY <2>1, <2>3 DEF Holds, o, key, part
<1>8. CASE Len(nal) > maxPayload /\ part = fragments(nal) /\ Len(part) = Count(nal)
  <2>. DEFINE u == Taken(o, IF 1 = 1 THEN <<>> ELSE Begun(nal, 1 - 1), key)
  <2>1. 1 \in 1 .. Count(nal)
    BY <1>5, <1>8, Carrying
  <2>2. Reassembled(u, fragments(nal)[1])
          = IF 1 = Count(nal) THEN Taken(Written(o, nal), <<>>, key \/ IsKey(nal))
            ELSE Taken(o, Begun(nal, 1), key)
    BY <1>4, <1>5, <1>8, <2>1, FragmentTaken
  <2>3. u = Taken(o, <<>>, key)
    OBVIOUS
  <2>. HIDE DEF u
  <2>4. Reassembled(Taken(o, <<>>, key), part[1])
          = IF 1 = Len(part) THEN Taken(h[k - a + 1], <<>>, Keys(nals, a, k))
            ELSE Taken(o, Begun(nal, 1), key)
    BY <1>3, <1>4, <1>8, <2>2, <2>3
  <2>. QED
    BY <2>4 DEF Holds, o, key, part, nal
<1>. QED
  BY <1>6, <1>7, <1>8

\* The next packet of the same unit is taken.
LEMMA UnitGoesOn ==
    ASSUME NEW h, NEW nals, NEW a, Streamed(h, nals, a), NEW k \in a .. Len(nals),
           NEW f \in 1 .. Len(Split(nals)[k]) - 1, NEW u, Holds(h, nals, a, k, f, u)
    PROVE  Holds(h, nals, a, k, f + 1, Reassembled(u, Split(nals)[k][f + 1]))
<1>. DEFINE o == h[k - a]
            key == Keys(nals, a, k - 1)
            nal == nals[k]
            part == Split(nals)[k]
            n == Len(part)
<1>1. Sendable(nals) /\ a \in 1 .. Len(nals) /\ Len(nals) \in Nat
  <2>1. Sendable(nals) /\ a \in 1 .. Len(nals)
    BY DEF Streamed
  <2>2. nals \in Seq(Seq(Nat))
    BY <2>1 DEF Sendable
  <2>. QED
    BY <2>1, <2>2
<1>2. k \in 1 .. Len(nals) /\ a \in Nat /\ k \in Nat /\ a <= k
  <2>. DEFINE l == Len(nals)
  <2>1. l \in Nat /\ a \in 1 .. l /\ k \in a .. l
    BY <1>1
  <2>. HIDE DEF l
  <2>2. k \in 1 .. l /\ a \in Nat /\ k \in Nat /\ a <= k
    BY <2>1
  <2>. QED
    BY <2>2 DEF l
<1>3. h[k - a + 1] = Written(o, nal)
  BY StreamGrows
<1>4. key \in BOOLEAN /\ Keys(nals, a, k) = (key \/ IsKey(nal))
  <2>1. key \in BOOLEAN
    BY DEF Keys
  <2>. QED
    BY <1>2, <2>1, KeysGrow
<1>5. nal \in Seq(Nat) /\ nal # <<>>
  BY <1>1, <1>2 DEF Sendable, Clean
<1>6. /\ part \in Seq(Seq(Nat))
      /\ \/ part = <<nal>>
         \/ Len(nal) > maxPayload /\ part = fragments(nal) /\ n = Count(nal)
  BY <1>1, <1>2, PartIs
<1>7. n \in Nat
  <2>. HIDE DEF part
  <2>. QED
    BY <1>6
<1>8. f \in 1 .. n - 1
  OBVIOUS
<1>9. f # n /\ f + 1 \in 1 .. n /\ f + 1 # 1 /\ (f + 1) - 1 = f /\ n # 1
  <2>. HIDE DEF n
  <2>. QED
    BY <1>7, <1>8
<1>10. u = Taken(o, Begun(nal, f), key)
  BY <1>9 DEF Holds
<1>. HIDE DEF o, key, nal, part, n
<1>11. Len(nal) > maxPayload /\ part = fragments(nal) /\ n = Count(nal)
  <2>1. part # <<nal>>
    BY <1>9 DEF n
  <2>. QED
    BY <1>6, <2>1
<1>. DEFINE v == Taken(o, IF f + 1 = 1 THEN <<>> ELSE Begun(nal, (f + 1) - 1), key)
<1>12. f + 1 \in 1 .. Count(nal)
  BY <1>9, <1>11
<1>13. Reassembled(v, fragments(nal)[f + 1])
         = IF f + 1 = Count(nal) THEN Taken(Written(o, nal), <<>>, key \/ IsKey(nal))
           ELSE Taken(o, Begun(nal, f + 1), key)
  BY <1>4, <1>5, <1>11, <1>12, FragmentTaken
<1>14. v = u
  BY <1>9, <1>10
<1>. HIDE DEF v
<1>15. Reassembled(u, part[f + 1])
         = IF f + 1 = n THEN Taken(h[k - a + 1], <<>>, Keys(nals, a, k))
           ELSE Taken(o, Begun(nal, f + 1), key)
  BY <1>3, <1>4, <1>11, <1>13, <1>14
<1>. QED
  BY <1>15 DEF Holds, o, key, part, nal, n

-----------------------------------------------------------------------------
(* A run of the packets. *)

\* The payloads of the units are g[Len(nals)].
Packed(g, nals) ==
    /\ Sendable(nals)
    /\ Joining(g, Split(nals), Len(nals), Seq(Nat))
    /\ \A k \in 1 .. Len(nals) : Split(nals)[k] # <<>>

\* The payloads of units that can be sent, joined.
LEMMA PackedExists ==
    ASSUME NEW nals, Sendable(nals)
    PROVE  \E g : Packed(g, nals) /\ Joined(Split(nals)) = g[Len(nals)]
<1>. DEFINE parts == Split(nals)
            m == Len(nals)
            g == CHOOSE h : Joins(h, parts, Len(parts))
<1>1. nals \in Seq(Seq(Nat))
  BY DEF Sendable
<1>2. Len(parts) = m /\ m \in Nat
  BY <1>1, SplitParts
<1>3. ASSUME NEW k \in 1 .. m PROVE parts[k] \in Seq(Seq(Nat)) /\ parts[k] # <<>>
  BY PartIs
<1>4. Joined(parts) = g[Len(parts)]
  BY DEF Joined, Joins
<1>5. Joins(g, parts, m)
  <2>. HIDE DEF parts, m
  <2>1. \E h : Joins(h, parts, m)
    BY <1>2, JoiningExists
  <2>. QED
    BY <1>2, <2>1
<1>. HIDE DEF g, parts, m
<1>6. Joining(g, parts, m, Seq(Nat))
  BY <1>3, <1>5 DEF Joining
<1>7. Joined(parts) = g[m]
  BY <1>2, <1>4
<1>8. Packed(g, nals)
  BY <1>3, <1>6 DEF Packed, parts, m
<1>. QED
  BY <1>7, <1>8 DEF parts, m

\* The loop that began with the first packet of unit a has taken packet p.
Reached(h, g, nals, a, p, u) == \E k, f :
    /\ k \in a .. Len(nals)
    /\ At(g, Split(nals), Len(nals), p, k, f)
    /\ Holds(h, nals, a, k, f, u)

\* A payload is a part of its unit.
LEMMA PackedAt ==
    ASSUME NEW g, NEW nals, Packed(g, nals), NEW p, NEW k, NEW f,
           At(g, Split(nals), Len(nals), p, k, f)
    PROVE  /\ Len(nals) \in Nat /\ k \in 1 .. Len(nals) /\ f \in 1 .. Len(Split(nals)[k])
           /\ p \in 1 .. Len(g[Len(nals)]) /\ g[Len(nals)][p] = Split(nals)[k][f]
           /\ p <= Len(g[k])
<1>1. nals \in Seq(Seq(Nat))
  BY DEF Packed, Sendable
<1>2. Len(nals) \in Nat
  BY <1>1
<1>3. Joining(g, Split(nals), Len(nals), Seq(Nat))
  BY DEF Packed
<1>. DEFINE m == Len(nals)
            parts == Split(nals)
<1>4. m \in Nat /\ Joining(g, parts, m, Seq(Nat)) /\ At(g, parts, m, p, k, f)
  BY <1>2, <1>3
<1>. HIDE DEF m, parts
<1>5. p \in 1 .. Len(g[m]) /\ g[m][p] = parts[k][f] /\ p <= Len(g[k])
  BY <1>4, JoinedAt
<1>6. k \in 1 .. m /\ f \in 1 .. Len(parts[k])
  BY <1>4 DEF At
<1>. QED
  BY <1>4, <1>5, <1>6 DEF m, parts

\* The next payload is of the same unit, or the first of the next one.
LEMMA PackedNext ==
    ASSUME NEW g, NEW nals, Packed(g, nals), NEW p, NEW k, NEW f,
           At(g, Split(nals), Len(nals), p, k, f), p < Len(g[Len(nals)])
    PROVE  \/ /\ f < Len(Split(nals)[k])
              /\ At(g, Split(nals), Len(nals), p + 1, k, f + 1)
           \/ /\ f = Len(Split(nals)[k])
              /\ At(g, Split(nals), Len(nals), p + 1, k + 1, 1)
<1>1. nals \in Seq(Seq(Nat))
  BY DEF Packed, Sendable
<1>2. Len(nals) \in Nat
  BY <1>1
<1>3. /\ Joining(g, Split(nals), Len(nals), Seq(Nat))
      /\ \A j \in 1 .. Len(nals) : Split(nals)[j] # <<>>
  BY DEF Packed
<1>. DEFINE m == Len(nals)
            parts == Split(nals)
<1>4. /\ m \in Nat /\ Joining(g, parts, m, Seq(Nat)) /\ At(g, parts, m, p, k, f)
      /\ p < Len(g[m]) /\ \A j \in 1 .. m : parts[j] # <<>>
  BY <1>2, <1>3
<1>. HIDE DEF m, parts
<1>5. \/ f < Len(parts[k]) /\ At(g, parts, m, p + 1, k, f + 1)
      \/ f = Len(parts[k]) /\ At(g, parts, m, p + 1, k + 1, 1)
  BY <1>4, JoinedNext
<1>. QED
  BY <1>5 DEF m, parts

\* The first packet of a unit begins a run well ...
LEMMA RunStarts ==
    ASSUME NEW h, NEW g, NEW nals, NEW a, Streamed(h, nals, a), Packed(g, nals), NEW p,
           At(g, Split(nals), Len(nals), p, a, 1)
    PROVE  Reached(h, g, nals, a, p,
                   Reassembled(Taken(<<>>, <<>>, FALSE), g[Len(nals)][p]))
<1>. DEFINE all == g[Len(nals)]
<1>1. a \in 1 .. Len(nals) /\ Len(nals) \in Nat /\ all[p] = Split(nals)[a][1]
  BY PackedAt
<1>2. a \in a .. Len(nals) /\ a \in Nat /\ a - a = 0
  BY <1>1
<1>3. h[0] = <<>>
  <2>1. Stream(h, Rest(nals, a), Len(nals) - a + 1)
    BY DEF Streamed
  <2>. DEFINE m == Len(nals) - a + 1
              s == Coded(Rest(nals, a))
  <2>2. m \in Nat /\ Joining(h, s, m, Nat)
    BY <2>1, StreamJoining
  <2>. HIDE DEF m, s
  <2>. QED
    BY <2>2, JoiningStart
<1>4. Keys(nals, a, a - 1) = FALSE
  BY <1>2, NoKeys
<1>5. Holds(h, nals, a, a, 1,
            Reassembled(Taken(h[a - a], <<>>, Keys(nals, a, a - 1)), Split(nals)[a][1]))
  BY <1>2, UnitStarts
<1>6. Holds(h, nals, a, a, 1, Reassembled(Taken(<<>>, <<>>, FALSE), all[p]))
  BY <1>1, <1>2, <1>3, <1>4, <1>5
<1>. QED
  BY <1>2, <1>6 DEF Reached

\* ... the next packet continues it ...
LEMMA RunGoesOn ==
    ASSUME NEW h, NEW g, NEW nals, NEW a, Streamed(h, nals, a), Packed(g, nals), NEW p,
           p < Len(g[Len(nals)]), NEW u, Reached(h, g, nals, a, p, u)
    PROVE  Reached(h, g, nals, a, p + 1, Reassembled(u, g[Len(nals)][p + 1]))
<1>. DEFINE all == g[Len(nals)]
            m == Len(nals)
<1>1. PICK k, f : /\ k \in a .. Len(nals)
                  /\ At(g, Split(nals), Len(nals), p, k, f)
                  /\ Holds(h, nals, a, k, f, u)
  BY DEF Reached
<1>2. m \in Nat /\ k \in 1 .. m /\ f \in 1 .. Len(Split(nals)[k])
  BY <1>1, PackedAt
<1>3. a \in 1 .. m
  BY DEF Streamed
<1>4. CASE f < Len(Split(nals)[k]) /\ At(g, Split(nals), Len(nals), p + 1, k, f + 1)
  <2>1. all[p + 1] = Split(nals)[k][f + 1]
    BY <1>4, PackedAt
  <2>2. f \in 1 .. Len(Split(nals)[k]) - 1
    <3>. DEFINE l == Len(Split(nals)[k])
    <3>1. f \in 1 .. l /\ f < l
      BY <1>2, <1>4
    <3>2. l \in Int
      <4>1. Split(nals)[k] \in Seq(Seq(Nat))
        BY <1>2, PartIs DEF Packed
      <4>. HIDE DEF l
      <4>. QED
        BY <4>1 DEF l
    <3>. HIDE DEF l
    <3>3. f \in 1 .. l - 1
      BY <3>1, <3>2
    <3>. QED
      BY <3>3 DEF l
  <2>3. Holds(h, nals, a, k, f + 1, Reassembled(u, Split(nals)[k][f + 1]))
    BY <1>1, <2>2, UnitGoesOn
  <2>. QED
    BY <1>1, <1>4, <2>1, <2>3 DEF Reached
<1>5. CASE f = Len(Split(nals)[k]) /\ At(g, Split(nals), Len(nals), p + 1, k + 1, 1)
  <2>1. all[p + 1] = Split(nals)[k + 1][1] /\ k + 1 \in 1 .. m
    BY <1>5, PackedAt
  <2>2. k + 1 \in a .. m /\ (k + 1) - a = k - a + 1 /\ (k + 1) - 1 = k
    <3>. HIDE DEF m
    <3>1. k \in a .. m
      BY <1>1 DEF m
    <3>. QED
      BY <1>2, <1>3, <2>1, <3>1
  <2>3. u = Taken(h[k - a + 1], <<>>, Keys(nals, a, k))
    BY <1>1, <1>5 DEF Holds
  <2>4. Holds(h, nals, a, k + 1, 1,
              Reassembled(Taken(h[(k + 1) - a], <<>>, Keys(nals, a, (k + 1) - 1)),
                          Split(nals)[k + 1][1]))
    BY <2>2, UnitStarts
  <2>5. Holds(h, nals, a, k + 1, 1, Reassembled(u, all[p + 1]))
    BY <2>1, <2>2, <2>3, <2>4
  <2>. QED
    BY <1>5, <2>2, <2>5 DEF Reached
<1>. QED
  BY <1>1, <1>4, <1>5, PackedNext

\* The payloads from the i-th on, m of them.
Run(payloads, all, i, m) ==
    /\ i \in 1 .. Len(all) /\ m \in Nat \ {0} /\ Len(all) \in Nat /\ i + m - 1 <= Len(all)
    /\ \A n \in 1 .. m : payloads[n] = all[i + n - 1]

\* ... and so it goes to the end of the run.
LEMMA RunReaches ==
    ASSUME NEW h, NEW g, NEW nals, NEW a, Streamed(h, nals, a), Packed(g, nals),
           NEW i, At(g, Split(nals), Len(nals), i, a, 1),
           NEW payloads, NEW m, Run(payloads, g[Len(nals)], i, m),
           NEW turn, Turns(turn, payloads, m)
    PROVE  Reached(h, g, nals, a, i + m - 1, turn[m])
<1>. DEFINE all == g[Len(nals)]
            l == Len(all)
            Good(n) == Reached(h, g, nals, a, i + n - 1, turn[n])
            S == {n \in 1 .. m : ~Good(n)}
<1>1. /\ i \in 1 .. l /\ m \in Nat \ {0} /\ l \in Nat /\ i + m - 1 <= l
      /\ \A n \in 1 .. m : payloads[n] = all[i + n - 1]
  BY DEF Run
<1>2. ASSUME NEW n \in 1 .. m PROVE turn[n] = Reassembled(turn[n - 1], payloads[n])
  <2>1. m \in Nat
    BY <1>1
  <2>. QED
    BY <2>1, NextTurn
<1>3. Good(1)
  <2>1. turn[0] = Taken(<<>>, <<>>, FALSE)
    <3>1. m \in Nat
      BY <1>1
    <3>. QED
      BY <3>1, FirstTurn
  <2>2. 1 \in 1 .. m /\ 1 - 1 = 0 /\ i + 1 - 1 = i
    BY <1>1
  <2>3. payloads[1] = all[i]
    BY <1>1, <2>2
  <2>4. turn[1] = Reassembled(Taken(<<>>, <<>>, FALSE), all[i])
    BY <1>2, <2>1, <2>2, <2>3
  <2>. HIDE DEF all
  <2>5. Reached(h, g, nals, a, i, Reassembled(Taken(<<>>, <<>>, FALSE), g[Len(nals)][i]))
    BY RunStarts
  <2>. QED
    BY <2>2, <2>4, <2>5 DEF all
<1>4. ASSUME NEW n \in 1 .. m, n + 1 \in 1 .. m, Good(n) PROVE Good(n + 1)
  <2>1. i + n - 1 < l /\ (i + n - 1) + 1 = i + (n + 1) - 1 /\ (n + 1) - 1 = n
    <3>. HIDE DEF l
    <3>. QED
      BY <1>1, <1>4
  <2>. DEFINE p == i + n - 1
              u == turn[n]
  <2>2. payloads[n + 1] = all[p + 1]
    BY <1>1, <1>4, <2>1
  <2>3. turn[n + 1] = Reassembled(u, payloads[n + 1])
    BY <1>2, <1>4, <2>1
  <2>4. p < Len(g[Len(nals)]) /\ Reached(h, g, nals, a, p, u)
    BY <1>4, <2>1
  <2>. HIDE DEF p, u
  <2>5. Reached(h, g, nals, a, p + 1, Reassembled(u, g[Len(nals)][p + 1]))
    BY <2>4, RunGoesOn
  <2>6. Reached(h, g, nals, a, p + 1, turn[n + 1])
    BY <2>2, <2>3, <2>5
  <2>. QED
    BY <2>1, <2>6 DEF p
<1>. HIDE DEF Good, l
<1>5. S = {}
  <2>. SUFFICES ASSUME S # {} PROVE FALSE
    OBVIOUS
  <2>1. PICK n \in S : \A x \in S : n <= x
    <3>1. S \in SUBSET Nat
      OBVIOUS
    <3>. HIDE DEF S
    <3>. QED
      BY <3>1, LeastNat
  <2>2. n \in 1 .. m /\ ~Good(n)
    OBVIOUS
  <2>3. n # 1
    BY <1>3, <2>2
  <2>4. n - 1 \in 1 .. m /\ (n - 1) + 1 = n /\ ~(n <= n - 1)
    BY <1>1, <2>2, <2>3
  <2>5. Good(n - 1)
    BY <2>1, <2>4
  <2>6. Good((n - 1) + 1)
    BY <1>4, <2>2, <2>4, <2>5
  <2>. QED
    BY <2>2, <2>4, <2>6
<1>6. m \in 1 .. m
  BY <1>1
<1>7. Good(m)
  BY <1>5, <1>6
<1>. QED
  BY <1>7 DEF Good

\* A run that begins inside a unit is refused.
LEMMA RunRefused ==
    ASSUME NEW g, NEW nals, Packed(g, nals),
           NEW i, NEW k, NEW f, At(g, Split(nals), Len(nals), i, k, f), f # 1,
           NEW payloads, NEW m, Run(payloads, g[Len(nals)], i, m),
           NEW turn, Turns(turn, payloads, m)
    PROVE  Refused(turn[m])
<1>. DEFINE all == g[Len(nals)]
            l == Len(all)
            S == {n \in 1 .. m : ~Refused(turn[n])}
<1>1. /\ i \in 1 .. l /\ m \in Nat \ {0} /\ m \in Nat
      /\ \A n \in 1 .. m : payloads[n] = all[i + n - 1]
  BY DEF Run
<1>2. ASSUME NEW n \in 1 .. m PROVE turn[n] = Reassembled(turn[n - 1], payloads[n])
  BY <1>1, NextTurn
<1>3. Refused(turn[1])
  <2>1. turn[0] = Taken(<<>>, <<>>, FALSE)
    BY <1>1, FirstTurn
  <2>2. 1 \in 1 .. m /\ 1 - 1 = 0 /\ i + 1 - 1 = i
    BY <1>1
  <2>3. payloads[1] = all[i]
    BY <1>1, <2>2
  <2>4. turn[1] = Reassembled(Taken(<<>>, <<>>, FALSE), all[i])
    BY <1>2, <2>1, <2>2, <2>3
  <2>5. /\ k \in 1 .. Len(nals) /\ f \in 1 .. Len(Split(nals)[k])
        /\ all[i] = Split(nals)[k][f]
    BY PackedAt
  <2>. DEFINE part == Split(nals)[k]
              nal == nals[k]
  <2>6. Sendable(nals)
    BY DEF Packed
  <2>7. /\ part \in Seq(Seq(Nat))
        /\ \/ part = <<nal>>
           \/ Len(nal) > maxPayload /\ part = fragments(nal) /\ Len(part) = Count(nal)
    BY <2>5, <2>6, PartIs
  <2>8. nal \in Seq(Nat)
    BY <2>5, <2>6 DEF Sendable, Clean
  <2>9. f \in 1 .. Len(part)
    BY <2>5
  <2>. HIDE DEF part, nal
  <2>10. Len(nal) > maxPayload /\ part = fragments(nal) /\ Len(part) = Count(nal)
    <3>1. part # <<nal>>
      <4>. SUFFICES ASSUME part = <<nal>> PROVE FALSE
        OBVIOUS
      <4>1. Len(part) = 1
        OBVIOUS
      <4>. QED
        BY <2>9, <4>1
    <3>. QED
      BY <2>7, <3>1
  <2>11. f \in 2 .. Count(nal)
    <3>1. Len(part) \in Nat
      BY <2>7
    <3>. QED
      BY <2>9, <2>10, <3>1
  <2>12. FALSE \in BOOLEAN
    OBVIOUS
  <2>13. Refused(Reassembled(Taken(<<>>, <<>>, FALSE), fragments(nal)[f]))
    BY <2>8, <2>10, <2>11, <2>12, FragmentRefused
  <2>. QED
    BY <2>4, <2>5, <2>10, <2>13 DEF part
<1>4. S = {}
  <2>. SUFFICES ASSUME S # {} PROVE FALSE
    OBVIOUS
  <2>1. PICK n \in S : \A x \in S : n <= x
    <3>1. S \in SUBSET Nat
      OBVIOUS
    <3>. HIDE DEF S
    <3>. QED
      BY <3>1, LeastNat
  <2>2. n \in 1 .. m /\ ~Refused(turn[n])
    OBVIOUS
  <2>3. n # 1
    BY <1>3, <2>2
  <2>4. n - 1 \in 1 .. m /\ ~(n <= n - 1)
    BY <1>1, <2>2, <2>3
  <2>5. Refused(turn[n - 1])
    BY <2>1, <2>4
  <2>6. Refused(Reassembled(turn[n - 1], payloads[n]))
    BY <2>5, RefusedForGood
  <2>. QED
    BY <1>2, <2>2, <2>6
<1>5. m \in 1 .. m
  BY <1>1
<1>. QED
  BY <1>4, <1>5

\* The units that were written come out of what was written.
LEMMA StreamFound ==
    ASSUME NEW h, NEW nals, NEW a, Streamed(h, nals, a), NEW k \in a .. Len(nals)
    PROVE  findNalUnits(h[k - a + 1]) = SubSeq(nals, a, k)
<1>. DEFINE s == Rest(nals, a)
            m == Len(nals) - a + 1
            x == k - a + 1
            r == [n \in 0 .. x |-> h[n]]
<1>1. Sendable(nals) /\ a \in 1 .. Len(nals) /\ Stream(h, s, m)
  BY DEF Streamed
<1>2. nals \in Seq(Seq(Nat)) /\ Len(nals) \in Nat
  <2>1. nals \in Seq(Seq(Nat))
    BY <1>1 DEF Sendable
  <2>. QED
    BY <2>1
<1>3. x \in 1 .. m /\ m \in Nat /\ 1 \in Int /\ x + a - 1 = k /\ a \in Nat /\ k \in Nat /\ x \in Nat
  <2>. DEFINE l == Len(nals)
  <2>1. l \in Nat /\ a \in 1 .. l /\ k \in a .. l
    BY <1>1, <1>2
  <2>. HIDE DEF l
  <2>2. /\ k - a + 1 \in 1 .. l - a + 1 /\ l - a + 1 \in Nat /\ (k - a + 1) + a - 1 = k
        /\ a \in Nat /\ k \in Nat /\ k - a + 1 \in Nat
    BY <2>1
  <2>. QED
    BY <2>2 DEF l
<1>4. /\ s \in Seq(Seq(Nat)) /\ Len(s) = m
      /\ \A y \in 1 .. m : y + a - 1 \in 1 .. Len(nals) /\ s[y] = nals[y + a - 1]
  BY <1>1, RestIs
<1>. HIDE DEF s, m, x
<1>5. Joins(r, Coded(s), x)
  <2>. DEFINE c == Coded(s)
  <2>1. h = [n \in 0 .. m |-> IF n = 0 THEN <<>> ELSE h[n - 1] \o c[n]]
    BY <1>1 DEF Stream, Joins
  <2>. HIDE DEF c
  <2>2. ASSUME NEW n \in 0 .. x
        PROVE  r[n] = IF n = 0 THEN <<>> ELSE r[n - 1] \o c[n]
    <3>1. n \in 0 .. m /\ (n # 0 => n - 1 \in 0 .. x)
      BY <1>3
    <3>2. r[n] = h[n] /\ (n # 0 => r[n - 1] = h[n - 1])
      BY <3>1
    <3>3. h[n] = IF n = 0 THEN <<>> ELSE h[n - 1] \o c[n]
      BY <2>1, <3>1
    <3>. HIDE DEF r
    <3>. QED
      BY <3>2, <3>3
  <2>3. r = [n \in 0 .. x |-> r[n]]
    OBVIOUS
  <2>. HIDE DEF r
  <2>4. r = [n \in 0 .. x |-> IF n = 0 THEN <<>> ELSE r[n - 1] \o c[n]]
    BY <2>2, <2>3
  <2>. QED
    BY <2>4 DEF Joins, c
<1>6. Stream(r, s, x)
  <2>1. \A y \in 1 .. Len(s) : Clean(s[y])
    BY <1>1 DEF Stream
  <2>2. x \in 0 .. Len(s)
    BY <1>3, <1>4
  <2>. QED
    BY <1>4, <1>5, <2>1, <2>2 DEF Stream
<1>7. findNalUnits(r[x]) = SubSeq(s, 1, x)
  <2>. HIDE DEF r
  <2>. QED
    BY <1>6, NalsFound
<1>8. r[x] = h[x]
  BY <1>3
<1>. HIDE DEF r
<1>9. SubSeq(s, 1, x) = SubSeq(nals, a, k)
  <2>. DEFINE p == SubSeq(s, 1, x)
              q == SubSeq(nals, a, k)
  <2>1. p = [y \in 1 .. x |-> s[y]]
    <3>1. /\ p \in Seq(Seq(Nat)) /\ Len(p) = x /\ \A y \in 1 .. x : p[y] = s[y]
      <4>1. \A y \in 1 .. x : s[y] \in Seq(Nat)
        BY <1>3, <1>4
      <4>2. 1 \in Int /\ x \in Int /\ 1 <= x /\ x - 1 + 1 = x /\ \A y \in 1 .. x : 1 + y - 1 = y
        BY <1>3
      <4>3. /\ p \in Seq(Seq(Nat)) /\ Len(p) = (IF 1 <= x THEN x - 1 + 1 ELSE 0)
            /\ \A y \in 1 .. x - 1 + 1 : p[y] = s[1 + y - 1]
        BY <1>4, <4>1, <4>2, SubSeqProperties
      <4>. HIDE DEF p
      <4>. QED
        BY <4>2, <4>3
    <3>. HIDE DEF p
    <3>2. p = [y \in 1 .. Len(p) |-> p[y]]
      BY <3>1
    <3>. QED
      BY <3>1, <3>2
  <2>2. q = [y \in 1 .. x |-> s[y]]
    <3>1. /\ q \in Seq(Seq(Nat)) /\ Len(q) = x /\ \A y \in 1 .. x : q[y] = s[y]
      <4>0. k - a + 1 = x
        BY DEF x
      <4>1. \A y \in a .. k : nals[y] \in Seq(Nat)
        BY <1>1, <1>2, <1>3
      <4>2. a \in Int /\ k \in Int /\ a <= k
        BY <1>3
      <4>3. /\ q \in Seq(Seq(Nat)) /\ Len(q) = (IF a <= k THEN k - a + 1 ELSE 0)
            /\ \A y \in 1 .. k - a + 1 : q[y] = nals[a + y - 1]
        BY <1>2, <4>1, <4>2, SubSeqProperties
      <4>. HIDE DEF q
      <4>4. ASSUME NEW y \in 1 .. x PROVE q[y] = s[y]
        <5>1. q[y] = nals[a + y - 1]
          BY <4>0, <4>3
        <5>2. y \in 1 .. m /\ a + y - 1 = y + a - 1
          BY <1>3
        <5>. QED
          BY <1>4, <5>1, <5>2
      <4>. QED
        BY <4>0, <4>2, <4>3, <4>4
    <3>. HIDE DEF q
    <3>2. q = [y \in 1 .. Len(q) |-> q[y]]
      BY <3>1
    <3>. QED
      BY <3>1, <3>2
  <2>. QED
    BY <2>1, <2>2
<1>. QED
  BY <1>7, <1>8, <1>9 DEF x

\* A loop that ends outside a unit has written the units from a on, whole.
LEMMA WholeUnitsWritten ==
    ASSUME NEW h, NEW g, NEW nals, NEW a, Streamed(h, nals, a), Packed(g, nals), NEW p,
           NEW u, Reached(h, g, nals, a, p, u), u.fu = <<>>
    PROVE  \E k \in a .. Len(nals) :
              /\ At(g, Split(nals), Len(nals), p, k, Len(Split(nals)[k]))
              /\ u = Taken(h[k - a + 1], <<>>, Keys(nals, a, k))
<1>1. PICK k, f : /\ k \in a .. Len(nals)
                  /\ At(g, Split(nals), Len(nals), p, k, f)
                  /\ Holds(h, nals, a, k, f, u)
  BY DEF Reached
<1>. DEFINE part == Split(nals)[k]
            nal == nals[k]
            n == Len(part)
<1>2. k \in 1 .. Len(nals) /\ f \in 1 .. n
  BY <1>1, PackedAt
<1>3. Sendable(nals)
  BY DEF Packed
<1>4. nal \in Seq(Nat)
  BY <1>2, <1>3 DEF Sendable, Clean
<1>5. /\ part \in Seq(Seq(Nat))
      /\ \/ part = <<nal>>
         \/ Len(nal) > maxPayload /\ part = fragments(nal) /\ n = Count(nal)
  BY <1>2, <1>3, PartIs
<1>6. f = n
  <2>. SUFFICES ASSUME f # n PROVE FALSE
    OBVIOUS
  <2>1. u = Taken(h[k - a], Begun(nal, f), Keys(nals, a, k - 1))
    BY <1>1 DEF Holds
  <2>2. Begun(nal, f) = <<>>
    <3>. DEFINE b == Begun(nal, f)
                o == h[k - a]
                key == Keys(nals, a, k - 1)
    <3>1. u = Taken(o, b, key)
      BY <2>1
    <3>. HIDE DEF b, o, key
    <3>2. u.fu = b
      BY <3>1 DEF Taken
    <3>. QED
      BY <3>2 DEF b
  <2>. HIDE DEF nal, part
  <2>3. part # <<nal>>
    <3>. SUFFICES ASSUME part = <<nal>> PROVE FALSE
      OBVIOUS
    <3>1. n = 1
      OBVIOUS
    <3>. HIDE DEF n
    <3>. QED
      BY <1>2, <3>1
  <2>4. Len(nal) > maxPayload /\ f \in 1 .. Count(nal)
    BY <1>2, <1>5, <2>3
  <2>5. /\ 1 + (f - 1) * Chunk \in 1 .. Len(nal)
        /\ Carried(nal, f) \in 1 + (f - 1) * Chunk .. Len(nal)
    BY <1>4, <2>4, Carrying
  <2>6. Carried(nal, f) \in 1 .. Len(nal)
    <3>. DEFINE x == 1 + (f - 1) * Chunk
                y == Carried(nal, f)
                l == Len(nal)
    <3>1. l \in Nat
      BY <1>4
    <3>2. x \in 1 .. l /\ y \in x .. l
      BY <2>5
    <3>. HIDE DEF x, y, l
    <3>3. y \in 1 .. l
      BY <3>1, <3>2
    <3>. QED
      BY <3>3 DEF y, l
  <2>. DEFINE y == Carried(nal, f)
  <2>7. y \in 1 .. Len(nal)
    BY <2>6
  <2>. HIDE DEF y
  <2>8. SubSeq(nal, 1, y) # <<>>
    <3>1. Len(SubSeq(nal, 1, y)) = y
      BY <1>4, <2>7
    <3>. HIDE DEF nal
    <3>2. y # 0 /\ Len(<<>>) = 0
      BY <2>7
    <3>. QED
      BY <3>1, <3>2
  <2>. QED
    BY <2>2, <2>8 DEF Begun, y
<1>7. u = Taken(h[k - a + 1], <<>>, Keys(nals, a, k))
  BY <1>1, <1>6 DEF Holds
<1>. QED
  BY <1>1, <1>6, <1>7

\* The last payload is the last of the last unit.
LEMMA LastOfAll ==
    ASSUME NEW g, NEW nals, Packed(g, nals), NEW p, p = Len(g[Len(nals)]),
           NEW k, NEW f, At(g, Split(nals), Len(nals), p, k, f)
    PROVE  k = Len(nals) /\ f = Len(Split(nals)[k])
<1>. DEFINE m == Len(nals)
            parts == Split(nals)
<1>1. m \in Nat /\ k \in 1 .. m /\ f \in 1 .. Len(parts[k])
  BY PackedAt
<1>2. Joining(g, parts, m, Seq(Nat)) /\ \A j \in 1 .. m : parts[j] # <<>>
  BY DEF Packed
<1>3. p = Len(g[m]) /\ p = Len(g[k - 1]) + f
  BY DEF At
<1>. HIDE DEF m, parts
<1>. DEFINE all == Len(g[m])
            upTo(n) == Len(g[n])
            len(n) == Len(parts[n])
<1>4. ASSUME NEW n \in 1 .. m
      PROVE  /\ upTo(n - 1) \in Nat /\ len(n) \in Nat \ {0}
             /\ upTo(n) = upTo(n - 1) + len(n) /\ upTo(n) <= all
  <2>1. n \in 0 .. m /\ m \in n .. m
    BY <1>1
  <2>2. Extended(g[n - 1], parts[n], g[n])
    BY <1>1, <1>2, JoiningAdds
  <2>3. Begins(g[n], g[m])
    BY <1>1, <1>2, <2>1, JoiningKeeps
  <2>4. parts[n] \in Seq(Seq(Nat)) /\ parts[n] # <<>>
    BY <1>2 DEF Joining
  <2>5. Len(parts[n]) \in Nat \ {0}
    BY <2>4
  <2>. QED
    BY <2>2, <2>3, <2>5 DEF Extended, Begins
<1>5. p = all /\ p = upTo(k - 1) + f /\ f \in 1 .. len(k)
  BY <1>1, <1>3
<1>. HIDE DEF all, upTo, len
<1>6. f = len(k) /\ upTo(k) = all /\ all \in Nat
  BY <1>1, <1>4, <1>5
<1>7. k = m
  <2>. SUFFICES ASSUME k # m PROVE FALSE
    OBVIOUS
  <2>1. k + 1 \in 1 .. m /\ (k + 1) - 1 = k
    BY <1>1
  <2>2. /\ len(k + 1) \in Nat \ {0} /\ upTo(k + 1) <= all
        /\ upTo(k + 1) = upTo((k + 1) - 1) + len(k + 1)
    BY <1>4, <2>1
  <2>. QED
    BY <1>6, <2>1, <2>2
<1>. QED
  BY <1>6, <1>7 DEF m, parts, len

\* The packets of the payloads.
Wraps(ps, all) ==
    /\ IsSequence(ps) /\ Len(ps) = Len(all)
    /\ \A n \in 1 .. Len(all) : ps[n].payload = all[n]

Framing(ps, all, i, j, turn) == \E payloads :
    /\ Run(payloads, all, i, j - i + 1)
    /\ Turns(turn, payloads, j - i + 1)
    /\ Framed(depacketize(SubSeq(ps, i, j)), turn[j - i + 1])

\* q is the m packets from the i-th to the j-th.
Cut(ps, i, j, q, m) ==
    /\ m \in Nat \ {0} /\ Len(q) = m /\ q # <<>>
    /\ \A n \in 1 .. m : q[n] = ps[i + n - 1] /\ i + n - 1 \in 1 .. Len(ps)

\* A run of the packets, one by one.
LEMMA PartOf ==
    ASSUME NEW ps, IsSequence(ps), NEW i \in Nat, NEW j \in Nat, 1 <= i, i <= j, j <= Len(ps)
    PROVE  Cut(ps, i, j, SubSeq(ps, i, j), j - i + 1)
<1>. DEFINE q == SubSeq(ps, i, j)
            m == j - i + 1
            T == {ps[x] : x \in DOMAIN ps}
            l == Len(ps)
<1>1. ps \in Seq(T) /\ l \in Nat
  BY DEF IsSequence
<1>2. \A x \in i .. j : ps[x] \in T
  BY <1>1
<1>. HIDE DEF T
<1>3. /\ q \in Seq(T) /\ Len(q) = (IF i <= j THEN j - i + 1 ELSE 0)
      /\ \A n \in 1 .. j - i + 1 : q[n] = ps[i + n - 1]
  BY <1>1, <1>2, SubSeqProperties
<1>. HIDE DEF q, l
<1>4. m \in Nat \ {0} /\ Len(q) = m
  BY <1>3
<1>5. q # <<>>
  <2>. SUFFICES ASSUME q = <<>> PROVE FALSE
    OBVIOUS
  <2>1. Len(q) = 0
    OBVIOUS
  <2>. QED
    BY <1>4, <2>1
<1>6. ASSUME NEW n \in 1 .. m PROVE q[n] = ps[i + n - 1] /\ i + n - 1 \in 1 .. l
  <2>1. j <= l
    BY DEF l
  <2>2. i + n - 1 \in 1 .. l
    BY <1>1, <2>1
  <2>. QED
    BY <1>3, <2>2
<1>. QED
  BY <1>4, <1>5, <1>6 DEF Cut, q, l

\* A run of the packets is taken by a loop over its payloads.
LEMMA FramingExists ==
    ASSUME NEW all, Len(all) \in Nat, NEW ps, Wraps(ps, all), NEW i \in 1 .. Len(all),
           NEW j \in 1 .. Len(all), i <= j
    PROVE  \E turn : Framing(ps, all, i, j, turn)
<1>. DEFINE q == SubSeq(ps, i, j)
            m == j - i + 1
            l == Len(all)
            payloads == [n \in 1 .. m |-> all[i + n - 1]]
<1>1. /\ IsSequence(ps) /\ Len(ps) = l /\ l \in Nat
      /\ \A n \in 1 .. l : ps[n].payload = all[n]
      /\ i \in 1 .. l /\ j \in 1 .. l
  BY DEF Wraps
<1>. HIDE DEF l
<1>2. i \in Nat /\ j \in Nat /\ 1 <= i /\ j <= Len(ps) /\ i + m - 1 <= l
  BY <1>1
<1>3. /\ m \in Nat \ {0} /\ Len(q) = m /\ q # <<>>
      /\ \A n \in 1 .. m : q[n] = ps[i + n - 1] /\ i + n - 1 \in 1 .. l
  <2>1. Cut(ps, i, j, q, m)
    BY <1>1, <1>2, PartOf
  <2>. HIDE DEF q, m
  <2>. QED
    BY <1>1, <2>1 DEF Cut
<1>4. m \in Nat
  BY <1>3
<1>. HIDE DEF m, q
<1>5. \A n \in 1 .. m : payloads[n] = all[i + n - 1]
  OBVIOUS
<1>. HIDE DEF payloads
<1>6. Carries(q, payloads, m)
  <2>1. \A n \in 1 .. m : q[n].payload = payloads[n]
    BY <1>1, <1>3, <1>5
  <2>. QED
    BY <1>3, <2>1 DEF Carries
<1>7. PICK turn : Turns(turn, payloads, m) /\ Framed(depacketize(q), turn[m])
  BY <1>3, <1>4, <1>6, Depacketized
<1>9. Run(payloads, all, i, m)
  BY <1>1, <1>2, <1>3, <1>5 DEF Run, l
<1>. QED
  BY <1>7, <1>9 DEF Framing, q, m

\* A frame is made of a loop that ends outside a unit.
LEMMA FrameMade ==
    ASSUME NEW fr, NEW u, Framed(fr, u), fr # Failed
    PROVE  ~Refused(u) /\ u.fu = <<>> /\ fr.payload = u.out
<1>1. PICK t : fr = IF ~u.ok \/ u.fu # <<>> THEN Failed
                    ELSE [keyframe |-> u.key, timestamp |-> t, payload |-> u.out]
  BY DEF Framed
<1>2. ~(~u.ok \/ u.fu # <<>>)
  BY <1>1
<1>3. fr = [keyframe |-> u.key, timestamp |-> t, payload |-> u.out]
  BY <1>1, <1>2
<1>4. fr.payload = u.out
  BY <1>3
<1>5. ~Refused(u)
  BY <1>2 DEF Refused
<1>. QED
  BY <1>2, <1>4, <1>5

\* A loop that is through returns what it has written.
LEMMA FrameTaken ==
    ASSUME NEW fr, NEW o, NEW key, Framed(fr, Taken(o, <<>>, key))
    PROVE  fr.payload = o /\ fr.keyframe = key
<1>1. PICK t : fr = IF ~Taken(o, <<>>, key).ok \/ Taken(o, <<>>, key).fu # <<>> THEN Failed
                    ELSE [keyframe |-> Taken(o, <<>>, key).key, timestamp |-> t,
                          payload |-> Taken(o, <<>>, key).out]
  BY DEF Framed
<1>2. /\ Taken(o, <<>>, key).ok = TRUE /\ Taken(o, <<>>, key).fu = <<>>
      /\ Taken(o, <<>>, key).key = key /\ Taken(o, <<>>, key).out = o
  BY DEF Taken
<1>3. fr = [keyframe |-> key, timestamp |-> t, payload |-> o]
  BY <1>1, <1>2
<1>. QED
  BY <1>3

\* Any run of the packets gives whole units or is refused.
LEMMA AnyRun ==
    ASSUME NEW nals, NEW g, Packed(g, nals), NEW ps, Wraps(ps, g[Len(nals)]),
           NEW i \in 1 .. Len(g[Len(nals)]), NEW j \in 1 .. Len(g[Len(nals)]), i <= j,
           depacketize(SubSeq(ps, i, j)) # Failed
    PROVE  \E a, b \in 1 .. Len(nals) :
              findNalUnits(depacketize(SubSeq(ps, i, j)).payload) = SubSeq(nals, a, b)
<1>. DEFINE all == g[Len(nals)]
            fr == depacketize(SubSeq(ps, i, j))
            m == j - i + 1
            K == Len(nals)
<1>1. Sendable(nals) /\ Joining(g, Split(nals), K, Seq(Nat)) /\ nals \in Seq(Seq(Nat))
  BY DEF Packed, Sendable
<1>2. K \in Nat
  BY <1>1
<1>3. Len(all) \in Nat
  <2>1. K \in 0 .. K
    BY <1>2
  <2>. HIDE DEF K
  <2>2. Len(g[K]) \in Nat
    BY <1>1, <1>2, <2>1, JoiningHolds
  <2>. QED
    BY <2>2 DEF K
<1>4. PICK turn : Framing(ps, all, i, j, turn)
  <2>. HIDE DEF all
  <2>. QED
    BY <1>3, FramingExists DEF all
<1>5. PICK payloads : Run(payloads, all, i, m) /\ Turns(turn, payloads, m) /\ Framed(fr, turn[m])
  BY <1>4 DEF Framing
<1>6. PICK a, f : At(g, Split(nals), K, i, a, f)
  <2>. HIDE DEF K
  <2>1. i \in 1 .. Len(g[K])
    BY DEF K
  <2>. QED
    BY <1>1, <1>2, <2>1, JoinedFrom
<1>7. fr # Failed
  OBVIOUS
<1>. HIDE DEF fr, m
<1>8. ~Refused(turn[m]) /\ turn[m].fu = <<>> /\ fr.payload = turn[m].out
  BY <1>5, <1>7, FrameMade
<1>9. f = 1
  <2>. SUFFICES ASSUME f # 1 PROVE FALSE
    OBVIOUS
  <2>1. Refused(turn[m])
    BY <1>5, <1>6, RunRefused
  <2>. QED
    BY <1>8, <2>1
<1>10. a \in 1 .. K
  BY <1>6, PackedAt
<1>11. PICK h : Streamed(h, nals, a)
  BY <1>1, <1>10, StreamExists
<1>12. Reached(h, g, nals, a, i + m - 1, turn[m])
  BY <1>5, <1>6, <1>9, <1>11, RunReaches
<1>13. PICK k \in a .. K : turn[m] = Taken(h[k - a + 1], <<>>, Keys(nals, a, k))
  BY <1>8, <1>11, <1>12, WholeUnitsWritten
<1>14. fr.payload = h[k - a + 1]
  BY <1>8, <1>13 DEF Taken
<1>15. findNalUnits(h[k - a + 1]) = SubSeq(nals, a, k)
  BY <1>11, StreamFound
<1>16. k \in 1 .. K
  <2>. HIDE DEF K
  <2>. QED
    BY <1>2, <1>10, <1>13
<1>17. findNalUnits(fr.payload) = SubSeq(nals, a, k)
  BY <1>14, <1>15
<1>. QED
  BY <1>10, <1>16, <1>17 DEF fr

\* All of the packets give all of the units.
LEMMA WholeRun ==
    ASSUME NEW nals, nals # <<>>, NEW g, Packed(g, nals), NEW ps, Wraps(ps, g[Len(nals)])
    PROVE  LET fr == depacketize(SubSeq(ps, 1, Len(ps)))
           IN  /\ findNalUnits(fr.payload) = nals
               /\ fr.keyframe = Keys(nals, 1, Len(nals))
<1>. DEFINE all == g[Len(nals)]
            l == Len(ps)
            fr == depacketize(SubSeq(ps, 1, l))
            m == l - 1 + 1
            K == Len(nals)
<1>1. Sendable(nals) /\ Joining(g, Split(nals), K, Seq(Nat)) /\ nals \in Seq(Seq(Nat))
  BY DEF Packed, Sendable
<1>2. K \in Nat \ {0} /\ K \in Nat
  BY <1>1
<1>3. Split(nals)[1] \in Seq(Seq(Nat)) /\ Split(nals)[1] # <<>>
  <2>1. 1 \in 1 .. Len(nals)
    BY <1>2
  <2>. QED
    BY <1>1, <2>1, PartIs
<1>4. At(g, Split(nals), K, 1, 1, 1)
  <2>. HIDE DEF K
  <2>1. Len(g[0]) = 0
    BY <1>1, <1>2, JoiningStart
  <2>2. 1 \in 1 .. Len(Split(nals)[1])
    <3>. DEFINE part == Split(nals)[1]
    <3>1. part \in Seq(Seq(Nat)) /\ part # <<>>
      BY <1>3
    <3>. HIDE DEF part
    <3>2. 1 \in 1 .. Len(part)
      BY <3>1
    <3>. QED
      BY <3>2 DEF part
  <2>3. 1 \in 1 .. K /\ 1 - 1 = 0 /\ 1 = 0 + 1
    BY <1>2
  <2>. QED
    BY <2>1, <2>2, <2>3 DEF At
<1>5. Len(all) \in Nat /\ 1 \in 1 .. Len(all)
  <2>1. 1 \in 1 .. Len(all)
    BY <1>4, PackedAt
  <2>2. K \in 0 .. K
    BY <1>2
  <2>. HIDE DEF K
  <2>3. Len(g[K]) \in Nat
    BY <1>1, <1>2, <2>2, JoiningHolds
  <2>. QED
    BY <2>1, <2>3 DEF K
<1>6. l = Len(all)
  BY DEF Wraps
<1>7. l \in 1 .. Len(all) /\ 1 <= l /\ m = l /\ l \in Nat \ {0}
  <2>. HIDE DEF l, all
  <2>. QED
    BY <1>5, <1>6
<1>8. PICK turn : Framing(ps, all, 1, l, turn)
  <2>. HIDE DEF all, l
  <2>. QED
    BY <1>5, <1>7, FramingExists DEF all
<1>9. PICK payloads : Run(payloads, all, 1, m) /\ Turns(turn, payloads, m) /\ Framed(fr, turn[m])
  BY <1>8 DEF Framing
<1>10. PICK h : Streamed(h, nals, 1)
  <2>1. 1 \in 1 .. Len(nals)
    BY <1>2
  <2>. QED
    BY <1>1, <2>1, StreamExists
<1>. HIDE DEF fr, m
<1>11. Reached(h, g, nals, 1, 1 + m - 1, turn[m])
  BY <1>4, <1>9, <1>10, RunReaches
<1>12. 1 + m - 1 = Len(all)
  <2>. HIDE DEF all, l
  <2>. QED
    BY <1>6, <1>7
<1>13. PICK k, f : /\ k \in 1 .. K
                   /\ At(g, Split(nals), K, Len(all), k, f)
                   /\ Holds(h, nals, 1, k, f, turn[m])
  BY <1>11, <1>12 DEF Reached
<1>14. k = K /\ f = Len(Split(nals)[k])
  BY <1>13, LastOfAll
<1>15. K - 1 + 1 = K /\ K \in 1 .. K
  <2>. HIDE DEF K
  <2>. QED
    BY <1>2
<1>16. turn[m] = Taken(h[K - 1 + 1], <<>>, Keys(nals, 1, K))
  BY <1>13, <1>14 DEF Holds
<1>17. fr.payload = h[K - 1 + 1] /\ fr.keyframe = Keys(nals, 1, K)
  <2>. DEFINE o == h[K - 1 + 1]
              key == Keys(nals, 1, K)
  <2>1. Framed(fr, Taken(o, <<>>, key))
    BY <1>9, <1>16
  <2>. HIDE DEF o, key
  <2>2. fr.payload = o /\ fr.keyframe = key
    BY <2>1, FrameTaken
  <2>. QED
    BY <2>2 DEF o, key
<1>18. findNalUnits(h[K - 1 + 1]) = SubSeq(nals, 1, K)
  BY <1>10, <1>15, StreamFound
<1>19. SubSeq(nals, 1, K) = nals
  <2>1. nals \in Seq(Seq(Nat))
    BY <1>1
  <2>2. SubSeq(nals, 1, Len(nals)) = nals
    BY <2>1, SubSeqFull
  <2>. QED
    BY <2>2
<1>20. findNalUnits(fr.payload) = nals /\ fr.keyframe = Keys(nals, 1, K)
  BY <1>17, <1>18, <1>19
<1>. QED
  BY <1>20 DEF fr

-----------------------------------------------------------------------------
(* The units x264 makes. *)

\* Every unit x264 makes can be sent, and an IDR unit is told by its parts.
LEMMA UnitsAreSendable ==
    ASSUME NEW d \in Units
    PROVE  LET nals == findNalUnits(d)
           IN  /\ d \in Seq(Nat) /\ Sendable(nals) /\ nals # <<>>
               /\ Keys(nals, 1, Len(nals)) <=> d = IdrUnit
<1>. DEFINE nals == findNalUnits(d)
            types == {NalType(nal[1]) : nal \in ToSet(nals)}
            m == Len(nals)
<1>1. d \in Seq(Nat)
  BY MediaSendAssumption DEF Units
<1>2. types # {} /\ FuA \notin types /\ ({5, 7, 8} \cap types # {} <=> d = IdrUnit)
  BY UnitsAssumption DEF Units
<1>3. nals \in Seq(Seq(Nat)) /\ \A k \in DOMAIN nals : Clean(nals[k])
  BY <1>1, NalsAreStrings, NalsAreClean
<1>. HIDE DEF nals
<1>4. m \in Nat /\ DOMAIN nals = 1 .. m
  BY <1>3
<1>. HIDE DEF m
<1>5. types = {NalType(nals[k][1]) : k \in 1 .. m}
  BY <1>4 DEF ToSet
<1>. HIDE DEF types
<1>6. ASSUME NEW k \in 1 .. m PROVE NalType(nals[k][1]) # FuA
  BY <1>2, <1>5
<1>7. Sendable(nals)
  BY <1>3, <1>4, <1>6 DEF Sendable, m
<1>8. nals # <<>>
  <2>. SUFFICES ASSUME nals = <<>> PROVE FALSE
    OBVIOUS
  <2>1. m = 0
    BY DEF m
  <2>. QED
    BY <1>2, <1>5, <2>1
<1>9. Keys(nals, 1, m) <=> {5, 7, 8} \cap types # {}
  BY <1>5 DEF Keys, IsKey
<1>. QED
  BY <1>1, <1>2, <1>7, <1>8, <1>9 DEF nals, m

\* The packets of the sample, field by field.
SamplePacket(payload, i, n) ==
    [version |-> 2, padding |-> FALSE, extension |-> FALSE, csrcs |-> <<>>,
     marker |-> i = n, payloadType |-> 96, sequenceNumber |-> U16(65534 + i - 1),
     timestamp |-> <<1, 65535>>, ssrc |-> <<258, 772>>, payload |-> payload]

\* The packets of a unit are those of its payloads.
LEMMA SampleIs ==
    ASSUME NEW d \in Units, NEW g, Packed(g, findNalUnits(d)),
           Joined(Split(findNalUnits(d))) = g[Len(findNalUnits(d))]
    PROVE  LET all == g[Len(findNalUnits(d))]
           IN  /\ all \in Seq(Seq(Nat)) /\ Len(all) \in Nat
               /\ IsSequence(Sample(d)) /\ Len(Sample(d)) = Len(all)
               /\ \A n \in 1 .. Len(all) : Sample(d)[n] = SamplePacket(all[n], n, Len(all))
<1>. DEFINE nals == findNalUnits(d)
            m == Len(nals)
            all == g[m]
            n == Len(all)
            ps == Sample(d)
<1>1. nals \in Seq(Seq(Nat)) /\ Joining(g, Split(nals), m, Seq(Nat))
  BY DEF Packed, Sendable
<1>2. m \in Nat
  <2>. HIDE DEF nals
  <2>. QED
    BY <1>1
<1>3. all \in Seq(Seq(Nat)) /\ n \in Nat
  <2>1. m \in 0 .. m
    BY <1>2
  <2>. HIDE DEF m
  <2>. QED
    BY <1>1, <1>2, <2>1, JoiningHolds
<1>4. DOMAIN all = 1 .. n
  <2>. HIDE DEF all
  <2>. QED
    BY <1>3
<1>5. Ssrc(Video) = <<258, 772>>
  BY DEF Ssrc, Video
<1>6. ps = [i \in DOMAIN all |-> SamplePacket(all[i], i, n)]
  <2>1. Joined(Split(nals)) = all
    OBVIOUS
  <2>2. ps = Packets(Joined(Split(nals)), 96, Ssrc(Video), 65534, <<1, 65535>>)
    BY DEF Sample, packetizeH264
  <2>. HIDE DEF nals, all, ps
  <2>3. ps = Packets(all, 96, <<258, 772>>, 65534, <<1, 65535>>)
    BY <1>5, <2>1, <2>2
  <2>. QED
    BY <2>3 DEF Packets, SamplePacket
<1>. HIDE DEF all, n, ps
<1>7. ps = [i \in 1 .. n |-> SamplePacket(all[i], i, n)]
  BY <1>4, <1>6
<1>8. \A i \in 1 .. n : ps[i] = SamplePacket(all[i], i, n)
  BY <1>7
<1>9. ps = [i \in 1 .. n |-> ps[i]]
  BY <1>7
<1>10. IsSequence(ps) /\ Len(ps) = n
  BY <1>3, <1>9, SequenceOf
<1>. QED
  BY <1>3, <1>8, <1>10 DEF all, n, ps

\* A unit survives whole, and any run of its packets gives whole parts of it.
LEMMA UnitSurvives ==
    ASSUME NEW d \in Units
    PROVE  LET nals == findNalUnits(d)
               ps == Sample(d)
               frame(i, j) == depacketize(SubSeq(ps, i, j))
           IN  /\ findNalUnits(frame(1, Len(ps)).payload) = nals
               /\ frame(1, Len(ps)).keyframe = (d = IdrUnit)
               /\ \A i, j \in 1 .. Len(ps) : i <= j /\ frame(i, j) # Failed =>
                     \E a, b \in 1 .. Len(nals) :
                         findNalUnits(frame(i, j).payload) = SubSeq(nals, a, b)
<1>. DEFINE nals == findNalUnits(d)
            ps == Sample(d)
            m == Len(nals)
<1>1. Sendable(nals) /\ nals # <<>> /\ (Keys(nals, 1, m) <=> d = IdrUnit)
  BY UnitsAreSendable
<1>2. PICK g : Packed(g, nals) /\ Joined(Split(nals)) = g[m]
  <2>. HIDE DEF nals
  <2>. QED
    BY <1>1, PackedExists
<1>3. /\ IsSequence(ps) /\ Len(ps) = Len(g[m])
      /\ \A n \in 1 .. Len(g[m]) : ps[n] = SamplePacket(g[m][n], n, Len(g[m]))
  BY <1>2, SampleIs
<1>. HIDE DEF nals, ps
<1>4. Wraps(ps, g[m])
  <2>1. ASSUME NEW n \in 1 .. Len(g[m]) PROVE ps[n].payload = g[m][n]
    <3>1. ps[n] = SamplePacket(g[m][n], n, Len(g[m]))
      BY <1>3
    <3>2. \A x, y, z : SamplePacket(x, y, z).payload = x
      BY DEF SamplePacket
    <3>. QED
      BY <3>1, <3>2
  <2>. QED
    BY <1>3, <2>1 DEF Wraps
<1>5. /\ findNalUnits(depacketize(SubSeq(ps, 1, Len(ps))).payload) = nals
      /\ depacketize(SubSeq(ps, 1, Len(ps))).keyframe = Keys(nals, 1, m)
  BY <1>1, <1>2, <1>4, WholeRun
<1>6. ASSUME NEW i \in 1 .. Len(ps), NEW j \in 1 .. Len(ps), i <= j,
             depacketize(SubSeq(ps, i, j)) # Failed
      PROVE  \E a, b \in 1 .. m :
                 findNalUnits(depacketize(SubSeq(ps, i, j)).payload) = SubSeq(nals, a, b)
  <2>1. i \in 1 .. Len(g[m]) /\ j \in 1 .. Len(g[m])
    BY <1>3
  <2>. QED
    BY <1>2, <1>4, <1>6, <2>1, AnyRun
<1>7. Keys(nals, 1, m) \in BOOLEAN
  BY DEF Keys
<1>8. Keys(nals, 1, m) = (d = IdrUnit)
  BY <1>1, <1>7
<1>. QED
  BY <1>5, <1>6, <1>8 DEF nals, ps

\* Units survive, whatever the units and the size of a payload are.
LEMMA UnitsAlwaysSurvive == EveryUnitSurvives
BY UnitSurvives DEF EveryUnitSurvives

-----------------------------------------------------------------------------
(* Datagrams. *)

\* No datagram is read beyond its end.
THEOREM ParseStaysInside ==
    ASSUME NEW d \in Seq(Nat), parse(d) # Failed
    PROVE  Len(parse(d).payload) <= Len(d) - 12
<1>. DEFINE len == Len(d)
            cc == d[1] % 16
            fixed == 12 + 4 * cc
            extension == Has(d[1], 16)
            body == IF extension THEN fixed + 4 + 4 * getU16(d, fixed + 2) ELSE fixed
            padding == Has(d[1], 32)
            pad == IF padding THEN d[len] ELSE 0
            payload == Bytes(d, body, len - pad)
<1>1. len \in Nat /\ \A i \in 1 .. len : d[i] \in Nat
  OBVIOUS
<1>2. ~(\/ len < 12
        \/ d[1] \div 64 # 2
        \/ len < fixed
        \/ extension /\ (len < fixed + 4 \/ len < body)
        \/ padding /\ (len <= body \/ pad = 0 \/ pad > len - body))
  BY DEF parse
<1>3. parse(d).payload = payload
  BY <1>2 DEF parse
<1>. HIDE DEF len, payload
<1>4. cc \in Nat /\ fixed \in Nat /\ fixed >= 12 /\ fixed <= len
  <2>1. d[1] \in Nat
    BY <1>1, <1>2
  <2>2. cc \in Nat
    BY <2>1
  <2>. HIDE DEF cc
  <2>. QED
    BY <1>1, <1>2, <2>2
<1>. HIDE DEF cc, fixed
<1>5. body \in Nat /\ body >= 12
  <2>1. CASE extension
    <3>. DEFINE w == getU16(d, fixed + 2)
    <3>1. fixed + 3 \in 1 .. len /\ fixed + 4 \in 1 .. len
      BY <1>1, <1>2, <1>4, <2>1
    <3>2. d[fixed + 3] \in Nat /\ d[fixed + 4] \in Nat
      BY <1>1, <3>1
    <3>3. (fixed + 2) + 1 = fixed + 3 /\ (fixed + 2) + 2 = fixed + 4
      BY <1>4
    <3>4. w \in Nat
      <4>. DEFINE hi == d[fixed + 3]
                  lo == d[fixed + 4]
      <4>1. w = 256 * hi + lo
        BY <3>3 DEF getU16
      <4>2. hi \in Nat /\ lo \in Nat
        BY <3>2
      <4>. HIDE DEF w, hi, lo
      <4>. QED
        BY <4>1, <4>2
    <3>5. body = fixed + 4 + 4 * w
      BY <2>1
    <3>. HIDE DEF w, body
    <3>. QED
      BY <1>4, <3>4, <3>5
  <2>2. CASE ~extension
    BY <1>4, <2>2
  <2>. QED
    BY <2>1, <2>2
<1>6. pad \in Nat
  <2>1. len \in 1 .. len
    BY <1>1, <1>2
  <2>. QED
    BY <1>1, <2>1
<1>. HIDE DEF extension, body, padding, pad
<1>7. Len(payload) <= len - 12
  <2>. DEFINE x == body + 1
              y == len - pad
  <2>1. x \in Int /\ y \in Int
    BY <1>1, <1>5, <1>6
  <2>0. payload = SubSeq(d, x, y)
    BY DEF payload, Bytes
  <2>2. CASE x <= y
    <3>1. \A i \in x .. y : d[i] \in Nat
      <4>1. ASSUME NEW i \in x .. y PROVE i \in 1 .. len
        BY <1>1, <1>5, <1>6
      <4>. QED
        BY <1>1, <4>1
    <3>. HIDE DEF x, y
    <3>2. Len(SubSeq(d, x, y)) = IF x <= y THEN y - x + 1 ELSE 0
      BY <2>1, <3>1, SubSeqProperties
    <3>3. Len(payload) = y - x + 1
      BY <2>0, <2>2, <3>2
    <3>. QED
      BY <1>1, <1>5, <1>6, <3>3 DEF x, y
  <2>3. CASE ~(x <= y)
    <3>1. \A i \in x .. y : d[i] \in Nat
      BY <2>1, <2>3
    <3>. HIDE DEF x, y
    <3>2. Len(SubSeq(d, x, y)) = IF x <= y THEN y - x + 1 ELSE 0
      BY <2>1, <3>1, SubSeqProperties
    <3>3. Len(payload) = 0
      BY <2>0, <2>3, <3>2
    <3>. QED
      BY <1>1, <1>2, <3>3
  <2>. QED
    BY <2>2, <2>3
<1>. QED
  BY <1>3, <1>7 DEF len

\* Twelve bytes of header, c after them, and s.
Laid(d, b, mark, seq, t, ssrc, c, s) ==
    /\ d \in Seq(Nat) /\ Len(d) = 12 + Len(c) + Len(s)
    /\ d[1] = b /\ d[2] = mark
    /\ d[3] = seq \div 256 /\ d[4] = seq % 256
    /\ d[5] = t[1] \div 256 /\ d[6] = t[1] % 256
    /\ d[7] = t[2] \div 256 /\ d[8] = t[2] % 256
    /\ d[9] = ssrc[1] \div 256 /\ d[10] = ssrc[1] % 256
    /\ d[11] = ssrc[2] \div 256 /\ d[12] = ssrc[2] % 256
    /\ \A i \in 1 .. Len(c) : d[12 + i] = c[i]
    /\ \A i \in 1 .. Len(s) : d[12 + Len(c) + i] = s[i]

\* The high byte of v and its low byte.
TwoBytes(p, v) ==
    p \in Seq(Nat) /\ Len(p) = 2 /\ p[1] = v \div 256 /\ p[2] = v % 256

\* Sixteen bits are two bytes.
LEMMA PairOfBytes ==
    ASSUME NEW v \in Nat
    PROVE  TwoBytes(putU16(v), v)
<1>1. v \div 256 \in Nat /\ v % 256 \in Nat
  BY Z3
<1>. DEFINE a == v \div 256
            b == v % 256
<1>2. a \in Nat /\ b \in Nat
  BY <1>1
<1>3. putU16(v) = <<a, b>>
  BY DEF putU16
<1>. HIDE DEF a, b
<1>4. putU16(v) \in Seq(Nat) /\ Len(putU16(v)) = 2 /\ putU16(v)[1] = a /\ putU16(v)[2] = b
  BY <1>2, <1>3
<1>. QED
  BY <1>4 DEF TwoBytes, a, b

\* The bytes of the two halves of v.
FourOf(p, v) ==
    /\ p \in Seq(Nat) /\ Len(p) = 4
    /\ p[1] = v[1] \div 256 /\ p[2] = v[1] % 256
    /\ p[3] = v[2] \div 256 /\ p[4] = v[2] % 256

\* A pair of halves is four bytes.
LEMMA FourBytes ==
    ASSUME NEW v, v[1] \in Nat, v[2] \in Nat
    PROVE  FourOf(putU32(v), v)
<1>. DEFINE a == putU16(v[1])
            b == putU16(v[2])
            x == v[1]
            y == v[2]
<1>1. /\ a \in Seq(Nat) /\ Len(a) = 2 /\ a[1] = x \div 256 /\ a[2] = x % 256
      /\ b \in Seq(Nat) /\ Len(b) = 2 /\ b[1] = y \div 256 /\ b[2] = y % 256
  <2>1. x \in Nat /\ y \in Nat /\ a = putU16(x) /\ b = putU16(y)
    OBVIOUS
  <2>. HIDE DEF a, b, x, y
  <2>2. TwoBytes(a, x) /\ TwoBytes(b, y)
    BY <2>1, PairOfBytes
  <2>. QED
    BY <2>2 DEF TwoBytes
<1>2. putU32(v) = a \o b
  BY DEF putU32
<1>. HIDE DEF a, b
<1>3. a \o b \in Seq(Nat) /\ Extended(a, b, a \o b)
  BY <1>1, Extending
<1>. DEFINE c == a \o b
<1>4. c \in Seq(Nat) /\ Extended(a, b, c) /\ putU32(v) = c
  BY <1>2, <1>3
<1>. HIDE DEF c, x, y
<1>5. /\ Len(c) = 4 /\ c[1] = a[1] /\ c[2] = a[2] /\ c[3] = b[1] /\ c[4] = b[2]
  <2>1. /\ Len(c) = Len(a) + Len(b)
        /\ \A i \in 1 .. Len(a) : c[i] = a[i]
        /\ \A i \in 1 .. Len(b) : c[Len(a) + i] = b[i]
    BY <1>4 DEF Extended
  <2>2. /\ Len(c) = 4
        /\ \A i \in 1 .. 2 : c[i] = a[i]
        /\ \A i \in 1 .. 2 : c[2 + i] = b[i]
    BY <1>1, <2>1
  <2>3. 1 \in 1 .. 2 /\ 2 \in 1 .. 2 /\ 2 + 1 = 3 /\ 2 + 2 = 4
    OBVIOUS
  <2>. QED
    BY <2>2, <2>3
<1>. QED
  BY <1>1, <1>4, <1>5 DEF FourOf, x, y

\* d is the parts of a packet, one behind the other.
Strung(d, b, mark, seq, t, ssrc, c, s) ==
    d = <<b, mark>> \o putU16(seq) \o putU32(t) \o putU32(ssrc) \o c \o s

\* Where the fields of a packet are.
LEMMA LaidOut ==
    ASSUME NEW packet, NEW b \in Nat, NEW mark \in Nat, NEW seq \in Nat,
           NEW t, t[1] \in Nat, t[2] \in Nat,
           NEW ssrc, ssrc[1] \in Nat, ssrc[2] \in Nat, NEW c \in Seq(Nat), NEW s \in Seq(Nat),
           Strung(packet, b, mark, seq, t, ssrc, c, s)
    PROVE  Laid(packet, b, mark, seq, t, ssrc, c, s)
<1>. DEFINE p2 == <<b, mark>>
            n == putU16(seq)
            p4 == p2 \o n
            u == putU32(t)
            p8 == p4 \o u
            v == putU32(ssrc)
            p12 == p8 \o v
            pc == p12 \o c
            d == pc \o s
<1>0. packet = d
  BY DEF Strung
<1>1. p2 \in Seq(Nat) /\ Len(p2) = 2 /\ p2[1] = b /\ p2[2] = mark
  OBVIOUS
<1>2. /\ n \in Seq(Nat) /\ Len(n) = 2 /\ n[1] = seq \div 256 /\ n[2] = seq % 256
  <2>1. TwoBytes(n, seq)
    BY PairOfBytes
  <2>. QED
    BY <2>1 DEF TwoBytes
<1>3. /\ u \in Seq(Nat) /\ Len(u) = 4 /\ u[1] = t[1] \div 256 /\ u[2] = t[1] % 256
      /\ u[3] = t[2] \div 256 /\ u[4] = t[2] % 256
  <2>1. FourOf(u, t)
    BY FourBytes
  <2>. HIDE DEF u
  <2>. QED
    BY <2>1 DEF FourOf
<1>4. /\ v \in Seq(Nat) /\ Len(v) = 4 /\ v[1] = ssrc[1] \div 256 /\ v[2] = ssrc[1] % 256
      /\ v[3] = ssrc[2] \div 256 /\ v[4] = ssrc[2] % 256
  <2>1. FourOf(v, ssrc)
    BY FourBytes
  <2>. HIDE DEF v
  <2>. QED
    BY <2>1 DEF FourOf
<1>. HIDE DEF p2, n, u, v
<1>5. p4 \in Seq(Nat) /\ Extended(p2, n, p4)
  BY <1>1, <1>2, Extending
<1>. HIDE DEF p4
<1>6. p8 \in Seq(Nat) /\ Extended(p4, u, p8)
  BY <1>3, <1>5, Extending
<1>. HIDE DEF p8
<1>7. p12 \in Seq(Nat) /\ Extended(p8, v, p12)
  BY <1>4, <1>6, Extending
<1>. HIDE DEF p12
<1>8. pc \in Seq(Nat) /\ Extended(p12, c, pc)
  BY <1>7, Extending
<1>. HIDE DEF pc
<1>9. d \in Seq(Nat) /\ Extended(pc, s, d)
  BY <1>8, Extending
<1>. HIDE DEF d
<1>. DEFINE lc == Len(c)
            ls == Len(s)
<1>10. lc \in Nat /\ ls \in Nat
  OBVIOUS
<1>. HIDE DEF lc, ls
<1>11. /\ Len(p4) = 4
       /\ \A i \in 1 .. 2 : p4[i] = p2[i]
       /\ \A i \in 1 .. 2 : p4[2 + i] = n[i]
  BY <1>1, <1>2, <1>5 DEF Extended
<1>12. /\ Len(p8) = 8
       /\ \A i \in 1 .. 4 : p8[i] = p4[i]
       /\ \A i \in 1 .. 4 : p8[4 + i] = u[i]
  BY <1>3, <1>6, <1>11 DEF Extended
<1>13. /\ Len(p12) = 12
       /\ \A i \in 1 .. 8 : p12[i] = p8[i]
       /\ \A i \in 1 .. 4 : p12[8 + i] = v[i]
  BY <1>4, <1>7, <1>12 DEF Extended
<1>14. /\ Len(pc) = 12 + lc
       /\ \A i \in 1 .. 12 : pc[i] = p12[i]
       /\ \A i \in 1 .. lc : pc[12 + i] = c[i]
  BY <1>8, <1>13 DEF Extended, lc
<1>15. /\ Len(d) = Len(pc) + ls
       /\ \A i \in 1 .. Len(pc) : d[i] = pc[i]
       /\ \A i \in 1 .. ls : d[Len(pc) + i] = s[i]
  BY <1>9 DEF Extended, ls
<1>16. /\ Len(d) = 12 + lc + ls
       /\ \A i \in 1 .. 12 + lc : d[i] = pc[i]
       /\ \A i \in 1 .. ls : d[12 + lc + i] = s[i]
  BY <1>14, <1>15
<1>17. ASSUME NEW i \in 1 .. lc PROVE d[12 + i] = c[i]
  <2>1. 12 + i \in 1 .. 12 + lc
    BY <1>10
  <2>. QED
    BY <1>14, <1>16, <2>1
<1>18. \A i \in 1 .. 12 : d[i] = p12[i]
  <2>1. ASSUME NEW i \in 1 .. 12 PROVE d[i] = p12[i]
    <3>1. i \in 1 .. 12 + lc
      BY <1>10
    <3>. QED
      BY <1>14, <1>16, <3>1
  <2>. QED
    BY <2>1
<1>19. p4[1] = b /\ p4[2] = mark /\ p4[3] = n[1] /\ p4[4] = n[2]
  <2>1. 1 \in 1 .. 2 /\ 2 \in 1 .. 2 /\ 3 = 2 + 1 /\ 4 = 2 + 2
    OBVIOUS
  <2>. QED
    BY <1>1, <1>11, <2>1
<1>20. /\ p8[1] = b /\ p8[2] = mark /\ p8[3] = n[1] /\ p8[4] = n[2]
       /\ p8[5] = u[1] /\ p8[6] = u[2] /\ p8[7] = u[3] /\ p8[8] = u[4]
  <2>1. /\ 1 \in 1 .. 4 /\ 2 \in 1 .. 4 /\ 3 \in 1 .. 4 /\ 4 \in 1 .. 4
        /\ 5 = 4 + 1 /\ 6 = 4 + 2 /\ 7 = 4 + 3 /\ 8 = 4 + 4
    OBVIOUS
  <2>. QED
    BY <1>12, <1>19, <2>1
<1>21. /\ p12[1] = b /\ p12[2] = mark /\ p12[3] = n[1] /\ p12[4] = n[2]
       /\ p12[5] = u[1] /\ p12[6] = u[2] /\ p12[7] = u[3] /\ p12[8] = u[4]
       /\ p12[9] = v[1] /\ p12[10] = v[2] /\ p12[11] = v[3] /\ p12[12] = v[4]
  <2>1. /\ 1 \in 1 .. 4 /\ 2 \in 1 .. 4 /\ 3 \in 1 .. 4 /\ 4 \in 1 .. 4
        /\ 9 = 8 + 1 /\ 10 = 8 + 2 /\ 11 = 8 + 3 /\ 12 = 8 + 4
        /\ 1 \in 1 .. 8 /\ 2 \in 1 .. 8 /\ 3 \in 1 .. 8 /\ 4 \in 1 .. 8
        /\ 5 \in 1 .. 8 /\ 6 \in 1 .. 8 /\ 7 \in 1 .. 8 /\ 8 \in 1 .. 8
    OBVIOUS
  <2>2. /\ p12[9] = v[1] /\ p12[10] = v[2] /\ p12[11] = v[3] /\ p12[12] = v[4]
    BY <1>13, <2>1
  <2>3. \A i \in 1 .. 8 : p12[i] = p8[i]
    BY <1>13
  <2>. QED
    BY <1>20, <2>1, <2>2, <2>3
<1>22. /\ d[1] = b /\ d[2] = mark /\ d[3] = n[1] /\ d[4] = n[2]
       /\ d[5] = u[1] /\ d[6] = u[2] /\ d[7] = u[3] /\ d[8] = u[4]
       /\ d[9] = v[1] /\ d[10] = v[2] /\ d[11] = v[3] /\ d[12] = v[4]
  <2>1. /\ 1 \in 1 .. 12 /\ 2 \in 1 .. 12 /\ 3 \in 1 .. 12 /\ 4 \in 1 .. 12
        /\ 5 \in 1 .. 12 /\ 6 \in 1 .. 12 /\ 7 \in 1 .. 12 /\ 8 \in 1 .. 12
        /\ 9 \in 1 .. 12 /\ 10 \in 1 .. 12 /\ 11 \in 1 .. 12 /\ 12 \in 1 .. 12
    OBVIOUS
  <2>. QED
    BY <1>18, <1>21, <2>1
<1>23. Laid(d, b, mark, seq, t, ssrc, c, s)
  BY <1>2, <1>3, <1>4, <1>9, <1>16, <1>17, <1>22 DEF Laid, lc, ls
<1>. QED
  BY <1>0, <1>23

\* Four bytes for each contributing source.
Sources(csrcs) ==
    Joined([i \in 1 .. Min({15, Len(csrcs)}) |-> putU32(csrcs[i])])

\* The contributing sources are joined.
LEMMA SourcesAre ==
    ASSUME NEW cs, NEW n, n = Min({15, Len(cs)}), NEW parts,
           parts = [i \in 1 .. n |-> putU32(cs[i])]
    PROVE  Sources(cs) = Joined(parts)
BY DEF Sources

\* No source takes no byte.
LEMMA NoSources == Sources(<<>>) = <<>> /\ Min({15, Len(<<>>)}) = 0
<1>1. Len(<<>>) = 0
  OBVIOUS
<1>2. Min({15, 0}) = 0
  <2>1. \A x : (x \in {15, 0} /\ \A y \in {15, 0} : x <= y) <=> x = 0
    OBVIOUS
  <2>. QED
    BY <2>1 DEF Min
<1>. DEFINE parts == [i \in 1 .. 0 |-> putU32(<<>>[i])]
            g == CHOOSE h : Joins(h, parts, Len(parts))
<1>3. Len(parts) = 0
  <2>1. parts = [i \in 1 .. 0 |-> parts[i]]
    OBVIOUS
  <2>. HIDE DEF parts
  <2>. QED
    BY <2>1, SequenceOf
<1>4. Sources(<<>>) = g[Len(parts)]
  <2>1. 0 = Min({15, Len(<<>>)})
    BY <1>1, <1>2
  <2>2. Sources(<<>>) = Joined(parts)
    BY <2>1, SourcesAre
  <2>3. Joined(parts) = g[Len(parts)]
    <3>. HIDE DEF parts
    <3>. QED
      BY DEF Joined, Joins
  <2>. QED
    BY <2>2, <2>3
<1>. HIDE DEF parts
<1>5. Joins(g, parts, 0)
  <2>1. \E h : Joins(h, parts, 0)
    BY JoiningExists
  <2>. QED
    BY <1>3, <2>1
<1>. HIDE DEF g
<1>6. g[0] = <<>>
  <2>1. Joining(g, parts, 0, Nat)
    BY <1>5 DEF Joining
  <2>. QED
    BY <2>1, JoiningStart
<1>. QED
  BY <1>1, <1>2, <1>3, <1>4, <1>6

\* Two sources take eight bytes.
LEMMA TwoSources ==
    ASSUME NEW x, NEW y, x[1] \in Nat, x[2] \in Nat, y[1] \in Nat, y[2] \in Nat
    PROVE  /\ Sources(<<x, y>>) \in Seq(Nat) /\ Len(Sources(<<x, y>>)) = 8
           /\ Min({15, Len(<<x, y>>)}) = 2
<1>1. Len(<<x, y>>) = 2 /\ <<x, y>>[1] = x /\ <<x, y>>[2] = y
  OBVIOUS
<1>2. Min({15, 2}) = 2
  <2>1. \A z : (z \in {15, 2} /\ \A w \in {15, 2} : z <= w) <=> z = 2
    OBVIOUS
  <2>. QED
    BY <2>1 DEF Min
<1>. DEFINE parts == [i \in 1 .. 2 |-> putU32(<<x, y>>[i])]
            g == CHOOSE h : Joins(h, parts, Len(parts))
<1>3. Len(parts) = 2
  <2>1. parts = [i \in 1 .. 2 |-> parts[i]]
    OBVIOUS
  <2>. HIDE DEF parts
  <2>. QED
    BY <2>1, SequenceOf
<1>4. Sources(<<x, y>>) = g[Len(parts)]
  <2>1. 2 = Min({15, Len(<<x, y>>)})
    BY <1>1, <1>2
  <2>. DEFINE cs == <<x, y>>
  <2>2. 2 = Min({15, Len(cs)}) /\ parts = [i \in 1 .. 2 |-> putU32(cs[i])]
    BY <2>1
  <2>. HIDE DEF parts, cs
  <2>3. Sources(cs) = Joined(parts)
    BY <2>2, SourcesAre
  <2>4. Joined(parts) = g[Len(parts)]
    BY DEF Joined, Joins
  <2>. QED
    BY <2>3, <2>4 DEF cs
<1>5. ASSUME NEW i \in 1 .. 2 PROVE parts[i] \in Seq(Nat) /\ Len(parts[i]) = 4
  <2>1. putU32(x) \in Seq(Nat) /\ Len(putU32(x)) = 4
    BY FourBytes DEF FourOf
  <2>2. putU32(y) \in Seq(Nat) /\ Len(putU32(y)) = 4
    BY FourBytes DEF FourOf
  <2>3. parts[1] = putU32(x) /\ parts[2] = putU32(y) /\ (i = 1 \/ i = 2)
    BY <1>1
  <2>. QED
    BY <2>1, <2>2, <2>3
<1>. HIDE DEF parts
<1>6. Joins(g, parts, 2)
  <2>1. \E h : Joins(h, parts, 2)
    BY JoiningExists
  <2>. QED
    BY <1>3, <2>1
<1>. HIDE DEF g
<1>7. Joining(g, parts, 2, Nat)
  BY <1>5, <1>6 DEF Joining
<1>8. Len(g[0]) = 0
  BY <1>7, JoiningStart
<1>9. Extended(g[1 - 1], parts[1], g[1]) /\ Extended(g[2 - 1], parts[2], g[2])
  <2>1. 1 \in 1 .. 2 /\ 2 \in 1 .. 2
    OBVIOUS
  <2>. QED
    BY <1>7, <2>1, JoiningAdds
<1>10. Len(g[2]) = 8
  <2>0. 1 - 1 = 0 /\ 2 - 1 = 1
    OBVIOUS
  <2>1. Len(g[1]) = Len(g[0]) + Len(parts[1]) /\ Len(g[2]) = Len(g[1]) + Len(parts[2])
    BY <1>9, <2>0 DEF Extended
  <2>2. Len(parts[1]) = 4 /\ Len(parts[2]) = 4
    BY <1>5
  <2>. QED
    BY <1>8, <2>1, <2>2
<1>11. g[2] \in Seq(Nat)
  <2>1. 2 \in 0 .. 2
    OBVIOUS
  <2>. QED
    BY <1>7, <2>1, JoiningHolds
<1>. QED
  BY <1>1, <1>2, <1>3, <1>4, <1>10, <1>11

\* The parts that are written one behind the other.
Fields(p, b, mark, seq, t, ssrc, c, s) ==
    /\ b = 64 * p.version + Flag(p.padding, 32) + Flag(p.extension, 16)
           + Min({15, Len(p.csrcs)})
    /\ mark = (p.payloadType % 128) + Flag(p.marker, 128)
    /\ seq = p.sequenceNumber /\ t = p.timestamp /\ ssrc = p.ssrc
    /\ c = Sources(p.csrcs) /\ s = p.payload

\* serialize writes the fields one behind the other.
LEMMA SerializedAs ==
    ASSUME NEW p, NEW b, NEW mark, NEW seq, NEW t, NEW ssrc, NEW c, NEW s,
           Fields(p, b, mark, seq, t, ssrc, c, s)
    PROVE  Strung(serialize(p), b, mark, seq, t, ssrc, c, s)
BY DEF Fields, Strung, serialize, Sources

\* At that place of d is the number v of 16 bits.
Word(d, at, v) == d[at + 1] = v \div 256 /\ d[at + 2] = v % 256

\* A number of 16 bits is read as it was written.
LEMMA ReadsU16 ==
    ASSUME NEW d, NEW at, NEW v \in Nat, Word(d, at, v)
    PROVE  getU16(d, at) = v
<1>1. 256 * (v \div 256) + (v % 256) = v
  BY Z3
<1>. QED
  BY <1>1 DEF getU16, Word

\* So is one of 32 bits.
LEMMA ReadsU32 ==
    ASSUME NEW d, NEW at, NEW x \in Nat, NEW y \in Nat, Word(d, at, x), Word(d, at + 2, y)
    PROVE  getU32(d, at) = <<x, y>>
<1>1. getU16(d, at) = x /\ getU16(d, at + 2) = y
  BY ReadsU16
<1>. QED
  BY <1>1 DEF getU32

\* Behind x bytes of d comes s.
Behind(d, x, s) == \A i \in 1 .. Len(s) : d[x + i] = s[i]

\* A string is cut out where it was put.
LEMMA BytesAre ==
    ASSUME NEW d, NEW s \in Seq(Nat), NEW x \in Nat, NEW y, y = x + Len(s), Behind(d, x, s)
    PROVE  Bytes(d, x, y) = s
<1>. DEFINE n == Len(s)
            from == x + 1
            q == SubSeq(d, from, y)
<1>0. n \in Nat
  OBVIOUS
<1>1. \A i \in 1 .. n : d[x + i] = s[i] /\ s[i] \in Nat
  BY DEF Behind
<1>2. y = x + n /\ s = [i \in 1 .. n |-> s[i]]
  OBVIOUS
<1>3. Bytes(d, x, y) = q
  BY DEF Bytes
<1>. HIDE DEF n
<1>4. /\ from \in Int /\ y \in Int /\ y - from + 1 = n /\ (from <= y <=> n # 0)
      /\ \A i \in 1 .. n : from + i - 1 = x + i
      /\ \A i \in from .. y : i - x \in 1 .. n /\ x + (i - x) = i
  <2>1. from \in Int /\ y \in Int /\ y - from + 1 = n /\ (from <= y <=> n # 0)
    BY <1>0, <1>2
  <2>2. ASSUME NEW i \in 1 .. n PROVE from + i - 1 = x + i
    BY <1>0
  <2>3. ASSUME NEW i \in from .. y PROVE i - x \in 1 .. n /\ x + (i - x) = i
    BY <1>0, <1>2
  <2>. QED
    BY <2>1, <2>2, <2>3
<1>. HIDE DEF from
<1>5. \A i \in from .. y : d[i] \in Nat
  BY <1>1, <1>4
<1>6. /\ q \in Seq(Nat) /\ Len(q) = (IF from <= y THEN y - from + 1 ELSE 0)
      /\ \A i \in 1 .. y - from + 1 : q[i] = d[from + i - 1]
  BY <1>4, <1>5, SubSeqProperties
<1>. HIDE DEF q
<1>7. q \in Seq(Nat) /\ Len(q) = n
  BY <1>0, <1>4, <1>6
<1>8. ASSUME NEW i \in 1 .. n PROVE q[i] = s[i]
  <2>1. q[i] = d[from + i - 1] /\ from + i - 1 = x + i
    BY <1>4, <1>6
  <2>2. d[x + i] = s[i]
    BY <1>1
  <2>. QED
    BY <2>1, <2>2
<1>9. q = [i \in 1 .. n |-> q[i]]
  BY <1>7
<1>. QED
  BY <1>2, <1>3, <1>8, <1>9

\* The second byte of a packet.
Mark(type, marker) == (type % 128) + Flag(marker, 128)

\* The payload type and the marker share a byte.
LEMMA ReadsMark ==
    ASSUME NEW type \in 0 .. 127, NEW marker \in BOOLEAN
    PROVE  /\ Mark(type, marker) \in Nat /\ Mark(type, marker) % 128 = type
           /\ Has(Mark(type, marker), 128) <=> marker
<1>1. type % 128 = type /\ type \in Nat
  BY Z3
<1>2. CASE marker
  <2>1. Mark(type, marker) = type + 128
    BY <1>1, <1>2 DEF Mark, Flag
  <2>2. (type + 128) % 128 = type /\ ((type + 128) \div 128) % 2 = 1
    BY <1>1, Z3
  <2>3. type + 128 \in Nat
    BY <1>1
  <2>4. Has(type + 128, 128)
    BY <2>2 DEF Has
  <2>. QED
    BY <1>2, <2>1, <2>2, <2>3, <2>4
<1>3. CASE ~marker
  <2>1. Mark(type, marker) = type
    BY <1>1, <1>3 DEF Mark, Flag
  <2>2. (type \div 128) % 2 # 1
    <3>1. type \div 128 = 0
      BY Z3
    <3>. QED
      BY <3>1
  <2>. QED
    BY <1>1, <1>3, <2>1, <2>2 DEF Has
<1>. QED
  BY <1>2, <1>3

\* A packet of the sender.
Plain(marker, type, seq, t, ssrc, s) ==
    [version |-> 2, padding |-> FALSE, extension |-> FALSE, csrcs |-> <<>>,
     marker |-> marker, payloadType |-> type, sequenceNumber |-> seq,
     timestamp |-> t, ssrc |-> ssrc, payload |-> s]

IsPlain(p, marker, type, seq, x, y, z, w, s) ==
    p = Plain(marker, type, seq, <<x, y>>, <<z, w>>, s)

PlainBytes(d, marker, type, seq, x, y, z, w, s) ==
    Laid(d, 128, Mark(type, marker), seq, <<x, y>>, <<z, w>>, <<>>, s)

\* A packet of the sender's has twelve bytes of header and its payload.
LEMMA PlainIsLaid ==
    ASSUME NEW marker \in BOOLEAN, NEW type \in 0 .. 127, NEW seq \in Nat,
           NEW t, t[1] \in Nat, t[2] \in Nat, NEW ssrc, ssrc[1] \in Nat, ssrc[2] \in Nat,
           NEW s \in Seq(Nat)
    PROVE  Laid(serialize(Plain(marker, type, seq, t, ssrc, s)), 128, Mark(type, marker),
                seq, t, ssrc, <<>>, s)
<1>. DEFINE p == Plain(marker, type, seq, t, ssrc, s)
            mark == Mark(type, marker)
<1>1. /\ p.version = 2 /\ p.padding = FALSE /\ p.extension = FALSE /\ p.csrcs = <<>>
      /\ p.marker = marker /\ p.payloadType = type /\ p.sequenceNumber = seq
      /\ p.timestamp = t /\ p.ssrc = ssrc /\ p.payload = s
  BY DEF Plain
<1>. HIDE DEF p
<1>2. Sources(p.csrcs) = <<>> /\ Min({15, Len(p.csrcs)}) = 0
  BY <1>1, NoSources
<1>3. 128 = 64 * p.version + Flag(p.padding, 32) + Flag(p.extension, 16)
            + Min({15, Len(p.csrcs)})
  BY <1>1, <1>2 DEF Flag
<1>4. mark = (p.payloadType % 128) + Flag(p.marker, 128)
  BY <1>1 DEF Mark
<1>5. mark \in Nat
  BY ReadsMark
<1>. HIDE DEF mark
<1>. DEFINE e == <<>>
            b == 128
<1>6. Fields(p, b, mark, seq, t, ssrc, e, s)
  BY <1>1, <1>2, <1>3, <1>4 DEF Fields
<1>7. e \in Seq(Nat) /\ b \in Nat
  OBVIOUS
<1>. HIDE DEF e, b
<1>8. Strung(serialize(p), b, mark, seq, t, ssrc, e, s)
  BY <1>6, SerializedAs
<1>10. Laid(serialize(p), b, mark, seq, t, ssrc, e, s)
  BY <1>5, <1>7, <1>8, LaidOut
<1>. QED
  BY <1>10 DEF e, b, p, mark

\* Such bytes are read as that packet.
LEMMA ReadsPlain ==
    ASSUME NEW d, NEW marker \in BOOLEAN, NEW type \in 0 .. 127, NEW seq \in Nat,
           NEW x \in Nat, NEW y \in Nat, NEW z \in Nat, NEW w \in Nat, NEW s \in Seq(Nat),
           PlainBytes(d, marker, type, seq, x, y, z, w, s)
    PROVE  IsPlain(parse(d), marker, type, seq, x, y, z, w, s)
<1>. DEFINE mark == Mark(type, marker)
            n == Len(s)
<1>0. /\ <<x, y>>[1] = x /\ <<x, y>>[2] = y /\ <<z, w>>[1] = z /\ <<z, w>>[2] = w
      /\ Len(<<>>) = 0 /\ n \in Nat
  OBVIOUS
<1>1. /\ d \in Seq(Nat) /\ Len(d) = 12 + n
      /\ d[1] = 128 /\ d[2] = mark
      /\ d[3] = seq \div 256 /\ d[4] = seq % 256
      /\ d[5] = x \div 256 /\ d[6] = x % 256 /\ d[7] = y \div 256 /\ d[8] = y % 256
      /\ d[9] = z \div 256 /\ d[10] = z % 256 /\ d[11] = w \div 256 /\ d[12] = w % 256
      /\ \A i \in 1 .. n : d[12 + i] = s[i]
  <2>0. Laid(d, 128, mark, seq, <<x, y>>, <<z, w>>, <<>>, s)
    BY DEF PlainBytes
  <2>1. 12 + 0 + n = 12 + n /\ \A i \in 1 .. n : 12 + 0 + i = 12 + i
    BY <1>0
  <2>. HIDE DEF mark, n
  <2>2. /\ d \in Seq(Nat) /\ Len(d) = 12 + n /\ d[1] = 128 /\ d[2] = mark
    BY <1>0, <2>0, <2>1 DEF Laid, n
  <2>3. /\ d[3] = seq \div 256 /\ d[4] = seq % 256
        /\ d[5] = x \div 256 /\ d[6] = x % 256 /\ d[7] = y \div 256 /\ d[8] = y % 256
        /\ d[9] = z \div 256 /\ d[10] = z % 256 /\ d[11] = w \div 256 /\ d[12] = w % 256
    BY <1>0, <2>0 DEF Laid
  <2>4. \A i \in 1 .. n : d[12 + i] = s[i]
    BY <1>0, <2>0, <2>1 DEF Laid, n
  <2>. QED
    BY <2>2, <2>3, <2>4
<1>. HIDE DEF n
<1>2. mark % 128 = type /\ (Has(mark, 128) <=> marker)
  BY ReadsMark
<1>. HIDE DEF mark
<1>3. getU16(d, 2) = seq /\ getU32(d, 4) = <<x, y>> /\ getU32(d, 8) = <<z, w>>
  <2>1. /\ 2 + 1 = 3 /\ 2 + 2 = 4 /\ 4 + 1 = 5 /\ 4 + 2 = 6 /\ 6 + 1 = 7 /\ 6 + 2 = 8
        /\ 8 + 1 = 9 /\ 8 + 2 = 10 /\ 10 + 1 = 11 /\ 10 + 2 = 12
    OBVIOUS
  <2>2. /\ Word(d, 2, seq) /\ Word(d, 4, x) /\ Word(d, 4 + 2, y)
        /\ Word(d, 8, z) /\ Word(d, 8 + 2, w)
    BY <1>1, <2>1 DEF Word
  <2>. QED
    BY <2>2, ReadsU16, ReadsU32
<1>4. /\ d[1] % 16 = 0 /\ d[1] \div 64 = 2 /\ Has(d[1], 16) = FALSE /\ Has(d[1], 32) = FALSE
  <2>1. 128 % 16 = 0 /\ 128 \div 64 = 2 /\ (128 \div 16) % 2 = 0 /\ (128 \div 32) % 2 = 0
    BY Z3
  <2>. QED
    BY <1>1, <2>1 DEF Has
<1>5. ~(Len(d) < 12) /\ 12 + 4 * 0 = 12 /\ Len(d) - 0 = 12 + n
  BY <1>0, <1>1
<1>. DEFINE len == Len(d)
            cc == d[1] % 16
            fixed == 12 + 4 * cc
            extension == Has(d[1], 16)
            body == IF extension THEN fixed + 4 + 4 * getU16(d, fixed + 2) ELSE fixed
            padding == Has(d[1], 32)
            pad == IF padding THEN d[len] ELSE 0
<1>6. cc = 0 /\ fixed = 12 /\ body = 12 /\ pad = 0
  BY <1>4, <1>5
<1>7. ~(\/ len < 12
        \/ d[1] \div 64 # 2
        \/ len < fixed
        \/ extension /\ (len < fixed + 4 \/ len < body)
        \/ padding /\ (len <= body \/ pad = 0 \/ pad > len - body))
  BY <1>4, <1>5, <1>6
<1>8. parse(d) =
        [version |-> 2, padding |-> padding, extension |-> extension,
         marker |-> Has(d[2], 128), payloadType |-> d[2] % 128,
         sequenceNumber |-> getU16(d, 2), timestamp |-> getU32(d, 4),
         ssrc |-> getU32(d, 8),
         csrcs |-> [i \in 1 .. cc |-> getU32(d, 8 + 4 * i)],
         payload |-> Bytes(d, body, len - pad)]
  BY <1>7 DEF parse
<1>9. [i \in 1 .. cc |-> getU32(d, 8 + 4 * i)] = <<>>
  <2>. DEFINE f == [i \in 1 .. cc |-> getU32(d, 8 + 4 * i)]
  <2>1. f = [i \in 1 .. 0 |-> f[i]]
    BY <1>6
  <2>. HIDE DEF f
  <2>2. IsSequence(f) /\ Len(f) = 0
    BY <2>1, SequenceOf
  <2>3. f = <<>>
    BY <2>2 DEF IsSequence
  <2>. QED
    BY <2>3 DEF f
<1>10. Bytes(d, body, len - pad) = s
  <2>1. body = 12 /\ len - pad = 12 + Len(s)
    BY <1>5, <1>6 DEF n
  <2>2. Behind(d, 12, s)
    BY <1>1 DEF Behind, n
  <2>. DEFINE x0 == 12
              y0 == len - pad
  <2>3. x0 \in Nat /\ y0 = x0 + Len(s) /\ Behind(d, x0, s)
    BY <2>1, <2>2
  <2>. HIDE DEF x0, y0
  <2>4. Bytes(d, x0, y0) = s
    BY <2>3, BytesAre
  <2>. HIDE DEF body
  <2>. QED
    BY <2>1, <2>4 DEF x0, y0
<1>11. Has(d[2], 128) \in BOOLEAN /\ Has(d[2], 128) = marker
  <2>1. Has(d[2], 128) \in BOOLEAN
    BY DEF Has
  <2>. QED
    BY <1>1, <1>2, <2>1
<1>12. d[2] % 128 = type
  BY <1>1, <1>2
<1>. HIDE DEF len, cc, fixed, extension, body, padding, pad
<1>13. padding = FALSE /\ extension = FALSE
  BY <1>4 DEF padding, extension
<1>. QED
  BY <1>3, <1>8, <1>9, <1>10, <1>11, <1>12, <1>13 DEF Plain, IsPlain

\* The bytes of an extension of some words, of the payload and of padding.
Cover(words, s, pad) ==
    <<190, 222, 0, words>> \o [i \in 1 .. 4 * words |-> i] \o s \o [i \in 1 .. pad |-> pad]

Covered(x, words, s, pad) ==
    /\ x \in Seq(Nat) /\ Len(x) = 4 + 4 * words + Len(s) + pad
    /\ x[3] = 0 /\ x[4] = words
    /\ Behind(x, 4 + 4 * words, s)
    /\ pad > 0 => x[Len(x)] = pad

\* Where the parts of the cover are.
LEMMA CoverIs ==
    ASSUME NEW words \in Nat, NEW s \in Seq(Nat), NEW pad \in Nat
    PROVE  Covered(Cover(words, s, pad), words, s, pad)
<1>. DEFINE a == <<190, 222, 0, words>>
            e == [i \in 1 .. 4 * words |-> i]
            q == [i \in 1 .. pad |-> pad]
            ae == a \o e
            aes == ae \o s
            x == aes \o q
            w == 4 * words
            n == Len(s)
<1>1. a \in Seq(Nat) /\ Len(a) = 4 /\ a[3] = 0 /\ a[4] = words
  OBVIOUS
<1>2. w \in Nat /\ n \in Nat
  OBVIOUS
<1>3. e \in Seq(Nat) /\ Len(e) = w
  <2>1. e = [i \in 1 .. w |-> i]
    OBVIOUS
  <2>. HIDE DEF w
  <2>. QED
    BY <1>2, <2>1
<1>4. q \in Seq(Nat) /\ Len(q) = pad /\ \A i \in 1 .. pad : q[i] = pad
  OBVIOUS
<1>. HIDE DEF a, e, q
<1>5. ae \in Seq(Nat) /\ Extended(a, e, ae)
  BY <1>1, <1>3, Extending
<1>. HIDE DEF ae
<1>6. aes \in Seq(Nat) /\ Extended(ae, s, aes)
  BY <1>5, Extending
<1>. HIDE DEF aes
<1>7. x \in Seq(Nat) /\ Extended(aes, q, x)
  BY <1>4, <1>6, Extending
<1>. HIDE DEF x, w, n
<1>8. /\ Len(ae) = 4 + w
      /\ \A i \in 1 .. 4 : ae[i] = a[i]
  BY <1>1, <1>3, <1>5 DEF Extended
<1>9. /\ Len(aes) = 4 + w + n
      /\ \A i \in 1 .. 4 + w : aes[i] = ae[i]
      /\ \A i \in 1 .. n : aes[4 + w + i] = s[i]
  BY <1>6, <1>8 DEF Extended, n
<1>10. /\ Len(x) = 4 + w + n + pad
       /\ \A i \in 1 .. 4 + w + n : x[i] = aes[i]
       /\ \A i \in 1 .. pad : x[4 + w + n + i] = q[i]
  BY <1>4, <1>7, <1>9 DEF Extended
<1>11. x[3] = 0 /\ x[4] = words
  <2>1. /\ 3 \in 1 .. 4 /\ 4 \in 1 .. 4 /\ 3 \in 1 .. 4 + w /\ 4 \in 1 .. 4 + w
        /\ 3 \in 1 .. 4 + w + n /\ 4 \in 1 .. 4 + w + n
    BY <1>2
  <2>. QED
    BY <1>1, <1>8, <1>9, <1>10, <2>1
<1>12. ASSUME NEW i \in 1 .. n PROVE x[4 + w + i] = s[i]
  <2>1. 4 + w + i \in 1 .. 4 + w + n
    BY <1>2
  <2>. QED
    BY <1>9, <1>10, <2>1
<1>13. ASSUME pad > 0 PROVE x[Len(x)] = pad
  <2>1. pad \in 1 .. pad
    BY <1>13
  <2>. QED
    BY <1>4, <1>10, <2>1
<1>14. Covered(x, words, s, pad)
  <2>1. Behind(x, 4 + w, s)
    BY <1>12 DEF Behind, n
  <2>2. x \in Seq(Nat) /\ Len(x) = 4 + w + Len(s) + pad
    BY <1>7, <1>10 DEF n
  <2>. QED
    BY <1>11, <1>13, <2>1, <2>2 DEF Covered, w
<1>. QED
  BY <1>14 DEF Cover, x, aes, ae, a, e, q

\* What parse looks at in a dressed packet.
Dress(d, words, s, pad) ==
    /\ d \in Seq(Nat) /\ Len(d) = 24 + 4 * words + Len(s) + pad
    /\ d[1] = 146 + Flag(pad > 0, 32)
    /\ d[23] = 0 /\ d[24] = words
    /\ Behind(d, 24 + 4 * words, s)
    /\ pad > 0 => d[Len(d)] = pad

\* Where they are in the packet.
LEMMA LaidDress ==
    ASSUME NEW d, NEW mark, NEW seq, NEW t, NEW ssrc, NEW c, Len(c) = 8, NEW x,
           NEW words \in Nat, NEW s \in Seq(Nat), NEW pad \in Nat,
           Covered(x, words, s, pad),
           Laid(d, 146 + Flag(pad > 0, 32), mark, seq, t, ssrc, c, x)
    PROVE  Dress(d, words, s, pad)
<1>. DEFINE b == 146 + Flag(pad > 0, 32)
            w == 4 * words
            n == Len(s)
<1>1. w \in Nat /\ n \in Nat
  OBVIOUS
<1>2. /\ d \in Seq(Nat) /\ d[1] = b /\ Len(d) = 12 + Len(c) + Len(x)
      /\ \A i \in 1 .. Len(x) : d[12 + Len(c) + i] = x[i]
  BY DEF Laid
<1>. HIDE DEF b, w, n
<1>3. /\ Len(x) = 4 + w + n + pad /\ x[3] = 0 /\ x[4] = words
      /\ \A i \in 1 .. n : x[4 + w + i] = s[i]
      /\ pad > 0 => x[Len(x)] = pad
  BY DEF Covered, Behind, w, n
<1>4. Len(d) = 24 + w + n + pad
  BY <1>1, <1>2, <1>3
<1>5. \A i \in 1 .. Len(x) : d[20 + i] = x[i]
  BY <1>2
<1>6. d[23] = 0 /\ d[24] = words
  <2>1. 3 \in 1 .. Len(x) /\ 4 \in 1 .. Len(x) /\ 20 + 3 = 23 /\ 20 + 4 = 24
    BY <1>1, <1>3
  <2>. QED
    BY <1>3, <1>5, <2>1
<1>7. ASSUME NEW i \in 1 .. n PROVE d[24 + w + i] = s[i]
  <2>1. 4 + w + i \in 1 .. Len(x) /\ 20 + (4 + w + i) = 24 + w + i
    BY <1>1, <1>3
  <2>2. d[20 + (4 + w + i)] = x[4 + w + i]
    BY <1>5, <2>1
  <2>. QED
    BY <1>3, <2>1, <2>2
<1>8. ASSUME pad > 0 PROVE d[Len(d)] = pad
  <2>1. Len(x) \in 1 .. Len(x) /\ 20 + Len(x) = Len(d)
    BY <1>1, <1>3, <1>4, <1>8
  <2>. QED
    BY <1>3, <1>5, <1>8, <2>1
<1>9. Behind(d, 24 + w, s)
  BY <1>7 DEF Behind, n
<1>. QED
  BY <1>2, <1>4, <1>6, <1>8, <1>9 DEF Dress, b, w, n

\* The payload is found behind the sources and the extension, without the padding.
LEMMA ReadsDress ==
    ASSUME NEW d, NEW words \in Nat, NEW s \in Seq(Nat), NEW pad \in Nat,
           Dress(d, words, s, pad)
    PROVE  parse(d) # Failed /\ parse(d).payload = s
<1>. DEFINE len == Len(d)
            cc == d[1] % 16
            fixed == 12 + 4 * cc
            extension == Has(d[1], 16)
            body == IF extension THEN fixed + 4 + 4 * getU16(d, fixed + 2) ELSE fixed
            padding == Has(d[1], 32)
            pad0 == IF padding THEN d[len] ELSE 0
            n == Len(s)
            w == 4 * words
<1>0. n \in Nat /\ w \in Nat
  OBVIOUS
<1>1. /\ d \in Seq(Nat) /\ len = 24 + w + n + pad
      /\ d[1] = 146 + Flag(pad > 0, 32)
      /\ d[23] = 0 /\ d[24] = words /\ (pad > 0 => d[len] = pad)
      /\ Behind(d, 24 + w, s)
  BY DEF Dress
<1>2. /\ cc = 2 /\ extension = TRUE /\ d[1] \div 64 = 2
      /\ padding = (pad > 0)
  <2>1. CASE pad > 0
    <3>1. d[1] = 178
      BY <1>1, <2>1 DEF Flag
    <3>2. 178 % 16 = 2 /\ 178 \div 64 = 2 /\ (178 \div 16) % 2 = 1 /\ (178 \div 32) % 2 = 1
      BY Z3
    <3>. QED
      BY <2>1, <3>1, <3>2 DEF Has
  <2>2. CASE ~(pad > 0)
    <3>1. d[1] = 146
      BY <1>1, <2>2 DEF Flag
    <3>2. 146 % 16 = 2 /\ 146 \div 64 = 2 /\ (146 \div 16) % 2 = 1 /\ (146 \div 32) % 2 = 0
      BY Z3
    <3>. QED
      BY <2>2, <3>1, <3>2 DEF Has
  <2>. QED
    BY <2>1, <2>2
<1>3. fixed = 20
  <2>. HIDE DEF cc
  <2>. QED
    BY <1>2
<1>4. getU16(d, fixed + 2) = words
  <2>1. getU16(d, 22) = 256 * d[22 + 1] + d[22 + 2]
    BY DEF getU16
  <2>2. 22 + 1 = 23 /\ 22 + 2 = 24 /\ 20 + 2 = 22
    OBVIOUS
  <2>3. getU16(d, 22) = 256 * 0 + words
    BY <1>1, <2>1, <2>2
  <2>. HIDE DEF fixed
  <2>. QED
    BY <1>3, <2>2, <2>3
<1>5. body = 24 + w
  <2>. DEFINE g == getU16(d, fixed + 2)
  <2>1. g = words
    BY <1>4
  <2>2. body = IF extension THEN fixed + 4 + 4 * g ELSE fixed
    OBVIOUS
  <2>. HIDE DEF g, body, extension, fixed
  <2>. QED
    BY <1>2, <1>3, <2>1, <2>2
<1>6. pad0 = pad
  <2>. HIDE DEF padding
  <2>1. CASE pad > 0
    BY <1>1, <1>2, <2>1
  <2>2. CASE ~(pad > 0)
    <3>1. pad = 0
      BY <2>2
    <3>2. ~padding
      BY <1>2, <2>2
    <3>. QED
      BY <3>1, <3>2
  <2>. QED
    BY <2>1, <2>2
<1>7. ~(\/ len < 12
        \/ d[1] \div 64 # 2
        \/ len < fixed
        \/ extension /\ (len < fixed + 4 \/ len < body)
        \/ padding /\ (len <= body \/ pad0 = 0 \/ pad0 > len - body))
  <2>1. padding <=> pad > 0
    BY <1>2
  <2>. HIDE DEF len, fixed, extension, body, padding, pad0, w, n
  <2>2. ~(len < 12) /\ ~(len < fixed) /\ ~(len < fixed + 4) /\ ~(len < body)
    BY <1>0, <1>1, <1>3, <1>5
  <2>3. ASSUME pad > 0 PROVE ~(len <= body \/ pad0 = 0 \/ pad0 > len - body)
    BY <1>0, <1>1, <1>5, <1>6, <2>3
  <2>. QED
    BY <1>2, <2>1, <2>2, <2>3
<1>8. parse(d) # Failed
  <2>. DEFINE r ==
        [version |-> 2, padding |-> padding, extension |-> extension,
         marker |-> Has(d[2], 128), payloadType |-> d[2] % 128,
         sequenceNumber |-> getU16(d, 2), timestamp |-> getU32(d, 4),
         ssrc |-> getU32(d, 8),
         csrcs |-> [i \in 1 .. cc |-> getU32(d, 8 + 4 * i)],
         payload |-> Bytes(d, body, len - pad0)]
  <2>1. parse(d) = r
    BY <1>7 DEF parse
  <2>2. DOMAIN r # DOMAIN Failed
    <3>1. "version" \in DOMAIN r /\ "version" \notin DOMAIN Failed
      BY DEF Failed
    <3>. QED
      BY <3>1
  <2>. QED
    BY <2>1, <2>2
<1>9. parse(d).payload = Bytes(d, body, len - pad0)
  BY <1>7 DEF parse
<1>10. Bytes(d, body, len - pad0) = s
  <2>. DEFINE y == len - pad0
  <2>. HIDE DEF len, body, pad0, w
  <2>1. body \in Nat /\ y = body + Len(s) /\ Behind(d, body, s)
    <3>. HIDE DEF n
    <3>1. y = body + n /\ body \in Nat
      BY <1>0, <1>1, <1>5, <1>6
    <3>. QED
      BY <1>1, <1>5, <3>1 DEF n
  <2>. HIDE DEF y
  <2>2. Bytes(d, body, y) = s
    BY <2>1, BytesAre
  <2>. QED
    BY <2>2 DEF y
<1>. QED
  BY <1>8, <1>9, <1>10

\* A packet of the sample is one of the sender's.
LEMMA SampleIsPlain ==
    ASSUME NEW d \in Units, NEW p \in ToSet(Sample(d))
    PROVE  \E marker \in BOOLEAN, seq \in Nat, s \in Seq(Nat) :
              p = Plain(marker, 96, seq, <<1, 65535>>, <<258, 772>>, s)
<1>. DEFINE nals == findNalUnits(d)
            ps == Sample(d)
            m == Len(nals)
<1>1. Sendable(nals)
  BY UnitsAreSendable
<1>2. PICK g : Packed(g, nals) /\ Joined(Split(nals)) = g[m]
  <2>. HIDE DEF nals
  <2>. QED
    BY <1>1, PackedExists
<1>3. /\ g[m] \in Seq(Seq(Nat)) /\ Len(g[m]) \in Nat /\ IsSequence(ps) /\ Len(ps) = Len(g[m])
      /\ \A n \in 1 .. Len(g[m]) : ps[n] = SamplePacket(g[m][n], n, Len(g[m]))
  BY <1>2, SampleIs
<1>. DEFINE all == g[m]
<1>. HIDE DEF ps
<1>4. PICK n \in DOMAIN ps : p = ps[n]
  BY DEF ToSet, ps
<1>5. n \in 1 .. Len(ps)
  <2>1. ps \in Seq({ps[i] : i \in DOMAIN ps})
    BY <1>3 DEF IsSequence
  <2>. DEFINE T == {ps[i] : i \in DOMAIN ps}
  <2>. HIDE DEF T
  <2>2. DOMAIN ps = 1 .. Len(ps)
    BY <2>1 DEF T
  <2>. QED
    BY <1>4, <2>2
<1>6. all \in Seq(Seq(Nat)) /\ n \in 1 .. Len(all) /\ p = SamplePacket(all[n], n, Len(all))
  BY <1>3, <1>4, <1>5
<1>. HIDE DEF all
<1>7. all[n] \in Seq(Nat)
  BY <1>6
<1>8. U16(65534 + n - 1) \in Nat
  <2>1. n \in Nat
    BY <1>6
  <2>. DEFINE v == 65534 + n - 1
  <2>2. v \in Nat
    BY <2>1
  <2>. HIDE DEF v
  <2>3. U16(v) \in Nat
    BY <2>2, SMT DEF U16
  <2>. QED
    BY <2>3 DEF v
<1>. DEFINE marker == n = Len(all)
            seq == U16(65534 + n - 1)
            s == all[n]
<1>9. marker \in BOOLEAN /\ seq \in Nat /\ s \in Seq(Nat)
  BY <1>7, <1>8
<1>10. p = Plain(marker, 96, seq, <<1, 65535>>, <<258, 772>>, s)
  BY <1>6 DEF SamplePacket, Plain
<1>. HIDE DEF marker, seq, s
<1>. QED
  BY <1>9, <1>10

\* A packet of the sender's is read as it was written.
LEMMA PlainSurvives ==
    ASSUME NEW marker \in BOOLEAN, NEW type \in 0 .. 127, NEW seq \in Nat,
           NEW x \in Nat, NEW y \in Nat, NEW z \in Nat, NEW w \in Nat, NEW s \in Seq(Nat),
           NEW p, IsPlain(p, marker, type, seq, x, y, z, w, s)
    PROVE  parse(serialize(p)) = p
<1>. DEFINE t == <<x, y>>
            ssrc == <<z, w>>
            d == serialize(p)
<1>1. t[1] \in Nat /\ t[2] \in Nat /\ ssrc[1] \in Nat /\ ssrc[2] \in Nat
  OBVIOUS
<1>2. d = serialize(Plain(marker, type, seq, t, ssrc, s))
  BY DEF IsPlain
<1>. HIDE DEF t, ssrc, d
<1>3. Laid(d, 128, Mark(type, marker), seq, t, ssrc, <<>>, s)
  BY <1>1, <1>2, PlainIsLaid
<1>4. PlainBytes(d, marker, type, seq, x, y, z, w, s)
  BY <1>3 DEF PlainBytes, t, ssrc
<1>5. IsPlain(parse(d), marker, type, seq, x, y, z, w, s)
  BY <1>4, ReadsPlain
<1>. QED
  BY <1>5 DEF IsPlain, d

\* A dressed packet, byte by byte.
LEMMA DressedIsDress ==
    ASSUME NEW marker \in BOOLEAN, NEW type \in 0 .. 127, NEW seq \in Nat,
           NEW x \in Nat, NEW y \in Nat, NEW z \in Nat, NEW w \in Nat, NEW s \in Seq(Nat),
           NEW p, IsPlain(p, marker, type, seq, x, y, z, w, s),
           NEW words \in Nat, NEW pad \in Nat
    PROVE  Dress(Dressed(p, words, pad), words, s, pad)
<1>. DEFINE csrcs == <<<<1, 2>>, <<3, 4>>>>
            cover == Cover(words, s, pad)
            padded == pad > 0
            q == [p EXCEPT !.csrcs = csrcs, !.extension = TRUE, !.padding = padded,
                           !.payload = cover]
            b == 146 + Flag(pad > 0, 32)
            mark == Mark(type, marker)
            t == <<x, y>>
            ssrc == <<z, w>>
            c == Sources(csrcs)
            d == serialize(q)
<1>1. p.payload = s
  BY DEF IsPlain, Plain
<1>2. Dressed(p, words, pad) = d
  BY <1>1 DEF Dressed, Cover
<1>3. Covered(cover, words, s, pad)
  BY CoverIs
<1>4. /\ c \in Seq(Nat) /\ Len(c) = 8 /\ Min({15, Len(csrcs)}) = 2
  <2>1. <<1, 2>>[1] \in Nat /\ <<1, 2>>[2] \in Nat /\ <<3, 4>>[1] \in Nat /\ <<3, 4>>[2] \in Nat
    OBVIOUS
  <2>. DEFINE e == <<1, 2>>
              f == <<3, 4>>
  <2>2. e[1] \in Nat /\ e[2] \in Nat /\ f[1] \in Nat /\ f[2] \in Nat
    BY <2>1
  <2>. HIDE DEF e, f
  <2>3. /\ Sources(<<e, f>>) \in Seq(Nat) /\ Len(Sources(<<e, f>>)) = 8
        /\ Min({15, Len(<<e, f>>)}) = 2
    BY <2>2, TwoSources
  <2>. QED
    BY <2>3 DEF e, f
<1>5. mark \in Nat /\ b \in Nat
  <2>1. mark \in Nat
    BY ReadsMark
  <2>. QED
    BY <2>1 DEF Flag
<1>6. t[1] \in Nat /\ t[2] \in Nat /\ ssrc[1] \in Nat /\ ssrc[2] \in Nat
  OBVIOUS
<1>. HIDE DEF csrcs, cover, mark, t, ssrc, padded
<1>7. /\ q.version = 2 /\ q.padding = padded /\ q.extension = TRUE /\ q.csrcs = csrcs
      /\ q.marker = marker /\ q.payloadType = type /\ q.sequenceNumber = seq
      /\ q.timestamp = t /\ q.ssrc = ssrc /\ q.payload = cover
  <2>1. p = [version |-> 2, padding |-> FALSE, extension |-> FALSE, csrcs |-> <<>>,
             marker |-> marker, payloadType |-> type, sequenceNumber |-> seq,
             timestamp |-> t, ssrc |-> ssrc, payload |-> s]
    BY DEF IsPlain, Plain, t, ssrc
  <2>2. q = [p EXCEPT !.csrcs = csrcs, !.extension = TRUE, !.padding = padded,
                      !.payload = cover]
    OBVIOUS
  <2>. HIDE DEF q
  <2>. QED
    BY <2>1, <2>2
<1>. HIDE DEF q
<1>8. b = 64 * q.version + Flag(q.padding, 32) + Flag(q.extension, 16) + Min({15, Len(q.csrcs)})
  <2>1. Flag(q.padding, 32) = Flag(pad > 0, 32) /\ Flag(q.extension, 16) = 16
    BY <1>7 DEF Flag, padded
  <2>2. Flag(pad > 0, 32) \in Nat
    BY DEF Flag
  <2>3. Min({15, Len(q.csrcs)}) = 2
    BY <1>4, <1>7
  <2>. DEFINE v == Flag(pad > 0, 32)
  <2>4. v \in Nat /\ b = 146 + v /\ Flag(q.padding, 32) = v
    BY <2>1, <2>2
  <2>. HIDE DEF v, b
  <2>. QED
    BY <1>7, <2>1, <2>3, <2>4
<1>. HIDE DEF b, c
<1>9. Fields(q, b, mark, seq, t, ssrc, c, cover)
  BY <1>7, <1>8 DEF Fields, Mark, mark, c
<1>10. Strung(serialize(q), b, mark, seq, t, ssrc, c, cover)
  BY <1>9, SerializedAs
<1>11. cover \in Seq(Nat)
  BY <1>3 DEF Covered
<1>13. Laid(d, b, mark, seq, t, ssrc, c, cover)
  <2>1. Strung(d, b, mark, seq, t, ssrc, c, cover)
    BY <1>10
  <2>. HIDE DEF d
  <2>. QED
    BY <1>4, <1>5, <1>6, <1>11, <2>1, LaidOut
<1>. HIDE DEF d
<1>14. Laid(d, 146 + Flag(pad > 0, 32), mark, seq, t, ssrc, c, cover)
  BY <1>13 DEF b
<1>15. Dress(d, words, s, pad)
  BY <1>3, <1>4, <1>14, LaidDress
<1>. QED
  BY <1>2, <1>15

\* The payload of a dressed packet is found, and no cut of it is read beyond its end.
LEMMA DressedSurvives ==
    ASSUME NEW marker \in BOOLEAN, NEW type \in 0 .. 127, NEW seq \in Nat,
           NEW x \in Nat, NEW y \in Nat, NEW z \in Nat, NEW w \in Nat, NEW s \in Seq(Nat),
           NEW p, IsPlain(p, marker, type, seq, x, y, z, w, s),
           NEW words \in Nat, NEW pad \in Nat
    PROVE  LET dressed == Dressed(p, words, pad)
               cut(k) == parse(SubSeq(dressed, 1, k))
           IN  /\ parse(dressed).payload = p.payload
               /\ \A k \in 0 .. Len(dressed) - 1 :
                     cut(k) = Failed \/ Len(cut(k).payload) <= k - 12
<1>. DEFINE d == Dressed(p, words, pad)
<1>1. Dress(d, words, s, pad)
  BY DressedIsDress
<1>2. p.payload = s
  BY DEF IsPlain, Plain
<1>. HIDE DEF d
<1>3. parse(d).payload = p.payload
  BY <1>1, <1>2, ReadsDress
<1>4. d \in Seq(Nat)
  BY <1>1 DEF Dress
<1>5. ASSUME NEW k \in 0 .. Len(d) - 1
      PROVE  LET cut == parse(SubSeq(d, 1, k))
             IN  cut = Failed \/ Len(cut.payload) <= k - 12
  <2>. DEFINE e == SubSeq(d, 1, k)
              l == Len(d)
  <2>1. l \in Nat /\ k \in 0 .. l - 1 /\ \A i \in 1 .. l : d[i] \in Nat
    BY <1>4
  <2>. HIDE DEF l
  <2>2. /\ k \in Int /\ 1 \in Int /\ k - 1 + 1 = k /\ (1 <= k <=> k # 0)
        /\ \A i \in 1 .. k : i \in 1 .. l
    BY <2>1
  <2>3. \A i \in 1 .. k : d[i] \in Nat
    BY <2>1, <2>2
  <2>4. e \in Seq(Nat) /\ Len(e) = IF 1 <= k THEN k - 1 + 1 ELSE 0
    BY <2>2, <2>3, SubSeqProperties
  <2>. HIDE DEF e
  <2>5. Len(e) = k
    BY <2>2, <2>4
  <2>6. ASSUME parse(e) # Failed PROVE Len(parse(e).payload) <= Len(e) - 12
    BY <2>4, <2>6, ParseStaysInside
  <2>. QED
    BY <2>5, <2>6 DEF e
<1>. QED
  BY <1>3, <1>5 DEF d

\* Every packet of every unit is read as it was written.
LEMMA PacketsAlwaysParse == EveryPacketParses
<1>. SUFFICES ASSUME NEW d \in Units, NEW p \in ToSet(Sample(d))
              PROVE  /\ parse(serialize(p)) = p
                     /\ \A words, pad \in 0 .. 2 :
                           LET dressed == Dressed(p, words, pad)
                               cut(k) == parse(SubSeq(dressed, 1, k))
                           IN  /\ parse(dressed).payload = p.payload
                               /\ \A k \in 0 .. Len(dressed) - 1 :
                                     cut(k) = Failed \/ Len(cut(k).payload) <= k - 12
  BY DEF EveryPacketParses
<1>1. PICK marker \in BOOLEAN, seq \in Nat, s \in Seq(Nat) :
         p = Plain(marker, 96, seq, <<1, 65535>>, <<258, 772>>, s)
  BY SampleIsPlain
<1>. DEFINE type == 96
            x == 1
            y == 65535
            z == 258
            w == 772
<1>2. type \in 0 .. 127 /\ x \in Nat /\ y \in Nat /\ z \in Nat /\ w \in Nat
  OBVIOUS
<1>3. IsPlain(p, marker, type, seq, x, y, z, w, s)
  BY <1>1 DEF IsPlain
<1>. HIDE DEF type, x, y, z, w
<1>4. parse(serialize(p)) = p
  BY <1>2, <1>3, PlainSurvives
<1>5. ASSUME NEW words \in 0 .. 2, NEW pad \in 0 .. 2
      PROVE  LET dressed == Dressed(p, words, pad)
                 cut(k) == parse(SubSeq(dressed, 1, k))
             IN  /\ parse(dressed).payload = p.payload
                 /\ \A k \in 0 .. Len(dressed) - 1 :
                       cut(k) = Failed \/ Len(cut(k).payload) <= k - 12
  <2>1. words \in Nat /\ pad \in Nat
    OBVIOUS
  <2>. QED
    BY <1>2, <1>3, <2>1, DressedSurvives
<1>. QED
  BY <1>4, <1>5

\* Whatever units x264 makes and whatever a packet holds, the units come back
\* from the packets RTPHandler.cpp:95 makes of them, and a run of the packets of
\* a picture gives the units that are wholly in it and nothing else
\* (RTPHandler.cpp:151).  What serialize writes parse reads, and no packet that
\* was cut short makes parse read beyond its end (RtpPacket.h:57, :89).
THEOREM PacketsAlwaysSurvive == Spec => []PacketsSurvive
<1>1. PacketsSurvive
  BY UnitsAlwaysSurvive, PacketsAlwaysParse
     DEF PacketsSurvive, UnitsSurvive, DatagramsParse
<1>. QED
  BY <1>1, PTL
=============================================================================
