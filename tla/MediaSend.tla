----------------------------- MODULE MediaSend ------------------------------
(***************************************************************************)
(* The sending half of a call (group_call.cpp): camera and microphone to   *)
(* packets on the link.  Four threads share it:                            *)
(*   - the camera's delivery queue runs captureOutput: a buffer of the     *)
(*     pool, the self view, the encoder, the packets, one send each;       *)
(*   - the microphone's tap re-chunks samples and encodes whole frames;    *)
(*   - the GUI thread paints the self view, flips the switches and, when   *)
(*     the user leaves, stops the devices;                                 *)
(*   - the agent's thread says when ICE is connected and records flow.     *)
(* The first and the last use locals of main, also when it has returned.   *)
(*                                                                         *)
(* A frame is its number, which is also its time.  Compressed pictures are *)
(* byte strings chosen by the model of x264 (external), so that packets    *)
(* are those of RtpFormat.  Devices that fail to open end the program at   *)
(* once and are left out, as is the conversion of pixels.                  *)
(***************************************************************************)
EXTENDS RtpFormat, FramePool, FiniteSets

CONSTANTS
    IdrUnit, SliceUnits,    \* access units x264 makes, in Annex-B form
    gopSize,                \* frames from one IDR to the next (VideoEncoder.cpp:60)
    need,                   \* samples of an audio frame (960 in the code)
    MaxFrames, MaxSamples,  \* bounds: frames delivered, samples tapped,
    MaxEvents               \* switches flipped, link changes and requests

ASSUME MediaSendAssumption ==
    /\ SliceUnits # {} /\ need \in Nat \ {0} /\ gopSize \in Nat \ {0}
    /\ Holders = {"frame", "pendingFrame", "painted"}
    /\ {IdrUnit} \cup SliceUnits \subseteq Seq(Nat)

\* x264 makes pictures and parameter sets, and every IDR picture with its sets:
\* no unit has a type that RTP keeps for itself (external).
ASSUME UnitsAssumption == \A d \in {IdrUnit} \cup SliceUnits :
    LET types == {NalType(nal[1]) : nal \in ToSet(findNalUnits(d))}
    IN  types # {} /\ FuA \notin types /\ ({5, 7, 8} \cap types # {} <=> d = IdrUnit)

\* A call has less than half of the times of RTP: six hours of frames.  What
\* is later means nothing beyond that.
ASSUME CallLengthAssumption ==
    /\ MaxFrames \in Nat /\ MaxFrames <= 715827
    /\ MaxSamples \in Nat /\ MaxSamples <= 2147483647

VARIABLES
    queue,          \* where the delivery thread is
    captured,       \* frames the camera has delivered
    cb,             \* the delegate's callback is set
    rtpEpoch,       \* the capture time of the first stamped frame, or none
    stamp,          \* the RTP time of the frame in hand
    videoReady,     \* the encoder is open
    sinceIdr,       \* frames x264 has made since its last IDR, or none
    forceKeyframe,  \* forceKeyframe_
    forced,         \* the picture type asked of x264 for the frame in hand
    packets,        \* the packets in hand that are still to be sent
    seqs,           \* seq_ of the two RTP handlers
    accum,          \* accum_: samples converted and not yet in a frame
    samplesEmitted, \* samplesEmitted_
    tap,            \* where the microphone's tap is, "removed" once stopped
    gui,            \* where the GUI thread is; "undefined" once what main
                    \* destroyed when it returned has been used
    hasPending,     \* hasPending_ of the self tile
    cameraOff, muted, iceConnected,
    events,         \* how many switches, link changes and requests there were
    \* History.
    wire,           \* the header of each stream's last packet given to the transport
    asked,          \* a keyframe was asked for and none was made since
    tapped,         \* samples the microphone has given
    sinceOff,       \* frames sent since the camera was switched off
    sinceMuted,     \* audio frames sent since the microphone was muted
    late            \* callbacks that began after the camera was stopped

camera == <<captured, cb, rtpEpoch, stamp>>
encoder == <<videoReady, sinceIdr, forceKeyframe, forced, asked>>
mic == <<accum, samplesEmitted, tap, tapped>>
switches == <<cameraOff, muted, iceConnected, events>>
sending == <<packets, seqs, wire>>
counts == <<sinceOff, sinceMuted, late>>
vars == <<pool, queue, camera, encoder, sending, mic, gui, hasPending, switches, counts>>

Audio == "audio"
Video == "video"
Ssrc(stream) == IF stream = Video THEN <<258, 772>> ELSE <<1, 515>>

\* MediaClock::toRtp, modulo 2^32: 3000 ticks from one frame to the next at 30 Hz.
toRtp(t, epoch, ticks) ==
    LET elapsed == (t - epoch) * ticks
    IN  <<U16(elapsed \div 65536), U16(elapsed)>>

\* main has not returned: the windows, flags and callbacks it owns exist.
InMain == gui \notin {"returned", "undefined"}

-----------------------------------------------------------------------------
(* The delivery queue. *)

\* captureOutput copies the callback under its lock.
Deliver ==
    /\ queue = "idle" /\ cb /\ captured < MaxFrames
    /\ queue' = "copied"
    /\ captured' = captured + 1
    /\ UNCHANGED <<pool, cb, rtpEpoch, stamp, encoder, sending, mic, gui, hasPending,
                   switches, counts>>

\* A frame without an image or beyond the pool's last buffer is dropped.
Unusable ==
    /\ queue = "copied"
    /\ queue' = "idle"
    /\ UNCHANGED <<pool, camera, encoder, sending, mic, gui, hasPending, switches, counts>>

\* slip: the time is that of the clock, not of the stream
Capture_absolute ==
    /\ queue = "copied" /\ acquire("frame")
    /\ queue' = "captured"
    /\ rtpEpoch' = captured
    /\ stamp' = toRtp(captured, rtpEpoch', 3000)
    /\ UNCHANGED <<captured, cb, encoder, sending, mic, gui, hasPending, switches, counts>>

Capture ==
    /\ queue = "copied" /\ acquire("frame")
    /\ queue' = "captured"
    /\ rtpEpoch' = IF rtpEpoch = none THEN captured ELSE rtpEpoch
    /\ stamp' = toRtp(captured, rtpEpoch', 3000)
    /\ UNCHANGED <<captured, cb, encoder, sending, mic, gui, hasPending, switches, counts>>

\* The frame has a format that is not converted, or it is done with.
Done ==
    /\ release("frame")
    /\ queue' = "idle"
    /\ UNCHANGED <<camera, encoder, mic, gui, hasPending, switches, counts>>

Unexpected == queue = "captured" /\ Done /\ UNCHANGED sending

\* onVideo: VideoWidget::setFrame on the self tile.
setFrame ==
    /\ queue = "captured" /\ copy("frame", "pendingFrame")
    /\ queue' = "shown"
    /\ hasPending' = TRUE
    /\ late' = late + Flag(gui = "left", 1)
    /\ UNCHANGED <<camera, encoder, sending, mic, gui, switches, sinceOff, sinceMuted>>

NotSent_cached == iceConnected = FALSE       \* slip: the switch is not looked at
NotSent == cameraOff \/ ~iceConnected

\* onVideo returns, or VideoEncoder::open or encode refuses the frame's size.
Skip ==
    /\ (queue = "shown" /\ (NotSent \/ ~videoReady)) \/ queue = "encoding"
    /\ Done
    /\ UNCHANGED sending

\* VideoEncoder::open
open == videoReady' = TRUE /\ sinceIdr' = none /\ forceKeyframe' = FALSE

\* onVideo goes on to pushVideoFrame; the first frame opens the encoder.
Encode ==
    /\ queue = "shown" /\ ~NotSent
    /\ queue' = "encoding"
    /\ IF videoReady THEN UNCHANGED <<videoReady, sinceIdr, forceKeyframe>> ELSE open
    /\ UNCHANGED <<pool, camera, forced, asked, sending, mic, gui, hasPending, switches,
                   counts>>

\* VideoEncoder::encode reads the flag ...
TestFlag ==
    /\ queue = "encoding"
    /\ queue' = IF forceKeyframe THEN "forcing" ELSE "prepared"
    /\ forced' = forceKeyframe
    /\ UNCHANGED <<pool, camera, videoReady, sinceIdr, forceKeyframe, asked, sending, mic,
                   gui, hasPending, switches, counts>>

\* slip: clears the flag of every frame once it is encoded
ClearFlag_always ==
    /\ queue \in {"forcing", "prepared"}
    /\ queue' = "prepared"
    /\ forceKeyframe' = FALSE
    /\ UNCHANGED <<pool, camera, videoReady, sinceIdr, forced, asked, sending, mic, gui,
                   hasPending, switches, counts>>

\* ... and clears it if it was set, some instructions later.
ClearFlag ==
    /\ queue = "forcing"
    /\ queue' = "prepared"
    /\ forceKeyframe' = FALSE
    /\ UNCHANGED <<pool, camera, videoReady, sinceIdr, forced, asked, sending, mic, gui,
                   hasPending, switches, counts>>

\* x264 refuses the frame: a keyframe asked of it is not made later.
EncodeFails ==
    /\ queue = "prepared" /\ release("frame")
    /\ queue' = "idle"
    /\ asked' = (asked /\ (forced => forceKeyframe)) /\ forced' = FALSE
    /\ UNCHANGED <<camera, videoReady, sinceIdr, forceKeyframe, sending, mic, gui,
                   hasPending, switches, counts>>

\* x264 (external): the first picture, a forced one and each gopSize-th is an
\* IDR; there are no pictures out of order and none is held back.
Idr == forced \/ sinceIdr \in {none, gopSize - 1}

Header(p) == [marker |-> p.marker, sequenceNumber |-> p.sequenceNumber,
              timestamp |-> p.timestamp]

Sent(stream, ps) == [seqs EXCEPT ![stream] = U16(@ + Len(ps))]

\* pushVideoFrame: the RTP handler makes the packets of the access unit.
Outgoing(d) == packetizeH264(d, Ssrc(Video), seqs[Video], stamp)

Compress ==
    /\ queue = "prepared"
    /\ queue' = "sending"
    /\ sinceIdr' = IF Idr THEN 0 ELSE sinceIdr + 1
    /\ asked' = (asked /\ ~Idr) /\ forced' = FALSE
    /\ \E d \in IF Idr THEN {IdrUnit} ELSE SliceUnits :
          packets' = Outgoing(d)
    /\ seqs' = Sent(Video, packets')
    /\ sinceOff' = sinceOff + Flag(cameraOff, 1)
    /\ UNCHANGED <<pool, camera, videoReady, forceKeyframe, wire, mic, gui,
                   hasPending, switches, sinceMuted, late>>

SendVideo_again ==                           \* slip: a refused packet is sent again
    /\ queue = "sending" /\ packets # <<>>
    /\ wire' = [wire EXCEPT ![Video] = Header(packets[1])]
    /\ UNCHANGED <<pool, queue, camera, encoder, packets, seqs, mic, gui, hasPending,
                   switches, counts>>

\* The sink: RtpTransport::send (RtpTransport.tla).
SendVideo ==
    /\ queue = "sending" /\ packets # <<>>
    /\ wire' = [wire EXCEPT ![Video] = Header(packets[1])]
    /\ packets' = Tail(packets)
    /\ UNCHANGED <<pool, queue, camera, encoder, seqs, mic, gui, hasPending, switches,
                   counts>>

FrameSent ==
    /\ queue = "sending" /\ packets = <<>> /\ Done
    /\ UNCHANGED sending

-----------------------------------------------------------------------------
(* The microphone's tap. *)

\* A buffer of samples is converted.
Tap(n) ==
    /\ tap = "idle" /\ accum < need /\ tapped + n <= MaxSamples
    /\ accum' = accum + n
    /\ tapped' = tapped + n
    /\ UNCHANGED <<pool, queue, camera, encoder, sending, samplesEmitted, tap, gui, hasPending,
                   switches, counts>>

Emitted ==
    /\ accum' = accum - need
    /\ samplesEmitted' = samplesEmitted + need

\* onConverted makes a frame (its own pool never runs out: frames do not
\* outlive the callback) and calls onAudio, which looks at the switches.
AudioFrame ==
    /\ tap = "idle" /\ accum >= need
    /\ IF muted \/ ~iceConnected THEN Emitted /\ UNCHANGED tap
       ELSE tap' = "heard" /\ UNCHANGED <<accum, samplesEmitted>>
    /\ UNCHANGED <<pool, queue, camera, encoder, sending, tapped, gui, hasPending, switches,
                   counts>>

OpusFrame == <<252>>

pushAudioFrame ==
    LET ps == packetizeOpus(OpusFrame, Ssrc(Audio), seqs[Audio], toRtp(samplesEmitted, 0, 1))
    IN  /\ tap = "heard" /\ Emitted
        /\ wire' = [wire EXCEPT ![Audio] = Header(ps[1])]
        /\ seqs' = Sent(Audio, ps)
        /\ sinceMuted' = sinceMuted + Flag(muted, 1)
        /\ tap' = "idle"
        /\ UNCHANGED <<pool, queue, camera, encoder, packets, tapped, gui, hasPending,
                       switches, sinceOff, late>>

\* The microphone is not mono at 48 kHz, or Opus refuses the frame.
AudioFails ==
    /\ tap = "heard" /\ Emitted
    /\ tap' = "idle"
    /\ UNCHANGED <<pool, queue, camera, encoder, sending, tapped, gui, hasPending, switches,
                   counts>>

-----------------------------------------------------------------------------
(* The GUI thread, and the agent's. *)

\* paintGL takes the pending frame under the lock; the tile keeps it.
Paint ==
    /\ gui = "call" /\ hasPending /\ copy("pendingFrame", "painted")
    /\ gui' = "painting"
    /\ hasPending' = FALSE
    /\ UNCHANGED <<queue, camera, encoder, sending, mic, switches, counts>>

\* The planes are uploaded, and the frame is let go.
Painted ==
    /\ gui = "painting" /\ release("painted")
    /\ gui' = "call"
    /\ UNCHANGED <<queue, camera, encoder, sending, mic, hasPending, switches, counts>>

\* The other things that happen to the shared flags.
Event ==
    /\ InMain /\ events < MaxEvents
    /\ events' = events + 1
    /\ UNCHANGED <<pool, queue, camera, videoReady, sinceIdr, forced, sending, mic, gui,
                   hasPending, late>>

toggleCamera ==
    /\ gui = "call" /\ Event
    /\ cameraOff' = ~cameraOff /\ sinceOff' = 0
    /\ UNCHANGED <<muted, iceConnected, forceKeyframe, asked, sinceMuted>>

toggleMute ==
    /\ gui = "call" /\ Event
    /\ muted' = ~muted /\ sinceMuted' = 0
    /\ UNCHANGED <<cameraOff, iceConnected, forceKeyframe, asked, sinceOff>>

onStateChanged ==
    /\ Event
    /\ iceConnected' = ~iceConnected
    /\ UNCHANGED <<cameraOff, muted, forceKeyframe, asked, sinceOff, sinceMuted>>

\* At any moment, which is more than happens: the encoder is driven by one
\* thread (VideoEncoder.h:18), and only tests ask, between two encodes.
requestKeyframe ==
    /\ Event
    /\ forceKeyframe' = TRUE /\ asked' = TRUE
    /\ UNCHANGED <<cameraOff, muted, iceConnected, sinceOff, sinceMuted>>

\* MacCapture::stop clears the callback under its lock ...
Leave ==
    /\ gui = "call"
    /\ gui' = "stopping"
    /\ cb' = FALSE
    /\ UNCHANGED <<pool, queue, captured, rtpEpoch, stamp, encoder, sending, mic, hasPending,
                   switches, counts>>

\* ... and ends the session, which does not wait for a delivery in progress
\* (external); then the microphone's tap is removed between two of its calls.
Left ==
    /\ gui = "stopping" /\ tap = "idle"
    /\ gui' = "left"
    /\ tap' = "removed"
    /\ UNCHANGED <<pool, queue, camera, encoder, sending, accum, samplesEmitted, tapped,
                   hasPending, switches, counts>>

\* main destroys its locals.  Only the end of the process stops the delivery
\* that is still in progress, and the agent, which its callbacks keep alive.
Return ==
    /\ gui = "left"
    /\ gui' = "returned"
    /\ UNCHANGED <<pool, queue, camera, encoder, sending, mic, hasPending, switches, counts>>

\* Either of them uses what it captured by reference: nothing is known of what
\* follows.
UseDestroyed ==
    /\ gui = "returned" /\ (queue # "idle" \/ events < MaxEvents)
    /\ gui' = "undefined"
    /\ UNCHANGED <<pool, queue, camera, encoder, sending, mic, hasPending, switches, counts>>

-----------------------------------------------------------------------------
CameraInit ==                                \* MacCapture::start
    queue = "idle" /\ captured = 0 /\ cb = TRUE /\ rtpEpoch = none /\ stamp = <<0, 0>>

EncoderInit ==
    videoReady = FALSE /\ sinceIdr = none /\ forceKeyframe = FALSE /\ forced = FALSE

MicInit ==                                   \* MacAudioCapture::start
    accum = 0 /\ samplesEmitted = 0 /\ tap = "idle" /\ tapped = 0

Init ==
    /\ PoolInit /\ CameraInit /\ EncoderInit /\ MicInit
    /\ packets = <<>>
    /\ seqs = [s \in {Video, Audio} |-> 0]
    /\ wire = [s \in {Video, Audio} |-> <<>>]
    /\ gui = "call" /\ hasPending = FALSE
    /\ cameraOff = FALSE /\ muted = FALSE /\ iceConnected = FALSE
    /\ events = 0
    /\ asked = FALSE /\ sinceOff = 0 /\ sinceMuted = 0 /\ late = 0

QueueStep ==
    /\ InMain
    /\ \/ Unusable \/ Capture \/ Unexpected \/ setFrame \/ Skip \/ Encode
       \/ TestFlag \/ ClearFlag \/ EncodeFails \/ Compress \/ SendVideo \/ FrameSent

TapStep == AudioFrame \/ pushAudioFrame \/ AudioFails

Next ==
    \/ Deliver \/ QueueStep
    \/ (\E n \in 1 .. need + 1 : Tap(n)) \/ TapStep
    \/ Paint \/ Painted \/ Leave \/ Left \/ Return \/ UseDestroyed
    \/ toggleCamera \/ toggleMute \/ onStateChanged \/ requestKeyframe

\* The threads run on, and the removal of the tap is not put off for ever by
\* calls of it.  Nobody has to deliver, tap, ask or leave, and main may take
\* any time to return.
Spec ==
    /\ Init /\ [][Next]_vars
    /\ WF_vars(QueueStep) /\ WF_vars(TapStep) /\ WF_vars(Paint \/ Painted) /\ SF_vars(Left)

-----------------------------------------------------------------------------
(* Properties. *)

TypeOK ==
    /\ PoolTypeOK
    /\ queue \in {"idle", "copied", "captured", "shown", "encoding", "forcing", "prepared",
                  "sending"}
    /\ queue \in {"idle", "copied"} <=> holder["frame"] = none
    /\ gui = "painting" <=> holder["painted"] # none
    /\ tap \in {"idle", "heard", "removed"}
    /\ gui \in {"call", "painting", "stopping", "left", "returned", "undefined"}
    /\ sinceIdr \in none .. gopSize - 1
    /\ accum \in 0 .. 2 * need
    /\ {cb, videoReady, forceKeyframe, forced, hasPending, cameraOff, muted, iceConnected,
        asked} \subseteq BOOLEAN

\* As a receiver compares times: less than half a circle from t to u.
Later(t, u) == t # u /\ U16(u[1] - t[1] - Flag(u[2] < t[2], 1)) < 32768

\* What each stream hands to the transport is what a jitter buffer needs: one
\* run of sequence numbers whatever fails or is skipped, and a time that is
\* that of the access unit until its marker and a later one from then on
\* (MacCapture.mm:116, RTPHandler.cpp:86).
StreamsInOrder ==
    [][\A s \in {Video, Audio} :
          wire'[s] # wire[s] /\ wire[s] # <<>> =>
              LET p == wire[s]
                  q == wire'[s]
              IN  /\ q.sequenceNumber = U16(p.sequenceNumber + 1)
                  /\ IF p.marker THEN Later(p.timestamp, q.timestamp)
                     ELSE p.timestamp = q.timestamp]_vars

\* "Request that the NEXT encode() emit an IDR" (VideoEncoder.h:67): whatever
\* frames are skipped and dropped and however late the encoder is opened, a
\* request is in the flag or in the picture that is being made, until an IDR is
\* made or x264 refuses it.
KeyframeFollows ==
    asked => forceKeyframe \/ sinceIdr = none \/ (forced /\ queue \in {"forcing", "prepared"})

\* Once the user has switched the camera off or muted the microphone, the one
\* frame that had passed the test may still be sent, and no more.
SwitchesObeyed == sinceOff <= 1 /\ sinceMuted <= 1

\* "Clear the callback first so no frame is delivered after stop returns"
\* (MacCapture.mm:307) is not so: the delivery that had copied it by then may
\* come after.  It is the only one.
StopIsFinal == late <= 1

\* A sample has the time at which it was captured, whatever was sent before
\* it: muted or failed frames leave no hole in the time of the others.
AudioKeepsTime == samplesEmitted + accum = tapped

Units == {IdrUnit} \cup SliceUnits

\* A unit's packets about a wrap of the sequence number; what the properties
\* below say of a unit depends on its bytes alone.
Sample(d) == packetizeH264(d, Ssrc(Video), 65534, <<1, 65535>>)

EveryUnitSurvives == \A d \in Units :
    LET nals == findNalUnits(d)
        ps == Sample(d)
        frame(i, j) == depacketize(SubSeq(ps, i, j))
    IN  /\ findNalUnits(frame(1, Len(ps)).payload) = nals
        /\ frame(1, Len(ps)).keyframe = (d = IdrUnit)
        /\ \A i, j \in 1 .. Len(ps) : i <= j /\ frame(i, j) # Failed =>
              \E a, b \in 1 .. Len(nals) :
                  findNalUnits(frame(i, j).payload) = SubSeq(nals, a, b)

\* A picture and its parameter sets come back from the packets as they were
\* made, and any run of the packets, as the jitter buffer hands them on, gives
\* whole NAL units of the picture or is refused (RTPHandler.cpp:151).
UnitsSurvive == queue = "sending" => EveryUnitSurvives

\* p as another sender may write it: with contributing sources, an extension
\* of some words and padding, none of which is the payload.
Dressed(p, words, pad) ==
    serialize([p EXCEPT
        !.csrcs = <<<<1, 2>>, <<3, 4>>>>, !.extension = TRUE, !.padding = pad > 0,
        !.payload = <<190, 222, 0, words>> \o [i \in 1 .. 4 * words |-> i] \o p.payload
                    \o [i \in 1 .. pad |-> pad]])

EveryPacketParses == \A d \in Units : \A p \in ToSet(Sample(d)) :
    /\ parse(serialize(p)) = p
    /\ \A words, pad \in 0 .. 2 :
          LET dressed == Dressed(p, words, pad)
              cut(k) == parse(SubSeq(dressed, 1, k))
          IN  /\ parse(dressed).payload = p.payload
              /\ \A k \in 0 .. Len(dressed) - 1 :
                    cut(k) = Failed \/ Len(cut(k).payload) <= k - 12

\* A datagram is read as it was written, the payload is found behind whatever
\* header comes before it, and one that is cut short is never read beyond its
\* end (RtpPacket.h:89).
DatagramsParse == queue = "sending" => EveryPacketParses

\* Pictures come through packets, and packets through datagrams.
PacketsSurvive == UnitsSurvive /\ DatagramsParse

\* The threads of a call agree on what is switched on and what time it is.
CallInv == TypeOK /\ SwitchesObeyed /\ StopIsFinal /\ AudioKeepsTime

\* When the user leaves, the devices stop and the delivery in progress ends, if
\* main leaves it the time before it returns.
CallEnds == gui = "stopping" ~> ~InMain \/ (gui = "left" /\ queue = "idle")
=============================================================================
