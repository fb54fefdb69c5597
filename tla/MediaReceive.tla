---------------------------- MODULE MediaReceive ----------------------------
(***************************************************************************)
(* The receiving half of a call (group_call.cpp): packets of every other   *)
(* participant, interleaved on one link, to the tiles of the window and    *)
(* the speaker.  Three threads share it:                                   *)
(*   - the agent's thread pushes packets (ReceiveRouter::pushPacket);      *)
(*   - the GUI thread's timer ticks: under the lock it reaps the streams   *)
(*     that have gone silent and takes what the jitter buffers are ready   *)
(*     to play; then, unlocked, it decodes, adds tiles, shows and removes; *)
(*   - the audio device pulls samples from the ring.                       *)
(*                                                                         *)
(* A stream is an SSRC and its frames are numbers.  The network may lose,  *)
(* repeat and delay frames for ever, so a stream that was reaped may come  *)
(* back.  Its jitter buffer is what JitterBuffer.tla is shown to implement *)
(* (FrameStream): it hands on some of what it holds, in order and each     *)
(* frame once.                                                             *)
(***************************************************************************)
EXTENDS Integers, FiniteSets, Sequences, SequencesExt, FiniteSetsExt, FrameQueue

CONSTANTS
    VideoSsrcs, AudioSsrcs,     \* numbers, in the order of the map streams_
    streamTimeout,              \* in ticks of the clock
    kMaxParticipants,           \* tiles of the window, the self view included
    kMaxRing, FrameSamples,     \* samples of the ring, and of an audio frame
    MaxFrames                   \* bound: the frames of each stream

Ssrcs == VideoSsrcs \cup AudioSsrcs
Self == 0

ASSUME MediaReceiveAssumption ==
    /\ Ssrcs \subseteq Nat \ {Self} /\ VideoSsrcs \cap AudioSsrcs = {}
    /\ kMaxParticipants \in 1 .. 8
    /\ streamTimeout \in Nat
    /\ MaxFrames \in [Ssrcs -> Nat]
    /\ kMaxRing \in Nat /\ FrameSamples \in 1 .. kMaxRing

VARIABLES
    streams,        \* streams_: a function on the SSRCs that are known
    ready,          \* of the tick in progress: what is still to be delivered of
                    \* which streams, each in the order of its numbers,
    removedVideo,   \* and the video streams it reaped
    tiles,          \* tiles_ of the window, by stream
    remoteTiles,    \* the streams that remoteTiles has a tile of
    ring,           \* ring_: the samples that wait for the device
    \* History.
    picture,        \* the number of the frame a tile was given last
    refused,        \* streams whose tile did not fit into the window
    recent          \* the last kMaxRing samples given to enqueue

router == <<streams, ready, removedVideo>>
window == <<tiles, remoteTiles, picture, refused>>
speaker == <<ring, recent>>
vars == <<router, window, speaker>>

-----------------------------------------------------------------------------
(* The transport's thread. *)

NewStream == [announced |-> FALSE, age |-> 0, queue |-> EmptyQueue]

Pushed(s, n) == [s EXCEPT !.age = 0, !.queue = Received(@, n)]

Known == DOMAIN streams

pushPacket(ssrc, n) ==
    /\ streams' = [s \in Known \cup {ssrc} |->
                    IF s # ssrc THEN streams[s]
                    ELSE Pushed(IF s \in Known THEN streams[s] ELSE NewStream, n)]
    /\ UNCHANGED <<ready, removedVideo, window, speaker>>

Clock ==
    /\ \E s \in Known : streams[s].age <= streamTimeout
    /\ streams' = [s \in Known |->
                    [streams[s] EXCEPT !.age = IF @ > streamTimeout THEN @ ELSE @ + 1]]
    /\ UNCHANGED <<ready, removedVideo, window, speaker>>

-----------------------------------------------------------------------------
(* tick *)

Pending == DOMAIN ready

Idle == Pending = {} /\ removedVideo = {}

Expired_announced(s) == streams[s].announced /\ streams[s].age > streamTimeout  \* slip
Expired(s) == streams[s].age > streamTimeout

\* What pop returns until it returns nothing are the frames taken.  One it gives
\* up behind them is as good as one it holds and never hands on.
Popped(s, taken) ==
    IF taken = {} THEN s
    ELSE [s EXCEPT !.queue = Past(@, Max(taken)), !.announced = TRUE]

Entry(s, taken) ==
    [announce |-> s \in VideoSsrcs /\ ~streams[s].announced, frames |-> taken]

\* slip: a stream is reaped after what it is ready to play is taken
Takings_reaped ==
    {taken \in [Known -> SUBSET UNION {streams[s].queue.held : s \in Known}] :
        \A s \in Known : taken[s] \subseteq streams[s].queue.held}

\* What the jitter buffers may be ready to play; those of expired streams are
\* not asked.
Takings ==
    {taken \in [Known -> SUBSET UNION {streams[s].queue.held : s \in Known}] :
        \A s \in Known : taken[s] \subseteq IF Expired(s) THEN {} ELSE streams[s].queue.held}

\* The locked phase.
BeginTick ==
    /\ Idle
    /\ \E taken \in Takings :
          /\ ready' = [s \in {t \in Known : taken[t] # {}} |-> Entry(s, taken[s])]
          /\ streams' = [s \in {t \in Known : ~Expired(t)} |-> Popped(streams[s], taken[s])]
    /\ removedVideo' =
          {s \in Known \cap VideoSsrcs : Expired(s) /\ streams[s].announced}
    /\ UNCHANGED <<window, speaker>>

\* streams_ is a map, so the streams come in the order of their numbers, ...
FrontStream == Min(Pending)

\* ... and the frames of each in the order in which pop returned them.
FrontFrame == Min(ready[FrontStream].frames)

\* The entry at the front when the frame at its front is done with.
Delivered ==
    /\ LET left == ready[FrontStream].frames \ {FrontFrame}
       IN  ready' = IF left = {} THEN [s \in Pending \ {FrontStream} |-> ready[s]]
                    ELSE [ready EXCEPT ![FrontStream].frames = left]
    /\ UNCHANGED <<streams, removedVideo>>

Full == Len(tiles) >= kMaxParticipants

\* MainWindow::addParticipant: the tile that is there, a new one, or none.
addParticipant(s) ==
    tiles' = IF s \in ToSet(tiles) \/ Full THEN tiles ELSE Append(tiles, s)

StreamAdded ==
    /\ Pending # {} /\ ready[FrontStream].announce
    /\ addParticipant(FrontStream)
    /\ IF FrontStream \in ToSet(tiles')
       THEN remoteTiles' = remoteTiles \cup {FrontStream} /\ UNCHANGED refused
       ELSE refused' = refused \cup {FrontStream} /\ UNCHANGED remoteTiles
    /\ ready' = [ready EXCEPT ![FrontStream].announce = FALSE]
    /\ UNCHANGED <<streams, removedVideo, picture, speaker>>

\* VideoDecoder::decode: the picture, or none because an earlier frame is
\* missing, FFmpeg refuses this one, its format is not ours or no buffer is left.
NoPicture == 0
decodeVideo(n) == {n, NoPicture}

\* onVideoFrame: VideoWidget::setFrame, if the stream has a tile.
VideoFrame ==
    /\ Pending # {} /\ ~ready[FrontStream].announce /\ FrontStream \in VideoSsrcs
    /\ Delivered
    /\ \E decoded \in decodeVideo(FrontFrame) :
          picture' = IF FrontStream \in remoteTiles /\ decoded # NoPicture
                     THEN [picture EXCEPT ![FrontStream] = decoded] ELSE picture
    /\ UNCHANGED <<tiles, remoteTiles, refused, speaker>>

Newest(samples, k) ==
    IF Len(samples) > k THEN SubSeq(samples, Len(samples) - k + 1, Len(samples)) ELSE samples

\* MacAudioPlayback::enqueue: the oldest samples make room for the new ones.
enqueue(samples) == Newest(ring, kMaxRing - Len(samples)) \o samples

\* AudioDecoder::decode: the samples of the frame, or none.
decodeAudio(n) == {[i \in 1 .. FrameSamples |-> <<n, i>>], <<>>}

AudioFrame ==
    /\ Pending # {} /\ FrontStream \in AudioSsrcs
    /\ Delivered
    /\ \E decoded \in decodeAudio(FrontFrame) :
          /\ ring' = enqueue(decoded)
          /\ recent' = Newest(recent \o decoded, kMaxRing)
    /\ UNCHANGED window

\* slip: the tile is not taken from the window
removeParticipant_kept(s) == UNCHANGED <<tiles, picture>>
removeParticipant(s) ==
    /\ \/ s \notin ToSet(tiles) /\ UNCHANGED tiles
       \/ \E i \in DOMAIN tiles : tiles[i] = s /\ tiles' = RemoveAt(tiles, i)
    /\ picture' = [picture EXCEPT ![s] = NoPicture]

StreamRemoved ==
    /\ Pending = {} /\ removedVideo # {}
    /\ LET s == Min(removedVideo)
       IN  /\ removeParticipant(s)
           /\ remoteTiles' = remoteTiles \ {s}
           /\ refused' = refused \ {s}
           /\ removedVideo' = removedVideo \ {s}
    /\ UNCHANGED <<streams, ready, speaker>>

-----------------------------------------------------------------------------
(* The audio device pulls `want` samples; what is not there is silence. *)

render(want) ==
    /\ ring # <<>>
    /\ ring' = SubSeq(ring, want + 1, Len(ring))
    /\ UNCHANGED <<router, window, recent>>

-----------------------------------------------------------------------------
(* MainWindow::relayout, for n tiles. *)

Rows(n) == IF n <= 2 THEN 1 ELSE 2
Cols(n) == IF n <= 1 THEN 1 ELSE IF n <= 4 THEN 2 ELSE IF n <= 6 THEN 3 ELSE 4
Cell(n, i) == <<(i - 1) \div Cols(n), (i - 1) % Cols(n)>>

-----------------------------------------------------------------------------
RouterInit == streams = <<>> /\ ready = <<>> /\ removedVideo = {}
WindowInit ==
    /\ tiles = <<Self>> /\ remoteTiles = {}
    /\ picture = [s \in VideoSsrcs |-> NoPicture] /\ refused = {}
SpeakerInit == ring = <<>> /\ recent = <<>>
Init == RouterInit /\ WindowInit /\ SpeakerInit

Tick ==
    \/ BeginTick \/ StreamAdded \/ VideoFrame \/ AudioFrame \/ StreamRemoved

Next ==
    \/ \E s \in Ssrcs : \E n \in 1 .. MaxFrames[s] : pushPacket(s, n)
    \/ Clock
    \/ Tick
    \/ \E want \in 1 .. kMaxRing : render(want)

\* The timer fires, the GUI thread runs on, and time passes.  Nobody has to
\* send, and the device need not pull.
Spec == Init /\ [][Next]_vars /\ WF_vars(Tick) /\ WF_vars(Clock)

-----------------------------------------------------------------------------
(* Properties. *)

TypeOK ==
    /\ Known \subseteq Ssrcs
    /\ \A s \in Known :
          streams[s] \in [announced : BOOLEAN, age : 0 .. streamTimeout + 1,
                          queue : [held : SUBSET (1 .. MaxFrames[s]),
                                   last : 0 .. MaxFrames[s]]]
    /\ Pending \subseteq Ssrcs
    /\ \A s \in Pending :
          ready[s] \in [announce : BOOLEAN, frames : (SUBSET (1 .. MaxFrames[s])) \ {{}}]
    /\ removedVideo \subseteq VideoSsrcs
    /\ tiles[1] = Self /\ IsInjective(tiles) /\ Len(tiles) <= kMaxParticipants
    /\ \A s \in VideoSsrcs : picture[s] \in 0 .. MaxFrames[s]

\* The decoders whose raw pointers the unlocked phase uses belong to streams
\* that are still there, whatever is pushed meanwhile (ReceiveRouter.cpp:65).
DecodersOutliveTick == Pending \subseteq Known

Announced ==
    {s \in Known \cap VideoSsrcs : streams[s].announced}
    \ {s \in Pending : ready[s].announce}

\* The window's tiles are those the frame callback looks up, and each belongs
\* to a stream that was announced or is about to be removed, never to both: a
\* stream that comes back in the tick that reaps it waits for its own
\* announcement, so that the removal takes the old tile and not the new one.
TilesAreStreams ==
    /\ ToSet(Tail(tiles)) = remoteTiles
    /\ remoteTiles \cup refused = Announced \cup removedVideo
    /\ remoteTiles \cap refused = {} /\ Announced \cap removedVideo = {}

\* A tile never shows a frame that is not newer than the one it shows, not
\* even when the stream was reaped and old packets of it arrive after that.
PictureAdvances ==
    [][\A s \in ToSet(tiles) \cap ToSet(tiles') \cap VideoSsrcs :
          picture'[s] # picture[s] => picture'[s] > picture[s]]_vars

\* "Cap latency: if the consumer fell behind, drop the oldest audio"
\* (MacAudio.mm:229): what waits is the newest of what was decoded, without a
\* hole, and never more than the ring may hold.
RingIsNewest == Len(ring) <= kMaxRing /\ ring = Newest(recent, Len(ring))

\* Whatever number of tiles the window comes to have, each gets a cell of its
\* own, in a grid without an empty row (MainWindow.cpp:117).
TilesHaveCells == \A n \in Len(tiles) .. 8 :
    LET cells == {Cell(n, i) : i \in 1 .. n}
    IN  /\ Cardinality(cells) = n
        /\ {cell[1] : cell \in cells} = 0 .. Rows(n) - 1
        /\ \A cell \in cells : cell[2] < Cols(n)

\* The receiver at every moment of a tick: decoders, window and ring are fit to
\* be used by the thread that will.
ReceiveInv == TypeOK /\ DecodersOutliveTick /\ RingIsNewest /\ TilesHaveCells

\* "A stream that receives no packet for streamTimeout is reaped"
\* (ReceiveRouter.h:15), with its tile, even if no frame of it was ever shown
\* and whatever the other streams do.
LeaversGo == \A s \in Ssrcs :
    (<>[][\A n \in 1 .. MaxFrames[s] : ~pushPacket(s, n)]_vars)
        => <>[](s \notin Known /\ s \notin remoteTiles)
=============================================================================
