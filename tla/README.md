# Vela: a TLA+ verification project

Vela is a video-calling application in C++: a native client that captures,
encodes, sends, receives and plays audio and video, a signaling server, a
selective forwarding unit (SFU), and a browser client with a relay of its own.
This directory models the parts whose correctness depends on orderings that
tests rarely produce, checks them with TLC and proves, with TLAPS, the safety of
the two servers and of the streams to their clients, of a Room's policies, of the
signaling client, of the secured transport, of the jitter buffer, of the frame pool and
of both halves of a call. Paths below are relative to the repository.

    tlc -workers 2 -config MCSignaling.cfg MCSignaling.tla
    tlapm SignalingProofs.tla

## The system

| part | state it keeps | operations | talks to | what is hard about it | what makes it correct |
|---|---|---|---|---|---|
| **signaling server** `signaling-server/` | `rooms_`, `connRoom_`, `nextId_` | handlers open, message (join, leave, offer, answer, ice), close | its clients by WebSocket | two maps kept in sync by hand; raw socket pointers; moving between rooms; cap | maps agree, handles are open, everybody who stays is told of every change |
| **signaling client** `src/signaling/SignalingClient` | socket, receive thread, `connected_`, `stopping_`, `fd_`, `selfId_`, callbacks | connect, disconnect, send*, receive loop | a server; the call logic | three threads over one descriptor; a link lost while anything is under way; candidates found while the description is sent | the roster becomes the true one; candidates arrive; no callback after disconnect, which returns |
| **SFU server** `src/sfu/SFUServer` | `rooms_` under `mu_` | addParticipant, removeParticipant, routePacket, onRemb | Rooms by raw pointer | pointers used after the lock is released; reclaiming empty rooms | cap, no leak of rooms, no use of a destroyed room, no room destroyed in use |
| **SFU room** `src/sfu/Room`, `Participant` | participants, SSRCs, REMB estimates, targets | add, remove, forward, onRemb | participants' sinks, keyframe callback | callbacks after unlocking; derived targets | targets follow the present receivers, newcomers get a keyframe |
| **SFU process** `sfu-server/main.cpp` | per connection: `ClientState`, `alive`, `joinedSfu`; deferred functions | socket handlers, ICE callbacks | uWebSockets loop thread, libjuice thread, SFU server | callbacks of one thread deferred to the other, racing closings | no ghost participant, no send on a closed socket, registration not lost, closing ends |
| **jitter buffer** `src/network/JitterBuffer` | pending frames, `lastEmittedTs_` | push, pop, gaps | receive path, playout thread | loss, duplication, reordering, wrapping numbers | frames once, in order, whole; gaps are losses; nothing stays |
| **RTP packetization** `src/network/RTPHandler`, `RtpPacket.h` | SSRC, next sequence number | packetize, depacketize, serialize, parse | encoders, jitter buffer | fragments, start codes inside data, lengths a datagram claims | depacketize undoes packetize, or refuses |
| **ICE wrapper** `src/signaling/NATTraversal` | agent, callbacks | initialize, gather, candidates, send | libjuice | callbacks from its thread during set-up and destruction | no callback after destruction |
| **secure transport** `src/signaling/RtpTransport`, `DtlsSrtp` | DTLS session, handshake thread, SRTP keys | start, feedDtls, protect, unprotect, stop | ICE wrapper | handshake over lossy datagrams, deadline, thread against callbacks | both sides agree on keys or both give up; no packet before keys |
| **media pipeline** `src/media/` | streams by SSRC, decoders | pushVideo, pushAudio, pushPacket, tick | transport, jitter buffer, codecs | streams that go and return while a tick is in progress | one decoder per stream while it is used, frames to the right tile, in order |
| **A/V sync, clock** `AVSync`, `Clock.h` | anchor of the last report | onSenderReport, playoutTime | playout | modular timestamps, rounding of fractions | two streams captured at one moment are presented at one moment |
| **codecs** `src/codec/` | encoder state, `forceKeyframe_` | open, encode, decode, forceKeyframe | pipeline | a request taken back before its frame is accepted | a requested keyframe comes |
| **frame pool** `FramePool.h` | free list, reference counts | acquire, the deleter | capture, widget, painting | shared between threads, exhausted | a buffer is free once or in use, never both, never lost |
| **metrics** | counters, buckets | observe, record, percentile | benchmarks | wrapping sequence numbers, ranks | loss equals what was lost, percentiles are samples |
| **group call client** `src/ui/group_call.cpp`, `MainWindow` | tiles, switches, the threads' callbacks | camera and microphone callbacks, tick, toggles, leave | all of the above | switches and leaving while frames are in hand; more senders than tiles | tiles match streams; nothing is sent that was switched off; leaving ends |
| **browser mesh** `web/` | rooms, peers, `RTCPeerConnection`s | relay, makeOffer, onSignal, leave | the browser | awaits inside handlers | every signal finds its connection ready; pages that stay are connected |
| **devices** `MacCapture.mm`, `MacAudio.mm` | callback, accumulated samples, playback ring | deliver, tap, render, stop | capture, call logic | stop against a delivery in progress; a device that falls behind | at most one late delivery; the ring keeps the newest |
| other UI, benchmarks | | | | | input and output only |

Two protocols tie the parts together. In the **peer-to-peer call**, clients join
a room of the signaling server, learn of each other through its notices, and
relay offers, answers and ICE candidates through it. In the **group call** a
client's WebSocket to the SFU process sets up an ICE agent; when the agent is
connected the client is registered as a participant, and packets that reach its
agent are forwarded to the others in its room.

`PROJECT.json` lists each part with its status, every hazard found in the code at
its line with the properties that guard it, and for each definition the lines it
translates.

## Modules

| module | models | composed with |
|---|---|---|
| `Conference` | what both servers promise about membership: one room each, never one too many | refined by `RoomManager` and `SfuMain` |
| `RoomManager` | `RoomManager.cpp` and the handlers of `signaling-server/main.cpp` | extended by `Signaling` |
| `Signaling` | the server, the ordered streams to its clients, and the dispatch of `SignalingClient::runRecvLoop` | |
| `SignalingClient` | `SignalingClient.cpp` over its three threads, with `group_call.cpp` on one side of the link and the socket handler of `sfu-server/main.cpp` on the other | |
| `BrowserMesh` | `web/server.js` and the pages' `app.js` | |
| `SFUServer` | `SFUServer.cpp` and the membership of its Rooms, for any threads | extended by `SfuMain` |
| `SfuMain` | `sfu-server/main.cpp`: the loop thread and libjuice's thread driving `SFUServer` | |
| `Room` | the policies of one Room: targets, keyframes, forwarding | |
| `FramePool` | `FramePool.h`: buffers, references, the recycling deleter | extended by `MediaSend` |
| `RtpFormat` | `RtpPacket.h` and the functions of `RTPHandler.cpp`, on bytes | extended by `MediaSend` |
| `MediaSend` | the sending half of `group_call.cpp`: capture, self view, `VideoEncoder`, microphone, `SendPipeline`, switches, leaving | |
| `MediaReceive` | the receiving half: `ReceiveRouter`, decoders, the tiles of `MainWindow`, the playback ring | built on `FrameQueue` |
| `SignalingFormat` | what the signaling link carries, on bytes and characters: SHA-1, base64, WebSocket frames, descriptions with a fingerprint; ICE servers of the environment, `parseArgs` | checked with `JitterBuffer` |
| `JitterBuffer` | `JitterBuffer.cpp` for a stream of video or audio, with what the packetizer makes and the depacketizer accepts | implements `FrameStream` |
| `FrameQueue`, `FrameStream` | what a jitter buffer promises about order, as operators and as a specification | refined by `JitterBuffer`, which is proved; the operators used by `MediaReceive` |
| `StreamReports` | `LossEstimator` and `LatencyHistogram` of `Metrics.cpp`, `AVSync.cpp`, `Clock.h`, as functions | checked with `JitterBuffer` |
| `DtlsSrtp` | `DtlsSrtp.cpp`: the sessions of the two ends of a link, the handshake thread, the datagrams between | extended by `RtpTransport` |
| `RtpTransport` | `RtpTransport.cpp`, with what it sees of `NATTraversal.cpp`: agent, signaling and media threads, start, media, destructor | |
| `SignalingProofs` | theorems about `RoomManager` and about the streams of `Signaling` | |
| `SfuMainProofs` | theorems about `SFUServer` and about the process, `SfuMain` | |
| `MediaSendProofs` | theorems about `FramePool`, the call that uses it, `MediaSend`, and its bytes, `RtpFormat` | |
| `ClientProofs` | theorems about the two clients, `SignalingClient` and `BrowserMesh` | |
| `RoomProofs`, `RtpTransportProofs`, `JitterBufferProofs`, `MediaReceiveProofs` | theorems about the module of that name; in the second also about the descriptions of `SignalingFormat`, in the third about `StreamReports` | |
| `MC*` | instances for TLC | |

Definitions whose comment starts with *slip* are the mistakes used to test the
properties (`mutants` in `PROJECT.json`); no specification uses them.

### State and actions against the code

**RoomManager.** All handlers run on one uWebSockets loop, so a handler is one
action: `Open`, `OnJoin`, `OnLeave`, `OnSignal`, `OnInvalid`, `OnClose`. The map
`rooms_` is two variables, its keys `roomNames` and its values `participants`, so
that a room left behind empty is visible; a room's vector is a set, since only
the order of the list in a welcome depends on it. `connRoom_` is total with
`NoRoom` for an absent key. What a handler passes to `send_` or `ws->send` is its
output `sent`, one sequence of frames per connection. `join` runs `leave` first:
a refused join therefore leaves the client in no room, and its former peers have
been told.

**Signaling.** `ServerStep` conjoins a server action with the appending of its
output to the streams; `Read` is one frame through the client's receive loop. The
other direction needs no stream: a request that was sent at any earlier time is
one the server may get now, and every request is possible in every state.

**SFUServer.** A step ends where another thread can get in: after `mu_` is
released with a `Room*` in hand (`BeginAdd`/`DoAdd`, `BeginUse`/`DoUse`) and, in
`removeParticipant`, between the Room's own critical sections (`BeginRemove`,
`ReadSize`, `EraseRoom`). Rooms are objects with identities, so that a pointer
can outlive its Room; using one sets `undefined`, after which no step is
specified.

**SfuMain.** The `Loop` thread runs `OpenSocket`, `Join`, `Close`/`Reset` and the
deferred functions `RunRegister`, `RunSend`; the `Media` thread runs the agents'
callbacks `IceConnected`, `IceCandidate`, `Packet`. `Close` is the whole close
handler split where it can be overtaken: the removal from the SFU (several
steps of `SFUServer`) and then `Reset`, which destroys the transport and waits
for the agent's callback in progress. A client of the model is one connection,
as ids are not used again.

**Room.** Methods that hold the mutex are one action; `add` continues with one
`RequestKeyframe` for each sender after it unlocks. `owed` and `newcomers` are
history variables.

**JitterBuffer.** Any packet of the stream may be pushed at any time, any number
of times or never, which is loss, delay, duplication and reordering at once.
`pop` does its whole loop: it drops every front frame that has waited and is not
playable, then returns the next one that is due. Time is how long each frame has
waited.

**DtlsSrtp.** OpenSSL is external and reduced to the four flights of a full handshake:
`seen` is the last one it has taken, `Awaited` the one it can take next. A pass of
the loop of `run` is one action from the return of its wait to the next wait
(`Begin`, `TakeRecord`, `TimeOut`), because what other threads do meanwhile, a
record queued or the stop flag set, it sees only then; `Sleep` is apart, since
`stop()` notifies without the mutex and may do so between the test of the queue
and the wait. `owner` follows the destructor: alive, flagged, joining, freed, gone.

**RtpTransport.** The agent's thread and the signaling thread each store their
condition in one action (`OnConnected`, `setRemoteFingerprint`) and try the start in
the next. `OnRecord` and `OnMedia` are `onData`; a datagram may arrive in any
order, again, or never. An SRTP packet is the key it is encrypted with. `undefined`
says that a callback came after the session and the callbacks had been destroyed
and before the agent was (`RtpTransport.h:100`), or that a start raced with `stop`.

**SignalingClient.** The owner calls `connect` and `disconnect`, libjuice's thread
reports candidates and sends them, the receive thread runs `runRecvLoop` and the
callbacks; each step is what one of them does between two accesses to
`connected_`, `stopping_`, `fd_` or the link. The link is external: frames arrive
in order until it is lost, with any suffix of what was under way. The other end
is the socket handler of the SFU process for this one connection. `IdleTimeout`
closes a link on which the client has not answered a ping, which it never does
(`SignalingClient.cpp:341`). `undefined` is `std::terminate`: the assignment to
`thread_` when the old receive thread has ended but was not joined.

**BrowserMesh.** A page's handler runs to its next `await`; `task[c][d]` is what page
`c` awaits of its connection to `d`, `loop[c]` the peers its `joined` handler has
yet to offer to. Since a closed connection never settles what is awaited of it,
its task simply stays. `Serve` is one message through the relay. Ids come from
`nextId` and are not used again, so a page that returns is another client; rooms
do not meet, so there is one.

**FramePool, MediaSend.** A holder is a place that can keep a `shared_ptr` to a buffer:
the delivery thread's local `frame`, the widget's `pendingFrame_`, and what is
being painted. `Point` assigns one and recycles what nobody refers to any more.
The delivery queue goes through `captured`, `shown`, the test of the switches, the encoder's three
steps (test the request, encode, clear it) and one `SendVideo` per packet; the
microphone's tap adds samples and encodes whole frames; the GUI thread paints,
flips switches and, in `Leave`, stops the devices. A frame is its number and
its time. x264 is external: it may refuse, and makes an IDR when asked or when
the group of pictures is over.

**RtpFormat.** Functions on sequences of bytes, as the code has them: `serialize`,
`parse`, `findNalUnits`, `packetize`, `depacketize`. A 32-bit field is the
pair of its halves.

**MediaReceive.** `pushPacket` is the agent's thread, `Tick` the timer of the GUI
thread. `ReceiveRouter::tick` holds the lock while it reaps streams and pops
frames and then goes on without it, so `Tick` is one locked action and one per
frame decoded, tile added, frame shown or tile removed, with packets pushed in
between. `render` is the device's callback. The jitter buffer of a stream is
abstracted to a `FrameQueue`, by the operators with which `FrameStream` says what
`JitterBuffer` is shown to implement: it hands on some of what it holds, in order, each
frame once. `ready`, the batch a tick has taken under the lock, is a function on the
streams with something to deliver, and what of a stream is left is the set of its
numbers: the batch is worked off stream by stream in the order of the map and frame by
frame in the order of playout.

**StreamReports.** Pure functions, with the sizes of the number spaces and the
units of time as parameters. The loss estimator and `AVSync` are used by no
program of the repository, the histogram by its benchmarks.

**SignalingFormat.** Pure functions too. A word of SHA-1 is the set of its bits that are 1,
a text the sequence of its characters; `readExact` and `writeAll` are given how many bytes
each call of the system moves, and whether it fails. `parseArgs` and the reading of
`VC_STUN` and `VC_TURN` keep what they do to the sequences they get: where a port
begins, what counts as one, and which value wins.

## What TLC checks

All configurations finish on two cores within four minutes. A property whose name is
followed by others in brackets is their conjunction, each under its own name and
comment in the module. The first one of each run holds the types.

| run | instance | states | question |
|---|---|---|---|
| `signaling` | 3 clients, 2 rooms of 2 places, 2 unread frames each, 3 ids | 234 352 | Is the registry right under every sequence of requests, and do the clients come to the truth, in an order they can follow? |
| `signaling_client` | 1 candidate, 2 connects, 1 loss, 1 ping | 143 831 | Does a link carry what it must, and end? |
| `browser_mesh` | 3 pages, of which one may go and one trickles | 282 734 | Do interleaved handlers bring each pair of pages together? |
| `sfu_main` | loop and media thread, 2 clients, 2 rooms of 1 place, 2 notices each | 125 553 | Does the process, with its discipline of threads, get what the SFU library alone does not give? |
| `sfu_main_destroyed_room` | 2 clients, 1 room | | violation, see findings |
| `room` | 2 threads, 3 participants, estimates 1 and 2, 2 sequence numbers | 224 416 | Do targets and keyframes follow membership? |
| `jitter_buffer` | a video of 4 access units of 1 to 3 packets, an audio stream of 4 frames, both number spaces of size 10 and wrapping inside the streams, delay 2 | 22 620 | Are frames whole runs, in order, once, and do they leave? Are the figures of a stream right? |
| `jitter_buffer_head_loss` | the same | | violation, see findings |
| `rtp_transport` | 2 ends, one fault, deadline after 2 timers, the server destroyed at any time and perhaps told a wrong fingerprint | 238 206 | Does a handshake start, end and agree, whatever the network and the threads do? |
| `rtp_transport_last_flight` | the same | | violation, see findings |
| `media_send` | 3 buffers, 3 frames, 4 samples in frames of 2, an IDR every 2 frames, payloads of 4 bytes, 2 events | 684 005 | Do frames, keyframes, switches and leaving go right while every thread is in the middle of something? |
| `media_receive` | 2 video streams of 2 frames, 1 audio stream, 1 remote tile, a ring of 3 samples | 647 760 | Do streams, tiles and ring stay right while packets come during a tick? |

**signaling.** `RegistryInv` (`TypeOK`, `RegistryInSync`, `HandlesAreOpen`) holds what
the comment at `RoomManager.h:123` asks (the maps agree), uniqueness of ids and
handles, no empty rooms and the cap, and that no raw pointer outlives its
socket. `ChangesAnnounced` relates a step's output to its change: whoever keeps
its place is told exactly who appeared and who went. `ImplementsConference` is
the refinement of `Conference` under `where[c]` = the room whose vector holds
`c`. `RosterConverges` needs no liveness: in every state the roster a client
will have after reading what is already on its stream is the server's.
`ClientsCanFollow` (`NoSignalFromStranger`, `NoticesAlternate`) speaks of every
prefix of the stream, so of every speed of reading. Two rooms of two places and
three clients give: a full room, a join that is refused while the client was
elsewhere, a move, a second join in the same room, and a room pruned and created
anew. States are compared without `sent`, which `wire` repeats (`VIEW`), and up
to permutations of clients and of rooms.

**signaling_client.** `LinkInv` has `ConnectedIsTended`: while the owner is at rest
and the client calls itself connected, a receive thread tends the link.
`SilentAfterDisconnect`: once `disconnect` has returned no receive thread is left
to call back. `CandidatesReach` (`OffersReach`, `AnswersReach`) is liveness:
every candidate of the client and the SFU's own come to the other agent, in the
description or after it, though `onJoined` sends the description while the
agent's thread goes on finding more. `LinkEnds` (`DisconnectReturns`, `LossNoticed`)
says that `disconnect` comes back whoever calls it and that a lost link is seen.

**browser_mesh.** `SignalsFit` says that the frame a page reads next finds the
connection it belongs to in a state that takes it: an offer only one that has no
description and makes none, an answer only one that has offered, a candidate only
one whose remote description is set or being set. `MeshInv` has `PeersAreHere`: a
connection kept by a page is to somebody present, or whose leaving it is yet to
read, or who left before the page's loop of offers came to it. `PairsConnect`: two pages that stay together come to be
connected with each other, each with the candidates of the other, but for those
whom an interrupted loop passed over (see findings).

**sfu_main.** `ServerSound` (`MainTypeOK`, `RegistrySound`, `EmptyRoomsAreBusy`) has the cap,
and that an empty Room is one some thread is about to fill or is reclaiming. `ClosedIsGone`
is the main property: whoever is in a Room has an open socket and a live
transport, so the raw pointer in its sink is good, however late its registration
was deferred (`NoGhosts`), and registrations and sends that arrive after the
close do nothing (`GoneForGood`, `SendsOnOpenSocket`). `OnlyEmptyRoomsErased` is
not true of the SFU library under arbitrary threads (`size()` is read and then
the room erased while `addParticipant` calls `Room::add` outside `mu_`,
`SFUServer.cpp:21` and `:30`); it holds in the process since only the loop
adds and removes, and with it `ImplementsConference`. `ClosingCleansUp`
(`EmptyRoomsGo`, `CloseCompletes`) says that a close handler ends and that no empty
Room stays. `ConnectedIsRegistered` is liveness, and excepts the
clients a full room refused. Two notices per client are `Connected` and
`Completed`, both of which register. Rooms of one place are the smallest in which
two clients make everything happen: a client is refused, is refused and goes, its
second notice comes when there is a place again, and a Room outlives one of two
removals.

**room.** `RoomInv` has `TargetsFollowReceivers`, what the targets are, the newcomer's
exception included, and `NoReceiverLags`, that no receiver is passed over.
`NewcomersAreServed`: every sender found by a newcomer is asked for a
keyframe or about to be, though two adds and removals interleave.

**jitter_buffer.** The video contains units of one packet, of several slices,
of a fragmented picture, and of a parameter set with a fragmented picture, at
numbers that wrap between and within units. `BufferInv` says that the bounds of a
pending frame are the first and last of its packets in sending order, that nothing
late is buffered, and that what is emitted is one run of numbers. `ImplementsFrameStream`
is the refinement of `FrameStream` under which a timestamp is the number of its access
unit: playout moves on through the numbers, wherever the timestamps wrap. 10 is the least
number space whose half exceeds the longest unit and the stream of units, and so
still distinguishes the modular comparison from the plain one. `GapsAreLosses` says of
`gaps()` that the runs it names are disjoint and together are exactly the numbers missing
between two packets that are buffered. `ConversionsAreRight` compares the functions of
`StreamReports` and `SignalingFormat` with definitions over bounded inputs: five packets
in every order over two wraps of 6 numbers for the loss estimator
(`LossIsCounted`), two clocks and every report within half a wrap of 16 stamps
for `AVSync` (`LipsInSync`), up to four samples for the percentiles
(`PercentilesAreSamples`); keys, digests and frames of every form of length
(`LinksAreUnderstood`); descriptions, ICE servers and arguments made of the characters
that matter to their parsing (`AgentsAreDescribed`).

**rtp_transport.** `StartNotMissed` speaks of the two conditions that meet on two
threads; `LinkInv` of the condition variable (`NoSleepOverRecord`) and of the two
ends' keys (`KeysAgree`). They finish at different times and may be told different
things: one may be ready for ever while the other has refused it, and then nothing is
heard (`MediaIsVerified`). `ThreadsEnd` (`HandshakeEnds`, `TeardownCompletes`) is
liveness and rests on the timers alone: with an untimed wait both fail, the second
because of the notification that comes too early. `LossIsRepaired` is what the
retransmission timers achieve, and what they do not: any flight but the last. It is
conditioned on `hasty`, a history variable that records a timer running out while
something was left to do, since a deadline of seconds cannot hold against an
arbitrarily slow machine. One fault and two timers are the least with which a loss is
repaired before the deadline.

**media_send.** `CallInv` bounds what a switch can be late by: one frame in hand after
camera or microphone were switched off (`SwitchesObeyed`), one delivery after the
camera was stopped (`StopIsFinal`); and audio time is the count of samples whatever
was muted or failed (`AudioKeepsTime`). `PoolSound` is the pool's promise in the
hands of three threads. `KeyframeFollows`: a request is in the flag, in the frame
being encoded, or an IDR is due, until one is made; it excepts a frame x264 refuses,
see below. `requestKeyframe` may come at any moment, also in the middle of an encode.
That is more than the code does: the encoder is to be driven by one thread
(`VideoEncoder.h:18`), and only tests ask, between two encodes. `PacketsSurvive`
(`UnitsSurvive`, `DatagramsParse`) takes the packets of each frame through `serialize` and `parse`, also with other headers and cut short, and
every run of them through `depacketize`. `StreamsInOrder` is what a jitter buffer needs: numbers by
one, a new time after each marker and only then. `CallEnds`: leaving waits
for no delivery (`Left` waits for the microphone's tap alone), but the one in progress
ends too, if `main` does not return first. When it does (`Return`), a delivery still in
progress uses what it captured by reference and what follows is `undefined`
(`UseDestroyed`), see the findings.

**media_receive.** `ReceiveInv` has `DecodersOutliveTick` (nothing taken under the lock
outlives its decoder), `RingIsNewest` and `TilesHaveCells`. `TilesAreStreams`: the
window's tiles are those of `remoteTiles`, and with the refused ones they are the
announced streams and those whose removal is under way, also when a packet revives a
stream in the middle of a tick. `PictureAdvances`: a tile never goes back.
`LeaversGo`: a stream that is silent for ever loses stream and tile. One remote tile
for two cameras is the least window in which one is refused.

`CHECK_DEADLOCK FALSE` is set where a system comes to rest: a link with its handshakes
over, a signaling link with its connects used, pages all connected or gone, a
call that was left; and in the SFU process when a destroyed Room has been used, when
the bound on Room objects is reached, or when all connections are closed.

### Bounds

`MaxId` ends a behaviour of the signaling server after so many admissions,
`MaxUnread` holds the server back while a client has too much to read,
`MaxRooms` bounds the Room objects of a behaviour, `MaxNotices` the reports of
one ICE agent, `MaxTells` the fingerprints one transport is told, out of `Told`,
`MaxFaults` the datagrams lost or repeated, `Patience` the timers before the
deadline; of the two ends only those in `Mortal` are destroyed, which is the
SFU's, as `group_call`'s transport and its callbacks hold each other.
`SfuMain`'s `IceCandidate` has at most one candidate per client waiting, as which of
several is sent makes no difference to the socket it is sent on.

`MaxConnects`, `MaxLosses` and `MaxPings` let a link be lost and made again.
Three `Pages` are the least with which one joins while the loop of another is
under way; `Departing` and `Trickling` say which may leave and which report
candidates, as all doing both is out of reach. In `media_send`, three buffers stand
for the eight of `kPoolDepth`: fewer are harder, as the pool is empty more often.
`MaxFrames`, `MaxSamples` and `MaxEvents` end a call; three frames with an IDR every
second one give a keyframe that was due, one that was asked for and one that
was refused. In `media_receive`, `streamTimeout` is one tick and each stream has the
frames of `MaxFrames`, which the network may repeat for ever.

### Fairness

- `SignalingClient`: weak fairness of each thread's next step (`OwnerStep`, `RecvStep`,
  `AgentStep`) and of the server reading (`SfuStep`): the operating system schedules
  runnable threads, and a blocking read returns when there is a frame or the link is
  lost. Nobody has to connect, and no candidate has to be found.
- `BrowserMesh`: weak fairness of the relay's and the page's event loops (`Serve`, `Handle`)
  and of the browser reporting its candidate. Pages need not join.
- `SfuMain`: weak fairness of what the loop thread has to do (`LoopStep`:
  deferred functions, SFU calls, the reset) and of the media thread finishing a
  routed packet. Strong fairness of `Reset`, because it waits for the agent's
  callback in progress, and packets that keep arriving disable it again and
  again; libjuice's lock is taken between callbacks. Clients, and the network,
  are never obliged to act.
- `RtpTransport`: weak fairness of each handshake thread with its timers, of the second
  half of each callback, of a destructor that has begun, and of the delivery of
  each datagram that is not lost. Nobody has to connect, to tell, to send or to
  destroy.
- `JitterBuffer`: weak fairness of `pop`, which the playout loop calls for ever,
  and of time. No packet is ever obliged to arrive.
- `MediaSend`: weak fairness of a delivery and of a tap in progress and of painting;
  strong fairness of `Left`, which waits for the microphone's tap to be idle while its
  calls come and go: the removal of a tap is not put off for ever by them. No frame has
  to be captured, nobody has to leave, and `main` may take any time to return.
- `MediaReceive`: weak fairness of the GUI thread's tick and of the clock.

## Findings

Each is a run that TLC ends with a counterexample to what the repository says.

1. **`sfu_main_destroyed_room`.** `SFUServer::routePacket` keeps a `Room*` after
   releasing `mu_` (`SFUServer.cpp:36-37`); the loop thread's close handler may
   erase that Room before `forward` runs. `SFUServer.h:14` promises that the
   server may be driven from many threads.
2. **`jitter_buffer_head_loss`.** `isComplete` cannot see that the first packets
   of a unit are missing; if what remains depacketizes it is emitted as a frame,
   against the comment at `JitterBuffer.cpp:79`.
3. **`rtp_transport_last_flight`.** `run()` returns when its own handshake is finished
   (`DtlsSrtp.cpp:155`). The server finishes first, so if its last flight is lost
   nobody answers the client's repetitions; the client gives up at the deadline, the
   result is ignored (`RtpTransport.cpp:84`) and no handshake is started again, against
   `RtpTransport.h:63` and the "brief window" of `RtpTransport.cpp:90`.

Seen while modelling, and part of the models or of the exceptions in their properties:

- A client that a full room of the SFU refuses was told `joined`, keeps `joinedSfu` set
  (`sfu-server/main.cpp:141-143`) and is not registered when places free up.
- `Room::add` does not recompute targets, so a newcomer's is 0 even though its
  receivers have reported (`Room.h:66`).
- A server that pings a client which says nothing gets no answer
  (`SignalingClient.cpp:341`), and closes the link at `idleTimeout`. A `connect`
  after such a loss, without `disconnect` before it, would assign to a joinable thread, which
  terminates the program (`SignalingClient.cpp:214`); the class allows that call, but
  `group_call` connects once.
- In the browser, the loop that makes the offers stops for good when the peer whose offer it
  awaits leaves (`app.js:173`, `:217`), and those behind it get no connection.
- A frame dropped by `pop` takes its gaps with it (`JitterBuffer.cpp:81` says that they
  stay visible through `gaps()`).
- A stream announced while the window is full never gets a tile, also when others
  leave. With several audio senders the ring takes their samples one behind the other.
- A request for a keyframe is lost with the frame it was to change when x264 refuses
  that one (`VideoEncoder.cpp:127`, `:137`).
- "No frame is delivered after stop returns" (`MacCapture.mm:307`) does not hold for the delivery
  that had copied the callback by then: `stop` clears the callback but does not wait. `StopIsFinal`
  says that there is no second one. The callback refers to locals of `main`
  (`group_call.cpp:245`), which returns soon after (`:289-296`), so that this delivery may use them
  destroyed. The agent may use `iceConnected` likewise (`:175`): `transport` and `signaling` are
  kept alive by their own callbacks.
- The first IDR of a call is dropped if the secured link is not ready yet, and the next comes
  after a whole group of pictures, since `group_call` never calls `forceKeyframe`.
- `LossEstimator` takes repeated packets, and those from before the first, as making up
  for lost ones (`EveryLossIsCounted` says so).

Seen in the code, not modelled: `needsKeyframe` is never cleared (`Participant.h:91`
says it is; nothing but a test reads it); the plain `bool`s that the
window shares with other threads (`muted_`, `cameraOff_`) are data races; restarting
capture resets the epoch of
the timestamps, which a jitter buffer then rejects as late, as it does with any jump of half the
timestamp space (`JitterBuffer.h:107`); `serialize` writes the flags of
extension and padding without writing either (`RtpPacket.h:71`); a microphone frame
that finds no buffer does not advance the sample count (`MacAudio.mm:147`); records that come
after the handshake stay in `inQ_` (`DtlsSrtp.cpp:134`); a second `join` on one socket of
`web/server.js` leaves the first behind (`server.js:103`; `app.js` sends one).

## What is proved

No proof uses a bound: sets of connections, clients, rooms and threads, caps, the size
of the pool and of the ring, the length of a call and of a stream, the size of the number
spaces and the bounds of the models are arbitrary. The assumptions are those the modules
state of their constants, which TLC evaluates in the runs:

- `RoomManagerAssumption`: `NoRoom` is not a room, relayed types are not the server's own,
  the cap is a positive number, the bound a number.
- `SFUServerAssumption`: nobody is no thread, the cap is positive; `SfuMainAssumption`: the
  threads are the loop's and libjuice's. `RoomAssumption`: estimates and cap are positive,
  and no sequence number stands for none.
- `ClientAssumption`: there is a candidate to be found, the bounds are numbers.
- `MeshAssumption`: the number of pages is a number, and `NoPeer`, which stands for no
  connection, is not one. Which pages may depart and which trickle is arbitrary.
- `DtlsSrtpAssumption`, `RtpTransportAssumption`: the deadline is not at once, bounds are
  numbers, and what an end may be told are fingerprints.
- `JitterBufferAssumption`: streams are audio or video; an access unit has a packet, and less
  than half of the sequence numbers; a stream has less than half of the timestamps and no more
  packets than there are numbers. Comparison of serial numbers means nothing beyond that.
- `FramePoolAssumption`: the capacity is a number; `MediaSendAssumption`: the three places
  that refer to buffers, an audio frame has a sample, and the units of the encoder are
  strings of numbers. `RtpFormatAssumption`: a packet has room for something. `UnitsAssumption`,
  of x264: every picture has a coded unit, none has the type RTP keeps for fragments, and an IDR
  picture, only, has parameter sets. `StreamReportsAssumption`: sizes and units are positive,
  the number spaces even, and the report's clock no coarser than its unit.
  `CallLengthAssumption`: a call has less than half of the timestamps of either stream
  (6.6 hours of video, 12.4 of audio), as a receiver can tell earlier from later no further.
  `MediaReceiveAssumption`: streams are
  audio or video and none is the self view; the window has at most its eight tiles, and the
  ring has room for an audio frame.

| module | theorem | statement |
|---|---|---|
| `SignalingProofs` | `RegistryCorrect` | `Spec => []RegistryInv` |
| | `ChangesAreAnnounced` | `Spec => ChangesAnnounced` |
| | `Refinement` | `Spec => ImplementsConference` |
| | `StreamsAddNothing` | `SignalingSpec => Spec` |
| | `RostersLeadToTruth` | `SignalingSpec => []RosterConverges` |
| | `StreamsCanBeFollowed` | `SignalingSpec => []ClientsCanFollow` |
| `ClientProofs` | `ConnectedIsTrue` | `Spec => []LinkInv` |
| | `DisconnectedIsSilent` | `Spec => []SilentAfterDisconnect` |
| | `MeshInductive` | `MeshSpec => []MeshIInv` |
| | `MeshIsKept` | `MeshSpec => []MeshInv` |
| | `SignalsAlwaysFit` | `MeshSpec => []SignalsFit` |
| `SfuMainProofs` | `RegistryIsSound` | `Spec => []RegistrySound` |
| | `EmptyRoomsStayBusy` | `Spec => []EmptyRoomsAreBusy` |
| | `ServerIsSound` | `MainSpec => []ServerSound` |
| | `ClosedIsGoneEver` | `MainSpec => []ClosedIsGone` |
| | `OnlyEmptyRoomsGo` | `MainSpec => OnlyEmptyRoomsErased` |
| | `MainRefinement` | `MainSpec => ImplementsConference` |
| `RoomProofs` | `RoomIsSound` | `Spec => []RoomInv` |
| | `NewcomersGetKeyframes` | `Spec => []NewcomersAreServed` |
| `RtpTransportProofs` | `LinkIsSound` | `Spec => []LinkInv` |
| | `StartIsNotMissed` | `Spec => []StartNotMissed` |
| | `MediaWaitsForBoth` | `Spec => []MediaIsVerified` |
| | `DescriptionsArrive` | any texts, `Unmarked(ice)` `=> DescriptionArrives(ice, fp)` |
| `JitterBufferProofs` | `BufferIsSound` | `Spec => []BufferInv` |
| | `GapsAreTheLosses` | `Spec => []GapsAreLosses` |
| | `BufferKeepsPromise` | `Spec => ImplementsFrameStream` |
| | `FramesLeaveInOrder` | `Spec => Promise!HandsOnInOrder` |
| | `LossesAreCounted` | any sequence of packets, `Comparably(s) => LossesCounted(s)` |
| | `InstantsAreKept` | any instants and rates, `Comparable(t, r, rate) => InstantKept(t, r, epoch, rate)` |
| `MediaSendProofs` | `PoolStaysSound` | `PoolSpec => []PoolSound` |
| | `CallUsesPool` | `Spec => PoolSpec` |
| | `CallKeepsPoolSound` | `Spec => []PoolSound` |
| | `KeyframesFollow` | `Spec => []KeyframeFollows` |
| | `CallIsSound` | `Spec => []CallInv` |
| | `StreamsLeaveInOrder` | `Spec => StreamsInOrder` |
| | `PacketsAlwaysSurvive` | `Spec => []PacketsSurvive` |
| | `NalsFound` | any clean units, `findNalUnits` of the joined units gives the units |
| | `ParseStaysInside` | any bytes, the payload `parse` returns is within them |
| `MediaReceiveProofs` | `ReceiverIsSound` | `Spec => []ReceiveInv` |
| | `TilesFollowStreams` | `Spec => []TilesAreStreams` |
| | `PicturesNeverGoBack` | `Spec => PictureAdvances` |

**The signaling server.** The inductive invariant `IInv` is `TypeOK`,
`RegistryInSync`, `HandlesAreOpen` and `RoomsFinite`. None of the first three is
inductive alone: that `leave` empties the one right room needs the two maps to
agree; that the prune is exact needs that no empty room was there before; that a
notice goes to open sockets only needs that the registry holds none but open
ones; and the cap needs rooms to be finite for their cardinality to be a number.
The lemmas `RemainingFilters`, `PrunedExact`, `RemainingSmaller` and
`NoticeToSurvivors` say what `leave` computes once the maps agree; there is one
lemma per operation that `IInv` is preserved. The refinement uses that the mapped
room of a connection is just its binding (`HoldingIsBinding`) and that an
admitting room has a place besides the joiner's (`AdmissionLeavesRoom`).
`ChangesAreAnnounced` compares what `idFor` and `Peers` say before and after a
step with the notices it sends, which may be two when a peer moves within a room
(`AnnouncedConcat`).

**The streams to the clients.** `Output` says all that one handler may send to one
connection, and what it means for its place: nothing or an error to whoever keeps its
place or has none; a welcome that tells the truth; a relayed message of a member of the
room; a departure, an arrival, or both. With `ChangesAreAnnounced` this makes the new
frames lead from the old truth to the new (`Appended`). What a client knows after each
frame is a recursive function over its stream (`Rosters`); that this function
exists and is unique is proved by least counterexample (`StoryExists`, `SameStory`), and
from it what one frame more at the end, or one less at the front, does to it (`OneMore`,
`OneLess`). The invariant `StreamsInv` joins the two properties: every frame of a stream
fits what is known by then, and the last roster is the truth for whoever is registered;
neither is inductive alone, as a frame can only fit if what is known by then is the truth.

**The signaling client.** `ConnectedIsTended` speaks of an idle owner; at every point of the
calls it holds only with the exception of the one between the two stores of `connect`
(`TendedInv`). `SilentInv` adds to `SilentAfterDisconnect` that `connect` has taken the silence
back before it stores or starts anything. The types are the long part (`ClientTypes`,
`CandidateTypes`), since any suffix of two streams of frames may be lost.

**The browser mesh.** Whether a signal fits depends on everything that is under way between two
pages: frames of either to the relay, frames of the relay to either, and what the handlers of both
await. `MeshIInv` says what a pair may be in the middle of (`Pair`). While page `c` has yet to
offer to `d`, neither knows of the other (`Untouched`); then an offer is on its way and `d`
has nothing of `c` (`Offered`); then `d` answers and has nothing on its way back, and `c` waits
(`Answering`); then the answer is on its way and `c` waits for it (`Answered`). There is never
more than one description on its way in one direction (`OneDescription`), one that was made is
on its way or has come (`Described`), and a candidate is behind a description or `d` has one
(`Led`), which needs both streams of a pair to keep their order from end to end. `PageInv` has
what one page does: one loop of offers, at its first peer's offer; no peers before the
welcome; nobody knows a page that has not joined. `KnownInv` has who is known to whom: a page
that is remembered by what is under way is in the room, and no signal of a page comes after
its `peer-left`, since the relay reads the close behind what the page wrote. `StreamInv` is the
life of a page in frames. None of these is inductive without the others: that `d` is fresh
when an offer comes needs that `d` did not offer itself, thus that of two pages only the newer
one was told of the other, thus the order of joins at the relay. A departure may cut what is
under way at any point; a pair of which one page is out of the call keeps only what the streams still
hold of it. There is a lemma for each action (`JoinKeeps` to `IceCandidateKeeps`), over lemmas
on what writing, relaying, reading and cutting do to each of the predicates on streams.

**The SFU.** `ServerInv` adds to the types and `RegistrySound` that the members of a
Room are finite; it holds for arbitrary threads. So does `BusyInv`, which adds to
`EmptyRoomsAreBusy` that a thread between the removal and the erasure holds `mu_`
(`RemovalHoldsLock`), so that the id still leads to the Room it is about to erase. In the process it is joined by
three facts about the two threads (`MainInv`): `ClientsAgree`, that a client is
alive exactly from its join to the start of its close handler, its socket open
and its agent up; `MembersAlive`, that whoever is in a Room is alive and in the
Room of the room it joined; and `ThreadsKeepRoles`, that only the loop adds and
removes, so that what it has read (the Room a pointer belongs to, a size of 0, a
client being alive) is still true when it acts on it. `ThreadsKeepRoles` is what
makes the code right and is written nowhere in it: with any other thread adding,
`OnlyEmptyRoomsErased` fails. That the process takes only steps of the server
(`MainStepIsServerStep`) carries both over. For the refinement,
`HoldingIsMembership` says that a member is held by the room it joined, so that
`Enter` is the end of an add and `Exit` the start of a close, and everything else
stutters.

**A Room.** What `LowestEstimate` computes is the minimum of the known estimates
(`LowestIsMinimum`), so a recomputation makes every target right (`Recomputed`); a
membership that changes without one leaves a target of 0 or of the receivers that remain.
`RoomInv` needs one fact more to be inductive, that nobody outside of the Room
has been forwarded anything (`AbsentAreUnheard`).

**The secured transport.** `KeysAgree` relates the two ends, and nothing local implies it:
the proof goes through the flights between them. A thread that is done has taken its peer's
last flight (`ThreadInv`); a flight that is under way, queued or taken was sent by a peer
that had taken the one before it (`FlightsWereSent`), so an end can be ready only after its
peer had verified it and sent its last (`ReadyInv`). `MediaInv` says that packets under way come
from an end that was ready. `PassKeeps` is what one pass of the loop does to all that, and
the other actions are shown to leave the session as it was or to start or destroy it.

**The jitter buffer.** `Around` and `SerialNumbers` are the arithmetic: numbers whose places
are less than half a circle apart compare as their places do, and the distance modulo
the circle is that of the places; they follow from division with remainder. `IInv` adds to
the types that what is buffered and what was played have places in the stream
(`FramesInv`, `PlayedInv`). `Account` says of a frame that it has a lowest and a highest
place and that its bounds are the numbers of these; a packet more keeps it (`MoreAccount`).
A frame that `isComplete` accepts is then a run of places up to the last (`CompleteIsRun`), and
the walk of `Ordered` returns it in sending order (`RunInOrder`). `PopEffect` is what the
loop of `pop` comes to: it drops a prefix of what is held, in the order of places, and may
return the next. Under the mapping (`Playout`, `HandedOn`) that is a step of `FrameStream`'s
`Pop`, and order of hand-over is inherited (`PromiseInv`). For `gaps()` the missing numbers of a frame
are those of the places that are missing between its bounds (`MissingByPlace`); every such
place lies in one maximal run, by least counterexample (`RunAround`), and the runs of
different frames cannot meet as all numbers of a stream differ (`UnitsApart`).

**The pool and the sending half.** `PoolSound` with the types (`Inv`) is inductive for the
pool: `AcquireSound` takes the last free slot, `PointSound` puts one back only when no
holder is left. `StepsUsePool` shows each step of a call to be one operation of the pool
or none, so the invariant carries over, as a refinement does. `CallTypes` says which
place holds a frame at which point of each thread; it needs the pool's invariant,
since an acquired slot must be a slot. `SendInv` strengthens the rest: that a request
taken by the encoder is in the frame being made (`KeyframeInv`), that the one late
frame has passed the test and no second can (`CameraInv`, `MicInv`), that a stopped
camera starts no delivery (`StopInv`).

`OrderInv` is what `StreamsInOrder` needs: the packets of the encoder's frame that are still
in hand are the last that were numbered, carry the time of its capture and have the marker
on the last only (`PacketsInv`); the last packet sent is the one numbered before them, of the
same frame unless it had the marker, else of an earlier capture (`SentInv`, `VideoTimes`); and
the last packet of audio was sampled before what the microphone still holds (`AudioInv`). That
`packetizeH264` returns such packets for whatever the encoder hands it rests on `Split` being
a sequence, the joining of its parts being proved by least counterexample (`JoiningExists`,
`JoinedIsSequence`). Numbers go round at 2^16 and times at 2^32, and later means less than half
a circle ahead (`LaterTimes`), as receivers compare them.

**The bytes of a call.** `PacketsSurvive` is about functions alone, and what these compute is by
recursion over the data, for which the prover has no induction. Each recursive function is
shown to exist by least counterexample (`JoiningExists`, `TurnsExist`, `StreamExists`,
`PackedExists`, `FramingExists`), and what it holds after n steps in the same way. Of what is
joined, every part is found where the lengths before it put it (`JoinedAt`, `JoinedNext`), so a
start code is where a unit was put; it is nowhere else, as a unit has none in it
(`CodesAre`), and thus `findNalUnits` returns the units that were joined (`NalsFound`). It
returns none that holds a start code (`NalsAreClean`), which is what makes the theorem speak
of every picture. The fragments of a unit are its bytes in turn, each with the unit's type and
the marks of first and last (`FragmentIs`, `FragmentTaken`); with one missing they are refused
(`FragmentRefused`). The loop of `depacketize` over any run of the packets is in one of two states:
it has refused, or it has the units that are whole and what has come of the next (`Holds`,
`Reached`, `RunReaches`); the run that begins within a unit is refused for good (`RunRefused`).
What it has at the end of a run is whole units of the picture in turn (`AnyRun`), and all of them
for the whole run (`WholeRun`). A datagram is read as it was laid out (`LaidOut`, `ReadsPlain`),
16 and 32 bits put together from their bytes (`PairOfBytes`, `FourBytes`), also with sources,
an extension and padding (`ReadsDress`).

**The receiving half.** `RouterInv`: what is pending in a tick is behind playout, and no
stream is announced while the removal of its tile is due, so that a stream which comes
back during the tick that reaps it is announced again and gets another tile. `WindowInv` relates the
tiles to what is announced and to their cells; that a cell is nobody else's is arithmetic on
rows and columns (`CellsAreDistinct`). `PictureInv`: what a tile shows is behind what its stream
is still to deliver. `SpeakerInv`: the ring is a suffix of what was enqueued; that the newest of what
was the newest is the newest of all (`NewestOfNewest`) is what its trimming relies on.

**Reports and descriptions.** The estimator of losses keeps to an invariant over the packets
that have come, `Estimate`: its cycles and highest number are those of the farthest packet, also
when one before a wrap comes after it (`NextEstimate`, from the jitter buffer's `Around`, and
`Wraps`). That its losses are the absent packets is then counting: a set of as many places as
there are numbers to the farthest, less those that came (`AbsentPackets`). `InstantsAreKept` follows
the timestamp through both of AVSync's divisions: the fraction of the report gives its wall time
back to a unit (`WallIsKept`), the difference of timestamps is the ticks between the two instants,
taken around the circle (`TicksApart`, `DeltaIs`), and dividing by the rate loses less than a unit
(`QuotientIs`). A description is cut at the first marker (`Cutting`); no two markers overlap
(`MarkerIs`), so that in one whose ICE part has none the first is where `pack` put it
(`MarkerFound`). The theorem is about any set of characters that has those of the marker.

Only model-checked: all liveness, which is beyond the prover; and the invariant
`ConversionsAreRight`, a conjunction of which `LossIsCounted` and `LipsInSync` and the descriptions
of `AgentsAreDescribed` are instances of the theorems above (`BoundedReportsAreRight`,
`BoundedDescriptionsArrive`), while percentiles, keys and digests,
frames of a WebSocket, ICE servers and arguments rest on folds of the library and on concrete
digests that TLC evaluates and the provers do not. The properties of the three runs that expect a
violation are false, and so not proved.

## Not modelled

- The statistics of the jitter buffer, which only tests read, and
  `ReceivePipeline`, the single-stream receiver of the loopback window.
- ICE failure in the SFU process: `onStateChanged` ignores it, so such a client
  stays a participant until its WebSocket closes. What libjuice does with the servers it
  is configured with.
- In the transport: security switched off (both programs enable it), fatal errors of
  OpenSSL, failing key derivation.
- The JSON of signaling messages: one that does not parse is `OnInvalid`. A field of the wrong
  JSON type is not: `j.value` throws (`signaling-server/main.cpp:95`, `:99`, `:121`,
  `sfu-server/main.cpp:103`, `:111`, `:170`, `:187`), nothing catches it, and the server ends.
- In `SignalingClient`, the answers "error" of `sfu-server/main.cpp` (`:114`, `:155`, `:173`),
  which the client only shows, and a failing `localDescription` (`group_call.cpp:198`),
  after which nothing is sent.
- In `RtpTransport`, a callback that finds `startMu_` destroyed with nothing to start is one of
  the outcomes of `LateCallback`, not of `maybeStartHandshake`.
- What uWebSockets does when a socket's backlog is full (`ws->send`'s result is
  ignored); the streams of `Signaling` lose nothing while a link is up.
- A write on a descriptor that another thread has closed and the system has given out
  again (`SignalingClient.cpp:170`).
- The opening of devices and the early returns of `main` in `group_call.cpp`, which end
  the program; conversion of pixels and samples, rendering, dialogs, the loopback and
  demonstration windows; benchmarks, tools and smoke tests, which drive the parts above
  from one thread.
- x264, FFmpeg, Opus, OpenSSL, libjuice, uWebSockets and RTCPeerConnection themselves,
  which are external: the models take from them what the code relies on.

## Plan

What is left, in this order:

1. **Proofs** of the percentiles and of the frames of a WebSocket, which need the folds of the
   library unfolded as the recursive functions of `RtpFormat` are.
2. **The failure of ICE** in the SFU process and in `group_call`.
