--------------------------- MODULE MCJitterBuffer ---------------------------
(***************************************************************************)
(* A video of four access units: a parameter set and a picture in two      *)
(* fragments, a picture in two fragments, one of three slices and one of   *)
(* one packet; and an audio stream of four frames.  Sequence numbers and    *)
(* timestamps wrap within both.                                            *)
(***************************************************************************)
EXTENDS JitterBuffer, StreamReports, SignalingFormat

MCVideo == << <<"nal", "start", "end">>, <<"start", "end">>,
             <<"nal", "nal", "nal">>, <<"nal">> >>
MCAudio == << <<"opus">>, <<"opus">>, <<"opus">>, <<"opus">> >>
MCStreams == {MCVideo, MCAudio}

(* What follows is about functions and depends on no state; it is looked at  *)
(* when a frame is played.                                                   *)

\* However packets are lost, late or repeated, LossEstimator counts what never
\* came, and nothing that came (Metrics.cpp:51).
LossIsCounted == popped # <<>> => EveryLossIsCounted

\* AVSync presents sound and pictures of one instant together (AVSync.cpp:23).
LipsInSync == popped # <<>> => EveryInstantIsKept

\* A percentile of the latency histogram is that of a sample of the rank asked
\* for (Metrics.cpp:28).
PercentilesAreSamples == popped # <<>> => EveryPercentileIsOfASample

\* The key of a WebSocket handshake can be decoded and its answer is the one
\* that is expected (SignalingClient.cpp:255), and a frame is read as it was
\* written (:265, :305).
LinksAreUnderstood ==
    popped # <<>> => EveryKeyIsDecoded /\ EveryAnswerIsExpected /\ EveryFrameIsRead

\* A description is taken apart as it was put together (DtlsSrtp.cpp:91), an ICE
\* server is asked where the environment says (NATTraversal.cpp:180), and the
\* signaling server where the arguments say (group_call.cpp:60).
AgentsAreDescribed ==
    popped # <<>> =>
        EveryFingerprintArrives /\ EveryServerIsAsked /\ EveryAddressIsUnderstood

\* The figures reported on a stream are those of their definitions, and what
\* the two ends of a link tell each other arrives as it was meant.
ConversionsAreRight ==
    /\ LossIsCounted
    /\ LipsInSync
    /\ PercentilesAreSamples
    /\ LinksAreUnderstood
    /\ AgentsAreDescribed
=============================================================================
