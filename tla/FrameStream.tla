---------------------------- MODULE FrameStream ----------------------------
(***************************************************************************)
(* What a jitter buffer promises about order, with no packet, timestamp or *)
(* clock in sight: it hands on some of the frames of which it has received *)
(* something, each later than all it has handed on or given up before.     *)
(* JitterBuffer is shown to implement it, and MediaReceive relies on it.   *)
(***************************************************************************)
EXTENDS FrameQueue

CONSTANT Frame      \* the numbers of the frames sent

VARIABLES queue,    \* a FrameQueue
          out       \* the frame the last pop handed on, or NoFrame

Init == queue = EmptyQueue /\ out = NoFrame

Receive(n) == queue' = Received(queue, n) /\ UNCHANGED out

\* A pop brings playout to a frame, which it hands on or gives up, or to none.
Pop ==
    \/ out' = NoFrame /\ UNCHANGED queue
    \/ \E n \in queue.held : queue' = Past(queue, n) /\ out' \in {n, NoFrame}

Next == Pop \/ \E n \in Frame : Receive(n)

Spec == Init /\ [][Next]_<<queue, out>>

-----------------------------------------------------------------------------
(* Properties. *)

\* What is still held is ahead of playout, and what was handed on is not.
PlayoutBetween == /\ \A n \in queue.held : queue.last < n
                  /\ out <= queue.last

\* A frame is handed on once, and after all that were before it.
HandsOnInOrder == [][Pop /\ out' # NoFrame => out' > queue.last /\ out' > out]_<<queue, out>>
=============================================================================
