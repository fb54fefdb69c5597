---------------------------- MODULE FrameQueue -----------------------------
(***************************************************************************)
(* A jitter buffer as its users see it: frames of one stream, numbered in  *)
(* sending order, of which some packets have come, and how far playout is. *)
(***************************************************************************)
EXTENDS Naturals

NoFrame == 0
EmptyQueue == [held |-> {}, last |-> NoFrame]

\* Something of frame n arrives; it is late if playout is at n or beyond.
Received(q, n) == IF n > q.last THEN [q EXCEPT !.held = @ \cup {n}] ELSE q

\* Playout comes to frame n, and with it what is older is gone.
Past(q, n) == [held |-> {m \in q.held : m > n}, last |-> n]
=============================================================================
