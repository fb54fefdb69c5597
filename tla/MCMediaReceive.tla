--------------------------- MODULE MCMediaReceive ---------------------------
(* Two cameras and a microphone; the window has room for one more tile. *)
EXTENDS MediaReceive

MCMaxFrames == [s \in {1, 2, 3} |-> IF s = 3 THEN 1 ELSE 2]
=============================================================================
