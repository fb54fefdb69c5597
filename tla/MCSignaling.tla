----------------------------- MODULE MCSignaling -----------------------------
(***************************************************************************)
(* Three clients and two rooms of two places: a full room, a join refused   *)
(* to a client that was elsewhere, a move, a second join in the same room,  *)
(* a room pruned and created anew.  Streams of up to two unread frames hold *)
(* the two notices of a move, or a notice and a relayed frame, at once.     *)
(***************************************************************************)
EXTENDS Signaling, TLC

CONSTANTS c1, c2, c3, r1, r2

MCConn == {c1, c2, c3}
MCRoomName == {r1, r2}
Symmetry == Permutations(MCConn) \cup Permutations(MCRoomName)

\* No action reads `sent', which wire repeats; states that differ in it alone
\* are one, unless it is sent to somebody who is not there.
WithoutOutput == <<registry, open, wire, roster, HandlesAreOpen>>
=============================================================================
