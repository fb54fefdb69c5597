-------------------------- MODULE MCSignalingClient --------------------------
(***************************************************************************)
(* One candidate, which can be found before, in and after every step of     *)
(* connect and of onJoined; two connects, the second after a loss, a        *)
(* failure or a disconnect; one ping.                                       *)
(***************************************************************************)
EXTENDS SignalingClient
=============================================================================
