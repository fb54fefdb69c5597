------------------------------- MODULE MCRoom -------------------------------
(* A Room of three places driven by two threads: targets over two receivers, *)
(* and adds that overlap.                                                    *)
EXTENDS Room, TLC

CONSTANTS t1, t2, p1, p2, p3

MCThread == {t1, t2}
MCParticipantId == {p1, p2, p3}
Symmetry == Permutations(MCThread) \cup Permutations(MCParticipantId)
=============================================================================
