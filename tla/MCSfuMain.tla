------------------------------ MODULE MCSfuMain ------------------------------
EXTENDS SfuMain

CONSTANTS p1, p2, r1, r2

MCThread == {Loop, Media}
TwoClients == {p1, p2}
OneRoom == {r1}
TwoRooms == {r1, r2}
=============================================================================
