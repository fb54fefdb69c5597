---------------------------- MODULE MCRtpTransport ----------------------------
EXTENDS RtpTransport

\* One end may be told a fingerprint that is not its peer's.
OneMismatch == [e \in End |-> IF e = "server" THEN {"peer", "other"} ELSE {"peer"}]

\* The SFU destroys its transports; group_call's and its callbacks hold each other
\* (group_call.cpp:171, :195) and live as long as the program.
ServerOnly == {"server"}
=============================================================================
