---------------------------- MODULE MCQuicServer ----------------------------
(* Small instances of QuicServer for TLC. *)
EXTENDS QuicServer, TLC

CONSTANTS k1, k2, s1, s2

OneConn == {k1}
TwoConns == {k1, k2}
TwoStreams == {s1, s2}
=============================================================================
