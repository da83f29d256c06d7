-------------------------- MODULE MCConnectionPool --------------------------
(* Small instances of ConnectionPool for TLC. *)
EXTENDS ConnectionPool, TLC

CONSTANTS c1, c2, c3, a1, a2

TwoAddrs == {a1, a2}
ThreeCallers == {c1, c2, c3}
=============================================================================
