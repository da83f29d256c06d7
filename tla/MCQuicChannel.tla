--------------------------- MODULE MCQuicChannel ---------------------------
(* Small instances of QuicChannel for TLC. *)
EXTENDS QuicChannel, TLC

CONSTANTS r1, r2

TwoCalls == {r1, r2}

CallSymmetry == Permutations(Call)
=============================================================================
