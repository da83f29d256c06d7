---------------------------- MODULE MCCallTiming ----------------------------
(* A small instance of CallTiming for TLC: every edge of the widths. *)
EXTENDS CallTiming, TLC

CONSTANTS svc, other, addr1, addr2

Policy(n, initial, num, den, cap) ==
    [max_attempts |-> n, initial |-> initial, num |-> num, den |-> den, cap |-> cap]

(* Doubling up to a cap; a fractional multiplier; an initial backoff of    *)
(* one and a half and of half a millisecond; one that saturates; constant, *)
(* shrinking, zero and negative multipliers; no attempt and one.           *)
SomePolicies == {Policy(4, 8, 2, 1, 20), Policy(4, 12, 3, 2, 124), Policy(3, 6, 2, 1, 124),
                 Policy(3, 2, 2, 1, 124), Policy(4, 16, 4, 1, 124), Policy(3, 8, 1, 1, 124),
                 Policy(3, 8, 1, 2, 124), Policy(3, 8, 0, 1, 124), Policy(4, 8, -2, 1, 124),
                 Policy(0, 8, 2, 1, 20), Policy(1, 8, 2, 1, 20)}

SomeTargets == {svc, addr1}
SomeLiterals == {addr1, addr2}
SomeResolvers ==
    {None, <<[name |-> other, addr |-> addr2]>>,
     <<[name |-> other, addr |-> addr2], [name |-> svc, addr |-> addr1], [name |-> svc, addr |-> addr2]>>}

(* -1 stands for what is no number, 32 for a number that is no u64. *)
SomeHeaders ==
    {None} \cup [val : {-1, 0, 1, 2, 3, 5, 6, 10, 11, 15, 16, 31, 32},
                 unit : {"H", "M", "S", "m", "u", "n", "x"}]
SomeLatency == {0, 3, 7}
=============================================================================
