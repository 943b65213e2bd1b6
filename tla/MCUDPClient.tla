---------------------------- MODULE MCUDPClient ----------------------------
(* Instances of UDPClient for TLC. *)
EXTENDS UDPClient, TLC

CONSTANTS c1, r1, r2

\* Any call may bear any ref: genRef may collide, applications may set refs.
AnyRefs == [c \in Calls |-> Refs]
\* Every call bears a ref of its own.
OwnRefs == [c \in Calls |-> IF c = c1 THEN {r1} ELSE {r2}]
OnlyNoRef == {NoRef}

Symmetry == Permutations(Handlers)
=============================================================================
