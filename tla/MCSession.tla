---- MODULE MCSession ----
(* Values of the constants of Session for TLC. *)
EXTENDS Session, TLC

CONSTANTS c1, r1, r2, r3

\* Every call bears a ref of its own, the peer's packets another.
OwnRefs == [c \in Calls |-> IF c = c1 THEN {r1} ELSE {r2}]
====
