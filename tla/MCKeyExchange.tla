---- MODULE MCKeyExchange ----
(* Values of the constants of KeyExchange for TLC. *)
EXTENDS KeyExchange, TLC

CONSTANTS c1, c2

\* Exchanges with the server and the other client, and a message of c1.
Sends == [c \in Clients |-> IF c = c1 THEN 3 ELSE 2]

\* One restart, of c1 or of the server.
OneRestart == {e \in [Parties -> 0..1] : e[c2] = 0 /\ 0 \in {e[c1], e[Svr]}}

\* The second run of c1 has a secret with the server that AES refuses.
ShortSecrets == {{<<c1, 1>>, <<Svr, 0>>}}

SlotSymmetry == Permutations(Slots)
====
