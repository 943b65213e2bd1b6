----------------------------- MODULE Responder -----------------------------
(***************************************************************************)
(* What a server promises about the datagrams it reads (server/server.go): *)
(* each is answered at most once, to the sender or to where it is relayed, *)
(* with a packet that the datagram itself calls for. What may be written   *)
(* for a datagram is the parameter MayAnswer.                              *)
(***************************************************************************)
CONSTANTS
  Tasks,           \* the datagrams read, in the order in which they are
  Datagrams,       \* what may be read
  NoDatagram,
  MayAnswer(_,_,_) \* MayAnswer(t, d, x): task t may write x for datagram d

VARIABLES
  got,  \* [Tasks -> Datagrams \cup {NoDatagram}]
  out   \* what was written on account of each task's datagram

Init == got = [t \in Tasks |-> NoDatagram] /\ out = [t \in Tasks |-> <<>>]

Read(t, d) ==
  /\ got[t] = NoDatagram
  /\ got' = [got EXCEPT ![t] = d] /\ UNCHANGED out

Answer(t, x) ==
  /\ got[t] # NoDatagram /\ out[t] = <<>> /\ MayAnswer(t, got[t], x)
  /\ out' = [out EXCEPT ![t] = <<x>>] /\ UNCHANGED got

Written(t) == {out[t][i] : i \in DOMAIN out[t]}

Next ==
  \E t \in Tasks :
    \/ \E d \in Datagrams : Read(t, d)
    \/ \E x \in Written(t)' : Answer(t, x)

Spec == Init /\ [][Next]_<<got, out>>
=============================================================================
