----------------------------- MODULE MCUDPServer -----------------------------
EXTENDS UDPServer, TLC

CONSTANTS a1, a2, lost, r1, echo, busy, fail, fwd, none, req

Served == {echo, busy, fail, fwd}

\* Queues that go on and stop in every way.
AllQueues ==
  echo :> <<"write", "closeSend", "write">> @@ busy :> <<"relay", "write">>
    @@ fail :> <<"write", "error">> @@ fwd :> <<"forward", "write">>
MoreQueues ==
  echo :> <<"write", "closeSend">> @@ busy :> <<"noop", "write">>
    @@ fail :> <<"error">> @@ fwd :> <<"forward">>

Datagram(form, tgt, dst, data) ==
  [from |-> a1, form |-> form, data |-> data,
   meta |-> [EmptyMeta EXCEPT !.ref = r1, !.tgt = tgt, !.dst = dst]]

Requests == {Datagram("json", tgt, a2, Encode(<<req>>)) : tgt \in Served}
Two == {Datagram("json", tgt, a2, Encode(<<req>>)) : tgt \in {echo, fwd}}
Malformed == {Datagram("json", echo, a2, BadText), Datagram("garbage", echo, a2, BadText)}
Unserved == {Datagram("json", none, a2, Encode(<<req>>)), Datagram("json", fwd, lost, Encode(<<req>>))}

AllDatagrams == Requests \cup Malformed \cup Unserved
Ok == {"ok"}
AllOutcomes == Outcomes
Symmetry == Permutations(Tasks) \cup Permutations(Workers)
=============================================================================
