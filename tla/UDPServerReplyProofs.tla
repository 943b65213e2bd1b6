------------------------ MODULE UDPServerReplyProofs ------------------------
(***************************************************************************)
(* What the server writes, for any number of requests, goroutines and      *)
(* packets and any callback queues: ReplyInv is inductive relative to      *)
(* ServerInv; AtMostOneReply, RepliesFaithful and the refinement of        *)
(* Responder follow from it.                                               *)
(***************************************************************************)
EXTENDS UDPServerStepProofs, FiniteSetTheorems

-----------------------------------------------------------------------------
(* Counting what the callbacks have written. *)

(* One more callback. *)
LEMMA WrittenOne ==
  ASSUME NEW t, NEW q, NEW k \in Nat
  PROVE  WrittenAfter(t, q, k + 1) = IF q[k + 1] \in {"write", "closeSend"}
                                       THEN WrittenAfter(t, q, k) \o <<t>>
                                       ELSE WrittenAfter(t, q, k)
<1> DEFINE W(n) == {j \in 1..n : q[j] \in {"write", "closeSend"}}
<1>1. IsFiniteSet(W(k)) /\ Cardinality(W(k)) \in Nat
  <2>1. IsFiniteSet(1..k)
    BY FS_Interval, SMTT(60)
  <2>. QED
    BY <2>1, FS_Subset, FS_CardinalityType, Zenon
<1>2. CASE q[k + 1] \in {"write", "closeSend"}
  <2>1. W(k + 1) = W(k) \cup {k + 1} /\ k + 1 \notin W(k)
    BY <1>2, SMTT(60)
  <2>2. Cardinality(W(k + 1)) = Cardinality(W(k)) + 1
    BY <1>1, <2>1, FS_AddElement, Zenon
  <2>3. ASSUME NEW n \in Nat PROVE Copies(t, n + 1) = Copies(t, n) \o <<t>>
    BY SMTT(60) DEF Copies
  <2>4. WrittenAfter(t, q, k) = Copies(t, Cardinality(W(k)))
    BY Zenon DEF WrittenAfter
  <2>5. WrittenAfter(t, q, k + 1) = Copies(t, Cardinality(W(k + 1)))
    BY Zenon DEF WrittenAfter
  <2>. QED
    BY <1>1, <1>2, <2>2, <2>3, <2>4, <2>5, ZenonT(60)
<1>3. CASE q[k + 1] \notin {"write", "closeSend"}
  <2>1. W(k + 1) = W(k)
    BY <1>3, SMTT(60)
  <2>. QED
    BY <1>3, <2>1, ZenonT(60) DEF WrittenAfter
<1>. QED
  BY <1>2, <1>3, Zenon

(* Before the first callback. *)
LEMMA WrittenNone ==
  ASSUME NEW t, NEW q
  PROVE  WrittenAfter(t, q, 0) = <<>>
<1>1. {j \in 1..0 : q[j] \in {"write", "closeSend"}} = {}
  BY SMTT(60)
<1>2. Cardinality({}) = 0
  BY FS_EmptySet, Zenon
<1>4. Cardinality({j \in 1..0 : q[j] \in {"write", "closeSend"}}) = 0
  BY <1>1, <1>2, ZenonT(60)
<1>3. Copies(t, 0) = <<>>
  BY SMTT(60) DEF Copies
<1>5. WrittenAfter(t, q, 0) = Copies(t, Cardinality({j \in 1..0 : q[j] \in {"write", "closeSend"}}))
  BY Zenon DEF WrittenAfter
<1>. QED
  BY <1>3, <1>4, <1>5, ZenonT(60)

(* What the step lemmas rely on. *)
LEMMA WritesAddUp == WriteLaw
  BY WrittenNone, WrittenOne, ZenonT(60) DEF WriteLaw

-----------------------------------------------------------------------------
(* The theorems. *)

(* Each packet on the way from a datagram to the wire holds what its       *)
(* request calls for, and each request is answered by one of them only,    *)
(* whatever the number of requests, workers and packet objects and         *)
(* whatever the callback queues of processIncoming's targets.              *)
THEOREM ReplyInvariant == Spec => []ReplyInv
<1>1. ServerInv /\ ReplyInv /\ [Next]_vars => ReplyInv'
  BY WritesAddUp, NextReplyInv, ZenonT(60)
<1>. QED
  BY <1>1, InitServerInv, NextServerInv, InitReplyInv, PTL DEF Spec

(* What writePkts sends for a datagram bears its reference, goes where it  *)
(* or its callbacks say, and carries the bytes that its own callbacks      *)
(* wrote or that it brought, although packets are recycled.                *)
THEOREM RepliesAreFaithful == Spec => []RepliesFaithful
<1>1. ReplyInv => RepliesFaithful
  BY ZenonT(60) DEF ReplyInv
<1>. QED
  BY <1>1, ReplyInvariant, PTL

(* No datagram is answered twice: relayCallback stops the queue, and an    *)
(* error of the "_out_" pipeline replaces the packet it is about.          *)
THEOREM NoSecondReply == Spec => []AtMostOneReply
<1>1. ReplyInv => AtMostOneReply
  <2> SUFFICES ASSUME ReplyInv, NEW t \in Tasks PROVE Len(wire[t]) <= 1
    BY Zenon DEF AtMostOneReply
  <2>1. wire[t] = <<>> \/ Len(wire[t]) = 1
    BY Zenon DEF ReplyInv, SentInv
  <2>2. Len(wire[t]) = 0 \/ Len(wire[t]) = 1
    <3>1. Len(<<>>) = 0
      BY Zenon
    <3>. QED
      BY <2>1, <3>1, Zenon
  <2>3. 0 <= 1 /\ 1 <= 1
    BY SMTT(60)
  <2>. QED
    BY <2>2, <2>3, Zenon
<1>. QED
  BY <1>1, ReplyInvariant, PTL

(* The goroutines of the server implement what server.Server promises:     *)
(* every write answers a datagram that was read and not answered so far,   *)
(* with a packet that the datagram calls for.                              *)
THEOREM ServerResponds == Spec => ImplementsResponder
<1>1. R!Init /\ [][R!Next]_<<dgram, wire>> => ImplementsResponder
  BY Zenon DEF ImplementsResponder, R!Spec
<1>. QED
  BY <1>1, ServerInvariant, ReplyInvariant, InitResponds, NextResponds, PTL DEF Spec

=============================================================================
