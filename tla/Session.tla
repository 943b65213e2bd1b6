------------------------------ MODULE Session ------------------------------
(***************************************************************************)
(* The client of UDPClient and the server that Responder promises, with    *)
(* the network between them and a peer whose packets the server relays to  *)
(* the client. The network may repeat a request (several tasks read it),   *)
(* lose requests and replies and reorder both; a repeated reply is as good *)
(* as the reply to a repeated request.                                     *)
(***************************************************************************)
EXTENDS UDPClient, Naturals, Sequences

CONSTANTS
  MaxReads,    \* bound: datagrams that the server reads
  Clt,         \* the client's address
  Other,       \* the peer's address
  NoDatagram

VARIABLES
  got, out,    \* the server: see Responder
  net          \* the tasks whose reply is under way to the client

Tasks == 1..MaxReads

sessionVars == <<vars, got, out, net>>

\* A datagram names its sender, the ref and, for a relay, where it is to go;
\* body stands for its contents: the call that sent it, or the peer's packet.
Datagram(c) == [from |-> Clt, ref |-> ref[c], dst |-> Other, body |-> c]
PeerDatagrams == {[from |-> Other, ref |-> r, dst |-> Clt, body |-> Peer] : r \in PeerRefs}
Datagrams == [from : {Clt, Other}, ref : AllRefs, dst : {Clt, Other}, body : Calls \cup {Peer}]

\* The client's goroutine for a reply is named after the server's task.
ASSUME SessionAssumption ==
  MaxReads \in Nat /\ Tasks \subseteq Handlers /\ Clt # Other /\ NoDatagram \notin Datagrams

\* Mutant: a reply bears the ref of another packet.
MayAnswerAnyRef(t, d, x) == x.to \in {d.from, d.dst} /\ x.body = d.body

(* What UDPServer's MayAnswer says of refs and addresses: a reply or an     *)
(* error to the sender with its ref, an error without, or a relay.          *)
MayAnswer(t, d, x) ==
  /\ x.body = d.body
  /\ \/ x.to = d.from /\ x.ref \in {d.ref, NoRef}
     \/ x.to = d.dst /\ x.ref = d.ref

Replies == [to : {Clt, Other}, ref : AllRefs, body : Calls \cup {Peer}]

S == INSTANCE Responder

SessionInit == Init /\ S!Init /\ net = {}

-----------------------------------------------------------------------------
(* The server reads a datagram that the client or the peer has written. *)
ServerRead(t) ==
  /\ \A u \in 1..(t - 1) : got[u] # NoDatagram
  /\ \E d \in {Datagram(c) : c \in sent} \cup PeerDatagrams : S!Read(t, d)
  /\ UNCHANGED <<vars, net>>

ServerAnswer(t) ==
  /\ \E x \in Replies :
       /\ S!Answer(t, x)
       /\ net' = IF x.to = Clt THEN net \cup {t} ELSE net
  /\ UNCHANGED vars

\* The reply of task t as the client decodes it.
Decoded(t) == [ref |-> out[t][1].ref, from |-> out[t][1].body]

(* The client's recv routine reads a reply addressed to it. *)
ClientRead(t) ==
  /\ t \in net
  /\ Receive(t, Decoded(t))
  /\ net' = net \ {t}
  /\ UNCHANGED <<got, out>>

(* The client's other steps. *)
ClientStep ==
  /\ \/ \E c \in Calls :
          \/ \E r \in Refs : Send(c, r) \/ SendRefused(c, r)
          \/ HandOff(c) \/ Register(c)
     \/ WriteOk \/ WriteErr \/ ReportErr \/ WriterExit
     \/ RecvSelect \/ RecvIgnored \/ Cleanup
     \/ \E h \in Handlers : Lookup(h) \/ Respond(h) \/ MiscReceive(h) \/ Delete(h)
  /\ UNCHANGED <<got, out, net>>

SessionNext ==
  \/ ClientStep
  \/ \E t \in Tasks : ServerRead(t) \/ ServerAnswer(t) \/ ClientRead(t)

SessionSpec == SessionInit /\ [][SessionNext]_sessionVars

FairSession == SessionSpec /\ Fairness

-----------------------------------------------------------------------------
(* Inductive invariant. *)

\* The server has read what was transmitted to it, and answered that.
ServerInv ==
  /\ got \in [Tasks -> Datagrams \cup {NoDatagram}]
  /\ out \in [Tasks -> {<<>>} \cup {<<x>> : x \in Replies}]
  /\ \A t \in Tasks : got[t] # NoDatagram =>
       got[t] \in PeerDatagrams \/ \E c \in sent : got[t] = Datagram(c)
  /\ \A t \in Tasks : out[t] # <<>> => got[t] # NoDatagram /\ MayAnswer(t, got[t], out[t][1])

\* Task t has answered the client.
ToClient(t) == t \in Tasks /\ out[t] # <<>> /\ out[t][1].to = Clt

\* Whatever is under way to the client, decoded by it or returned to a
\* caller is an answer of the server, or an error of the client's own.
DeliveryInv ==
  /\ \A t \in net : ToClient(t)
  /\ \A h \in Handlers : hpc[h] # "free" => ToClient(h) /\ hpkt[h] = Decoded(h)
  /\ \A c \in Calls : answer[c] \notin {NoAnswer, ErrPkt} =>
       \E t \in Tasks : ToClient(t) /\ answer[c] = Decoded(t) /\ answer[c].ref = ref[c]

(* The state of the session between any two steps: the invariant of the    *)
(* client, and where the packets that it decodes come from.                *)
SessionInv == ClientInv /\ ServerInv /\ DeliveryInv

-----------------------------------------------------------------------------
(* What UDPClient assumes of server, peers and network is true of them: in *)
(* the composed system the client behaves as its specification says, and   *)
(* what was shown of it there holds here.                                  *)
ClientAssumptionMet == Spec

(* From call to callback and back: while refs differ, a caller that gets a *)
(* response gets one that the server wrote for the caller's own request;   *)
(* a caller that is told of a failed write can rely on it that the server  *)
(* never saw the request.                                                  *)
EndToEnd ==
  \A c \in Calls : answer[c] # NoAnswer /\ RefsDistinct /\ ref[c] \notin PeerRefs =>
    IF answer[c] = ErrPkt
      THEN \A t \in Tasks : got[t] # NoDatagram => got[t].body # c
      ELSE \E t \in Tasks :
             /\ got[t] = Datagram(c)
             /\ out[t] = <<[to |-> Clt, ref |-> ref[c], body |-> c]>>
=============================================================================
