-------------------------- MODULE KeyExchangeProofs --------------------------
(***************************************************************************)
(* Proofs about KeyExchange. KeyExchangeInv is inductive: every request on *)
(* the network has a ref of its own and is answered by the server in a way *)
(* that fits it, so that what a client takes for a key of the server is    *)
(* one, and what a client or the server opens was sealed by the other.     *)
(***************************************************************************)
EXTENDS KeyExchange, SequenceTheorems, TLAPS

Datagrams == [src : Parties, dst : Parties, enc : SUBSET AnyKey, pkt : Packets]
SlotRecs(n) == [pc : {"free", "run", "out", "check", "mark"}, pkt : Packets,
                addr : Clients \cup {NoAddr}, k : 0..n]
Objects == [public : AnyKey, keySent : BOOLEAN, shared : SUBSET AnyKey]

-----------------------------------------------------------------------------
(* Keys and packets. *)

(* Key, Shared: the key of a party is a key, and so is each it has had. *)
LEMMA KeyTypes ==
  ASSUME TypeOK
  PROVE  /\ \A p \in Parties : Key(p) \in AnyKey /\ Key(p) \in KeysOf(p)
         /\ \A p \in Parties : KeysOf(p) \subseteq AnyKey
         /\ \A k, l \in AnyKey : Shared(k, l) \in SUBSET AnyKey /\ Shared(k, l) # Plain
BY SMTT(60) DEF TypeOK, Key, KeysOf, AnyKey, Shared, Plain

(* KeysOf: two parties never have a key in common. *)
LEMMA KeysDiffer ==
  ASSUME NEW p, NEW q, p # q
  PROVE  \A k \in KeysOf(p), l \in KeysOf(q) : k # l
BY SMTT(60) DEF KeysOf

(* Pkt: the packets that the code makes are packets, and Free is a slot. *)
LEMMA PktTypes ==
  ASSUME NEW tgt \in {"kex-cs", "kex-cc", "echo", "relay", "none"}, NEW ref \in Refs
  PROVE  /\ Pkt(tgt, ref) \in Packets
         /\ Pkt(tgt, ref).tgt = tgt /\ Pkt(tgt, ref).ref = ref /\ Pkt(tgt, ref).from = NoAddr
         /\ \A k \in AnyKey \cup {NoKey} : ErrPkt(ref, k) \in Packets
         /\ \A k \in AnyKey \cup {NoKey} :
              ErrPkt(ref, k).ref = ref /\ ErrPkt(ref, k).from = NoAddr
BY Zenon DEF Pkt, ErrPkt, Packets, Plain

(* keyExchangeServer, keyExchangeClient, relayCallback: what they compose  *)
(* are packets.                                                            *)
LEMMA ComposedPkts ==
  ASSUME NEW q \in Packets
  PROVE  /\ \A k \in AnyKey : [q EXCEPT !.key = k, !.nocrypto = TRUE] \in Packets
         /\ \A e \in SUBSET AnyKey, b \in Clients \cup {NoAddr}, f \in Clients :
              [q EXCEPT !.seal = e, !.author = b, !.from = f] \in Packets
BY ZenonT(60) DEF Packets

(* Refs: what no packet refers to is not the ref of a packet of a client. *)
LEMMA RefTypes ==
  ASSUME TypeOK, NEW c \in Clients
  PROVE  /\ Ref(c) \in Refs /\ Ref(c) # NoRef /\ Ref(c)[1] = c /\ Ref(c)[2] = sent[c]
         /\ NoRef \in Refs
         /\ \A r \in Refs : r # NoRef =>
              r[1] \in Clients /\ r[2] \in Nat /\ r = <<r[1], r[2]>>
<1>1. Ref(c) \in Clients \X Nat /\ Ref(c)[1] = c /\ Ref(c)[2] = sent[c]
  BY SMTT(60) DEF Ref, TypeOK
<1>2. ASSUME NEW r, Len(r) = 2
      PROVE  r # NoRef
  <2>1. Len(NoRef) = 0
    BY SMTT(60) DEF NoRef
  <2>2. QED
    BY <1>2, <2>1, SMTT(60)
<1>3. \A r \in Clients \X Nat : Len(r) = 2
  BY SMTT(60)
<1>4. \A r \in Clients \X Nat : r # NoRef
  BY <1>2, <1>3, SMTT(60)
<1>5. QED
  BY <1>1, <1>4, SMTT(60) DEF Refs

-----------------------------------------------------------------------------
(* What a client sends. *)

\* A packet that client c may send now.
Proper(c, pkt) ==
  /\ pkt \in Packets /\ pkt.ref = Ref(c)
  /\ cpc[c] = "new" => pkt.tgt = "kex-cs"
  /\ pkt.tgt = "kex-cs" => pkt.key # NoKey
  /\ pkt.tgt \in {"kex-cc", "relay"} => pkt.to \in Clients \ {c}
  /\ pkt.tgt = "relay" =>
       pkt.author = c /\ \E k \in KeysOf(c) : \E l \in pkt.seal : pkt.seal = {k, l}

\* A step in which client c sends packet pkt.
Sending(c, pkt) ==
  /\ cpc[c] \in {"new", "on"} /\ Proper(c, pkt) /\ Send(c, pkt)
  /\ UNCHANGED <<epoch, keys, opened, server>>

(* ConfigureClient, ServerKEx, ClientKEx: the packet of an exchange is a   *)
(* proper one, and to the server it is a key.                              *)
LEMMA ExchangeProper ==
  ASSUME KeyExchangeInv, NEW c \in Clients
  PROVE  /\ Proper(c, KeyExServerPkt(c)) /\ KeyExServerPkt(c).tgt = "kex-cs"
         /\ cpc[c] = "on" => \A other \in Clients \ {c} :
              Proper(c, KeyExClientPkt(c, other)) /\ KeyExClientPkt(c, other).tgt = "kex-cc"
<1>1. TypeOK /\ Ref(c) \in Refs /\ c \in Parties
  BY RefTypes, SMTT(60) DEF KeyExchangeInv, Parties
<1>2. Key(c) \in AnyKey /\ Key(c) # NoKey
  BY <1>1, KeyTypes, KeyExchangeAssumption, SMTT(60) DEF AnyKey
<1>3. Proper(c, KeyExServerPkt(c)) /\ KeyExServerPkt(c).tgt = "kex-cs"
  BY <1>1, <1>2, Zenon DEF Proper, KeyExServerPkt, Pkt, Packets, Plain
<1>4. ASSUME cpc[c] = "on", NEW other \in Clients \ {c}
      PROVE  Proper(c, KeyExClientPkt(c, other)) /\ KeyExClientPkt(c, other).tgt = "kex-cc"
  BY <1>1, <1>4, Zenon DEF Proper, KeyExClientPkt, Pkt, Packets, Plain
<1>5. QED
  BY <1>3, <1>4, SMTT(60)

(* Exchange: the step sends its packet. *)
LEMMA ExchangeSends ==
  ASSUME KeyExchangeInv, NEW c \in Clients
  PROVE  /\ ConfigureClient(c) \/ ServerKEx(c) => Sending(c, KeyExServerPkt(c))
         /\ \A other \in Clients \ {c} :
              ClientKEx(c, other) => Sending(c, KeyExClientPkt(c, other))
BY ExchangeProper, SMTT(60) DEF ConfigureClient, ServerKEx, ClientKEx, Exchange, Sending

(* Request, SendE2E: the step sends a proper packet; end-to-end data is    *)
(* sealed with the key of its author.                                      *)
LEMMA DataSends ==
  ASSUME KeyExchangeInv, NEW c \in Clients
  PROVE  /\ Request(c) => \E pkt : Sending(c, pkt)
         /\ \A other \in Clients \ {c} : SendE2E(c, other) => \E pkt : Sending(c, pkt)
<1>1. TypeOK /\ Ref(c) \in Refs /\ c \in Parties
  BY RefTypes, SMTT(60) DEF KeyExchangeInv, Parties
<1>2. ASSUME Request(c)
      PROVE  Sending(c, Pkt("echo", Ref(c)))
  <2>1. Proper(c, Pkt("echo", Ref(c)))
    BY <1>1, <1>2, SMTT(60) DEF Proper, Request, Pkt, Packets, Plain
  <2>2. QED
    BY <1>2, <2>1, SMTT(60) DEF Request, Sending
<1>3. ASSUME NEW other \in Clients \ {c}, SendE2E(c, other)
      PROVE  \E pkt : Sending(c, pkt)
  <2> DEFINE pk(e) == [Pkt("relay", Ref(c)) EXCEPT !.to = other, !.seal = e, !.author = c]
  <2>1. PICK e \in Encrypts(keys[c][other].shared) : Send(c, pk(e))
    BY <1>3, Zenon DEF SendE2E
  <2>2. other \in Parties /\ e = keys[c][other].shared /\ e # Plain
    BY <2>1, SMTT(60) DEF Encrypts, Seals, Parties
  <2>3. keys[c][other].public \in AnyKey \cup {NoKey} /\ e \in SUBSET AnyKey
    BY <1>1, <2>2, SMTT(60) DEF TypeOK
  <2>4. e = {Key(c), keys[c][other].public}
    BY <2>2, SMTT(60) DEF KeyExchangeInv, StoreInv, NoStore, Shared
  <2>5. \E k \in KeysOf(c) : \E l \in e : e = {k, l}
    BY <1>1, <2>4, KeyTypes, SMTT(60)
  <2>6. pk(e) \in Packets /\ pk(e).ref = Ref(c) /\ pk(e).tgt = "relay" /\ pk(e).to = other
        /\ pk(e).author = c /\ pk(e).seal = e
    BY <1>1, <2>3, Zenon DEF Pkt, Packets, Plain
  <2>7. Proper(c, pk(e))
    <3> HIDE DEF pk
    <3>1. QED
      BY <1>3, <2>5, <2>6, Zenon DEF Proper, SendE2E
  <2>8. Sending(c, pk(e))
    BY <1>3, <2>1, <2>7, SMTT(60) DEF SendE2E, Sending
  <2>9. QED
    BY <2>8, SMTT(60)
<1>4. QED
  BY <1>2, <1>3, SMTT(60)

(* Send: one datagram at most, from c to the server, in the clear only for *)
(* an exchange with the server.                                            *)
LEMMA SendEffect ==
  ASSUME KeyExchangeInv, NEW c \in Clients, NEW pkt, Sending(c, pkt)
  PROVE  /\ net \subseteq net' /\ net' \subseteq Datagrams
         /\ sent' = [sent EXCEPT ![c] = @ + 1] /\ sent' \in [Clients -> Nat]
         /\ \A d \in net' \ net :
              /\ d.src = c /\ d.dst = Svr /\ d.pkt = pkt
              /\ d.enc = Plain => pkt.tgt = "kex-cs"
              /\ cpc[c] # "new" => \E k \in KeysOf(Svr) : d.enc = {Key(c), k}
         /\ \A d, e \in net' \ net : d = e
<1>1. TypeOK /\ c \in Parties /\ Svr \in Parties
  BY SMTT(60) DEF KeyExchangeInv, Parties
<1>2. cpc[c] = "on" => keys[c][Svr].public \in KeysOf(Svr)
  BY SMTT(60) DEF KeyExchangeInv, StoreInv
<1>3. cpc[c] = "on" => keys[c][Svr].shared = {Key(c), keys[c][Svr].public}
  <2>1. KeysOf(Svr) \subseteq AnyKey
    BY <1>1, KeyTypes, SMTT(60)
  <2>2. NoStore.public \notin AnyKey
    BY KeyExchangeAssumption, SMTT(60) DEF NoStore, AnyKey
  <2>3. QED
    BY <1>1, <1>2, <2>1, <2>2, SMTT(60) DEF KeyExchangeInv, StoreInv, Shared
<1>4. \A e \in Transport(c) :
        /\ e \in SUBSET AnyKey
        /\ e = Plain => cpc[c] = "new"
        /\ cpc[c] # "new" => \E k \in KeysOf(Svr) : e = {Key(c), k}
  <2>1. CASE cpc[c] = "new"
    BY <2>1, SMTT(60) DEF Transport, Plain
  <2>2. CASE cpc[c] = "on"
    <3>1. \A e \in Transport(c) : e = keys[c][Svr].shared
      BY <2>2, SMTT(60) DEF Transport, Seals
    <3>2. keys[c][Svr].shared \in SUBSET AnyKey
      BY <1>1, SMTT(60) DEF TypeOK
    <3>3. keys[c][Svr].shared # Plain
      BY <1>3, <2>2, SMTT(60) DEF Plain
    <3>4. QED
      BY <1>2, <1>3, <2>2, <3>1, <3>2, <3>3, SMTT(60)
  <2>3. QED
    BY <2>1, <2>2, SMTT(60) DEF Sending
<1>5. \A e, f \in Transport(c) : e = f
  BY SMTT(60) DEF Transport, Seals
<1>6. net' = net \cup {[src |-> c, dst |-> Svr, enc |-> e, pkt |-> pkt] : e \in Transport(c)}
  BY SMTT(60) DEF Sending, Send
<1>7. sent' = [sent EXCEPT ![c] = @ + 1] /\ sent' \in [Clients -> Nat]
  BY <1>1, SMTT(60) DEF Sending, Send, TypeOK
<1>8. pkt \in Packets /\ (cpc[c] = "new" => pkt.tgt = "kex-cs")
  BY SMTT(60) DEF Sending, Proper
<1>9. net \subseteq Datagrams
  BY <1>1, SMTT(60) DEF TypeOK, Datagrams
<1>10. \A d \in net' \ net : \E e \in Transport(c) :
         d = [src |-> c, dst |-> Svr, enc |-> e, pkt |-> pkt]
  BY <1>6, SMTT(60)
<1>11. net' \subseteq Datagrams
  BY <1>1, <1>4, <1>8, <1>9, <1>10, SMTT(60) DEF Datagrams
<1>12. \A d \in net' \ net :
         /\ d.src = c /\ d.dst = Svr /\ d.pkt = pkt
         /\ d.enc = Plain => pkt.tgt = "kex-cs"
         /\ cpc[c] # "new" => \E k \in KeysOf(Svr) : d.enc = {Key(c), k}
  BY <1>4, <1>8, <1>10, SMTT(60)
<1>13. \A d, e \in net' \ net : d = e
  BY <1>5, <1>10, SMTT(60)
<1>14. QED
  BY <1>6, <1>7, <1>11, <1>12, <1>13, SMTT(60)

-----------------------------------------------------------------------------
(* Types. *)

(* Free, Reply, Receive: a slot that is free or waits to send is a slot,   *)
(* however long the heap.                                                  *)
LEMMA SlotTypes ==
  ASSUME NEW n \in Nat
  PROVE  /\ Free \in SlotRecs(n) /\ Free.pc = "free"
         /\ \A pc \in {"run", "out"}, p \in Packets, a \in Clients \cup {NoAddr} :
              [Free EXCEPT !.pc = pc, !.pkt = p, !.addr = a] \in SlotRecs(n)
         /\ \A m \in Nat : n <= m => SlotRecs(n) \subseteq SlotRecs(m)
<1>1. NoRef \in Refs
  BY SMTT(60) DEF Refs
<1>2. Pkt("none", NoRef) \in Packets
  BY <1>1, PktTypes, SMTT(60)
<1>3. Free \in SlotRecs(n) /\ Free.pc = "free"
  BY <1>2, SMTT(60) DEF Free, SlotRecs
<1>4. ASSUME NEW pc \in {"run", "out"}, NEW p \in Packets, NEW a \in Clients \cup {NoAddr}
      PROVE  [Free EXCEPT !.pc = pc, !.pkt = p, !.addr = a] \in SlotRecs(n)
  BY <1>3, Zenon DEF SlotRecs
<1>5. ASSUME NEW m \in Nat, n <= m
      PROVE  SlotRecs(n) \subseteq SlotRecs(m)
  BY <1>5, SMTT(60) DEF SlotRecs
<1>6. QED
  BY <1>3, <1>4, <1>5, Zenon

(* Reply: the slot's answer is a slot, and a recycled key is a key. *)
LEMMA ReplyTypes ==
  ASSUME TypeOK, NEW s \in Slots, NEW p \in Packets, NEW a \in Clients \cup {NoAddr},
         Reply(s, p, a), NEW m \in Nat, Len(heap) <= m
  PROVE  slot' \in [Slots -> SlotRecs(m)] /\ recycled' \subseteq AnyKey
<1>1. Len(heap) \in Nat /\ slot \in [Slots -> SlotRecs(Len(heap))] /\ recycled \subseteq AnyKey
  BY LenProperties, SMTT(60) DEF TypeOK, SlotRecs
<1>2. SlotRecs(Len(heap)) \subseteq SlotRecs(m)
  BY <1>1, SlotTypes, Zenon
<1>3. [Free EXCEPT !.pc = "out", !.pkt = p, !.addr = a] \in SlotRecs(m)
  BY SlotTypes, Zenon
<1>4. slot' \in [Slots -> SlotRecs(m)]
  BY <1>1, <1>2, <1>3, SMTT(60) DEF Reply
<1>5. slot[s].pkt.key \in AnyKey \cup {NoKey}
  BY <1>1, SMTT(60) DEF SlotRecs, Packets
<1>6. QED
  BY <1>1, <1>4, <1>5, SMTT(60) DEF Reply

(* Emit: what is sent is a datagram, and the slot is free. *)
LEMMA EmitTypes ==
  ASSUME KeyExchangeInv, NEW s \in Slots, NEW enc \in SUBSET AnyKey, Emit(s, enc),
         slot[s].addr \in Clients
  PROVE  /\ slot' \in [Slots -> SlotRecs(Len(heap))] /\ recycled' \subseteq AnyKey
         /\ net' \subseteq Datagrams
<1>1. Len(heap) \in Nat /\ slot \in [Slots -> SlotRecs(Len(heap))] /\ recycled \subseteq AnyKey
      /\ net \subseteq Datagrams
  BY LenProperties, SMTT(60) DEF KeyExchangeInv, TypeOK, SlotRecs, Datagrams
<1>2. slot' \in [Slots -> SlotRecs(Len(heap))]
  BY <1>1, SlotTypes, Zenon DEF Emit
<1>3. slot[s].pkt \in Packets /\ slot[s].pkt.key \in AnyKey \cup {NoKey}
  BY <1>1, SMTT(60) DEF SlotRecs, Packets
<1>4. recycled' \subseteq AnyKey
  BY <1>1, <1>3, SMTT(60) DEF Emit
<1>5. [src |-> Svr, dst |-> slot[s].addr, enc |-> enc, pkt |-> slot[s].pkt] \in Datagrams
  BY <1>3, SMTT(60) DEF Datagrams, Parties
<1>6. net' \subseteq Datagrams
  BY <1>1, <1>5, SMTT(60) DEF Emit
<1>7. QED
  BY <1>2, <1>4, <1>6, SMTT(60)

(* What is typed of the clients, of the server and of the network. *)
ClientTypes ==
  /\ epoch \in [Parties -> Nat] /\ sent \in [Clients -> Nat]
  /\ cpc \in [Clients -> {"new", "configure", "failed", "extend", "on", "wait"}]
  /\ peer \in [Clients -> Parties \cup {NoAddr}] /\ awaits \in [Clients -> Refs]
  /\ keys \in [Clients -> [Parties -> [public : AnyKey \cup {NoKey}, shared : SUBSET AnyKey]]]
  /\ opened \subseteq [by : Clients, from : Clients, author : Clients \cup {NoAddr},
                      seal : SUBSET AnyKey]
ServerTypes ==
  /\ heap \in Seq(Objects) /\ Len(heap) \in Nat /\ skeys \in [Clients -> 0..Len(heap)]
  /\ slot \in [Slots -> SlotRecs(Len(heap))] /\ recycled \subseteq AnyKey

(* TypeOK: the three parts of it. *)
LEMMA TypeParts ==
  TypeOK <=> ClientTypes /\ ServerTypes /\ net \subseteq Datagrams
<1>1. heap \in Seq(Objects) => Len(heap) \in Nat
  BY LenProperties, SMTT(60)
<1>2. QED
  BY <1>1, SMTT(60) DEF TypeOK, ClientTypes, ServerTypes, SlotRecs, Objects, Datagrams

(* TypeOK: the three parts of it after a step. *)
LEMMA TypePartsNext ==
  ClientTypes' /\ ServerTypes' /\ net' \subseteq Datagrams => TypeOK'
BY SMTT(60) DEF TypeOK, ClientTypes, ServerTypes, SlotRecs, Objects, Datagrams

(* StoreOf: the key a client has with the server at the server. *)
LEMMA StoreTypes ==
  ASSUME KeyExchangeInv, NEW c \in Clients, skeys[c] # 0
  PROVE  /\ skeys[c] \in 1..Len(heap) /\ StoreOf(c) = heap[skeys[c]]
         /\ StoreOf(c).public \in AnyKey
         /\ StoreOf(c).shared = Shared(Key(Svr), StoreOf(c).public)
<1>1. ServerTypes
  BY TypeParts, SMTT(60) DEF KeyExchangeInv
<1>2. skeys[c] \in 1..Len(heap) /\ StoreOf(c) = heap[skeys[c]]
  BY <1>1, SMTT(60) DEF ServerTypes, StoreOf
<1>3. heap[skeys[c]] \in Objects /\ skeys[c] \in DOMAIN heap
  BY <1>1, <1>2, ElementOfSeq, LenProperties, SMTT(60) DEF ServerTypes
<1>4. QED
  BY <1>2, <1>3, SMTT(60) DEF Objects, KeyExchangeInv, StoreInv

(* UNCHANGED: a step that leaves the server alone keeps its types. *)
LEMMA ServerTypesStay ==
  ServerTypes /\ UNCHANGED server => ServerTypes'
BY SMTT(60) DEF ServerTypes, server

(* UNCHANGED: a step that leaves the clients alone keeps their types. *)
LEMMA ClientTypesStay ==
  ClientTypes /\ UNCHANGED client => ClientTypes'
BY SMTT(60) DEF ClientTypes, client

(* The steps of a client keep the types. *)
LEMMA ClientStepTypes ==
  ASSUME KeyExchangeInv, NEW c \in Clients,
         \/ ConfigureClient(c) \/ ServerKEx(c) \/ Extend(c) \/ Request(c) \/ Restart(c)
         \/ \E other \in Clients \ {c} : ClientKEx(c, other) \/ SendE2E(c, other)
         \/ \E d \in net : ProcessKeyExResp(c, d) \/ DecryptE2E(c, d)
  PROVE  TypeOK'
<1>1. ClientTypes /\ ServerTypes /\ net \subseteq Datagrams /\ Svr \in Parties /\ c \in Parties
  BY TypeParts, SMTT(60) DEF KeyExchangeInv, Parties
<1>2. TypeOK /\ Ref(c) \in Refs /\ NoRef \in Refs /\ Key(c) \in AnyKey
  BY <1>1, RefTypes, KeyTypes, SMTT(60) DEF KeyExchangeInv
<1>3. ASSUME NEW addr \in Parties, NEW pkt, NEW pc \in {"configure", "wait"},
             Exchange(c, addr, pkt, pc), Sending(c, pkt)
      PROVE  TypeOK'
  <2>1. net' \subseteq Datagrams /\ sent' \in [Clients -> Nat]
    BY <1>3, SendEffect, SMTT(60)
  <2>2. ClientTypes'
    BY <1>1, <1>2, <1>3, <2>1, Zenon DEF ClientTypes, Exchange
  <2>3. ServerTypes'
    BY <1>1, <1>3, ServerTypesStay, SMTT(60) DEF Exchange, server
  <2>4. QED
    BY <2>1, <2>2, <2>3, TypePartsNext, ZenonT(60)
<1>4. CASE ConfigureClient(c) \/ ServerKEx(c)
  BY <1>1, <1>3, <1>4, ExchangeSends, SMTT(60) DEF ConfigureClient, ServerKEx
<1>5. ASSUME NEW other \in Clients \ {c}, ClientKEx(c, other)
      PROVE  TypeOK'
  BY <1>3, <1>5, ExchangeSends, SMTT(60) DEF ClientKEx, Parties
<1>6. ASSUME NEW pkt, Sending(c, pkt), UNCHANGED <<epoch, cpc, peer, awaits, keys, opened, server>>
      PROVE  TypeOK'
  <2>1. net' \subseteq Datagrams /\ sent' \in [Clients -> Nat]
    BY <1>6, SendEffect, SMTT(60)
  <2>2. ClientTypes'
    BY <1>1, <1>6, <2>1, SMTT(60) DEF ClientTypes
  <2>3. ServerTypes'
    BY <1>1, <1>6, ServerTypesStay, SMTT(60)
  <2>4. QED
    BY <2>1, <2>2, <2>3, TypePartsNext, ZenonT(60)
<1>7. CASE Request(c)
  BY <1>6, <1>7, DataSends, SMTT(60) DEF Request
<1>8. ASSUME NEW other \in Clients \ {c}, SendE2E(c, other)
      PROVE  TypeOK'
  BY <1>6, <1>8, DataSends, Zenon DEF SendE2E
<1>9. ASSUME ClientTypes', UNCHANGED <<server, net>>
      PROVE  TypeOK'
  <2>1. ServerTypes' /\ net' \subseteq Datagrams
    BY <1>1, <1>9, ServerTypesStay, SMTT(60)
  <2>2. QED
    BY <1>9, <2>1, TypePartsNext, SMTT(60)
<1>10. CASE Extend(c)
  <2>1. ClientTypes'
    BY <1>1, <1>10, SMTT(60) DEF Extend, ClientTypes
  <2>2. QED
    BY <1>9, <1>10, <2>1, Zenon DEF Extend
<1>11. CASE Restart(c)
  <2>1. NoStore \in [public : AnyKey \cup {NoKey}, shared : SUBSET AnyKey]
    BY Zenon DEF NoStore, Plain
  <2>2. ClientTypes'
    BY <1>1, <1>2, <1>11, <2>1, SMTT(60) DEF Restart, StartAgain, ClientTypes
  <2>3. UNCHANGED <<heap, skeys, slot, recycled, net>>
    BY <1>11, Zenon DEF Restart
  <2>4. ServerTypes' /\ net' \subseteq Datagrams
    BY <1>1, <2>3, Zenon DEF ServerTypes
  <2>5. QED
    BY <2>2, <2>4, TypePartsNext, Zenon
<1>12. ASSUME NEW d \in net, ProcessKeyExResp(c, d)
       PROVE  TypeOK'
  <2>1. peer[c] \in Parties /\ d.pkt.key \in AnyKey \cup {NoKey}
    <3>1. d.pkt \in Packets
      BY <1>1, Zenon DEF Datagrams
    <3>2. peer[c] \in Parties
      BY <1>12, Zenon DEF KeyExchangeInv, AwaitInv, ProcessKeyExResp
    <3>3. QED
      BY <3>1, <3>2, SMTT(60) DEF Packets
  <2>2. d.pkt.key # NoKey => Shared(Key(c), d.pkt.key) \in SUBSET AnyKey
    BY <1>2, <2>1, KeyTypes, Zenon
  <2>3. awaits' \in [Clients -> Refs]
        /\ cpc' \in [Clients -> {"new", "configure", "failed", "extend", "on", "wait"}]
    BY <1>1, <1>2, <1>12, ZenonT(60) DEF ProcessKeyExResp, ClientTypes
  <2>4. keys' \in [Clients -> [Parties -> [public : AnyKey \cup {NoKey}, shared : SUBSET AnyKey]]]
    <3>1. CASE d.pkt.key = NoKey
      BY <1>1, <1>12, <3>1, SMTT(60) DEF ProcessKeyExResp, ClientTypes
    <3>2. CASE d.pkt.key # NoKey
      <4> DEFINE Stores == [public : AnyKey \cup {NoKey}, shared : SUBSET AnyKey]
                 ks == [public |-> d.pkt.key, shared |-> Shared(Key(c), d.pkt.key)]
      <4>1. ks \in Stores
        BY <2>1, <2>2, <3>2, ZenonT(60)
      <4>2. keys' = [keys EXCEPT ![c][peer[c]] = ks] /\ keys \in [Clients -> [Parties -> Stores]]
        BY <1>1, <1>12, <3>2, SMTT(60) DEF ProcessKeyExResp, ClientTypes
      <4> HIDE DEF Stores, ks
      <4>3. keys' \in [Clients -> [Parties -> Stores]]
        BY <2>1, <4>1, <4>2, SMTT(60)
      <4>4. QED
        BY <4>3, SMTT(60) DEF Stores
    <3>3. QED
      BY <3>1, <3>2, SMTT(60)
  <2>5. ClientTypes'
    BY <1>1, <1>12, <2>3, <2>4, Zenon DEF ProcessKeyExResp, ClientTypes
  <2>6. QED
    BY <1>9, <1>12, <2>5, ZenonT(60) DEF ProcessKeyExResp
<1>13. ASSUME NEW d \in net, DecryptE2E(c, d)
       PROVE  TypeOK'
  <2>1. d.pkt \in Packets /\ d.pkt.from # NoAddr
    BY <1>1, <1>13, ZenonT(60) DEF DecryptE2E, Datagrams
  <2>2. d.pkt.from \in Clients /\ d.pkt.author \in Clients \cup {NoAddr}
        /\ d.pkt.seal \in SUBSET AnyKey
    BY <2>1, SMTT(20) DEF Packets
  <2>3. ClientTypes'
    <3> DEFINE r == [by |-> c, from |-> d.pkt.from, author |-> d.pkt.author, seal |-> d.pkt.seal]
    <3>1. r \in [by : Clients, from : Clients, author : Clients \cup {NoAddr}, seal : SUBSET AnyKey]
      BY <2>2, SMTT(60)
    <3>2. opened' = opened \cup {r} /\ UNCHANGED <<epoch, cpc, peer, awaits, sent, keys>>
      BY <1>13, Zenon DEF DecryptE2E
    <3> HIDE DEF r
    <3>3. QED
      BY <1>1, <3>1, <3>2, ZenonT(60) DEF ClientTypes
  <2>4. QED
    BY <1>9, <1>13, <2>3, Zenon DEF DecryptE2E
<1>14. QED
  BY <1>4, <1>5, <1>7, <1>8, <1>10, <1>11, <1>12, <1>13, Zenon

(* Runs: a slot in process has a request of the client at its address. *)
LEMMA RunsRequest ==
  ASSUME KeyExchangeInv, NEW s \in Slots, slot[s].pc = "run"
  PROVE  /\ slot[s].pkt \in Packets /\ slot[s].pkt.ref \in Refs /\ slot[s].addr \in Clients
         /\ slot[s].pkt.tgt = "kex-cs" => slot[s].pkt.key \in AnyKey
         /\ slot[s].pkt.tgt \in {"kex-cc", "relay"} => slot[s].pkt.to \in Clients
<1>1. PICK d \in Requests : slot[s].pkt = d.pkt /\ slot[s].addr = d.src
  BY Zenon DEF KeyExchangeInv, AnswerInv
<1>2. d.pkt \in Packets /\ d.src \in Clients
  BY <1>1, TypeParts, SMTT(60) DEF KeyExchangeInv, Requests, Datagrams
<1>3. d.pkt.ref \in Refs /\ d.pkt.key \in AnyKey \cup {NoKey}
  BY <1>2, SMTT(60) DEF Packets
<1>4. /\ d.pkt.tgt = "kex-cs" => d.pkt.key # NoKey
      /\ d.pkt.tgt \in {"kex-cc", "relay"} => d.pkt.to \in Clients
  BY <1>1, SMTT(60) DEF KeyExchangeInv, RequestInv
<1>5. QED
  BY <1>1, <1>2, <1>3, <1>4, Zenon

(* Receive: what reaches the server comes from a client. *)
LEMMA ToServer ==
  ASSUME KeyExchangeInv, NEW d \in net, d.dst = Svr
  PROVE  d \in Requests /\ d.src \in Clients /\ d.pkt \in Packets /\ d.enc \in SUBSET AnyKey
<1>1. d \in Datagrams /\ Svr \notin Clients
  BY TypeParts, KeyExchangeAssumption, SMTT(60) DEF KeyExchangeInv
<1>2. d.src # Svr
  BY <1>1, SMTT(60) DEF KeyExchangeInv, AnswerInv
<1>3. QED
  BY <1>1, <1>2, SMTT(60) DEF Datagrams, Requests, Parties

(* ProcessKeyExResp, DecryptE2E: what reaches a client comes from the server. *)
LEMMA ToClient ==
  ASSUME KeyExchangeInv, NEW d \in net, d.dst \in Clients
  PROVE  d.src = Svr /\ Answers(d.pkt, d.dst) /\ d.pkt \in Packets
<1>1. d \in Datagrams /\ Svr \notin Clients
  BY TypeParts, KeyExchangeAssumption, SMTT(60) DEF KeyExchangeInv
<1>2. d.src \notin Clients
  BY <1>1, SMTT(60) DEF KeyExchangeInv, RequestInv, Requests
<1>3. d.src = Svr /\ d.pkt \in Packets
  BY <1>1, <1>2, SMTT(60) DEF Datagrams, Parties
<1>4. QED
  BY <1>3, SMTT(60) DEF KeyExchangeInv, AnswerInv

(* The steps of the server keep the types. *)
LEMMA ServerStepTypes ==
  ASSUME KeyExchangeInv,
         \/ \E s \in Slots : \E d \in net : Receive(s, d)
         \/ \E s \in Slots : keyExchangeServer(s) \/ keyExchangeClient(s) \/ Echo(s) \/ Relay(s)
         \/ \E s \in Slots : getKeyStore(s) \/ getKeySent(s) \/ setKeySent(s)
         \/ RestartServer
  PROVE  TypeOK'
<1>1. TypeOK /\ ClientTypes /\ ServerTypes /\ net \subseteq Datagrams /\ Svr \in Parties
  BY TypeParts, SMTT(60) DEF KeyExchangeInv, Parties
<1>2. Len(heap) \in Nat /\ slot \in [Slots -> SlotRecs(Len(heap))]
  BY <1>1, SMTT(60) DEF ServerTypes
<1>3. NoRef \in Refs /\ Key(Svr) \in AnyKey
  BY <1>1, KeyTypes, SMTT(60) DEF Refs
<1>4. ASSUME UNCHANGED <<client, net>>, ServerTypes'
      PROVE  TypeOK'
  BY <1>1, <1>4, ClientTypesStay, TypePartsNext, SMTT(60)
<1>5. ASSUME NEW s \in Slots, NEW d \in net, Receive(s, d)
      PROVE  TypeOK'
  <2>1. d.src \in Clients /\ d.pkt \in Packets
    BY <1>5, ToServer, Zenon DEF Receive
  <2>2. ErrPkt(NoRef, NoKey) \in Packets
    BY <1>3, PktTypes, SMTT(60)
  <2>3. slot' \in [Slots -> SlotRecs(Len(heap))]
    <3>1. /\ [Free EXCEPT !.pc = "run", !.pkt = d.pkt, !.addr = d.src] \in SlotRecs(Len(heap))
          /\ [Free EXCEPT !.pc = "out", !.pkt = ErrPkt(NoRef, NoKey), !.addr = d.src]
               \in SlotRecs(Len(heap))
      BY <1>2, <2>1, <2>2, SlotTypes, Zenon
    <3>2. QED
      BY <1>2, <1>5, <3>1, Zenon DEF Receive
  <2>4. ServerTypes'
    BY <1>1, <1>5, <2>3, Zenon DEF Receive, ServerTypes
  <2>5. QED
    BY <1>4, <1>5, <2>4, Zenon DEF Receive
<1>6. ASSUME NEW s \in Slots, NEW p \in Packets, NEW a \in Clients, Reply(s, p, a),
             UNCHANGED <<heap, skeys>>
      PROVE  TypeOK'
  <2>1. slot' \in [Slots -> SlotRecs(Len(heap))] /\ recycled' \subseteq AnyKey
    BY <1>1, <1>2, <1>6, ReplyTypes, SMTT(60)
  <2>2. ServerTypes'
    BY <1>1, <1>6, <2>1, SMTT(60) DEF ServerTypes
  <2>3. QED
    BY <1>4, <1>6, <2>2, SMTT(60) DEF Reply
<1>7. ASSUME NEW s \in Slots, keyExchangeServer(s)
      PROVE  TypeOK'
  <2> DEFINE p == [Pkt("none", slot[s].pkt.ref) EXCEPT !.key = Key(Svr), !.nocrypto = TRUE]
             a == slot[s].addr
             ks == NewStore(a, slot[s].pkt.key)
  <2>1. slot[s].pkt.ref \in Refs /\ a \in Clients /\ slot[s].pkt.key \in AnyKey
    BY <1>7, RunsRequest, Zenon DEF keyExchangeServer, Runs
  <2>2. p \in Packets
    BY <1>3, <2>1, PktTypes, ComposedPkts, ZenonT(60)
  <2>3. ks \in Objects
    BY <1>1, <1>3, <2>1, KeyTypes, SMTT(60) DEF NewStore, Objects
  <2>4. Reply(s, p, a) /\ heap' = Append(heap, ks) /\ skeys' = [skeys EXCEPT ![a] = Len(heap) + 1]
    BY <1>7, Zenon DEF keyExchangeServer, setKeyStore
  <2> HIDE DEF p, a, ks
  <2>5. heap' \in Seq(Objects) /\ Len(heap') = Len(heap) + 1
    <3>1. heap \in Seq(Objects)
      BY <1>1, Zenon DEF ServerTypes
    <3>2. Append(heap, ks) \in Seq(Objects) /\ Len(Append(heap, ks)) = Len(heap) + 1
      BY <2>3, <3>1, AppendProperties, Zenon
    <3>. QED
      BY <2>4, <3>2, Zenon
  <2>6. slot' \in [Slots -> SlotRecs(Len(heap) + 1)] /\ recycled' \subseteq AnyKey
    BY <1>1, <1>2, <2>1, <2>2, <2>4, ReplyTypes, SMTT(60)
  <2>7. skeys' \in [Clients -> 0..(Len(heap) + 1)]
    BY <1>1, <1>2, <2>1, <2>4, SMTT(60) DEF ServerTypes
  <2>8. ServerTypes'
    BY <1>2, <2>5, <2>6, <2>7, SMTT(60) DEF ServerTypes
  <2>9. QED
    BY <1>4, <2>4, <2>8, SMTT(60) DEF Reply
<1>8. ASSUME NEW s \in Slots, keyExchangeClient(s)
      PROVE  TypeOK'
  <2>1. slot[s].pkt.ref \in Refs /\ slot[s].addr \in Clients /\ slot[s].pkt.to \in Clients
    BY <1>8, RunsRequest, Zenon DEF keyExchangeClient, Runs
  <2>2. ASSUME NEW k \in Leftover, Reply(s, ErrPkt(slot[s].pkt.ref, k), slot[s].addr)
        PROVE  TypeOK'
    <3>1. k \in AnyKey \cup {NoKey}
      BY <1>1, ZenonT(60) DEF Leftover, ServerTypes
    <3>2. ErrPkt(slot[s].pkt.ref, k) \in Packets
      BY <2>1, <3>1, PktTypes, SMTT(60)
    <3>3. QED
      BY <1>6, <1>8, <2>1, <2>2, <3>2, Zenon DEF keyExchangeClient
  <2>3. ASSUME skeys[slot[s].pkt.to] # 0,
               Reply(s, [Pkt("none", slot[s].pkt.ref) EXCEPT
                           !.key = StoreOf(slot[s].pkt.to).public, !.nocrypto = TRUE],
                     slot[s].addr)
        PROVE  TypeOK'
    <3>1. StoreOf(slot[s].pkt.to).public \in AnyKey
      BY <2>1, <2>3, StoreTypes, SMTT(60)
    <3>2. [Pkt("none", slot[s].pkt.ref) EXCEPT
             !.key = StoreOf(slot[s].pkt.to).public, !.nocrypto = TRUE] \in Packets
      BY <2>1, <3>1, PktTypes, ComposedPkts, Zenon
    <3>3. QED
      BY <1>6, <1>8, <2>1, <2>3, <3>2, Zenon DEF keyExchangeClient
  <2>4. QED
    BY <1>8, <2>2, <2>3, Zenon DEF keyExchangeClient
<1>9. ASSUME NEW s \in Slots, Echo(s)
      PROVE  TypeOK'
  <2>1. slot[s].pkt.ref \in Refs /\ slot[s].addr \in Clients
    BY <1>9, RunsRequest, Zenon DEF Echo, Runs
  <2>2. Pkt("none", slot[s].pkt.ref) \in Packets
    BY <2>1, PktTypes, ZenonT(60)
  <2>3. QED
    BY <1>6, <1>9, <2>1, <2>2, Zenon DEF Echo
<1>10. ASSUME NEW s \in Slots, Relay(s)
       PROVE  TypeOK'
  <2> DEFINE p == [Pkt("none", slot[s].pkt.ref) EXCEPT
                     !.seal = slot[s].pkt.seal, !.author = slot[s].pkt.author,
                     !.from = slot[s].addr]
  <2>1. slot[s].pkt \in Packets /\ slot[s].pkt.ref \in Refs /\ slot[s].addr \in Clients
        /\ slot[s].pkt.to \in Clients
    BY <1>10, RunsRequest, Zenon DEF Relay, Runs
  <2>2. p \in Packets
    <3>1. slot[s].pkt.seal \in SUBSET AnyKey /\ slot[s].pkt.author \in Clients \cup {NoAddr}
      BY <2>1, ZenonT(60) DEF Packets
    <3>2. Pkt("none", slot[s].pkt.ref) \in Packets
      BY <2>1, PktTypes, SMTT(60)
    <3>3. QED
      BY <2>1, <3>1, <3>2, ComposedPkts, Zenon
  <2>3. Reply(s, p, slot[s].pkt.to) /\ UNCHANGED <<heap, skeys>>
    BY <1>10, Zenon DEF Relay
  <2> HIDE DEF p
  <2>4. QED
    BY <1>6, <2>1, <2>2, <2>3, SMTT(60)
<1>11. ASSUME NEW s \in Slots, NEW enc \in SUBSET AnyKey, Emit(s, enc), slot[s].addr \in Clients,
              heap' \in Seq(Objects), Len(heap') = Len(heap), UNCHANGED <<client, skeys>>
       PROVE  TypeOK'
  <2>1. /\ slot' \in [Slots -> SlotRecs(Len(heap))] /\ recycled' \subseteq AnyKey
        /\ net' \subseteq Datagrams
    BY <1>11, EmitTypes, SMTT(60)
  <2>2. ServerTypes'
    BY <1>1, <1>11, <2>1, Zenon DEF ServerTypes
  <2>3. QED
    BY <1>1, <1>11, <2>1, <2>2, ClientTypesStay, TypePartsNext, Zenon
<1>12. ASSUME NEW s \in Slots, slot[s].pc \in {"out", "check", "mark"}
       PROVE  slot[s].addr \in Clients /\ slot[s].pkt \in Packets /\ slot[s].pkt.ref \in Refs
  <2>1. slot[s].addr \in Clients
    BY <1>12, SMTT(60) DEF KeyExchangeInv, AnswerInv
  <2>2. slot[s].pkt \in Packets
    BY <1>2, SMTT(60) DEF SlotRecs
  <2>3. QED
    BY <2>1, <2>2, ZenonT(60) DEF Packets
<1>13. ASSUME NEW s \in Slots, slot[s].pc \in {"check", "mark"}
       PROVE  slot[s].k \in 1..Len(heap) /\ heap[slot[s].k] \in Objects
  <2>1. slot[s].k \in 1..Len(heap)
    BY <1>2, <1>13, SMTT(60) DEF SlotRecs, KeyExchangeInv, AnswerInv
  <2>2. QED
    BY <1>1, <2>1, ElementOfSeq, ZenonT(60) DEF ServerTypes
<1>14. ASSUME NEW s \in Slots, getKeyStore(s)
       PROVE  TypeOK'
  <2>1. CASE slot[s].pkt.nocrypto \/ skeys[slot[s].addr] = 0
    BY <1>1, <1>11, <1>12, <1>14, <2>1, Zenon DEF getKeyStore, ServerTypes, Plain
  <2>2. CASE ~(slot[s].pkt.nocrypto \/ skeys[slot[s].addr] = 0)
    <3>1. skeys[slot[s].addr] \in 0..Len(heap)
      BY <1>1, <1>12, <1>14, SMTT(60) DEF getKeyStore, ServerTypes
    <3>2. slot' \in [Slots -> SlotRecs(Len(heap))]
      BY <1>2, <1>14, <2>2, <3>1, SMTT(60) DEF getKeyStore, SlotRecs
    <3>3. ServerTypes'
      BY <1>1, <1>14, <2>2, <3>2, SMTT(60) DEF getKeyStore, ServerTypes
    <3>4. QED
      BY <1>4, <1>14, <2>2, <3>3, Zenon DEF getKeyStore
  <2>3. QED
    BY <2>1, <2>2, Zenon
<1>15. ASSUME NEW s \in Slots, getKeySent(s)
       PROVE  TypeOK'
  <2>1. CASE slot' = [slot EXCEPT ![s].pc = "mark"] /\ UNCHANGED <<net, recycled>>
    <3>1. slot' \in [Slots -> SlotRecs(Len(heap))]
      BY <1>2, <2>1, SMTT(60) DEF SlotRecs
    <3>2. ServerTypes'
      BY <1>1, <1>15, <2>1, <3>1, Zenon DEF getKeySent, ServerTypes
    <3>3. QED
      BY <1>4, <1>15, <2>1, <3>2, Zenon DEF getKeySent
  <2>2. CASE Emit(s, heap[slot[s].k].shared)
    <3>1. heap[slot[s].k].shared \in SUBSET AnyKey
      BY <1>13, <1>15, Zenon DEF getKeySent, Objects
    <3>2. QED
      BY <1>1, <1>11, <1>12, <1>15, <2>2, <3>1, ZenonT(60) DEF getKeySent, ServerTypes
  <2>3. ASSUME NEW l \in Leftover,
               slot' = [slot EXCEPT ![s] =
                          [Free EXCEPT !.pc = "out", !.pkt = ErrPkt(slot[s].pkt.ref, l),
                                       !.addr = slot[s].addr]],
               recycled' = recycled \cup ({slot[s].pkt.key} \ {NoKey}), net' = net
        PROVE  TypeOK'
    <3>1. l \in AnyKey \cup {NoKey} /\ slot[s].addr \in Clients /\ slot[s].pkt.ref \in Refs
          /\ slot[s].pkt \in Packets
      BY <1>1, <1>12, <1>15, ZenonT(60) DEF Leftover, ServerTypes, getKeySent
    <3>2. ErrPkt(slot[s].pkt.ref, l) \in Packets
      BY <3>1, PktTypes, SMTT(60)
    <3>3. [Free EXCEPT !.pc = "out", !.pkt = ErrPkt(slot[s].pkt.ref, l), !.addr = slot[s].addr]
            \in SlotRecs(Len(heap))
      BY <1>2, <3>1, <3>2, SlotTypes, Zenon
    <3>4. slot' \in [Slots -> SlotRecs(Len(heap))]
      BY <1>2, <2>3, <3>3, SMTT(60)
    <3>5. recycled' \subseteq AnyKey
      BY <1>1, <2>3, <3>1, SMTT(60) DEF ServerTypes, Packets
    <3>6. ServerTypes'
      BY <1>1, <1>15, <3>4, <3>5, ZenonT(60) DEF getKeySent, ServerTypes
    <3>7. QED
      BY <1>4, <1>15, <2>3, <3>6, Zenon DEF getKeySent
  <2>4. QED
    BY <1>15, <2>1, <2>2, <2>3, Zenon DEF getKeySent
<1>16. ASSUME NEW s \in Slots, setKeySent(s)
       PROVE  TypeOK'
  <2>1. slot[s].k \in 1..Len(heap) /\ heap[slot[s].k] \in Objects
    BY <1>13, <1>16, ZenonT(60) DEF setKeySent
  <2>2. heap' \in Seq(Objects) /\ Len(heap') = Len(heap)
    <3> DEFINE ks == [heap[slot[s].k] EXCEPT !.keySent = TRUE]
    <3>1. ks \in Objects
      BY <2>1, Zenon DEF Objects
    <3>2. heap' = [heap EXCEPT ![slot[s].k] = ks] /\ heap \in Seq(Objects)
      BY <1>1, <1>16, SMTT(60) DEF setKeySent, ServerTypes
    <3> HIDE DEF ks
    <3>3. QED
      BY <2>1, <3>1, <3>2, ExceptSeq, SMTT(60)
  <2>3. QED
    BY <1>11, <1>12, <1>16, <2>2, SMTT(60) DEF setKeySent, Plain
<1>17. CASE RestartServer
  <2>1. epoch' \in [Parties -> Nat]
    BY <1>1, <1>17, SMTT(60) DEF RestartServer, StartAgain, ClientTypes
  <2>2. ClientTypes' /\ net' \subseteq Datagrams
    BY <1>1, <1>17, <2>1, SMTT(60) DEF RestartServer, ClientTypes
  <2>3. slot' \in [Slots -> SlotRecs(0)]
    BY <1>17, SlotTypes, Zenon DEF RestartServer
  <2>4. ServerTypes'
    BY <1>17, <2>3, SMTT(60) DEF RestartServer, ServerTypes
  <2>5. QED
    BY <2>2, <2>4, TypePartsNext, ZenonT(60)
<1>18. QED
  BY <1>5, <1>7, <1>8, <1>9, <1>10, <1>14, <1>15, <1>16, <1>17, Zenon

-----------------------------------------------------------------------------
(* Requests. *)

\* A step that sends no request.
Quiet == net \subseteq net' /\ Requests' = Requests /\ sent' = sent

(* Emit: what the server sends is no request. *)
LEMMA EmitQuiet ==
  ASSUME NEW s \in Slots, NEW enc, Emit(s, enc), sent' = sent
  PROVE  Quiet
BY KeyExchangeAssumption, SMTT(60) DEF Emit, Quiet, Requests

(* Next: a step is that of a client which sends a request, or sends none. *)
LEMMA NextSends ==
  ASSUME KeyExchangeInv, Next
  PROVE  Quiet \/ \E c \in Clients : \E pkt : Sending(c, pkt)
<1>1. ASSUME NEW c \in Clients, ConfigureClient(c) \/ ServerKEx(c) \/ Request(c)
      PROVE  \E pkt : Sending(c, pkt)
  BY <1>1, ExchangeSends, DataSends, Zenon
<1>2. ASSUME NEW c \in Clients, NEW other \in Clients \ {c}, ClientKEx(c, other) \/ SendE2E(c, other)
      PROVE  \E pkt : Sending(c, pkt)
  BY <1>2, ExchangeSends, DataSends, SMTT(60)
<1>3. ASSUME UNCHANGED <<net, sent>>
      PROVE  Quiet
  BY <1>3, SMTT(60) DEF Quiet, Requests
<1>4. ASSUME NEW c \in Clients, Extend(c) \/ Restart(c)
      PROVE  Quiet
  BY <1>3, <1>4, ZenonT(60) DEF Extend, Restart
<1>5. ASSUME NEW c \in Clients, NEW d \in net, ProcessKeyExResp(c, d) \/ DecryptE2E(c, d)
      PROVE  Quiet
  BY <1>3, <1>5, SMTT(60) DEF ProcessKeyExResp, DecryptE2E
<1>6. ASSUME NEW s \in Slots, NEW d \in net, Receive(s, d)
      PROVE  Quiet
  BY <1>3, <1>6, SMTT(60) DEF Receive, client
<1>7. ASSUME NEW s \in Slots,
             keyExchangeServer(s) \/ keyExchangeClient(s) \/ Echo(s) \/ Relay(s)
      PROVE  Quiet
  BY <1>3, <1>7, Zenon DEF keyExchangeServer, keyExchangeClient, Echo, Relay, Reply, client
<1>8. ASSUME NEW s \in Slots, getKeyStore(s) \/ getKeySent(s) \/ setKeySent(s)
      PROVE  Quiet
  BY <1>3, <1>8, EmitQuiet, Zenon DEF getKeyStore, getKeySent, setKeySent, client
<1>9. CASE RestartServer
  BY <1>3, <1>9, SMTT(60) DEF RestartServer
<1>10. QED
  BY <1>1, <1>2, <1>4, <1>5, <1>6, <1>7, <1>8, <1>9, Zenon DEF Next

(* Next: the keys a party has had are never forgotten. *)
LEMMA NextEpochs ==
  ASSUME KeyExchangeInv, Next
  PROVE  \A p \in Parties : epoch[p] \in Nat /\ epoch'[p] \in Nat /\ epoch[p] <= epoch'[p]
<1>1. epoch \in [Parties -> Nat] /\ Svr \in Parties /\ Clients \subseteq Parties
  BY SMTT(60) DEF KeyExchangeInv, TypeOK, Parties
<1>2. ASSUME NEW q \in Parties, StartAgain(q)
      PROVE  \A p \in Parties : epoch'[p] \in Nat /\ epoch[p] <= epoch'[p]
  BY <1>1, <1>2, SMTT(60) DEF StartAgain
<1>3. \/ epoch' = epoch
      \/ \E q \in Parties : StartAgain(q)
  <2>1. ASSUME NEW c \in Clients, ConfigureClient(c) \/ ServerKEx(c) \/ Extend(c)
        PROVE  epoch' = epoch
    BY <2>1, SMTT(60) DEF ConfigureClient, ServerKEx, Exchange, Extend
  <2>2. ASSUME NEW c \in Clients, Request(c)
        PROVE  epoch' = epoch
    BY <2>2, SMTT(60) DEF Request
  <2>3. ASSUME NEW c \in Clients, NEW other \in Clients \ {c},
               ClientKEx(c, other) \/ SendE2E(c, other)
        PROVE  epoch' = epoch
    BY <2>3, ZenonT(60) DEF ClientKEx, Exchange, SendE2E
  <2>4. ASSUME NEW c \in Clients, NEW d \in net, ProcessKeyExResp(c, d) \/ DecryptE2E(c, d)
        PROVE  epoch' = epoch
    BY <2>4, SMTT(60) DEF ProcessKeyExResp, DecryptE2E
  <2>5. ASSUME NEW s \in Slots, NEW d \in net, Receive(s, d)
        PROVE  epoch' = epoch
    BY <2>5, SMTT(60) DEF Receive, client
  <2>6. ASSUME NEW s \in Slots,
               keyExchangeServer(s) \/ keyExchangeClient(s) \/ Echo(s) \/ Relay(s)
        PROVE  epoch' = epoch
    BY <2>6, Zenon DEF keyExchangeServer, keyExchangeClient, Echo, Relay, Reply, client
  <2>7. ASSUME NEW s \in Slots, getKeyStore(s) \/ getKeySent(s) \/ setKeySent(s)
        PROVE  epoch' = epoch
    BY <2>7, Zenon DEF getKeyStore, getKeySent, setKeySent, client
  <2>8. ASSUME NEW c \in Clients, Restart(c)
        PROVE  StartAgain(c) /\ c \in Parties
    BY <1>1, <2>8, SMTT(60) DEF Restart
  <2>9. RestartServer => StartAgain(Svr)
    BY SMTT(60) DEF RestartServer
  <2>10. QED
    BY <1>1, <2>1, <2>2, <2>3, <2>4, <2>5, <2>6, <2>7, <2>8, <2>9, ZenonT(60) DEF Next
<1>4. QED
  BY <1>1, <1>2, <1>3, SMTT(60)

(* Send: the request is one more, with a ref of its own. *)
LEMMA NextRequests ==
  ASSUME KeyExchangeInv, Next
  PROVE  RequestInv'
<1> USE DEF KeyExchangeInv
<1>1. \A p \in Parties : epoch[p] \in Nat /\ epoch'[p] \in Nat /\ epoch[p] <= epoch'[p]
  BY NextEpochs, SMTT(60)
<1>2. Clients \subseteq Parties /\ TypeOK /\ RequestInv
  BY Zenon DEF Parties
<1>3. CASE Quiet
  <2>1. Requests' = Requests /\ sent' = sent
    BY <1>3, SMTT(60) DEF Quiet
  <2>2. ASSUME NEW d \in Requests
        PROVE  \A k \in KeysOf(d.src) : k \in KeysOf(d.src)'
    BY <1>1, <1>2, SMTT(60) DEF Requests, KeysOf
  <2>3. QED
    BY <1>2, <2>1, <2>2, ZenonT(60) DEF RequestInv
<1>4. ASSUME NEW c \in Clients, NEW pkt, Sending(c, pkt)
      PROVE  RequestInv'
  <2>1. /\ sent' = [sent EXCEPT ![c] = @ + 1]
        /\ \A d \in net' \ net :
             /\ d.src = c /\ d.dst = Svr /\ d.pkt = pkt
             /\ d.enc = Plain => pkt.tgt = "kex-cs"
        /\ \A d, e \in net' \ net : d = e
    BY <1>4, SendEffect, SMTT(60)
  <2>2. Proper(c, pkt)
    BY <1>4, SMTT(60) DEF Sending
  <2>3. \A d \in Requests' : d \in Requests \/ d \in net' \ net
    BY ZenonT(60) DEF Requests
  <2>4. sent \in [Clients -> Nat] /\ sent'[c] = sent[c] + 1
        /\ \A b \in Clients : sent[b] \in Nat /\ sent'[b] \in Nat /\ sent[b] <= sent'[b]
    BY <1>2, <2>1, SMTT(60) DEF TypeOK
  <2>5. Ref(c) # NoRef /\ Ref(c)[1] = c /\ Ref(c)[2] = sent[c]
    BY RefTypes, ZenonT(60)
  <2>6. ASSUME NEW d \in Requests
        PROVE  d.src \in Clients /\ d.pkt.ref[2] \in Nat /\ d.pkt.ref # Ref(c)
    <3>1. d.src \in Clients /\ d.pkt.ref \in Refs
      BY <1>2, TypeParts, Zenon DEF Requests, Datagrams, Packets
    <3>2. d.pkt.ref # NoRef /\ d.pkt.ref[1] = d.src /\ d.pkt.ref[2] < sent[d.src]
      BY SMTT(60) DEF RequestInv
    <3>3. d.pkt.ref[2] \in Nat
      BY <3>1, <3>2, RefTypes, Zenon
    <3>4. QED
      BY <2>4, <2>5, <3>1, <3>2, <3>3, SMTT(60)
  <2>7. ASSUME NEW d \in Requests'
        PROVE  /\ d.dst = Svr /\ d.pkt.ref # NoRef /\ d.pkt.ref[1] = d.src
               /\ d.pkt.ref[2] < sent'[d.src]
               /\ d.enc = Plain => d.pkt.tgt = "kex-cs"
               /\ d.pkt.tgt = "kex-cs" => d.pkt.key # NoKey
               /\ d.pkt.tgt \in {"kex-cc", "relay"} => d.pkt.to \in Clients \ {d.src}
               /\ d.pkt.tgt = "relay" =>
                    /\ d.pkt.author = d.src
                    /\ \E k \in KeysOf(d.src) : \E l \in d.pkt.seal : d.pkt.seal = {k, l}
    <3>1. CASE d \in Requests
      <4>1. d.pkt.ref[2] < sent[d.src]
        BY <3>1, Zenon DEF RequestInv
      <4>2. d.pkt.ref[2] < sent'[d.src]
        BY <2>4, <2>6, <3>1, <4>1, SMTT(60)
      <4>3. QED
        BY <1>2, <3>1, <4>2, Zenon DEF RequestInv
    <3>2. CASE d \in net' \ net
      BY <2>1, <2>2, <2>4, <2>5, <3>2, SMTT(60) DEF Proper
    <3>3. QED
      BY <2>3, <3>1, <3>2, Zenon
  <2>8. ASSUME NEW d \in Requests', NEW e \in Requests', d.pkt.ref = e.pkt.ref
        PROVE  d = e
    <3>1. \A f \in net' \ net : f.pkt.ref = Ref(c)
      BY <2>1, <2>2, Zenon DEF Proper
    <3>2. QED
      BY <1>2, <2>1, <2>3, <2>6, <2>8, <3>1, ZenonT(60) DEF RequestInv
  <2>9. ASSUME NEW d \in Requests'
        PROVE  \A k \in KeysOf(d.src) : k \in KeysOf(d.src)'
    BY <1>1, <1>2, SMTT(60) DEF Requests, KeysOf
  <2>10. QED
    BY <2>7, <2>8, <2>9, ZenonT(60) DEF RequestInv
<1>5. QED
  BY <1>3, <1>4, NextSends, SMTT(60)

-----------------------------------------------------------------------------
(* What the clients wait for and what they store. *)

(* Exchange, ProcessKeyExResp, Restart: a client waits for the response to *)
(* its last request, and for a key of the server only after asking for it. *)
LEMMA NextAwaits ==
  ASSUME KeyExchangeInv, Next
  PROVE  AwaitInv'
<1>1. TypeOK /\ AwaitInv /\ RequestInv /\ ClientTypes
  BY TypeParts, ZenonT(60) DEF KeyExchangeInv
<1>2. ASSUME NEW c \in Clients, NEW pkt, Sending(c, pkt)
      PROVE  /\ \A d \in Requests' : d \in Requests \/ (d.pkt = pkt /\ d.pkt.ref = Ref(c))
             /\ \A d \in Requests : d.pkt.ref # Ref(c)
             /\ \A b \in Clients : sent[b] \in Nat /\ sent'[b] \in Nat /\ sent[b] <= sent'[b]
             /\ sent'[c] = sent[c] + 1
  <2>1. /\ sent' = [sent EXCEPT ![c] = @ + 1] /\ sent' \in [Clients -> Nat]
        /\ \A d \in net' \ net : d.pkt = pkt
    BY <1>2, SendEffect, ZenonT(60)
  <2>2. pkt.ref = Ref(c)
    BY <1>2, SMTT(60) DEF Sending, Proper
  <2>3. ASSUME NEW d \in Requests
        PROVE  d.pkt.ref # Ref(c)
    <3>1. d.pkt.ref[1] = d.src /\ d.pkt.ref[2] < sent[d.src]
      BY <1>1, SMTT(60) DEF RequestInv
    <3>2. Ref(c)[1] = c /\ Ref(c)[2] = sent[c]
      BY <1>1, RefTypes, Zenon
    <3>3. sent[c] \in Nat
      BY <1>1, Zenon DEF TypeOK
    <3>4. QED
      BY <3>1, <3>2, <3>3, SMTT(60)
  <2>4. QED
    BY <1>1, <2>1, <2>2, <2>3, SMTT(60) DEF TypeOK, Requests
<1>3. ASSUME NEW c \in Clients, NEW pkt, NEW addr \in Parties, NEW pc \in {"configure", "wait"},
             Sending(c, pkt), Exchange(c, addr, pkt, pc), pc = "configure" => addr = Svr,
             addr = Svr => pkt.tgt = "kex-cs"
      PROVE  AwaitInv'
  <2>1. cpc' = [cpc EXCEPT ![c] = pc] /\ peer' = [peer EXCEPT ![c] = addr]
        /\ awaits' = [awaits EXCEPT ![c] = Ref(c)]
    BY <1>3, SMTT(60) DEF Exchange
  <2>2. Ref(c) # NoRef /\ Ref(c)[1] = c /\ Ref(c)[2] = sent[c]
    BY <1>1, RefTypes, Zenon
  <2>3. ASSUME NEW b \in Clients
        PROVE  /\ cpc'[b] = "configure" => peer'[b] = Svr
               /\ awaits'[b] # NoRef =>
                    /\ cpc'[b] \in {"configure", "wait"} /\ peer'[b] \in Parties
                    /\ awaits'[b][1] = b /\ awaits'[b][2] < sent'[b]
                    /\ \A d \in Requests' :
                         d.pkt.ref = awaits'[b] /\ peer'[b] = Svr => d.pkt.tgt = "kex-cs"
    <3>1. CASE b = c
      <4>1. cpc'[b] = pc /\ peer'[b] = addr /\ awaits'[b] = Ref(c)
        BY <1>1, <2>1, <3>1, ZenonT(60) DEF ClientTypes
      <4>2. awaits'[b][2] < sent'[b]
        BY <1>2, <1>3, <2>2, <3>1, <4>1, SMTT(60)
      <4>3. \A d \in Requests' : d.pkt.ref = Ref(c) /\ addr = Svr => d.pkt.tgt = "kex-cs"
        BY <1>2, <1>3, SMTT(60)
      <4>4. QED
        BY <1>3, <2>2, <3>1, <4>1, <4>2, <4>3, Zenon
    <3>2. CASE b # c
      <4>1. cpc'[b] = cpc[b] /\ peer'[b] = peer[b] /\ awaits'[b] = awaits[b]
        BY <1>1, <2>1, <3>2, ZenonT(60) DEF ClientTypes
      <4>2. ASSUME awaits[b] # NoRef
            PROVE  /\ awaits[b][1] = b /\ awaits[b][2] < sent'[b]
                   /\ \A d \in Requests' :
                        d.pkt.ref = awaits[b] /\ peer[b] = Svr => d.pkt.tgt = "kex-cs"
        <5>1. awaits[b][1] = b /\ awaits[b][2] < sent[b] /\ awaits[b] \in Refs
          BY <1>1, <4>2, SMTT(60) DEF AwaitInv, ClientTypes
        <5>2. awaits[b][2] \in Nat
          BY <1>1, <4>2, <5>1, RefTypes, Zenon
        <5>3. awaits[b] # Ref(c)
          BY <2>2, <3>2, <5>1, ZenonT(60)
        <5>4. \A d \in Requests' :
                d.pkt.ref = awaits[b] /\ peer[b] = Svr => d.pkt.tgt = "kex-cs"
          BY <1>1, <1>2, <1>3, <4>2, <5>3, SMTT(60) DEF AwaitInv
        <5>5. sent[b] \in Nat /\ sent'[b] \in Nat /\ sent[b] <= sent'[b]
          BY <1>2, <1>3, Zenon
        <5>6. awaits[b][2] < sent'[b]
          BY <5>1, <5>2, <5>5, SMTT(60)
        <5>7. QED
          BY <5>1, <5>4, <5>6, Zenon
      <4>3. QED
        BY <1>1, <4>1, <4>2, SMTT(60) DEF AwaitInv
    <3>3. QED
      BY <3>1, <3>2, Zenon
  <2>4. QED
    BY <2>3, ZenonT(60) DEF AwaitInv
<1>4. ASSUME NEW c \in Clients, ConfigureClient(c) \/ ServerKEx(c)
      PROVE  AwaitInv'
  BY <1>3, <1>4, ExchangeSends, ExchangeProper, Zenon DEF ConfigureClient, ServerKEx, Parties
<1>5. ASSUME NEW c \in Clients, NEW other \in Clients \ {c}, ClientKEx(c, other)
      PROVE  AwaitInv'
  BY <1>3, <1>5, ExchangeSends, KeyExchangeAssumption, Zenon DEF ClientKEx, Parties
<1>6. ASSUME NEW c \in Clients, NEW pkt, Sending(c, pkt), UNCHANGED <<cpc, peer, awaits>>
      PROVE  AwaitInv'
  <2>1. ASSUME NEW b \in Clients, awaits[b] # NoRef
        PROVE  /\ awaits[b][2] < sent'[b]
               /\ \A d \in Requests' :
                    d.pkt.ref = awaits[b] /\ peer[b] = Svr => d.pkt.tgt = "kex-cs"
    <3>1. awaits[b][1] = b /\ awaits[b][2] < sent[b] /\ awaits[b] \in Refs
      BY <1>1, <2>1, Zenon DEF AwaitInv, ClientTypes
    <3>2. awaits[b][2] \in Nat
      BY <1>1, <2>1, <3>1, RefTypes, Zenon
    <3>3. awaits[b] # Ref(c)
      <4>1. Ref(c)[1] = c /\ Ref(c)[2] = sent[c] /\ sent[c] \in Nat
        BY <1>1, RefTypes, ZenonT(60) DEF TypeOK
      <4>2. QED
        BY <3>1, <4>1, SMTT(60)
    <3>4. \A d \in Requests' :
            d.pkt.ref = awaits[b] /\ peer[b] = Svr => d.pkt.tgt = "kex-cs"
      BY <1>1, <1>2, <1>6, <2>1, <3>3, SMTT(60) DEF AwaitInv
    <3>5. QED
      BY <1>2, <1>6, <3>1, <3>2, <3>4, SMTT(60)
  <2>2. QED
    BY <1>1, <1>6, <2>1, ZenonT(60) DEF AwaitInv
<1>7. ASSUME NEW c \in Clients, Request(c)
      PROVE  AwaitInv'
  BY <1>6, <1>7, DataSends, SMTT(60) DEF Request
<1>8. ASSUME NEW c \in Clients, NEW other \in Clients \ {c}, SendE2E(c, other)
      PROVE  AwaitInv'
  BY <1>6, <1>8, DataSends, Zenon DEF SendE2E
<1>9. ASSUME NEW c \in Clients, Extend(c) \/ Restart(c)
      PROVE  AwaitInv'
  <2>1. Requests' = Requests /\ sent' = sent
    BY <1>9, Zenon DEF Extend, Restart, Requests
  <2>2. CASE Extend(c)
    BY <1>1, <2>1, <2>2, ZenonT(60) DEF Extend, AwaitInv, ClientTypes
  <2>3. CASE Restart(c)
    BY <1>1, <2>1, <2>3, ZenonT(60) DEF Restart, AwaitInv, ClientTypes
  <2>4. QED
    BY <1>9, <2>2, <2>3, Zenon
<1>10. ASSUME NEW c \in Clients, NEW d \in net, ProcessKeyExResp(c, d)
       PROVE  AwaitInv'
  <2>1. Requests' = Requests /\ sent' = sent
    BY <1>10, Zenon DEF ProcessKeyExResp, Requests
  <2>2. /\ awaits' = [awaits EXCEPT ![c] = NoRef] /\ peer' = peer
        /\ cpc'[c] # "configure"
        /\ \A b \in Clients : b # c => cpc'[b] = cpc[b]
    BY <1>1, <1>10, Zenon DEF ProcessKeyExResp, ClientTypes
  <2>3. QED
    BY <1>1, <2>1, <2>2, ZenonT(30) DEF AwaitInv, ClientTypes
<1>11. ASSUME Quiet, UNCHANGED <<cpc, peer, awaits>>
       PROVE  AwaitInv'
  BY <1>1, <1>11, Zenon DEF Quiet, AwaitInv
<1>12. ASSUME NEW c \in Clients, NEW d \in net, DecryptE2E(c, d)
       PROVE  Quiet /\ UNCHANGED <<cpc, peer, awaits>>
  BY <1>12, Zenon DEF DecryptE2E, Quiet, Requests
<1>13. ASSUME NEW s \in Slots, NEW d \in net, Receive(s, d)
       PROVE  Quiet /\ UNCHANGED <<cpc, peer, awaits>>
  BY <1>13, Zenon DEF Receive, client, Quiet, Requests
<1>14. ASSUME NEW s \in Slots,
              keyExchangeServer(s) \/ keyExchangeClient(s) \/ Echo(s) \/ Relay(s)
       PROVE  Quiet /\ UNCHANGED <<cpc, peer, awaits>>
  BY <1>14, Zenon DEF keyExchangeServer, keyExchangeClient, Echo, Relay, Reply, client, Quiet, Requests
<1>15. ASSUME NEW s \in Slots, getKeyStore(s) \/ getKeySent(s) \/ setKeySent(s)
       PROVE  Quiet /\ UNCHANGED <<cpc, peer, awaits>>
  <2>1. UNCHANGED <<cpc, peer, awaits>> /\ sent' = sent
    BY <1>15, Zenon DEF getKeyStore, getKeySent, setKeySent, client
  <2>2. net' = net \/ \E enc : Emit(s, enc)
    BY <1>15, Zenon DEF getKeyStore, getKeySent, setKeySent
  <2>3. QED
    BY <2>1, <2>2, EmitQuiet, Zenon DEF Quiet, Requests
<1>16. CASE RestartServer
  BY <1>11, <1>16, Zenon DEF RestartServer, Quiet, Requests
<1>17. QED
  BY <1>4, <1>5, <1>7, <1>8, <1>9, <1>10, <1>11, <1>12, <1>13, <1>14, <1>15, <1>16, ZenonT(60) DEF Next

(* ProcessKeyExResp: the response to an exchange with the server is a key  *)
(* of the server, and one of the running server only if it has the client. *)
LEMMA ResponseKey ==
  ASSUME KeyExchangeInv, NEW c \in Clients, NEW d \in net, d.dst = c, awaits[c] # NoRef,
         d.pkt.ref = awaits[c], peer[c] = Svr
  PROVE  d.pkt.key \in KeysOf(Svr) /\ (d.pkt.key = Key(Svr) => skeys[c] # 0)
<1>1. Answers(d.pkt, d.dst)
  BY ToClient, Zenon
<1>2. PICK r \in Requests :
        /\ r.pkt.ref = d.pkt.ref
        /\ r.pkt.tgt = "kex-cs" =>
             /\ d.pkt.nocrypto /\ d.pkt.key \in KeysOf(Svr)
             /\ d.pkt.key = Key(Svr) => skeys[r.src] # 0
  BY <1>1, ZenonT(60) DEF Answers
<1>3. r.pkt.tgt = "kex-cs" /\ awaits[c][1] = c
  BY <1>2, SMTT(60) DEF KeyExchangeInv, AwaitInv
<1>4. r.src = c
  BY <1>2, <1>3, ZenonT(60) DEF KeyExchangeInv, RequestInv
<1>5. QED
  BY <1>2, <1>3, <1>4, Zenon

(* ProcessKeyExResp, setKeyStore, Restart: who holds a shared secret made  *)
(* it with its own key; after an exchange with the server the clients have *)
(* a key of the server, and the running server has those that have its key. *)
LEMMA NextStores ==
  ASSUME KeyExchangeInv, Next
  PROVE  StoreInv'
<1>1. TypeOK /\ StoreInv /\ ClientTypes /\ ServerTypes
  BY TypeParts, Zenon DEF KeyExchangeInv
<1>2. Svr \in Parties /\ Svr \notin Clients /\ Clients \subseteq Parties
  BY KeyExchangeAssumption, Zenon DEF Parties
<1>3. ASSUME UNCHANGED <<epoch, keys, heap, skeys>>,
             \A c \in Clients : cpc'[c] \in {"extend", "on", "wait"} =>
                                cpc[c] \in {"extend", "on", "wait"}
      PROVE  StoreInv'
  BY <1>1, <1>3, Zenon DEF StoreInv, Key, KeysOf
<1>4. ASSUME NEW c \in Clients, ConfigureClient(c) \/ ServerKEx(c) \/ Extend(c) \/ Request(c)
      PROVE  StoreInv'
  <2>1. UNCHANGED <<epoch, keys, heap, skeys>>
    BY <1>4, Zenon DEF ConfigureClient, ServerKEx, Exchange, Extend, Request, server
  <2>2. \A b \in Clients : cpc'[b] \in {"extend", "on", "wait"} =>
                          cpc[b] \in {"extend", "on", "wait"}
    BY <1>1, <1>4, Zenon DEF ConfigureClient, ServerKEx, Exchange, Extend, Request, ClientTypes
  <2>3. QED
    BY <1>3, <2>1, <2>2, Zenon
<1>5. ASSUME NEW c \in Clients, NEW other \in Clients \ {c}, ClientKEx(c, other) \/ SendE2E(c, other)
      PROVE  StoreInv'
  <2>1. UNCHANGED <<epoch, keys, heap, skeys>>
    BY <1>5, Zenon DEF ClientKEx, Exchange, SendE2E, server
  <2>2. \A b \in Clients : cpc'[b] \in {"extend", "on", "wait"} =>
                          cpc[b] \in {"extend", "on", "wait"}
    BY <1>1, <1>5, Zenon DEF ClientKEx, Exchange, SendE2E, ClientTypes
  <2>3. QED
    BY <1>3, <2>1, <2>2, Zenon
<1>6. ASSUME NEW c \in Clients, NEW d \in net, DecryptE2E(c, d)
      PROVE  StoreInv'
  BY <1>3, <1>6, Zenon DEF DecryptE2E, server
<1>7. ASSUME NEW s \in Slots, NEW d \in net, Receive(s, d)
      PROVE  StoreInv'
  BY <1>3, <1>7, Zenon DEF Receive, client
<1>8. ASSUME NEW s \in Slots, keyExchangeClient(s) \/ Echo(s) \/ Relay(s)
      PROVE  StoreInv'
  BY <1>3, <1>8, Zenon DEF keyExchangeClient, Echo, Relay, Reply, client
<1>9. ASSUME NEW s \in Slots, getKeyStore(s) \/ getKeySent(s)
      PROVE  StoreInv'
  BY <1>3, <1>9, Zenon DEF getKeyStore, getKeySent, client
<1>10. ASSUME NEW c \in Clients, NEW d \in net, ProcessKeyExResp(c, d)
       PROVE  StoreInv'
  <2>1. UNCHANGED <<epoch, heap, skeys>> /\ d.dst = c /\ awaits[c] # NoRef /\ d.pkt.ref = awaits[c]
    BY <1>10, Zenon DEF ProcessKeyExResp, server
  <2>2. cpc[c] \in {"configure", "wait"} /\ peer[c] \in Parties
        /\ (cpc[c] = "configure" => peer[c] = Svr)
    BY <2>1, ZenonT(60) DEF KeyExchangeInv, AwaitInv
  <2>3. /\ \A b \in Clients : b # c => cpc'[b] = cpc[b] /\ keys'[b] = keys[b]
        /\ \A p \in Parties : p # peer[c] => keys'[c][p] = keys[c][p]
    BY <1>1, <1>10, <2>2, SMTT(20) DEF ProcessKeyExResp, ClientTypes
  <2>4. \/ /\ d.pkt.key = NoKey /\ keys' = keys
           /\ cpc'[c] = IF cpc[c] = "configure" THEN "failed" ELSE "on"
        \/ /\ d.pkt.key # NoKey
           /\ keys'[c][peer[c]] = [public |-> d.pkt.key, shared |-> Shared(Key(c), d.pkt.key)]
    BY <1>1, <1>10, <2>2, SMTT(20) DEF ProcessKeyExResp, ClientTypes
  <2>5. ASSUME NEW b \in Clients, NEW p \in Parties
        PROVE  keys'[b][p] = NoStore \/ keys'[b][p].shared = Shared(Key(b), keys'[b][p].public)
    BY <1>1, <2>3, <2>4, SMTT(60) DEF StoreInv
  <2>6. ASSUME NEW b \in Clients, cpc'[b] \in {"extend", "on", "wait"}
        PROVE  /\ keys'[b][Svr].public \in KeysOf(Svr)
               /\ keys'[b][Svr].public = Key(Svr) => skeys[b] # 0
    <3>1. CASE b # c
      BY <1>1, <2>3, <2>6, <3>1, ZenonT(60) DEF StoreInv
    <3>2. CASE b = c /\ peer[c] = Svr
      <4>1. d.pkt.key \in KeysOf(Svr) /\ (d.pkt.key = Key(Svr) => skeys[c] # 0)
        BY <2>1, <3>2, ResponseKey, Zenon
      <4>2. d.pkt.key # NoKey
        BY <1>1, <1>2, <4>1, KeyTypes, KeyExchangeAssumption, Zenon DEF AnyKey
      <4>3. QED
        BY <2>4, <3>2, <4>1, <4>2, SMTT(60)
    <3>3. CASE b = c /\ peer[c] # Svr
      <4>1. cpc[c] = "wait" /\ keys'[c][Svr] = keys[c][Svr]
        BY <1>2, <2>2, <2>3, <3>3, Zenon
      <4>2. QED
        BY <1>1, <3>3, <4>1, Zenon DEF StoreInv
    <3>4. QED
      BY <3>1, <3>2, <3>3, Zenon
  <2>7. QED
    BY <1>1, <2>1, <2>5, <2>6, ZenonT(60) DEF StoreInv, Key, KeysOf
<1>11. ASSUME NEW c \in Clients, Restart(c)
       PROVE  StoreInv'
  <2>1. /\ epoch' = [epoch EXCEPT ![c] = @ + 1] /\ UNCHANGED <<heap, skeys>>
        /\ keys' = [keys EXCEPT ![c] = [p \in Parties |-> NoStore]]
        /\ cpc' = [cpc EXCEPT ![c] = "new"]
    BY <1>11, Zenon DEF Restart, StartAgain
  <2>2. \A p \in Parties : p # c => epoch'[p] = epoch[p]
    BY <1>1, <2>1, Zenon DEF ClientTypes
  <2>3. ASSUME NEW b \in Clients, NEW p \in Parties
        PROVE  keys'[b][p] = NoStore \/ keys'[b][p].shared = Shared(<<b, epoch'[b]>>, keys'[b][p].public)
    BY <1>1, <1>2, <2>1, <2>2, ZenonT(60) DEF StoreInv, ClientTypes, Key
  <2>4. epoch'[Svr] = epoch[Svr]
    BY <1>2, <2>2, Zenon
  <2>5. ASSUME NEW b \in Clients, cpc'[b] \in {"extend", "on", "wait"}
        PROVE  b # c /\ keys'[b] = keys[b] /\ cpc'[b] = cpc[b]
    BY <1>1, <2>1, <2>5, Zenon DEF ClientTypes
  <2>6. QED
    BY <1>1, <2>1, <2>3, <2>4, <2>5, ZenonT(60) DEF StoreInv, Key, KeysOf
<1>12. ASSUME NEW s \in Slots, keyExchangeServer(s)
       PROVE  StoreInv'
  <2> DEFINE a == slot[s].addr
             ks == NewStore(a, slot[s].pkt.key)
  <2>1. a \in Clients /\ slot[s].pkt.key \in AnyKey
    BY <1>12, RunsRequest, Zenon DEF keyExchangeServer, Runs
  <2>2. /\ heap' = Append(heap, ks) /\ skeys' = [skeys EXCEPT ![a] = Len(heap) + 1]
        /\ UNCHANGED <<epoch, cpc, keys>>
    BY <1>12, Zenon DEF keyExchangeServer, setKeyStore, Reply, client
  <2>3. ks \in Objects /\ ks.shared = Shared(Key(Svr), ks.public)
    BY <1>1, <1>2, <2>1, KeyTypes, Zenon DEF NewStore, Objects
  <2> HIDE DEF a, ks
  <2>4. heap \in Seq(Objects) /\ Len(heap) \in Nat
    BY <1>1, Zenon DEF ServerTypes
  <2>5. /\ heap' \in Seq(Objects) /\ Len(heap') = Len(heap) + 1
        /\ \A i \in 1..Len(heap) : heap'[i] = heap[i]
        /\ heap'[Len(heap) + 1] = ks
    BY <2>2, <2>3, <2>4, AppendProperties, SMTT(60)
  <2>6. DOMAIN heap = 1..Len(heap) /\ DOMAIN heap' = 1..(Len(heap) + 1)
    BY <2>4, <2>5, LenProperties, Zenon
  <2>7. ASSUME NEW i \in DOMAIN heap'
        PROVE  heap'[i].shared = Shared(Key(Svr), heap'[i].public)
    <3>1. i \in 1..Len(heap) \/ i = Len(heap) + 1
      BY <2>4, <2>6, SMTT(60)
    <3>2. QED
      BY <1>1, <2>3, <2>5, <2>6, <3>1, Zenon DEF StoreInv
  <2>8. \A c \in Clients : skeys[c] # 0 => skeys'[c] # 0
    BY <1>1, <2>1, <2>2, <2>4, SMTT(60) DEF ServerTypes
  <2>9. QED
    BY <1>1, <2>2, <2>7, <2>8, Zenon DEF StoreInv, Key, KeysOf
<1>13. ASSUME NEW s \in Slots, setKeySent(s)
       PROVE  StoreInv'
  <2>1. heap' = [heap EXCEPT ![slot[s].k].keySent = TRUE] /\ UNCHANGED <<epoch, cpc, keys, skeys>>
    BY <1>13, Zenon DEF setKeySent, client
  <2>2. heap \in Seq(Objects) /\ DOMAIN heap' = DOMAIN heap
    BY <1>1, <2>1, Zenon DEF ServerTypes
  <2>3. ASSUME NEW i \in DOMAIN heap
        PROVE  heap'[i].shared = heap[i].shared /\ heap'[i].public = heap[i].public
    <3>1. heap[i] \in Objects
      BY <2>2, ElementOfSeq, LenProperties, Zenon
    <3>2. QED
      BY <2>1, <3>1, Zenon DEF Objects
  <2>4. QED
    BY <1>1, <2>1, <2>2, <2>3, ZenonT(60) DEF StoreInv, Key, KeysOf
<1>14. CASE RestartServer
  <2>1. /\ epoch' = [epoch EXCEPT ![Svr] = @ + 1] /\ UNCHANGED <<cpc, keys>> /\ heap' = <<>>
    BY <1>14, Zenon DEF RestartServer, StartAgain
  <2>2. epoch[Svr] \in Nat /\ epoch'[Svr] = epoch[Svr] + 1
        /\ \A c \in Clients : epoch'[c] = epoch[c]
    BY <1>1, <1>2, <2>1, Zenon DEF ClientTypes
  <2>3. \A k \in KeysOf(Svr) : k # <<Svr, epoch'[Svr]>> /\ k \in KeysOf(Svr)'
    BY <2>2, SMTT(60) DEF KeysOf
  <2>4. DOMAIN heap' = {}
    BY <2>1, SMTT(60)
  <2>5. \A c \in Clients : cpc'[c] \in {"extend", "on", "wait"} =>
         keys'[c][Svr].public \in KeysOf(Svr)' /\ keys'[c][Svr].public # <<Svr, epoch'[Svr]>>
    BY <1>1, <2>1, <2>3, Zenon DEF StoreInv
  <2>6. \A c \in Clients, p \in Parties :
         keys'[c][p] = NoStore \/ keys'[c][p].shared = Shared(<<c, epoch'[c]>>, keys'[c][p].public)
    BY <1>1, <2>1, <2>2, Zenon DEF StoreInv, Key
  <2>7. QED
    BY <2>4, <2>5, <2>6, Zenon DEF StoreInv, Key
<1>15. QED
  BY <1>4, <1>5, <1>6, <1>7, <1>8, <1>9, <1>10, <1>11, <1>12, <1>13, <1>14, Zenon DEF Next

(* DecryptE2E: the data was sealed with a key of its author, and opens     *)
(* under a secret made with a key of the reader, who is another client.    *)
LEMMA NextOpened ==
  ASSUME KeyExchangeInv, Next
  PROVE  E2EAuthentic'
<1>1. TypeOK /\ StoreInv /\ E2EAuthentic /\ Clients \subseteq Parties
  BY Zenon DEF KeyExchangeInv, Parties
<1>2. \A p \in Parties : epoch[p] \in Nat /\ epoch'[p] \in Nat /\ epoch[p] <= epoch'[p]
  BY NextEpochs, Zenon
<1>3. \A x \in opened : x.by \in Parties /\ x.from \in Parties
  BY <1>1, Zenon DEF TypeOK
<1>4. ASSUME NEW x \in opened
      PROVE  /\ x.author = x.from
             /\ \E k \in KeysOf(x.by)', l \in KeysOf(x.from)' : x.seal = {k, l}
  <2>1. /\ x.author = x.from
        /\ \E k \in KeysOf(x.by), l \in KeysOf(x.from) : x.seal = {k, l}
    BY <1>1, Zenon DEF E2EAuthentic
  <2>2. \A k \in KeysOf(x.by) : k \in KeysOf(x.by)'
    BY <1>2, <1>3, SMTT(60) DEF KeysOf
  <2>3. \A k \in KeysOf(x.from) : k \in KeysOf(x.from)'
    BY <1>2, <1>3, SMTT(60) DEF KeysOf
  <2>4. QED
    BY <2>1, <2>2, <2>3, Zenon
<1>5. CASE opened' = opened
  BY <1>4, <1>5, ZenonT(60) DEF E2EAuthentic
<1>6. ASSUME NEW c \in Clients, NEW d \in net, DecryptE2E(c, d)
      PROVE  E2EAuthentic'
  <2> DEFINE from == d.pkt.from
             x == [by |-> c, from |-> from, author |-> d.pkt.author, seal |-> d.pkt.seal]
  <2>1. d.dst = c /\ from # NoAddr /\ Opens(keys[c][from].shared, d.pkt.seal)
        /\ opened' = opened \cup {x} /\ epoch' = epoch
    BY <1>6, Zenon DEF DecryptE2E, Decrypts
  <2>2. PICK r \in Requests :
          /\ r.pkt.tgt = "relay" /\ c = r.pkt.to
          /\ from = r.src /\ d.pkt.seal = r.pkt.seal /\ d.pkt.author = r.pkt.author
    BY <2>1, ToClient, Zenon DEF Answers
  <2>3. PICK l \in KeysOf(from) : \E m \in d.pkt.seal : d.pkt.seal = {l, m}
    <3>1. \E k \in KeysOf(r.src) : \E m \in r.pkt.seal : r.pkt.seal = {k, m}
      BY <2>2, Zenon DEF KeyExchangeInv, RequestInv
    <3>2. QED
      BY <2>2, <3>1, Zenon
  <2>4. r.src \in Clients /\ c # from /\ d.pkt.author = from
    BY <2>2, Zenon DEF KeyExchangeInv, RequestInv, Requests
  <2>5. from \in Parties /\ keys[c][from].shared # Plain /\ keys[c][from].shared = d.pkt.seal
    BY <1>1, <2>1, <2>2, <2>4, ZenonT(60) DEF Opens
  <2>6. keys[c][from].shared = {Key(c), keys[c][from].public}
    BY <1>1, <2>5, SMTT(60) DEF StoreInv, NoStore, Shared
  <2>7. Key(c) \in KeysOf(c) /\ Key(c) # l
    BY <1>1, <2>3, <2>4, KeyTypes, KeysDiffer, Zenon
  <2>8. d.pkt.seal = {Key(c), l}
    BY <2>3, <2>5, <2>6, <2>7, Zenon
  <2>9. x.author = x.from /\ \E k \in KeysOf(x.by), h \in KeysOf(x.from) : x.seal = {k, h}
    BY <2>3, <2>4, <2>7, <2>8, Zenon
  <2>10. \A p : KeysOf(p)' = KeysOf(p)
    BY <2>1, Zenon DEF KeysOf
  <2>11. ASSUME NEW y \in opened'
         PROVE  y.author = y.from /\ \E k \in KeysOf(y.by), h \in KeysOf(y.from) : y.seal = {k, h}
    <3>1. CASE y \in opened
      BY <1>1, <3>1, Zenon DEF E2EAuthentic
    <3>2. CASE y = x
      BY <2>9, <3>2, Zenon
    <3>3. QED
      BY <2>1, <2>11, <3>1, <3>2, Zenon
  <2>12. QED
    BY <2>10, <2>11, Zenon DEF E2EAuthentic
<1>7. opened' = opened \/ \E c \in Clients : \E d \in net : DecryptE2E(c, d)
  <2>1. ASSUME NEW c \in Clients,
               \/ ConfigureClient(c) \/ ServerKEx(c) \/ Extend(c) \/ Request(c) \/ Restart(c)
               \/ \E other \in Clients \ {c} : ClientKEx(c, other) \/ SendE2E(c, other)
               \/ \E d \in net : ProcessKeyExResp(c, d)
        PROVE  opened' = opened
    BY <2>1, Zenon DEF ConfigureClient, ServerKEx, ClientKEx, Exchange, Extend, Request, Restart, SendE2E,
                ProcessKeyExResp
  <2>2. ASSUME NEW s \in Slots,
               \/ \E d \in net : Receive(s, d)
               \/ keyExchangeServer(s) \/ keyExchangeClient(s) \/ Echo(s) \/ Relay(s)
               \/ getKeyStore(s) \/ getKeySent(s) \/ setKeySent(s)
        PROVE  opened' = opened
    BY <2>2, Zenon DEF Receive, keyExchangeServer, keyExchangeClient, Echo, Relay, Reply, getKeyStore,
                getKeySent, setKeySent, client
  <2>3. RestartServer => opened' = opened
    BY Zenon DEF RestartServer
  <2>4. QED
    BY <2>1, <2>2, <2>3, Zenon DEF Next
<1>8. QED
  BY <1>5, <1>6, <1>7, Zenon

-----------------------------------------------------------------------------
(* What the server answers. *)

(* setKeyStore, RestartServer: the running server forgets no client, and a *)
(* server that is started again has a key it has never had.                *)
LEMMA NextKnown ==
  ASSUME KeyExchangeInv, Next
  PROVE  \A k \in KeysOf(Svr) :
           /\ k \in KeysOf(Svr)'
           /\ \A c \in Clients : (k = Key(Svr) => skeys[c] # 0) => (k = Key(Svr)' => skeys'[c] # 0)
<1>1. Svr \in Parties /\ Svr \notin Clients /\ ClientTypes /\ ServerTypes
  BY TypeParts, KeyExchangeAssumption, Zenon DEF Parties, KeyExchangeInv
<1>2. epoch[Svr] \in Nat /\ epoch'[Svr] \in Nat /\ epoch[Svr] <= epoch'[Svr]
  BY <1>1, NextEpochs, ZenonT(60)
<1>3. \A k \in KeysOf(Svr) : k \in KeysOf(Svr)'
  BY <1>2, SMTT(60) DEF KeysOf
<1>4. CASE RestartServer
  <2>1. epoch'[Svr] = epoch[Svr] + 1
    BY <1>1, <1>4, Zenon DEF RestartServer, StartAgain, ClientTypes
  <2>2. \A k \in KeysOf(Svr) : k # Key(Svr)'
    BY <1>2, <2>1, SMTT(60) DEF KeysOf, Key
  <2>3. QED
    BY <1>3, <2>2, Zenon
<1>5. ASSUME UNCHANGED skeys, epoch'[Svr] = epoch[Svr]
      PROVE  Key(Svr)' = Key(Svr) /\ \A c \in Clients : skeys[c] # 0 => skeys'[c] # 0
  BY <1>5, Zenon DEF Key
<1>6. ASSUME NEW c \in Clients,
             \/ ConfigureClient(c) \/ ServerKEx(c) \/ Extend(c) \/ Request(c) \/ Restart(c)
             \/ \E other \in Clients \ {c} : ClientKEx(c, other) \/ SendE2E(c, other)
             \/ \E d \in net : ProcessKeyExResp(c, d) \/ DecryptE2E(c, d)
      PROVE  Key(Svr)' = Key(Svr) /\ \A b \in Clients : skeys[b] # 0 => skeys'[b] # 0
  <2>1. UNCHANGED skeys
    BY <1>6, Zenon DEF ConfigureClient, ServerKEx, ClientKEx, Exchange, Extend, Request, Restart, SendE2E,
                ProcessKeyExResp, DecryptE2E, server
  <2>2. UNCHANGED epoch \/ Restart(c)
    BY <1>6, Zenon DEF ConfigureClient, ServerKEx, ClientKEx, Exchange, Extend, Request, SendE2E,
                ProcessKeyExResp, DecryptE2E
  <2>3. epoch'[Svr] = epoch[Svr]
    BY <1>1, <2>2, Zenon DEF Restart, StartAgain, ClientTypes
  <2>4. QED
    BY <1>5, <2>1, <2>3, Zenon
<1>7. ASSUME NEW s \in Slots,
             \/ \E d \in net : Receive(s, d)
             \/ keyExchangeClient(s) \/ Echo(s) \/ Relay(s)
             \/ getKeyStore(s) \/ getKeySent(s) \/ setKeySent(s)
      PROVE  Key(Svr)' = Key(Svr) /\ \A b \in Clients : skeys[b] # 0 => skeys'[b] # 0
  BY <1>5, <1>7, ZenonT(60) DEF Receive, keyExchangeClient, Echo, Relay, Reply, getKeyStore, getKeySent,
                    setKeySent, client
<1>8. ASSUME NEW s \in Slots, keyExchangeServer(s)
      PROVE  Key(Svr)' = Key(Svr) /\ \A b \in Clients : skeys[b] # 0 => skeys'[b] # 0
  <2>1. slot[s].addr \in Clients
    BY <1>8, RunsRequest, Zenon DEF keyExchangeServer, Runs
  <2>2. epoch' = epoch /\ skeys' = [skeys EXCEPT ![slot[s].addr] = Len(heap) + 1]
    BY <1>8, Zenon DEF keyExchangeServer, setKeyStore, Reply, client
  <2>3. QED
    BY <1>1, <2>1, <2>2, SMTT(60) DEF ServerTypes, Key
<1>9. RestartServer \/ (Key(Svr)' = Key(Svr) /\ \A c \in Clients : skeys[c] # 0 => skeys'[c] # 0)
  BY <1>6, <1>7, <1>8, Zenon DEF Next
<1>10. QED
  BY <1>3, <1>4, <1>9, Zenon

(* Answers: what answers a request keeps answering it, in a slot or sent. *)
LEMMA AnswersStay ==
  ASSUME KeyExchangeInv, Next
  PROVE  /\ \A r \in Requests : r \in Requests'
         /\ \A s \in Slots :
              /\ slot[s].pc \in {"out", "check", "mark"}
              /\ slot'[s].pkt = slot[s].pkt /\ slot'[s].addr = slot[s].addr
              => slot'[s].addr \in Clients /\ Answers(slot[s].pkt, slot[s].addr)'
         /\ \A d \in net : d.src = Svr => d.dst \in Clients /\ Answers(d.pkt, d.dst)'
         /\ \A s \in Slots : slot[s].pc \in {"out", "check", "mark"} =>
              \A d \in net' : d.pkt = slot[s].pkt /\ d.dst = slot[s].addr =>
                d.dst \in Clients /\ Answers(d.pkt, d.dst)'
<1>1. net \subseteq net'
  BY NextSends, SendEffect, Zenon DEF Quiet
<1>2. \A r \in Requests : r \in Requests' /\ r.src \in Clients
  BY <1>1, Zenon DEF Requests
<1>3. \A k \in KeysOf(Svr) :
        /\ k \in KeysOf(Svr)'
        /\ \A c \in Clients : (k = Key(Svr) => skeys[c] # 0) => (k = Key(Svr)' => skeys'[c] # 0)
  BY NextKnown, ZenonT(60)
<1>4. ASSUME NEW s \in Slots, slot[s].pc \in {"out", "check", "mark"},
             slot'[s].pkt = slot[s].pkt, slot'[s].addr = slot[s].addr
      PROVE  slot'[s].addr \in Clients /\ Answers(slot[s].pkt, slot[s].addr)'
  <2>1. slot[s].addr \in Clients /\ Answers(slot[s].pkt, slot[s].addr)
    BY <1>4, Zenon DEF KeyExchangeInv, AnswerInv
  <2>2. QED
    BY <1>2, <1>3, <1>4, <2>1, ZenonT(60) DEF Answers
<1>5. ASSUME NEW d \in net, d.src = Svr
      PROVE  d.dst \in Clients /\ Answers(d.pkt, d.dst)'
  <2>1. d.dst \in Clients /\ Answers(d.pkt, d.dst)
    BY <1>5, Zenon DEF KeyExchangeInv, AnswerInv
  <2>2. QED
    BY <1>2, <1>3, <2>1, Zenon DEF Answers
<1>6. ASSUME NEW s \in Slots, slot[s].pc \in {"out", "check", "mark"},
             NEW d \in net', d.pkt = slot[s].pkt, d.dst = slot[s].addr
      PROVE  d.dst \in Clients /\ Answers(d.pkt, d.dst)'
  <2>1. slot[s].addr \in Clients /\ Answers(slot[s].pkt, slot[s].addr)
    BY <1>6, Zenon DEF KeyExchangeInv, AnswerInv
  <2>2. QED
    BY <1>2, <1>3, <1>6, <2>1, ZenonT(30) DEF Answers
<1>7. QED
  BY <1>2, <1>4, <1>5, <1>6, Zenon

(* A step of one slot: what is left to show of it. *)
LEMMA AnswersAt ==
  ASSUME KeyExchangeInv, Next, NEW s \in Slots, \A t \in Slots \ {s} : slot'[t] = slot[t],
         slot'[s].pc = "run" =>
           \E d \in Requests : slot'[s].pkt = d.pkt /\ slot'[s].addr = d.src,
         slot'[s].pc \in {"out", "check", "mark"} =>
           slot'[s].addr \in Clients /\ Answers(slot[s].pkt, slot[s].addr)',
         slot'[s].pc \in {"check", "mark"} => slot'[s].k > 0 /\ ~slot'[s].pkt.nocrypto,
         \A d \in net' \ net : d.dst \in Clients /\ Answers(d.pkt, d.dst)'
  PROVE  AnswerInv'
<1>1. ASSUME NEW t \in Slots, t # s
      PROVE  /\ slot'[t].pc = "run" =>
                  \E d \in Requests' : slot'[t].pkt = d.pkt /\ slot'[t].addr = d.src
             /\ slot'[t].pc \in {"out", "check", "mark"} =>
                  slot'[t].addr \in Clients /\ Answers(slot[t].pkt, slot[t].addr)'
             /\ slot'[t].pc \in {"check", "mark"} => slot'[t].k > 0 /\ ~slot'[t].pkt.nocrypto
  <2>1. slot'[t] = slot[t]
    BY <1>1, Zenon
  <2>2. slot'[t].pc = "run" => \E d \in Requests' : slot'[t].pkt = d.pkt /\ slot'[t].addr = d.src
    BY <2>1, AnswersStay, Zenon DEF KeyExchangeInv, AnswerInv
  <2>3. slot'[t].pc \in {"check", "mark"} => slot'[t].k > 0 /\ ~slot'[t].pkt.nocrypto
    BY <2>1, Zenon DEF KeyExchangeInv, AnswerInv
  <2>4. slot'[t].pc \in {"out", "check", "mark"} =>
          slot'[t].addr \in Clients /\ Answers(slot[t].pkt, slot[t].addr)'
    BY <2>1, AnswersStay, Zenon
  <2>5. QED
    BY <2>2, <2>3, <2>4, Zenon
<1>2. slot'[s].pc = "run" => \E d \in Requests' : slot'[s].pkt = d.pkt /\ slot'[s].addr = d.src
  BY AnswersStay, Zenon
<1>3. \A d \in net' : d.src = Svr => d.dst \in Clients /\ Answers(d.pkt, d.dst)'
  BY AnswersStay, Zenon
<1>4. QED
  BY <1>1, <1>2, <1>3, Zenon DEF AnswerInv

(* Reply: a packet that fits the request of the slot answers it. *)
LEMMA ReplyAnswers ==
  ASSUME KeyExchangeInv, Next, NEW s \in Slots, slot[s].pc = "run", NEW p, NEW a \in Clients,
         Reply(s, p, a), p.ref = slot[s].pkt.ref,
         slot[s].pkt.tgt = "kex-cs" =>
           p.nocrypto /\ p.key = Key(Svr) /\ skeys'[slot[s].addr] # 0,
         p.from # NoAddr =>
           /\ slot[s].pkt.tgt = "relay" /\ a = slot[s].pkt.to
           /\ p.from = slot[s].addr /\ p.seal = slot[s].pkt.seal /\ p.author = slot[s].pkt.author
  PROVE  AnswerInv'
<1>1. TypeOK /\ ServerTypes /\ Svr \in Parties
  BY TypeParts, Zenon DEF KeyExchangeInv, Parties
<1>2. slot' = [slot EXCEPT ![s] = [Free EXCEPT !.pc = "out", !.pkt = p, !.addr = a]] /\ net' = net
  BY Zenon DEF Reply
<1>3. slot'[s].pc = "out" /\ slot'[s].pkt = p /\ slot'[s].addr = a
  BY <1>1, <1>2, Zenon DEF ServerTypes, Free
<1>4. \A t \in Slots \ {s} : slot'[t] = slot[t]
  BY <1>1, <1>2, Zenon DEF ServerTypes
<1>5. PICK d \in Requests : slot[s].pkt = d.pkt /\ slot[s].addr = d.src
  BY Zenon DEF KeyExchangeInv, AnswerInv
<1>6. d \in Requests' /\ Key(Svr) \in KeysOf(Svr)'
  BY <1>1, AnswersStay, NextKnown, KeyTypes, Zenon
<1>7. Answers(slot[s].pkt, slot[s].addr)'
  BY <1>3, <1>5, <1>6, ZenonT(60) DEF Answers
<1>8. \A e \in net' \ net : FALSE
  BY <1>2, Zenon
<1>9. QED
  BY <1>3, <1>4, <1>7, <1>8, AnswersAt, Zenon

(* Emit: what leaves a slot answers what the slot did. *)
LEMMA EmitAnswers ==
  ASSUME KeyExchangeInv, Next, NEW s \in Slots, slot[s].pc \in {"out", "check", "mark"},
         NEW enc, Emit(s, enc)
  PROVE  AnswerInv'
<1>1. ServerTypes
  BY TypeParts, Zenon DEF KeyExchangeInv
<1>2. slot' = [slot EXCEPT ![s] = Free]
      /\ \A d \in net' \ net : d.pkt = slot[s].pkt /\ d.dst = slot[s].addr
  BY SMTT(60) DEF Emit
<1>3. slot'[s].pc = "free" /\ \A t \in Slots \ {s} : slot'[t] = slot[t]
  BY <1>1, <1>2, Zenon DEF ServerTypes, Free
<1>4. \A d \in net' \ net : d.dst \in Clients /\ Answers(d.pkt, d.dst)'
  BY <1>2, AnswersStay, Zenon
<1>5. QED
  BY <1>3, <1>4, AnswersAt, Zenon

(* Next: the server works on requests and sends answers to them. *)
LEMMA NextAnswers ==
  ASSUME KeyExchangeInv, Next
  PROVE  AnswerInv'
<1>1. TypeOK /\ ServerTypes /\ Svr \in Parties /\ Svr \notin Clients
  BY TypeParts, KeyExchangeAssumption, Zenon DEF KeyExchangeInv, Parties
<1>2. ASSUME slot' = slot, \A d \in net' \ net : d.src \in Clients
      PROVE  AnswerInv'
  <2>1. ASSUME NEW s \in Slots
        PROVE  /\ slot'[s].pc = "run" =>
                    \E d \in Requests' : slot'[s].pkt = d.pkt /\ slot'[s].addr = d.src
               /\ slot'[s].pc \in {"out", "check", "mark"} =>
                    slot'[s].addr \in Clients /\ Answers(slot[s].pkt, slot[s].addr)'
               /\ slot'[s].pc \in {"check", "mark"} => slot'[s].k > 0 /\ ~slot'[s].pkt.nocrypto
    <3>1. slot'[s].pc = "run" =>
            \E d \in Requests' : slot'[s].pkt = d.pkt /\ slot'[s].addr = d.src
      BY <1>2, AnswersStay, Zenon DEF KeyExchangeInv, AnswerInv
    <3>2. slot'[s].pc \in {"out", "check", "mark"} =>
            slot'[s].addr \in Clients /\ Answers(slot[s].pkt, slot[s].addr)'
      BY <1>2, AnswersStay, Zenon
    <3>3. slot'[s].pc \in {"check", "mark"} => slot'[s].k > 0 /\ ~slot'[s].pkt.nocrypto
      BY <1>2, Zenon DEF KeyExchangeInv, AnswerInv
    <3>4. QED
      BY <3>1, <3>2, <3>3, Zenon
  <2>2. \A d \in net' : d.src = Svr => d.dst \in Clients /\ Answers(d.pkt, d.dst)'
    BY <1>1, <1>2, AnswersStay, Zenon
  <2>3. QED
    BY <2>1, <2>2, Zenon DEF AnswerInv
<1>3. ASSUME NEW c \in Clients, NEW pkt, Sending(c, pkt)
      PROVE  AnswerInv'
  <2>1. slot' = slot
    BY <1>3, Zenon DEF Sending, server
  <2>2. \A d \in net' \ net : d.src \in Clients
    BY <1>3, SendEffect, Zenon
  <2>3. QED
    BY <1>2, <2>1, <2>2, Zenon
<1>4. ASSUME NEW c \in Clients,
             \/ ConfigureClient(c) \/ ServerKEx(c) \/ Request(c)
             \/ \E other \in Clients \ {c} : ClientKEx(c, other) \/ SendE2E(c, other)
      PROVE  AnswerInv'
  BY <1>3, <1>4, ExchangeSends, DataSends, Zenon
<1>5. ASSUME NEW c \in Clients,
             Extend(c) \/ Restart(c) \/ \E d \in net : ProcessKeyExResp(c, d) \/ DecryptE2E(c, d)
      PROVE  AnswerInv'
  BY <1>2, <1>5, Zenon DEF Extend, Restart, ProcessKeyExResp, DecryptE2E, server
<1>6. ASSUME NEW s \in Slots, NEW d \in net, Receive(s, d)
      PROVE  AnswerInv'
  <2>1. d \in Requests /\ d.src \in Clients /\ net' = net
    BY <1>6, ToServer, Zenon DEF Receive
  <2>2. \A t \in Slots \ {s} : slot'[t] = slot[t]
    BY <1>1, <1>6, Zenon DEF Receive, ServerTypes
  <2>3. CASE slot' = [slot EXCEPT ![s] = [Free EXCEPT !.pc = "run", !.pkt = d.pkt, !.addr = d.src]]
    <3>1. slot'[s].pc = "run" /\ slot'[s].pkt = d.pkt /\ slot'[s].addr = d.src
      BY <1>1, <2>3, Zenon DEF ServerTypes, Free
    <3>2. QED
      BY <2>1, <2>2, <3>1, AnswersAt, Zenon
  <2>4. CASE slot' = [slot EXCEPT ![s] =
                        [Free EXCEPT !.pc = "out", !.pkt = ErrPkt(NoRef, NoKey), !.addr = d.src]]
    <3>1. slot'[s].pc = "out" /\ slot'[s].pkt = ErrPkt(NoRef, NoKey) /\ slot'[s].addr = d.src
      BY <1>1, <2>4, ZenonT(60) DEF ServerTypes, Free
    <3>2. slot'[s].pkt.ref = NoRef /\ slot'[s].pkt.from = NoAddr
      BY <3>1, PktTypes, SMTT(60) DEF Refs
    <3>3. Answers(slot[s].pkt, slot[s].addr)'
      BY <3>2, Zenon DEF Answers
    <3>4. QED
      BY <2>1, <2>2, <3>1, <3>3, AnswersAt, Zenon
  <2>5. QED
    BY <1>6, <2>3, <2>4, Zenon DEF Receive
<1>7. ASSUME NEW s \in Slots, keyExchangeServer(s)
      PROVE  AnswerInv'
  <2> DEFINE q == Pkt("none", slot[s].pkt.ref)
             p == [q EXCEPT !.key = Key(Svr), !.nocrypto = TRUE]
             a == slot[s].addr
  <2>1. slot[s].pc = "run" /\ slot[s].pkt.tgt = "kex-cs" /\ Reply(s, p, a)
        /\ skeys' = [skeys EXCEPT ![a] = Len(heap) + 1]
    BY <1>7, Zenon DEF keyExchangeServer, setKeyStore, Runs
  <2>2. a \in Clients /\ slot[s].pkt.ref \in Refs
    BY <2>1, RunsRequest, Zenon
  <2>3. skeys'[a] # 0
    BY <1>1, <2>1, <2>2, SMTT(60) DEF ServerTypes
  <2>4. q \in Packets /\ q.ref = slot[s].pkt.ref /\ q.from = NoAddr
    BY <2>2, PktTypes, Zenon
  <2> HIDE DEF q
  <2>5. p.ref = slot[s].pkt.ref /\ p.from = NoAddr /\ p.key = Key(Svr) /\ p.nocrypto
    BY <2>4, Zenon DEF Packets
  <2> HIDE DEF p, a
  <2>6. QED
    BY <2>1, <2>2, <2>3, <2>5, ReplyAnswers, Zenon DEF a
<1>8. ASSUME NEW s \in Slots, keyExchangeClient(s)
      PROVE  AnswerInv'
  <2>1. slot[s].pc = "run" /\ slot[s].pkt.tgt = "kex-cc"
    BY <1>8, Zenon DEF keyExchangeClient, Runs
  <2>2. slot[s].addr \in Clients /\ slot[s].pkt.ref \in Refs /\ slot[s].pkt.to \in Clients
    BY <2>1, RunsRequest, Zenon
  <2>3. ASSUME NEW k \in Leftover, Reply(s, ErrPkt(slot[s].pkt.ref, k), slot[s].addr)
        PROVE  AnswerInv'
    <3> DEFINE p == ErrPkt(slot[s].pkt.ref, k)
    <3>1. k \in AnyKey \cup {NoKey}
      BY <1>1, ZenonT(60) DEF Leftover, ServerTypes
    <3>2. p.ref = slot[s].pkt.ref /\ p.from = NoAddr /\ Reply(s, p, slot[s].addr)
      BY <2>2, <2>3, <3>1, PktTypes, SMTT(60)
    <3> HIDE DEF p
    <3>3. QED
      BY <2>1, <2>2, <3>2, ReplyAnswers, Zenon
  <2>4. ASSUME skeys[slot[s].pkt.to] # 0,
               Reply(s, [Pkt("none", slot[s].pkt.ref) EXCEPT
                           !.key = StoreOf(slot[s].pkt.to).public, !.nocrypto = TRUE],
                     slot[s].addr)
        PROVE  AnswerInv'
    <3> DEFINE q == Pkt("none", slot[s].pkt.ref)
               p == [q EXCEPT !.key = StoreOf(slot[s].pkt.to).public, !.nocrypto = TRUE]
    <3>1. StoreOf(slot[s].pkt.to).public \in AnyKey /\ Reply(s, p, slot[s].addr)
      BY <2>2, <2>4, StoreTypes, Zenon
    <3>2. q \in Packets /\ q.ref = slot[s].pkt.ref /\ q.from = NoAddr
      BY <2>2, PktTypes, Zenon
    <3> HIDE DEF q
    <3>3. p.ref = slot[s].pkt.ref /\ p.from = NoAddr
      BY <3>2, Zenon DEF Packets
    <3> HIDE DEF p
    <3>4. QED
      BY <2>1, <2>2, <3>1, <3>3, ReplyAnswers, Zenon
  <2>5. QED
    BY <1>8, <2>3, <2>4, Zenon DEF keyExchangeClient
<1>9. ASSUME NEW s \in Slots, Echo(s)
      PROVE  AnswerInv'
  <2> DEFINE p == Pkt("none", slot[s].pkt.ref)
  <2>1. slot[s].pc = "run" /\ slot[s].pkt.tgt = "echo" /\ Reply(s, p, slot[s].addr)
    BY <1>9, Zenon DEF Echo, Runs
  <2>2. slot[s].addr \in Clients /\ slot[s].pkt.ref \in Refs
    BY <2>1, RunsRequest, Zenon
  <2>3. p.ref = slot[s].pkt.ref /\ p.from = NoAddr
    BY <2>2, PktTypes, Zenon
  <2> HIDE DEF p
  <2>4. QED
    BY <2>1, <2>2, <2>3, ReplyAnswers, Zenon
<1>10. ASSUME NEW s \in Slots, Relay(s)
       PROVE  AnswerInv'
  <2> DEFINE q == Pkt("none", slot[s].pkt.ref)
             p == [q EXCEPT !.seal = slot[s].pkt.seal, !.author = slot[s].pkt.author,
                            !.from = slot[s].addr]
  <2>1. slot[s].pc = "run" /\ slot[s].pkt.tgt = "relay" /\ Reply(s, p, slot[s].pkt.to)
    BY <1>10, Zenon DEF Relay, Runs
  <2>2. slot[s].addr \in Clients /\ slot[s].pkt.ref \in Refs /\ slot[s].pkt.to \in Clients
        /\ slot[s].pkt \in Packets
    BY <2>1, RunsRequest, Zenon
  <2>3. slot[s].pkt.seal \in SUBSET AnyKey /\ slot[s].pkt.author \in Clients \cup {NoAddr}
    BY <2>2, Zenon DEF Packets
  <2>4. q \in Packets /\ q.ref = slot[s].pkt.ref
    BY <2>2, PktTypes, Zenon
  <2> HIDE DEF q
  <2>5. /\ p.ref = slot[s].pkt.ref /\ p.seal = slot[s].pkt.seal /\ p.author = slot[s].pkt.author
        /\ p.from = slot[s].addr
    BY <2>4, Zenon DEF Packets
  <2> HIDE DEF p
  <2>6. QED
    BY <2>1, <2>2, <2>5, ReplyAnswers, Zenon
<1>11. ASSUME NEW s \in Slots, getKeyStore(s)
       PROVE  AnswerInv'
  <2>1. slot[s].pc = "out"
    BY <1>11, Zenon DEF getKeyStore
  <2>2. CASE Emit(s, Plain)
    BY <2>1, <2>2, EmitAnswers, Zenon
  <2>3. CASE ~Emit(s, Plain)
    <3>1. /\ slot' = [slot EXCEPT ![s].pc = "check", ![s].k = skeys[slot[s].addr]] /\ net' = net
          /\ ~slot[s].pkt.nocrypto /\ skeys[slot[s].addr] # 0
      BY <1>11, <2>3, Zenon DEF getKeyStore
    <3>2. slot[s].addr \in Clients
      BY <2>1, Zenon DEF KeyExchangeInv, AnswerInv
    <3>3. slot'[s].pkt = slot[s].pkt /\ slot'[s].addr = slot[s].addr
          /\ slot'[s].k = skeys[slot[s].addr] /\ \A t \in Slots \ {s} : slot'[t] = slot[t]
      BY <1>1, <3>1, ZenonT(60) DEF ServerTypes, SlotRecs
    <3>4. slot'[s].pc = "check" /\ slot'[s].k > 0
      BY <1>1, <3>1, <3>2, <3>3, SMTT(60) DEF ServerTypes, SlotRecs
    <3>5. slot'[s].addr \in Clients /\ Answers(slot[s].pkt, slot[s].addr)'
      BY <2>1, <3>3, AnswersStay, Zenon
    <3>6. QED
      BY <3>1, <3>3, <3>4, <3>5, AnswersAt, Zenon
  <2>4. QED
    BY <2>2, <2>3, Zenon
<1>12. ASSUME NEW s \in Slots, getKeySent(s)
       PROVE  AnswerInv'
  <2>1. slot[s].pc = "check" /\ slot[s].k > 0 /\ ~slot[s].pkt.nocrypto
    BY <1>12, Zenon DEF getKeySent, KeyExchangeInv, AnswerInv
  <2>2. CASE slot' = [slot EXCEPT ![s].pc = "mark"] /\ net' = net
    <3>1. slot'[s].pkt = slot[s].pkt /\ slot'[s].addr = slot[s].addr /\ slot'[s].k = slot[s].k
          /\ slot'[s].pc = "mark" /\ \A t \in Slots \ {s} : slot'[t] = slot[t]
      BY <1>1, <2>2, Zenon DEF ServerTypes, SlotRecs
    <3>2. slot'[s].addr \in Clients /\ Answers(slot[s].pkt, slot[s].addr)'
      BY <2>1, <3>1, AnswersStay, Zenon
    <3>3. QED
      BY <2>1, <2>2, <3>1, <3>2, AnswersAt, Zenon
  <2>3. CASE Emit(s, heap[slot[s].k].shared)
    BY <2>1, <2>3, EmitAnswers, Zenon
  <2>4. ASSUME NEW l \in Leftover,
               slot' = [slot EXCEPT ![s] =
                          [Free EXCEPT !.pc = "out", !.pkt = ErrPkt(slot[s].pkt.ref, l),
                                       !.addr = slot[s].addr]],
               net' = net
        PROVE  AnswerInv'
    <3> DEFINE p == ErrPkt(slot[s].pkt.ref, l)
    <3>1. slot[s].addr \in Clients /\ Answers(slot[s].pkt, slot[s].addr)
      BY <2>1, Zenon DEF KeyExchangeInv, AnswerInv
    <3>2. l \in AnyKey \cup {NoKey} /\ slot[s].pkt.ref \in Refs
      BY <1>1, ZenonT(60) DEF Leftover, ServerTypes, SlotRecs, Packets
    <3>3. p.ref = slot[s].pkt.ref /\ p.from = NoAddr
      BY <3>2, PktTypes, SMTT(60)
    <3>4. slot'[s].pc = "out" /\ slot'[s].pkt = p /\ slot'[s].addr = slot[s].addr
          /\ \A t \in Slots \ {s} : slot'[t] = slot[t]
      BY <1>1, <2>4, Zenon DEF ServerTypes, Free
    <3> HIDE DEF p
    <3>5. p.ref = NoRef \/ \E d \in Requests' : d.pkt.ref = p.ref /\ d.pkt.tgt # "kex-cs"
      <4>1. \A d \in Requests : d \in Requests'
        BY AnswersStay, Zenon
      <4>2. slot[s].pkt.ref = NoRef
            \/ \E d \in Requests : d.pkt.ref = slot[s].pkt.ref
                 /\ (d.pkt.tgt = "kex-cs" => slot[s].pkt.nocrypto)
        BY <3>1, Zenon DEF Answers
      <4>3. QED
        BY <2>1, <3>3, <4>1, <4>2, Zenon
    <3>6. Answers(slot[s].pkt, slot[s].addr)'
      BY <3>3, <3>4, <3>5, Zenon DEF Answers
    <3>7. QED
      BY <2>4, <3>1, <3>4, <3>6, AnswersAt, Zenon
  <2>5. QED
    BY <1>12, <2>2, <2>3, <2>4, Zenon DEF getKeySent
<1>13. ASSUME NEW s \in Slots, setKeySent(s)
       PROVE  AnswerInv'
  BY <1>13, EmitAnswers, Zenon DEF setKeySent
<1>14. CASE RestartServer
  <2>1. net' = net /\ \A s \in Slots : slot'[s].pc = "free"
    BY <1>14, Zenon DEF RestartServer, Free
  <2>2. \A d \in net' : d.src = Svr => d.dst \in Clients /\ Answers(d.pkt, d.dst)'
    BY <2>1, AnswersStay, Zenon
  <2>3. QED
    BY <2>1, <2>2, Zenon DEF AnswerInv
<1>15. QED
  BY <1>4, <1>5, <1>6, <1>7, <1>8, <1>9, <1>10, <1>11, <1>12, <1>13, <1>14, ZenonT(60) DEF Next

-----------------------------------------------------------------------------
(* The invariant and what follows. *)

(* Init: nobody has a key of another and nothing has been sent. *)
LEMMA InitKeyExchangeInv ==
  Init => KeyExchangeInv
<1> SUFFICES ASSUME Init PROVE KeyExchangeInv
  BY Zenon
<1>1. Len(heap) = 0 /\ heap \in Seq(Objects) /\ DOMAIN heap = {}
  BY SMTT(60) DEF Init
<1>2. slot \in [Slots -> SlotRecs(0)] /\ \A s \in Slots : slot[s].pc = "free"
  BY SlotTypes, Zenon DEF Init
<1>3. ServerTypes
  BY <1>1, <1>2, SMTT(60) DEF Init, ServerTypes
<1>4. NoStore \in [public : AnyKey \cup {NoKey}, shared : SUBSET AnyKey] /\ NoRef \in Refs
  BY Zenon DEF NoStore, Plain, Refs
<1>5. ClientTypes /\ net \subseteq Datagrams
  BY <1>4, Zenon DEF Init, ClientTypes
<1>6. TypeOK
  BY <1>3, <1>5, TypeParts, Zenon
<1>7. StoreInv
  BY <1>1, Zenon DEF Init, StoreInv
<1>8. RequestInv /\ E2EAuthentic
  BY Zenon DEF Init, RequestInv, Requests, E2EAuthentic
<1>9. AnswerInv
  BY <1>2, Zenon DEF Init, AnswerInv
<1>10. AwaitInv
  BY Zenon DEF Init, AwaitInv
<1>11. QED
  BY <1>6, <1>7, <1>8, <1>9, <1>10, Zenon DEF KeyExchangeInv

(* Next: every step keeps the invariant. *)
LEMMA NextKeyExchangeInv ==
  KeyExchangeInv /\ [Next]_vars => KeyExchangeInv'
<1>1. ASSUME KeyExchangeInv, Next
      PROVE  KeyExchangeInv'
  <2>1. TypeOK'
    <3>1. \/ \E c \in Clients :
               \/ ConfigureClient(c) \/ ServerKEx(c) \/ Extend(c) \/ Request(c) \/ Restart(c)
               \/ \E other \in Clients \ {c} : ClientKEx(c, other) \/ SendE2E(c, other)
               \/ \E d \in net : ProcessKeyExResp(c, d) \/ DecryptE2E(c, d)
          \/ \E s \in Slots : \E d \in net : Receive(s, d)
          \/ \E s \in Slots : keyExchangeServer(s) \/ keyExchangeClient(s) \/ Echo(s) \/ Relay(s)
          \/ \E s \in Slots : getKeyStore(s) \/ getKeySent(s) \/ setKeySent(s)
          \/ RestartServer
      BY <1>1, Zenon DEF Next
    <3>2. QED
      BY <1>1, <3>1, ClientStepTypes, ServerStepTypes, Zenon
  <2>2. QED
    BY <1>1, <2>1, NextStores, NextRequests, NextAnswers, NextAwaits, NextOpened, Zenon DEF KeyExchangeInv
<1>2. ASSUME KeyExchangeInv, UNCHANGED vars
      PROVE  KeyExchangeInv'
  <2>1. TypeOK /\ StoreInv /\ RequestInv /\ AnswerInv /\ AwaitInv /\ E2EAuthentic
        /\ UNCHANGED <<epoch, cpc, peer, awaits, sent, keys, opened>>
        /\ UNCHANGED <<heap, skeys, slot, received, recycled, net>>
    BY <1>2, Zenon DEF KeyExchangeInv, vars, client, server
  <2>2. TypeOK'
    BY <2>1, Zenon DEF TypeOK
  <2>3. StoreInv'
    BY <2>1, Zenon DEF StoreInv, Key, KeysOf
  <2>4. RequestInv' /\ E2EAuthentic'
    BY <2>1, ZenonT(60) DEF RequestInv, Requests, E2EAuthentic, KeysOf
  <2>5. AnswerInv'
    <3>1. /\ Requests' = Requests /\ Key(Svr)' = Key(Svr) /\ KeysOf(Svr)' = KeysOf(Svr)
          /\ slot' = slot /\ net' = net /\ skeys' = skeys
      BY <2>1, Zenon DEF Requests, Key, KeysOf
    <3>2. ASSUME NEW s \in Slots, slot[s].pc \in {"out", "check", "mark"}
          PROVE  slot[s].addr \in Clients /\ Answers(slot[s].pkt, slot[s].addr)'
      <4>1. slot[s].addr \in Clients /\ Answers(slot[s].pkt, slot[s].addr)
        BY <2>1, <3>2, Zenon DEF AnswerInv
      <4>2. QED
        BY <3>1, <4>1, Zenon DEF Answers
    <3>3. ASSUME NEW d \in net, d.src = Svr
          PROVE  d.dst \in Clients /\ Answers(d.pkt, d.dst)'
      <4>1. d.dst \in Clients /\ Answers(d.pkt, d.dst)
        BY <2>1, <3>3, Zenon DEF AnswerInv
      <4>2. QED
        BY <3>1, <4>1, Zenon DEF Answers
    <3>4. /\ \A s \in Slots :
               /\ slot[s].pc = "run" => \E d \in Requests : slot[s].pkt = d.pkt /\ slot[s].addr = d.src
               /\ slot[s].pc \in {"check", "mark"} => slot[s].k > 0 /\ ~slot[s].pkt.nocrypto
      BY <2>1, Zenon DEF AnswerInv
    <3>5. QED
      BY <3>1, <3>2, <3>3, <3>4, Zenon DEF AnswerInv
  <2>6. AwaitInv'
    BY <2>1, ZenonT(60) DEF AwaitInv, Requests
  <2>7. QED
    BY <2>2, <2>3, <2>4, <2>5, <2>6, Zenon DEF KeyExchangeInv
<1>3. QED
  BY <1>1, <1>2, Zenon

(* core/crypto: the keys held, the packets under way and the exchanges in  *)
(* progress always belong together, whatever the network does.             *)
THEOREM KeyExchangeInvariant ==
  Spec => []KeyExchangeInv
<1>1. KeyExchangeInv /\ [Next]_vars => KeyExchangeInv'
  BY NextKeyExchangeInv, Zenon
<1>2. QED
  BY <1>1, InitKeyExchangeInv, PTL DEF Spec

(* ConfigureClient, keyExchangeServer: client and server that have each    *)
(* other's current key have the same shared key.                           *)
THEOREM KeysAgree ==
  Spec => []Agreement
<1>1. ASSUME KeyExchangeInv
      PROVE  Agreement
  <2>1. ASSUME NEW c \in Clients, cpc[c] \in {"extend", "on", "wait"}
        PROVE  /\ keys[c][Svr].public \in KeysOf(Svr)
               /\ keys[c][Svr].public = Key(Svr) =>
                    /\ skeys[c] # 0
                    /\ StoreOf(c).public = Key(c) => StoreOf(c).shared = keys[c][Svr].shared
    <3>1. /\ keys[c][Svr].public \in KeysOf(Svr)
          /\ keys[c][Svr].public = Key(Svr) => skeys[c] # 0
      BY <1>1, <2>1, Zenon DEF KeyExchangeInv, StoreInv
    <3>2. ASSUME keys[c][Svr].public = Key(Svr), StoreOf(c).public = Key(c)
          PROVE  StoreOf(c).shared = keys[c][Svr].shared
      <4>1. StoreOf(c).shared = Shared(Key(Svr), Key(c))
        BY <1>1, <3>1, <3>2, StoreTypes, ZenonT(60)
      <4>2. Svr \in Parties /\ keys[c][Svr] # NoStore
        BY <1>1, <3>1, KeyTypes, KeyExchangeAssumption, SMTT(60) DEF NoStore, AnyKey, Parties, KeyExchangeInv
      <4>3. keys[c][Svr].shared = Shared(Key(c), Key(Svr))
        BY <1>1, <3>2, <4>2, Zenon DEF KeyExchangeInv, StoreInv
      <4>4. QED
        BY <4>1, <4>3, Zenon DEF Shared
    <3>3. QED
      BY <3>1, <3>2, Zenon
  <2>2. QED
    BY <2>1, Zenon DEF Agreement
<1>2. QED
  BY <1>1, KeyExchangeInvariant, PTL

(* DecryptE2E: what it decrypts was sealed by the client it is said to come *)
(* from, for keys of these two clients.                                    *)
THEOREM E2EIsAuthentic ==
  Spec => []E2EAuthentic
<1>1. KeyExchangeInv => E2EAuthentic
  BY Zenon DEF KeyExchangeInv
<1>2. QED
  BY <1>1, KeyExchangeInvariant, PTL

(* encryptTransport of a client: after ConfigureClient has sent its request *)
(* nothing leaves the client that is not sealed for the server.            *)
THEOREM ClientSealed ==
  Spec => ClientTrafficSealed
<1> DEFINE Sealed ==
      \A d \in net' \ net :
        d.src \in Clients /\ cpc[d.src] # "new" =>
          \E k \in KeysOf(Svr) : d.enc = {Key(d.src), k}
<1>1. ASSUME KeyExchangeInv, Next
      PROVE  Sealed
  <2>1. CASE Quiet
    BY <2>1, ZenonT(60) DEF Quiet, Requests
  <2>2. ASSUME NEW c \in Clients, NEW pkt, Sending(c, pkt)
        PROVE  Sealed
    BY <1>1, <2>2, SendEffect, SMTT(60)
  <2>3. QED
    BY <1>1, <2>1, <2>2, NextSends, Zenon
<1>2. KeyExchangeInv /\ [Next]_vars => [Sealed]_vars
  BY <1>1, Zenon
<1>3. QED
  BY <1>2, KeyExchangeInvariant, PTL DEF Spec, ClientTrafficSealed

(* decryptTransport of the server: what it runs is an exchange of keys or  *)
(* was sealed with its own key and the one it has for the sender.          *)
THEOREM ServerRunsSealed ==
  Spec => RunsOnlySealed
<1> DEFINE Run ==
      \A s \in Slots :
        slot[s].pc = "free" /\ slot'[s].pc = "run" /\ slot'[s].pkt.tgt # "kex-cs" =>
          \E d \in net :
            /\ d.pkt = slot'[s].pkt /\ d.src = slot'[s].addr
            /\ d.enc = {StoreOf(d.src).public, Key(Svr)}
<1>1. ASSUME KeyExchangeInv, Next, NEW s \in Slots, slot[s].pc = "free", slot'[s].pc = "run",
             slot'[s].pkt.tgt # "kex-cs"
      PROVE  \E d \in net :
               /\ d.pkt = slot'[s].pkt /\ d.src = slot'[s].addr
               /\ d.enc = {StoreOf(d.src).public, Key(Svr)}
  <2>1. ServerTypes
    BY <1>1, TypeParts, Zenon DEF KeyExchangeInv
  <2>2. PICK d \in net : Receive(s, d)
    <3>1. ASSUME NEW c \in Clients,
                 \/ ConfigureClient(c) \/ ServerKEx(c) \/ Extend(c) \/ Request(c) \/ Restart(c)
                 \/ \E other \in Clients \ {c} : ClientKEx(c, other) \/ SendE2E(c, other)
                 \/ \E d \in net : ProcessKeyExResp(c, d) \/ DecryptE2E(c, d)
          PROVE  slot' = slot
      BY <3>1, Zenon DEF ConfigureClient, ServerKEx, ClientKEx, Exchange, Extend, Request, Restart, SendE2E,
                  ProcessKeyExResp, DecryptE2E, server
    <3>2. ASSUME NEW t \in Slots, NEW d \in net, Receive(t, d)
          PROVE  t = s
      BY <1>1, <2>1, <3>2, Zenon DEF Receive, ServerTypes
    <3>3. ASSUME NEW t \in Slots,
                 keyExchangeServer(t) \/ keyExchangeClient(t) \/ Echo(t) \/ Relay(t)
          PROVE  FALSE
      <4>1. slot[t].pc = "run" /\ \E r : slot' = [slot EXCEPT ![t] = r]
        BY <3>3, Zenon DEF keyExchangeServer, keyExchangeClient, Echo, Relay, Reply, Runs
      <4>2. QED
        BY <1>1, <2>1, <4>1, Zenon DEF ServerTypes
    <3>4. ASSUME NEW t \in Slots, getKeyStore(t) \/ getKeySent(t) \/ setKeySent(t)
          PROVE  FALSE
      <4>1. slot[t].pc \in {"out", "check", "mark"} /\ \E r : slot' = [slot EXCEPT ![t] = r]
        BY <3>4, ZenonT(60) DEF getKeyStore, getKeySent, setKeySent, Emit
      <4>2. QED
        BY <1>1, <2>1, <4>1, Zenon DEF ServerTypes
    <3>5. ASSUME RestartServer
          PROVE  FALSE
      <4>1. slot'[s] = Free
        BY <3>5, Zenon DEF RestartServer
      <4>2. Free.pc = "free"
        BY Zenon DEF Free
      <4>3. QED
        BY <1>1, <4>1, <4>2, Zenon
    <3>6. QED
      BY <1>1, <3>1, <3>2, <3>3, <3>4, <3>5, ZenonT(60) DEF Next
  <2>3. d \in Requests /\ d.src \in Clients
    BY <1>1, <2>2, ToServer, Zenon DEF Receive
  <2>4. slot' = [slot EXCEPT ![s] = [Free EXCEPT !.pc = "run", !.pkt = d.pkt, !.addr = d.src]]
        /\ (d.enc = Plain \/ Opens(StoreOf(d.src).shared, d.enc))
    BY <1>1, <2>1, <2>2, Zenon DEF Receive, ServerTypes, Free
  <2>5. slot'[s].pkt = d.pkt /\ slot'[s].addr = d.src
    BY <2>1, <2>4, Zenon DEF ServerTypes, Free
  <2>6. d.enc # Plain
    BY <1>1, <2>3, <2>5, Zenon DEF KeyExchangeInv, RequestInv
  <2>7. skeys[d.src] # 0 /\ d.enc = StoreOf(d.src).shared
    BY <2>4, <2>6, Zenon DEF Opens, StoreOf, NoStore
  <2>8. d.enc = {StoreOf(d.src).public, Key(Svr)}
    BY <1>1, <2>3, <2>7, StoreTypes, Zenon DEF Shared
  <2>9. QED
    BY <2>5, <2>8, Zenon
<1>2. KeyExchangeInv /\ [Next]_vars => [Run]_vars
  BY <1>1, Zenon
<1>3. QED
  BY <1>2, KeyExchangeInvariant, PTL DEF Spec, RunsOnlySealed
=============================================================================
