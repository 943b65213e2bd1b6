----------------------------- MODULE KeyExchange -----------------------------
(***************************************************************************)
(* core/crypto: the Crypto extension on a server and on its clients, over  *)
(* a network that loses, repeats, delays and reorders datagrams. A request *)
(* occupies a slot of the server from its arrival (processIncoming) until  *)
(* its reply or forward leaves (processOutgoing). What UDPClient and       *)
(* UDPServer say of refs, packets and channels is taken from there:        *)
(* responses reach the call whose ref they bear, and an error packet may   *)
(* carry the data of the recycled packet it is made from.                  *)
(***************************************************************************)
EXTENDS Naturals, Sequences, FiniteSets

CONSTANTS
  Clients,     \* the clients, by address
  Svr,         \* the server
  NoKey, NoAddr,
  Slots,       \* requests in process at the server at a time
  Short,       \* the shared secrets with a leading zero byte, which AES refuses
  MaxSends,    \* bound: packets a client sends
  MaxReceived, \* bound: datagrams the server receives, and restarts
  Epochs       \* bound: how often the parties may have been restarted

Parties == Clients \cup {Svr}

ASSUME KeyExchangeAssumption ==
  /\ Svr \notin Clients /\ NoAddr \notin Parties /\ NoKey \notin Parties \X Nat
  /\ MaxSends \in [Clients -> Nat] /\ MaxReceived \in Nat /\ Epochs \subseteq [Parties -> Nat]

VARIABLES
  epoch,    \* how often a party has started: each start makes a key pair
  cpc,      \* ConfigureClient, ServerKEx and ClientKEx of a client
  peer,     \* the address of the exchange a client waits for
  awaits,   \* the ref of the response it waits for
  sent,     \* packets sent so far by a client
  keys,     \* keys of a client's Crypto, by address
  heap,     \* the keyStore objects of the server
  skeys,    \* keys of the server's Crypto: an object of heap, or 0
  slot,     \* the requests in process
  received, \* datagrams received so far by the server, and restarts
  recycled, \* the keys in the data of packets put back into the server's pool
  net,      \* the datagrams sent
  opened    \* history: what DecryptE2E has decrypted

client == <<epoch, cpc, peer, awaits, sent, keys, opened>>
server == <<heap, skeys, slot, received, recycled>>
vars == <<client, server, net>>

(* The key pair that NewCrypto makes, named by its owner. *)
Key(p) == <<p, epoch[p]>>

(* computeSharedKey: the same secret on both sides of an exchange. *)
Shared(own, pk) == {own, pk}

Plain == {}
NoStore == [public |-> NoKey, shared |-> Plain]

(* encryptAES: the seal that comes out, if any. aes.NewCipher rejects      *)
(* secrets that are not 32 bytes, and big.Int.Bytes drops leading zeros.   *)
Seals(k) == {k} \ Short

(* decryptAES: data opens under the key that sealed it. *)
Opens(k, enc) == k \notin Short /\ k # Plain /\ k = enc

NoRef == <<>>
Pkt(tgt, ref) == [tgt |-> tgt, ref |-> ref, key |-> NoKey, to |-> NoAddr, seal |-> Plain,
                  author |-> NoAddr, from |-> NoAddr, nocrypto |-> FALSE]
\* An error packet: its status is not in the model, as nobody looks at it.
ErrPkt(ref, k) == [Pkt("none", ref) EXCEPT !.key = k]
Free == [pc |-> "free", pkt |-> Pkt("none", NoRef), addr |-> NoAddr, k |-> 0]

Init ==
  /\ epoch = [p \in Parties |-> 0]
  /\ cpc = [c \in Clients |-> "new"] /\ peer = [c \in Clients |-> NoAddr]
  /\ awaits = [c \in Clients |-> NoRef] /\ sent = [c \in Clients |-> 0]
  /\ keys = [c \in Clients |-> [p \in Parties |-> NoStore]]
  /\ heap = <<>> /\ skeys = [c \in Clients |-> 0]
  /\ slot = [s \in Slots |-> Free] /\ received = 0 /\ recycled = {}
  /\ net = {} /\ opened = {}

-----------------------------------------------------------------------------
(* The client. *)

\* Mutant: an encryption error is not reported to the pipeline.
TransportUnchecked(c) ==
  LET k == keys[c][Svr].shared
  IN IF cpc[c] = "new" THEN {Plain} ELSE IF k \in Short THEN {Plain} ELSE {k}

(* encryptTransport of a client, which is installed once the exchange with *)
(* the server is over; its keySent is set from the start. The datagram     *)
(* that comes out, if any.                                                 *)
Transport(c) ==
  LET k == keys[c][Svr].shared
  IN IF cpc[c] = "new" THEN {Plain} ELSE Seals(k)

(* UDPClient.Send: nothing is sent on a pipeline error. *)
Send(c, pkt) ==
  /\ sent[c] < MaxSends[c] /\ sent' = [sent EXCEPT ![c] = @ + 1]
  /\ net' = net \cup {[src |-> c, dst |-> Svr, enc |-> e, pkt |-> pkt] : e \in Transport(c)}

Ref(c) == <<c, sent[c]>>

KeyExServerPkt(c) == [Pkt("kex-cs", Ref(c)) EXCEPT !.key = Key(c)]
KeyExClientPkt(c, other) == [Pkt("kex-cc", Ref(c)) EXCEPT !.to = other]

(* Send and the wait for the response; the error of Send is not looked at. *)
Exchange(c, addr, pkt, pc) ==
  /\ Send(c, pkt) /\ cpc' = [cpc EXCEPT ![c] = pc]
  /\ peer' = [peer EXCEPT ![c] = addr] /\ awaits' = [awaits EXCEPT ![c] = Ref(c)]
  /\ UNCHANGED <<epoch, keys, opened, server>>

ConfigureClient(c) == cpc[c] = "new" /\ Exchange(c, Svr, KeyExServerPkt(c), "configure")
ServerKEx(c) == cpc[c] = "on" /\ Exchange(c, Svr, KeyExServerPkt(c), "wait")
ClientKEx(c, other) ==
  cpc[c] = "on" /\ Exchange(c, other, KeyExClientPkt(c, other), "wait")

(* decryptTransport of a client: what cannot be decrypted is left as it    *)
(* is, and a sealed datagram then does not unmarshal.                      *)
Reads(c, d) ==
  d.enc = Plain \/ (cpc[c] \in {"on", "wait"} /\ Opens(keys[c][Svr].shared, d.enc))

(* The response arrives and ProcessKeyExResp takes whatever key its data   *)
(* holds; the status of the packet is not looked at.                       *)
ProcessKeyExResp(c, d) ==
  /\ d.dst = c /\ Reads(c, d) /\ awaits[c] # NoRef /\ d.pkt.ref = awaits[c]
  /\ awaits' = [awaits EXCEPT ![c] = NoRef]
  /\ IF d.pkt.key = NoKey
       THEN /\ cpc' = [cpc EXCEPT ![c] = IF @ = "configure" THEN "failed" ELSE "on"]
            /\ keys' = keys
       ELSE /\ cpc' = [cpc EXCEPT ![c] = IF @ = "configure" THEN "extend" ELSE "on"]
            /\ keys' = [keys EXCEPT ![c][peer[c]] =
                          [public |-> d.pkt.key, shared |-> Shared(Key(c), d.pkt.key)]]
  /\ UNCHANGED <<epoch, peer, sent, opened, server, net>>

(* Extend installs the transforms and ConfigureClient returns. *)
Extend(c) ==
  /\ cpc[c] = "extend" /\ cpc' = [cpc EXCEPT ![c] = "on"]
  /\ UNCHANGED <<epoch, peer, awaits, sent, keys, opened, server, net>>

(* The application asks the server for something and ignores the response. *)
Request(c) ==
  /\ cpc[c] = "on" /\ Send(c, Pkt("echo", Ref(c)))
  /\ UNCHANGED <<epoch, cpc, peer, awaits, keys, opened, server>>

(* EncryptFor: the sealed data, if there is a key and no error. *)
Encrypts(k) == Seals(k) \ {Plain}

(* EncryptE2E and Send to the relay target. *)
SendE2E(c, other) ==
  /\ cpc[c] = "on"
  /\ \E e \in Encrypts(keys[c][other].shared) :
       Send(c, [Pkt("relay", Ref(c)) EXCEPT !.to = other, !.seal = e, !.author = c])
  /\ UNCHANGED <<epoch, cpc, peer, awaits, keys, opened, server>>

\* Mutant: without a key, or when it does not open, data is taken as it is, as
\* decryptTransport does.
DecryptLenient(k, data) == TRUE

(* DecryptFrom succeeds. *)
Decrypts(k, data) == Opens(k, data)

(* A relayed packet comes out of Misc and is given to DecryptE2E. *)
DecryptE2E(c, d) ==
  /\ d.dst = c /\ Reads(c, d) /\ d.pkt.ref # awaits[c]
  /\ d.pkt.from # NoAddr /\ Decrypts(keys[c][d.pkt.from].shared, d.pkt.seal)
  /\ opened' = opened \cup {[by |-> c, from |-> d.pkt.from, author |-> d.pkt.author,
                             seal |-> d.pkt.seal]}
  /\ UNCHANGED <<epoch, cpc, peer, awaits, sent, keys, server, net>>

(* A party starts again and makes a new key pair. *)
StartAgain(p) == epoch' = [epoch EXCEPT ![p] = @ + 1] /\ epoch' \in Epochs

(* The process of a client ends and is started again at its address. *)
Restart(c) ==
  /\ cpc[c] # "new" /\ StartAgain(c)
  /\ received < MaxReceived /\ received' = received + 1
  /\ cpc' = [cpc EXCEPT ![c] = "new"]
  /\ keys' = [keys EXCEPT ![c] = [p \in Parties |-> NoStore]]
  /\ awaits' = [awaits EXCEPT ![c] = NoRef] /\ peer' = [peer EXCEPT ![c] = NoAddr]
  /\ UNCHANGED <<sent, opened, heap, skeys, slot, recycled, net>>

-----------------------------------------------------------------------------
(* The server. *)

StoreOf(c) == IF skeys[c] = 0 THEN NoStore ELSE heap[skeys[c]]

(* The data an error packet has: none, or a key left in a recycled packet. *)
Leftover == {NoKey} \cup recycled

(* decryptTransport and Unmarshal. The error names no ref, so that no call  *)
(* waits for it and nobody looks at its data.                              *)
Receive(s, d) ==
  /\ slot[s].pc = "free" /\ d.dst = Svr
  /\ received < MaxReceived /\ received' = received + 1
  /\ \/ /\ d.enc = Plain \/ Opens(StoreOf(d.src).shared, d.enc)
        /\ slot' = [slot EXCEPT ![s] = [Free EXCEPT !.pc = "run", !.pkt = d.pkt, !.addr = d.src]]
     \/ /\ d.enc # Plain /\ ~Opens(StoreOf(d.src).shared, d.enc)
        /\ slot' = [slot EXCEPT ![s] =
                      [Free EXCEPT !.pc = "out", !.pkt = ErrPkt(NoRef, NoKey), !.addr = d.src]]
  /\ UNCHANGED <<client, heap, skeys, recycled, net>>

(* The slot goes on with packet p to address a; the request's packet goes  *)
(* back into the pool.                                                     *)
Reply(s, p, a) ==
  /\ slot' = [slot EXCEPT ![s] = [Free EXCEPT !.pc = "out", !.pkt = p, !.addr = a]]
  /\ recycled' = recycled \cup ({slot[s].pkt.key} \ {NoKey})
  /\ UNCHANGED <<client, received, net>>

Runs(s, tgt) == slot[s].pc = "run" /\ slot[s].pkt.tgt = tgt

\* Mutant: a further exchange updates the public key alone.
NewStoreKeepsShared(c, pk) ==
  [public |-> pk, keySent |-> FALSE,
   shared |-> IF skeys[c] = 0 THEN Shared(Key(Svr), pk) ELSE StoreOf(c).shared]

NewStore(c, pk) == [public |-> pk, keySent |-> FALSE, shared |-> Shared(Key(Svr), pk)]

setKeyStore(a, ks) ==
  /\ heap' = Append(heap, ks) /\ skeys' = [skeys EXCEPT ![a] = Len(heap) + 1]

keyExchangeServer(s) ==
  LET p == slot[s].pkt
      a == slot[s].addr
  IN /\ Runs(s, "kex-cs")
     /\ setKeyStore(a, NewStore(a, p.key))
     /\ Reply(s, [Pkt("none", p.ref) EXCEPT !.key = Key(Svr), !.nocrypto = TRUE], a)

keyExchangeClient(s) ==
  LET p == slot[s].pkt
  IN /\ Runs(s, "kex-cc")
     /\ \/ /\ skeys[p.to] = 0
           /\ \E k \in Leftover : Reply(s, ErrPkt(p.ref, k), slot[s].addr)
        \/ /\ skeys[p.to] # 0
           /\ Reply(s, [Pkt("none", p.ref) EXCEPT !.key = StoreOf(p.to).public,
                                                  !.nocrypto = TRUE], slot[s].addr)
     /\ UNCHANGED <<heap, skeys>>

(* An application callback that replies. *)
Echo(s) ==
  /\ Runs(s, "echo") /\ Reply(s, Pkt("none", slot[s].pkt.ref), slot[s].addr)
  /\ UNCHANGED <<heap, skeys>>

(* relayCallback. *)
Relay(s) ==
  LET p == slot[s].pkt
  IN /\ Runs(s, "relay")
     /\ Reply(s, [Pkt("none", p.ref) EXCEPT !.seal = p.seal, !.author = p.author,
                                            !.from = slot[s].addr], p.to)
     /\ UNCHANGED <<heap, skeys>>

(* processOutgoing ends: the datagram is written and the packet put back. *)
Emit(s, enc) ==
  /\ net' = net \cup {[src |-> Svr, dst |-> slot[s].addr, enc |-> enc, pkt |-> slot[s].pkt]}
  /\ recycled' = recycled \cup ({slot[s].pkt.key} \ {NoKey})
  /\ slot' = [slot EXCEPT ![s] = Free]

(* encryptTransport of the server, first part: packets marked by an        *)
(* exchange and packets to strangers are left alone.                       *)
getKeyStore(s) ==
  LET k == skeys[slot[s].addr]
  IN /\ slot[s].pc = "out"
     /\ IF slot[s].pkt.nocrypto \/ k = 0
          THEN Emit(s, Plain)
          ELSE /\ slot' = [slot EXCEPT ![s].pc = "check", ![s].k = k]
               /\ UNCHANGED <<net, recycled>>
     /\ UNCHANGED <<client, received, heap, skeys>>

(* getKeySent, and encryptAES when it is set. The error packet about an    *)
(* encryption error is sent, and encrypted, in turn.                       *)
getKeySent(s) ==
  LET k == heap[slot[s].k]
  IN /\ slot[s].pc = "check"
     /\ \/ /\ ~k.keySent
           /\ slot' = [slot EXCEPT ![s].pc = "mark"]
           /\ UNCHANGED <<net, recycled>>
        \/ /\ k.keySent /\ k.shared \notin Short
           /\ Emit(s, k.shared)
        \/ /\ k.keySent /\ k.shared \in Short
           /\ \E l \in Leftover :
                slot' = [slot EXCEPT ![s] =
                           [Free EXCEPT !.pc = "out", !.pkt = ErrPkt(slot[s].pkt.ref, l),
                                        !.addr = slot[s].addr]]
           /\ recycled' = recycled \cup ({slot[s].pkt.key} \ {NoKey})
           /\ net' = net
     /\ UNCHANGED <<client, received, heap, skeys>>

(* setKeySent: the packet leaves as it is. *)
setKeySent(s) ==
  /\ slot[s].pc = "mark"
  /\ heap' = [heap EXCEPT ![slot[s].k].keySent = TRUE]
  /\ Emit(s, Plain)
  /\ UNCHANGED <<client, received, skeys>>

(* The process of the server ends and is started again, which matters once *)
(* it has keys to lose.                                                    *)
RestartServer ==
  /\ heap # <<>> /\ StartAgain(Svr)
  /\ received < MaxReceived /\ received' = received + 1
  /\ heap' = <<>> /\ skeys' = [c \in Clients |-> 0]
  /\ slot' = [s \in Slots |-> Free] /\ recycled' = {}
  /\ UNCHANGED <<cpc, peer, awaits, sent, keys, opened, net>>

-----------------------------------------------------------------------------
Next ==
  \/ \E c \in Clients : ConfigureClient(c) \/ ServerKEx(c) \/ Extend(c)
  \/ \E c \in Clients : Request(c) \/ Restart(c)
  \/ \E c \in Clients : \E other \in Clients \ {c} : ClientKEx(c, other) \/ SendE2E(c, other)
  \/ \E c \in Clients : \E d \in net : ProcessKeyExResp(c, d) \/ DecryptE2E(c, d)
  \/ \E s \in Slots : \E d \in net : Receive(s, d)
  \/ \E s \in Slots : keyExchangeServer(s) \/ keyExchangeClient(s) \/ Echo(s) \/ Relay(s)
  \/ \E s \in Slots : getKeyStore(s) \/ getKeySent(s) \/ setKeySent(s)
  \/ RestartServer

Spec == Init /\ [][Next]_vars

-----------------------------------------------------------------------------
(* The public keys a party has had. *)
KeysOf(p) == {<<p, i>> : i \in 0..epoch[p]}

(* A client sends one thing in the clear, the request of ConfigureClient:  *)
(* all else leaves it sealed under its current key pair and one of the     *)
(* server's, whatever error packets, repeated responses, unusable secrets  *)
(* and restarts of the server come.                                        *)
ClientTrafficSealed ==
  [][\A d \in net' \ net :
       d.src \in Clients /\ cpc[d.src] # "new" =>
         \E k \in KeysOf(Svr) : d.enc = {Key(d.src), k}]_vars

(* After an exchange of the running client with the running server, and    *)
(* until the server handles an exchange of an earlier run of that client,  *)
(* both have the same key for each other: repeated and late requests and   *)
(* responses do not part them.                                             *)
Agreement ==
  \A c \in Clients :
    cpc[c] \in {"extend", "on", "wait"} =>
      /\ keys[c][Svr].public \in KeysOf(Svr)
      /\ keys[c][Svr].public = Key(Svr) =>
           /\ skeys[c] # 0
           /\ StoreOf(c).public = Key(c) => StoreOf(c).shared = keys[c][Svr].shared

(* decryptTransport lets datagrams in the clear pass, for the sake of the  *)
(* first exchange. What the server runs is still a key exchange or was     *)
(* sealed under its own key pair and the one it has for the sender: what   *)
(* was sealed before a restart of either is not run after it.              *)
RunsOnlySealed ==
  [][\A s \in Slots :
       slot[s].pc = "free" /\ slot'[s].pc = "run" /\ slot'[s].pkt.tgt # "kex-cs" =>
         \E d \in net :
           /\ d.pkt = slot'[s].pkt /\ d.src = slot'[s].addr
           /\ d.enc = {StoreOf(d.src).public, Key(Svr)}]_vars

(* What DecryptE2E decrypts was sealed by the client it is said to come    *)
(* from, for a pair of keys of these two clients: not for the server, and  *)
(* not by another client, also after keys were taken from error packets.   *)
E2EAuthentic ==
  \A x \in opened :
    /\ x.author = x.from
    /\ \E k \in KeysOf(x.by), l \in KeysOf(x.from) : x.seal = {k, l}

-----------------------------------------------------------------------------
(* Inductive invariant. *)

AnyKey == Parties \X Nat
Refs == {NoRef} \cup (Clients \X Nat)
Packets ==
  [tgt : {"kex-cs", "kex-cc", "echo", "relay", "none"}, ref : Refs, key : AnyKey \cup {NoKey},
   to : Clients \cup {NoAddr}, seal : SUBSET AnyKey, author : Clients \cup {NoAddr},
   from : Clients \cup {NoAddr}, nocrypto : BOOLEAN]

(* The variables keep their types. *)
TypeOK ==
  /\ epoch \in [Parties -> Nat] /\ sent \in [Clients -> Nat]
  /\ cpc \in [Clients -> {"new", "configure", "failed", "extend", "on", "wait"}]
  /\ peer \in [Clients -> Parties \cup {NoAddr}] /\ awaits \in [Clients -> Refs]
  /\ keys \in [Clients -> [Parties -> [public : AnyKey \cup {NoKey}, shared : SUBSET AnyKey]]]
  /\ heap \in Seq([public : AnyKey, keySent : BOOLEAN, shared : SUBSET AnyKey])
  /\ skeys \in [Clients -> 0..Len(heap)]
  /\ slot \in [Slots -> [pc : {"free", "run", "out", "check", "mark"}, pkt : Packets,
                         addr : Clients \cup {NoAddr}, k : 0..Len(heap)]]
  /\ recycled \subseteq AnyKey
  /\ net \subseteq [src : Parties, dst : Parties, enc : SUBSET AnyKey, pkt : Packets]
  /\ opened \subseteq [by : Clients, from : Clients, author : Clients \cup {NoAddr},
                      seal : SUBSET AnyKey]

\* A shared secret is made of the holder's own key and the public key next to
\* it; a client with a key of the running server is known to that server.
StoreInv ==
  /\ \A c \in Clients, p \in Parties :
       keys[c][p] = NoStore \/ keys[c][p].shared = Shared(Key(c), keys[c][p].public)
  /\ \A c \in Clients : cpc[c] \in {"extend", "on", "wait"} =>
       /\ keys[c][Svr].public \in KeysOf(Svr)
       /\ keys[c][Svr].public = Key(Svr) => skeys[c] # 0
  /\ \A i \in DOMAIN heap : heap[i].shared = Shared(Key(Svr), heap[i].public)

Requests == {d \in net : d.src \in Clients}

\* What a client has sent: one packet per ref, in the clear only to exchange
\* keys with the server, end-to-end data sealed with a key of its own.
RequestInv ==
  /\ \A d \in Requests :
       /\ d.dst = Svr /\ d.pkt.ref # NoRef /\ d.pkt.ref[1] = d.src /\ d.pkt.ref[2] < sent[d.src]
       /\ d.enc = Plain => d.pkt.tgt = "kex-cs"
       /\ d.pkt.tgt = "kex-cs" => d.pkt.key # NoKey
       /\ d.pkt.tgt \in {"kex-cc", "relay"} => d.pkt.to \in Clients \ {d.src}
       /\ d.pkt.tgt = "relay" =>
            d.pkt.author = d.src /\ \E k \in KeysOf(d.src) : \E l \in d.pkt.seal : d.pkt.seal = {k, l}
  /\ \A d, e \in Requests : d.pkt.ref = e.pkt.ref => d = e

\* Packet p to address a answers a request or forwards it, or names no ref: to
\* an exchange with the server the answer is a key of the server.
Answers(p, a) ==
  \/ p.ref = NoRef /\ p.from = NoAddr
  \/ \E d \in Requests :
       /\ d.pkt.ref = p.ref
       /\ d.pkt.tgt = "kex-cs" =>
            /\ p.nocrypto /\ p.key \in KeysOf(Svr)
            /\ p.key = Key(Svr) => skeys[d.src] # 0
       /\ p.from # NoAddr =>
            /\ d.pkt.tgt = "relay" /\ a = d.pkt.to
            /\ p.from = d.src /\ p.seal = d.pkt.seal /\ p.author = d.pkt.author

\* What the server works on and what it has sent.
AnswerInv ==
  /\ \A s \in Slots :
       /\ slot[s].pc = "run" => \E d \in Requests : slot[s].pkt = d.pkt /\ slot[s].addr = d.src
       /\ slot[s].pc \in {"out", "check", "mark"} =>
            slot[s].addr \in Clients /\ Answers(slot[s].pkt, slot[s].addr)
       /\ slot[s].pc \in {"check", "mark"} => slot[s].k > 0 /\ ~slot[s].pkt.nocrypto
  /\ \A d \in net : d.src = Svr => d.dst \in Clients /\ Answers(d.pkt, d.dst)

\* The exchange a client waits for is the one it has sent a request for.
AwaitInv ==
  \A c \in Clients :
    /\ cpc[c] = "configure" => peer[c] = Svr
    /\ awaits[c] # NoRef =>
         /\ cpc[c] \in {"configure", "wait"} /\ peer[c] \in Parties
         /\ awaits[c][1] = c /\ awaits[c][2] < sent[c]
         /\ \A d \in Requests : d.pkt.ref = awaits[c] /\ peer[c] = Svr => d.pkt.tgt = "kex-cs"

(* The keys that the parties hold, the packets under way and what the      *)
(* clients wait for belong together.                                       *)
KeyExchangeInv ==
  TypeOK /\ StoreInv /\ RequestInv /\ AnswerInv /\ AwaitInv /\ E2EAuthentic

-----------------------------------------------------------------------------
(* Statements of the repository that the code does not keep. *)

(* "all further communication is AES encrypted using that shared key":     *)
(* nothing but responses to exchanges leaves the server in the clear for a *)
(* client whose exchange is over.                                          *)
ServerTrafficSealed ==
  [][\A d \in net' \ net :
       d.src = Svr /\ ~d.pkt.nocrypto /\ cpc[d.dst] \in {"on", "wait"} => d.enc # Plain]_vars

(* "If successful, there will then exist a shared key between clientAddr   *)
(* (remote) and client (local)": the key a client stores for another one   *)
(* is a public key of that client.                                         *)
E2EKeyGenuine ==
  \A c \in Clients : \A other \in Clients \ {c} :
    keys[c][other] = NoStore \/ keys[c][other].public \in KeysOf(other)
=============================================================================
