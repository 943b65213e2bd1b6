--------------------------- MODULE UDPServerProofs ---------------------------
(***************************************************************************)
(* Ownership of the packets of the server, for any number of requests,     *)
(* goroutines and packets.                                                 *)
(***************************************************************************)
EXTENDS UDPServer, TLAPS

(* The variables of the goroutines are slots, and different ones. *)
LEMMA SlotFacts ==
  /\ \A t \in Tasks : Var(t, "pkt") \in Slots /\ Var(t, "resp") \in Slots /\ Var(t, "snd") \in Slots
  /\ \A w \in Workers : Var(w, "pkt") \in Slots /\ Var(w, "err") \in Slots
  /\ \A t \in Tasks, w \in Workers : t # w
  BY ServerAssumption, Zenon DEF Slots, Var

(* A variable is the one of that name of that goroutine: two of one        *)
(* goroutine differ, and so do those of two goroutines.                    *)
LEMMA VarFacts ==
  /\ \A g, v : Var(g, v)[1] = g
  /\ \A g : /\ Var(g, "pkt") # Var(g, "resp") /\ Var(g, "pkt") # Var(g, "snd")
            /\ Var(g, "resp") # Var(g, "snd") /\ Var(g, "pkt") # Var(g, "err")
  /\ \A g, h, u, v : g # h => Var(g, u) # Var(h, v)
  BY Zenon DEF Var

(* NewPkt and NewErrPkt into a variable that refers to nothing keep every  *)
(* packet in one place.                                                    *)
LEMMA ObtainExclusive ==
  ASSUME TypeOK, Exclusive, NEW s \in Slots, hold[s] = NoPkt, NEW p \in Pkts, NEW c,
         Obtain(s, p, c)
  PROVE  Exclusive' /\ hold' \in [Slots -> Pkts \cup {NoPkt}] /\ pool' \subseteq Pkts
         /\ made' \subseteq Pkts
<1>1. p \in pool \/ p \notin made
  BY Zenon DEF Obtain, Get, NextNew, TypeOK
<1>2. \A r \in Slots : hold[r] # p
  BY <1>1, ServerAssumption, SMTT(60) DEF Exclusive, TypeOK
<1>3. hold' = [hold EXCEPT ![s] = p] /\ pool' = pool \ {p} /\ made' = made \cup {p}
  BY Zenon DEF Obtain
<1>. QED
  BY <1>2, <1>3, ServerAssumption, SMTT(60) DEF Exclusive, TypeOK

(* PutBack of packets that goroutines refer to, each from its own          *)
(* variable, keeps every packet in one place.                              *)
LEMMA PutBackExclusive ==
  ASSUME TypeOK, Exclusive, NEW S \in SUBSET Slots, PutBack(S)
  PROVE  Exclusive' /\ hold' \in [Slots -> Pkts \cup {NoPkt}] /\ pool' \subseteq Pkts
         /\ made' \subseteq Pkts
<1>1. /\ hold' = [s \in Slots |-> IF s \in S THEN NoPkt ELSE hold[s]]
      /\ pool' = pool \cup ({hold[s] : s \in S} \ {NoPkt}) /\ made' = made
  BY Zenon DEF PutBack
<1>2. hold' \in [Slots -> Pkts \cup {NoPkt}] /\ pool' \subseteq Pkts /\ made' \subseteq Pkts
  BY <1>1, Zenon DEF TypeOK
<1>3. \A r, s \in Slots : hold'[r] = hold'[s] /\ hold'[r] # NoPkt => r = s
  BY <1>1, Zenon DEF Exclusive
<1>4. \A s \in Slots : hold'[s] \notin pool'
  BY <1>1, ServerAssumption, SMTT(60) DEF Exclusive, TypeOK
<1>5. \A p \in Pkts : p \in made' <=> p \in pool' \/ \E s \in Slots : hold'[s] = p
  BY <1>1, ServerAssumption, SMTT(60) DEF Exclusive, TypeOK
<1>. QED
  BY <1>2, <1>3, <1>4, <1>5, Zenon DEF Exclusive

(* A send on sendStream moves a packet to the worker it starts, and the    *)
(* sender's deferred PutBack may follow.                                   *)
LEMMA HandToExclusive ==
  ASSUME TypeOK, Exclusive, NEW w \in Workers, NEW s \in Slots, NEW S \in SUBSET Slots,
         s \notin S, s # Var(w, "pkt"), Var(w, "pkt") \notin S, hold[Var(w, "pkt")] = NoPkt,
         HandTo(w, s, S)
  PROVE  Exclusive' /\ hold' \in [Slots -> Pkts \cup {NoPkt}] /\ pool' \subseteq Pkts
         /\ made' \subseteq Pkts
<1> DEFINE o == Var(w, "pkt")
<1>1. /\ hold' = [r \in Slots |-> IF r = o THEN hold[s]
                                  ELSE IF r \in S \cup {s} THEN NoPkt ELSE hold[r]]
      /\ pool' = pool \cup ({hold[r] : r \in S} \ {NoPkt}) /\ made' = made
  BY Zenon DEF HandTo
<1>0. o \in Slots
  BY SlotFacts, Zenon
<1> HIDE DEF o
<1>2. hold' \in [Slots -> Pkts \cup {NoPkt}] /\ pool' \subseteq Pkts /\ made' \subseteq Pkts
  BY <1>1, SMTT(60) DEF TypeOK
<1>3. \A r, q \in Slots : hold'[r] = hold'[q] /\ hold'[r] # NoPkt => r = q
  BY <1>1, Zenon DEF Exclusive
<1>4. \A r \in Slots : hold'[r] \notin pool'
  BY <1>1, ServerAssumption, SMTT(60) DEF Exclusive, TypeOK
<1>5. \A p \in Pkts : p \in made' <=> p \in pool' \/ \E r \in Slots : hold'[r] = p
  <2> SUFFICES ASSUME NEW p \in Pkts
               PROVE  p \in made' <=> p \in pool' \/ \E r \in Slots : hold'[r] = p
    BY Zenon
  <2>1. ASSUME NEW r \in Slots, hold[r] = p PROVE p \in pool' \/ \E q \in Slots : hold'[q] = p
    <3>1. CASE r = s
      BY <3>1, <2>1, <1>0, <1>1, Zenon
    <3>2. CASE r \in S
      BY <3>2, <2>1, <1>1, ServerAssumption, Zenon
    <3>3. CASE r \notin S \cup {s}
      <4>1. r # o
        BY <2>1, ServerAssumption, Zenon DEF o
      <4>. QED
        BY <4>1, <3>3, <2>1, <1>1, Zenon
    <3>. QED
      BY <3>1, <3>2, <3>3, Zenon
  <2>2. p \in made' => p \in pool' \/ \E r \in Slots : hold'[r] = p
    BY <2>1, <1>1, Zenon DEF Exclusive
  <2>3. p \in pool' => p \in made'
    BY <1>1, Zenon DEF Exclusive
  <2>4. (\E r \in Slots : hold'[r] = p) => p \in made'
    BY <1>1, ServerAssumption, Zenon DEF Exclusive
  <2>. QED
    BY <2>2, <2>3, <2>4, Zenon
<1>. QED
  BY <1>2, <1>3, <1>4, <1>5, Zenon DEF Exclusive

(* A packet moves to another variable; what that one referred to, if       *)
(* anything, is put back.                                                  *)
LEMMA MoveExclusive ==
  ASSUME TypeOK, Exclusive, NEW a \in Slots, NEW b \in Slots, a # b, hold[a] \in Pkts,
         hold' = [hold EXCEPT ![b] = hold[a], ![a] = NoPkt],
         pool' = pool \cup ({hold[b]} \ {NoPkt}), made' = made
  PROVE  Exclusive' /\ hold' \in [Slots -> Pkts \cup {NoPkt}] /\ pool' \subseteq Pkts
         /\ made' \subseteq Pkts
<1>1. hold' = [r \in Slots |-> IF r = a THEN NoPkt ELSE IF r = b THEN hold[a] ELSE hold[r]]
  BY Zenon DEF TypeOK
<1>2. hold' \in [Slots -> Pkts \cup {NoPkt}] /\ pool' \subseteq Pkts /\ made' \subseteq Pkts
  BY <1>1, SMTT(60) DEF TypeOK
<1>3. \A r, q \in Slots : hold'[r] = hold'[q] /\ hold'[r] # NoPkt => r = q
  BY <1>1, SMTT(60) DEF Exclusive
<1>4. \A r \in Slots : hold'[r] \notin pool'
  BY <1>1, ServerAssumption, SMTT(60) DEF Exclusive, TypeOK
<1>5. ASSUME NEW p \in Pkts
      PROVE  p \in made' <=> p \in pool' \/ \E r \in Slots : hold'[r] = p
  <2>1. ASSUME NEW r \in Slots, hold[r] = p PROVE p \in pool' \/ \E q \in Slots : hold'[q] = p
    <3>1. CASE r = a
      <4>1. hold'[b] = p
        BY <1>1, <2>1, <3>1, Zenon
      <4>. QED
        BY <4>1, Zenon
    <3>2. CASE r = b
      BY <2>1, <3>2, ServerAssumption, Zenon
    <3>3. CASE r # a /\ r # b
      BY <1>1, <2>1, <3>3, Zenon
    <3>. QED
      BY <3>1, <3>2, <3>3, Zenon
  <2>2. p \in made' => p \in pool' \/ \E r \in Slots : hold'[r] = p
    BY <2>1, Zenon DEF Exclusive
  <2>3. p \in pool' => p \in made'
    BY Zenon DEF Exclusive
  <2>4. (\E r \in Slots : hold'[r] = p) => p \in made'
    BY <1>1, ServerAssumption, SMTT(60) DEF Exclusive
  <2>. QED
    BY <2>2, <2>3, <2>4, Zenon
<1>. QED
  BY <1>2, <1>3, <1>4, <1>5, Zenon DEF Exclusive

(* The server starts with an empty pool and no goroutine at work. *)
LEMMA InitServerInv == Init => ServerInv
<1> SUFFICES ASSUME Init PROVE ServerInv
  BY Zenon
<1>0. hold \in [Slots -> Pkts \cup {NoPkt}] /\ cause \in [Workers -> Tasks \cup {NoTask}]
  BY Zenon DEF Init
<1>1. TypeOK
  <2>1. panic \in BOOLEAN /\ made \subseteq Pkts /\ pool \subseteq Pkts
    BY Zenon DEF Init
  <2>2. cb \in [Tasks -> Nat] /\ readers \in 0..NumReaders /\ outErrors \in 0..MaxOutErrors
    BY ServerAssumption, SMTT(60) DEF Init
  <2>3. /\ serve = "wait" /\ wpc = "idle" /\ tpc = [t \in Tasks |-> "unused"]
        /\ opc = [w \in Workers |-> "unused"]
    BY Zenon DEF Init
  <2>. QED
    BY <1>0, <2>1, <2>2, <2>3, Zenon DEF TypeOK
<1>2. \A s \in Slots : hold[s] = NoPkt
  BY Zenon DEF Init
<1>3. SlotInv
  BY <1>2, SlotFacts, Zenon DEF Init, SlotInv
<1>4. Exclusive
  BY <1>2, ServerAssumption, Zenon DEF Init, Exclusive
<1>. QED
  BY <1>1, <1>3, <1>4, Zenon DEF ServerInv

(* No step of Serve, of a task or of a worker invalidates the invariant. *)
LEMMA NextServerInv == ServerInv /\ [Next]_vars => ServerInv'
<1> SUFFICES ASSUME ServerInv, [Next]_vars PROVE ServerInv'
  BY Zenon
<1> USE SlotFacts, ServerAssumption DEF ServerInv, loop, output, Var
<1>1. ASSUME NEW t \in Tasks, NEW d \in Datagrams, Read(t, d) PROVE ServerInv'
  BY <1>1, SMTT(60) DEF Read, TypeOK, SlotInv, Exclusive
<1>2. CASE ReadErr
  BY <1>2, SMTT(60) DEF ReadErr, TypeOK, SlotInv, Exclusive
<1>3. CASE CloseWriteStream \/ CloseSendStream
  BY <1>3, SMTT(60) DEF CloseWriteStream, CloseSendStream, TypeOK, SlotInv, Exclusive
<1>4. ASSUME NEW t \in Tasks, DataIn(t) PROVE ServerInv'
  <2>1. PICK x \in {"decode", "done", "fail"} : tpc' = [tpc EXCEPT ![t] = x] /\ tpc[t] = "dataIn"
    <3>1. PICK o \in InOutcomes :
            tpc' = [tpc EXCEPT ![t] = CASE o = "ok" -> "decode"
                                        [] o = "noop" -> "done"
                                        [] o = "error" -> "fail"]
      BY <1>4, Zenon DEF DataIn
    <3>2. o \in {"ok", "noop", "error"}
      BY Zenon DEF Outcomes
    <3>. QED
      BY <1>4, <3>1, <3>2, Zenon DEF DataIn
  <2>0. UNCHANGED <<loop, panic, cb, output, hold, pool, made>>
    BY <1>4, Zenon DEF DataIn
  <2>2. TypeOK'
    BY <2>0, <2>1, Zenon DEF TypeOK
  <2>3. SlotInv'
    BY <2>0, <2>1, SMTT(60) DEF TypeOK, SlotInv
  <2>4. Exclusive'
    BY <2>0, Zenon DEF Exclusive
  <2>. QED
    BY <2>2, <2>3, <2>4, Zenon
<1>5. ASSUME NEW t \in Tasks, Decode(t) PROVE ServerInv'
  <2>1. PICK p \in Pkts : \E c : Obtain(Var(t, "pkt"), p, c)
    BY <1>5, Zenon DEF Decode
  <2>2. hold[Var(t, "pkt")] = NoPkt
    BY <1>5, Zenon DEF Decode, SlotInv
  <2>3. /\ Exclusive' /\ hold' \in [Slots -> Pkts \cup {NoPkt}] /\ pool' \subseteq Pkts
        /\ made' \subseteq Pkts
    BY <2>1, <2>2, ObtainExclusive, Zenon
  <2>4. TypeOK'
    BY <1>5, <2>3, ZenonT(60) DEF Decode, TypeOK
  <2>5. SlotInv'
    <3>1. hold' = [hold EXCEPT ![Var(t, "pkt")] = p] /\ p # NoPkt
      BY <2>1, Zenon DEF Obtain
    <3>. QED
      BY <1>5, <3>1, SMTT(60) DEF Decode, SlotInv, TypeOK
  <2>. QED
    BY <2>3, <2>4, <2>5, Zenon
<1>6. ASSUME NEW t \in Tasks, MakeResponse(t) PROVE ServerInv'
  <2>1. PICK p \in Pkts : \E c : Obtain(Var(t, "resp"), p, c)
    BY <1>6, Zenon DEF MakeResponse
  <2>2. hold[Var(t, "resp")] = NoPkt
    BY <1>6, Zenon DEF MakeResponse, SlotInv
  <2>3. /\ Exclusive' /\ hold' \in [Slots -> Pkts \cup {NoPkt}] /\ pool' \subseteq Pkts
        /\ made' \subseteq Pkts
    BY <2>1, <2>2, ObtainExclusive, Zenon
  <2>4. TypeOK'
    BY <1>6, <2>3, Zenon DEF MakeResponse, TypeOK
  <2>5. SlotInv'
    <3>1. hold' = [hold EXCEPT ![Var(t, "resp")] = p] /\ p # NoPkt
      BY <2>1, Zenon DEF Obtain
    <3>. QED
      BY <1>6, <3>1, SMTT(60) DEF MakeResponse, SlotInv, TypeOK
  <2>. QED
    BY <2>3, <2>4, <2>5, Zenon
<1>7. ASSUME NEW t \in Tasks, MakeErrPkt(t) PROVE ServerInv'
  <2>1. PICK p \in Pkts : \E c : Obtain(Var(t, "snd"), p, c)
    BY <1>7, Zenon DEF MakeErrPkt
  <2>2. hold[Var(t, "snd")] = NoPkt
    BY <1>7, Zenon DEF MakeErrPkt, SlotInv
  <2>3. /\ Exclusive' /\ hold' \in [Slots -> Pkts \cup {NoPkt}] /\ pool' \subseteq Pkts
        /\ made' \subseteq Pkts
    BY <2>1, <2>2, ObtainExclusive, ZenonT(60)
  <2>4. TypeOK'
    BY <1>7, <2>3, Zenon DEF MakeErrPkt, TypeOK
  <2>5. SlotInv'
    <3>1. hold' = [hold EXCEPT ![Var(t, "snd")] = p] /\ p # NoPkt
      BY <2>1, Zenon DEF Obtain
    <3>. QED
      BY <1>7, <3>1, SMTT(60) DEF MakeErrPkt, SlotInv, TypeOK
  <2>. QED
    BY <2>3, <2>4, <2>5, Zenon
<1>8. ASSUME NEW t \in Tasks, PipelineError(t) PROVE ServerInv'
  <2>1. PutBack({Var(t, "resp")})
    BY <1>8, Zenon DEF PipelineError
  <2>2. /\ Exclusive' /\ hold' \in [Slots -> Pkts \cup {NoPkt}] /\ pool' \subseteq Pkts
        /\ made' \subseteq Pkts
    BY <2>1, PutBackExclusive, Zenon
  <2>3. TypeOK'
    BY <1>8, <2>2, Zenon DEF PipelineError, TypeOK
  <2>4. SlotInv'
    BY <1>8, <2>1, SMTT(60) DEF PipelineError, PutBack, SlotInv, TypeOK
  <2>. QED
    BY <2>2, <2>3, <2>4, Zenon
<1>9. ASSUME NEW t \in Tasks, RunCallback(t) PROVE ServerInv'
  <2>1. UNCHANGED <<tpc, opc, hold, pool, made>>
    BY <1>9, Zenon DEF RunCallback
  <2>2. TypeOK'
    BY <1>9, SMTT(60) DEF RunCallback, TypeOK
  <2>. QED
    BY <2>1, <2>2, ZenonT(60) DEF SlotInv, Exclusive
<1>10. ASSUME NEW t \in Tasks, RelayCallback(t) PROVE ServerInv'
  <2>1. PICK p \in Pkts : \E c : Obtain(Var(t, "snd"), p, c)
    BY <1>10, Zenon DEF RelayCallback, Running
  <2>2. hold[Var(t, "snd")] = NoPkt
    BY <1>10, Zenon DEF RelayCallback, Running, SlotInv
  <2>3. /\ Exclusive' /\ hold' \in [Slots -> Pkts \cup {NoPkt}] /\ pool' \subseteq Pkts
        /\ made' \subseteq Pkts
    BY <2>1, <2>2, ObtainExclusive, Zenon
  <2>4. TypeOK'
    BY <1>10, <2>3, Zenon DEF RelayCallback, Running, TypeOK
  <2>5. SlotInv'
    <3>1. hold' = [hold EXCEPT ![Var(t, "snd")] = p] /\ p # NoPkt
      BY <2>1, Zenon DEF Obtain
    <3>. QED
      BY <1>10, <3>1, ZenonT(60) DEF RelayCallback, Running, SlotInv, TypeOK
  <2>. QED
    BY <2>3, <2>4, <2>5, Zenon
<1>11. ASSUME NEW t \in Tasks, Finish(t) PROVE ServerInv'
  <2>1. CASE Silent(t)
    <3>1. PutBack({Var(t, "pkt"), Var(t, "resp")}) /\ tpc' = [tpc EXCEPT ![t] = "done"]
      BY <1>11, <2>1, Zenon DEF Finish
    <3>2. /\ Exclusive' /\ hold' \in [Slots -> Pkts \cup {NoPkt}] /\ pool' \subseteq Pkts
          /\ made' \subseteq Pkts
      BY <3>1, PutBackExclusive, Zenon
    <3>3. TypeOK'
      BY <1>11, <3>1, <3>2, Zenon DEF Finish, TypeOK
    <3>4. SlotInv'
      <4>1. tpc[t] = "run" /\ opc' = opc
        BY <1>11, Zenon DEF Finish
      <4>2. /\ hold'[Var(t, "pkt")] = NoPkt /\ hold'[Var(t, "resp")] = NoPkt
            /\ hold'[Var(t, "snd")] = NoPkt
        BY <3>1, <4>1, Zenon DEF PutBack, SlotInv
      <4>3. /\ \A y \in Tasks \ {t}, v \in {"pkt", "resp", "snd"} :
                 hold'[Var(y, v)] = hold[Var(y, v)]
            /\ \A w \in Workers, v \in {"pkt", "err"} : hold'[Var(w, v)] = hold[Var(w, v)]
        BY <3>1, Zenon DEF PutBack
      <4>4. DOMAIN tpc = Tasks
        BY Zenon DEF TypeOK
      <4>5. ASSUME NEW y \in Tasks
            PROVE  /\ tpc'[y] \in {"unused", "dataIn", "decode", "done"} =>
                        hold'[Var(y, "pkt")] = NoPkt
                   /\ tpc'[y] \in {"resp", "run", "forward"} => hold'[Var(y, "pkt")] # NoPkt
                   /\ hold'[Var(y, "resp")] # NoPkt <=> tpc'[y] \in {"run", "forward"}
                   /\ hold'[Var(y, "snd")] # NoPkt <=> tpc'[y] \in {"forward", "send"}
        <5>1. CASE y = t
          BY <3>1, <4>2, <4>4, <5>1, Zenon
        <5>2. CASE y # t
          BY <3>1, <4>3, <4>4, <5>2, SMTT(60) DEF SlotInv
        <5>. QED
          BY <5>1, <5>2, Zenon
      <4>. QED
        BY <4>1, <4>3, <4>5, SMTT(60) DEF SlotInv
    <3>. QED
      BY <3>2, <3>3, <3>4, Zenon
  <2>2. CASE ~Silent(t)
    <3> DEFINE r == hold[Var(t, "resp")]
    <3>1. /\ hold' = [hold EXCEPT ![Var(t, "resp")] = NoPkt, ![Var(t, "snd")] = r]
          /\ tpc' = [tpc EXCEPT ![t] = "send"] /\ UNCHANGED <<pool, made>>
      BY <1>11, <2>2, Zenon DEF Finish
    <3>2. r \in Pkts /\ hold[Var(t, "snd")] = NoPkt
      BY <1>11, Zenon DEF Finish, SlotInv, TypeOK
    <3>3. /\ Exclusive' /\ hold' \in [Slots -> Pkts \cup {NoPkt}] /\ pool' \subseteq Pkts
          /\ made' \subseteq Pkts
      <4>1. /\ hold' = [hold EXCEPT ![Var(t, "snd")] = r, ![Var(t, "resp")] = NoPkt]
            /\ Var(t, "snd") # Var(t, "resp") /\ pool' = pool \cup ({hold[Var(t, "snd")]} \ {NoPkt})
        BY <3>1, <3>2, ZenonT(60) DEF TypeOK
      <4>. QED
        BY <3>1, <3>2, <4>1, MoveExclusive, Zenon
    <3>4. TypeOK'
      BY <1>11, <3>1, <3>3, Zenon DEF Finish, TypeOK
    <3>5. SlotInv'
      BY <1>11, <3>1, <3>2, ZenonT(30) DEF Finish, SlotInv, TypeOK
    <3>. QED
      BY <3>3, <3>4, <3>5, Zenon
  <2>. QED
    BY <2>1, <2>2, Zenon
<1>12. ASSUME NEW t \in Tasks, NEW w \in Workers, TaskSend(t, w) PROVE ServerInv'
  <2>1. HandTo(w, Var(t, "snd"), {Var(t, "pkt")}) /\ opc[w] = "unused"
    BY <1>12, Zenon DEF TaskSend, HandTo
  <2>2. /\ Exclusive' /\ hold' \in [Slots -> Pkts \cup {NoPkt}] /\ pool' \subseteq Pkts
        /\ made' \subseteq Pkts
    <3>1. hold[Var(w, "pkt")] = NoPkt
      BY <2>1, Zenon DEF SlotInv
    <3>2. /\ Var(t, "snd") \notin {Var(t, "pkt")} /\ Var(t, "snd") # Var(w, "pkt")
          /\ Var(w, "pkt") \notin {Var(t, "pkt")} /\ {Var(t, "pkt")} \in SUBSET Slots
      BY Zenon
    <3>. QED
      BY <2>1, <3>1, <3>2, HandToExclusive, Zenon
  <2>3. TypeOK'
    BY <1>12, <2>2, Zenon DEF TaskSend, Start, TypeOK
  <2>4. SlotInv'
    <3>1. /\ tpc[t] = "send" /\ tpc' = [tpc EXCEPT ![t] = "done"]
          /\ opc' = [opc EXCEPT ![w] = "process"]
      BY <1>12, Zenon DEF TaskSend, Start
    <3>2. hold' = [u \in Slots |-> IF u = Var(w, "pkt") THEN hold[Var(t, "snd")]
                                   ELSE IF u \in {Var(t, "pkt")} \cup {Var(t, "snd")} THEN NoPkt
                                   ELSE hold[u]]
      BY <2>1, SMTT(60) DEF HandTo
    <3>3. hold[Var(t, "snd")] # NoPkt
      BY <3>1, Zenon DEF SlotInv
    <3>4. /\ \A y \in Tasks \ {t}, v \in {"pkt", "resp", "snd"} :
               hold'[Var(y, v)] = hold[Var(y, v)]
          /\ \A y \in Workers \ {w}, v \in {"pkt", "err"} :
               hold'[Var(y, v)] = hold[Var(y, v)]
      BY <3>2, Zenon
    <3>5. /\ hold'[Var(t, "pkt")] = NoPkt /\ hold'[Var(t, "snd")] = NoPkt
          /\ hold'[Var(t, "resp")] = hold[Var(t, "resp")]
          /\ hold'[Var(w, "pkt")] # NoPkt /\ hold'[Var(w, "err")] = hold[Var(w, "err")]
      BY <3>2, <3>3, Zenon
    <3>6. /\ tpc \in [Tasks -> {"unused", "dataIn", "decode", "resp", "run", "fail",
                                    "forward", "send", "done"}]
          /\ DOMAIN opc = Workers
      BY Zenon DEF TypeOK
    <3>7. ASSUME NEW y \in Tasks
          PROVE  /\ tpc'[y] \in {"unused", "dataIn", "decode", "done"} =>
                      hold'[Var(y, "pkt")] = NoPkt
                 /\ tpc'[y] \in {"resp", "run", "forward"} => hold'[Var(y, "pkt")] # NoPkt
                 /\ hold'[Var(y, "resp")] # NoPkt <=> tpc'[y] \in {"run", "forward"}
                 /\ hold'[Var(y, "snd")] # NoPkt <=> tpc'[y] \in {"forward", "send"}
      <4>1. CASE y = t
        BY <4>1, <3>1, <3>5, <3>6, SMTT(60) DEF SlotInv
      <4>2. CASE y # t
        BY <4>2, <3>1, <3>4, <3>6, SMTT(60) DEF SlotInv
      <4>. QED
        BY <4>1, <4>2, Zenon
    <3>8. ASSUME NEW y \in Workers
          PROVE  /\ hold'[Var(y, "pkt")] # NoPkt <=> opc'[y] # "unused"
                 /\ hold'[Var(y, "err")] # NoPkt <=> opc'[y] = "send"
      <4>1. CASE y = w
        BY <4>1, <3>1, <3>5, <3>6, <2>1, Zenon DEF SlotInv
      <4>2. CASE y # w
        BY <4>2, <3>1, <3>4, <3>6, SMTT(60) DEF SlotInv
      <4>. QED
        BY <4>1, <4>2, Zenon
    <3>. QED
      BY <3>7, <3>8, Zenon DEF SlotInv
  <2>. QED
    BY <2>2, <2>3, <2>4, Zenon
<1>13. ASSUME NEW t \in Tasks, NEW w \in Workers, TaskForward(t, w) PROVE ServerInv'
  <2>1. HandTo(w, Var(t, "snd"), {}) /\ opc[w] = "unused"
    BY <1>13, Zenon DEF TaskForward, HandTo
  <2>2. /\ Exclusive' /\ hold' \in [Slots -> Pkts \cup {NoPkt}] /\ pool' \subseteq Pkts
        /\ made' \subseteq Pkts
    <3>1. hold[Var(w, "pkt")] = NoPkt
      BY <2>1, Zenon DEF SlotInv
    <3>2. /\ Var(t, "snd") \notin {} /\ Var(t, "snd") # Var(w, "pkt")
          /\ Var(w, "pkt") \notin {} /\ {} \in SUBSET Slots
      BY Zenon
    <3>. QED
      BY <2>1, <3>1, <3>2, HandToExclusive, Zenon
  <2>3. TypeOK'
    BY <1>13, <2>2, SMTT(60) DEF TaskForward, Start, TypeOK
  <2>4. SlotInv'
    <3>1. /\ tpc[t] = "forward" /\ tpc' = [tpc EXCEPT ![t] = "run"]
          /\ opc' = [opc EXCEPT ![w] = "process"]
      BY <1>13, Zenon DEF TaskForward, Start
    <3>2. hold' = [u \in Slots |-> IF u = Var(w, "pkt") THEN hold[Var(t, "snd")]
                                   ELSE IF u \in {} \cup {Var(t, "snd")} THEN NoPkt
                                   ELSE hold[u]]
      BY <2>1, SMTT(60) DEF HandTo
    <3>3. hold[Var(t, "snd")] # NoPkt
      BY <3>1, ZenonT(60) DEF SlotInv
    <3>4. /\ \A y \in Tasks \ {t}, v \in {"pkt", "resp", "snd"} :
               hold'[Var(y, v)] = hold[Var(y, v)]
          /\ \A y \in Workers \ {w}, v \in {"pkt", "err"} :
               hold'[Var(y, v)] = hold[Var(y, v)]
      BY <3>2, Zenon
    <3>5. /\ hold'[Var(t, "pkt")] = hold[Var(t, "pkt")] /\ hold'[Var(t, "snd")] = NoPkt
          /\ hold'[Var(t, "resp")] = hold[Var(t, "resp")]
          /\ hold'[Var(w, "pkt")] # NoPkt /\ hold'[Var(w, "err")] = hold[Var(w, "err")]
      BY <3>2, <3>3, Zenon
    <3>6. /\ tpc \in [Tasks -> {"unused", "dataIn", "decode", "resp", "run", "fail",
                                    "forward", "send", "done"}]
          /\ DOMAIN opc = Workers
      BY Zenon DEF TypeOK
    <3>7. ASSUME NEW y \in Tasks
          PROVE  /\ tpc'[y] \in {"unused", "dataIn", "decode", "done"} =>
                      hold'[Var(y, "pkt")] = NoPkt
                 /\ tpc'[y] \in {"resp", "run", "forward"} => hold'[Var(y, "pkt")] # NoPkt
                 /\ hold'[Var(y, "resp")] # NoPkt <=> tpc'[y] \in {"run", "forward"}
                 /\ hold'[Var(y, "snd")] # NoPkt <=> tpc'[y] \in {"forward", "send"}
      <4>1. CASE y = t
        BY <4>1, <3>1, <3>5, <3>6, SMTT(60) DEF SlotInv
      <4>2. CASE y # t
        BY <4>2, <3>1, <3>4, <3>6, SMTT(60) DEF SlotInv
      <4>. QED
        BY <4>1, <4>2, SMTT(60)
    <3>8. ASSUME NEW y \in Workers
          PROVE  /\ hold'[Var(y, "pkt")] # NoPkt <=> opc'[y] # "unused"
                 /\ hold'[Var(y, "err")] # NoPkt <=> opc'[y] = "send"
      <4>1. CASE y = w
        BY <4>1, <3>1, <3>5, <3>6, <2>1, SMTT(60) DEF SlotInv
      <4>2. CASE y # w
        BY <4>2, <3>1, <3>4, <3>6, SMTT(60) DEF SlotInv
      <4>. QED
        BY <4>1, <4>2, SMTT(60)
    <3>. QED
      BY <3>7, <3>8, Zenon DEF SlotInv
  <2>. QED
    BY <2>2, <2>3, <2>4, Zenon
<1>14. ASSUME NEW w \in Workers, ProcessOut(w) PROVE ServerInv'
  <2>1. TypeOK'
    BY <1>14, SMTT(60) DEF ProcessOut, TypeOK
  <2>2. SlotInv' /\ Exclusive'
    BY <1>14, SMTT(60) DEF ProcessOut, TypeOK, SlotInv, Exclusive
  <2>. QED
    BY <2>1, <2>2, Zenon
<1>15. ASSUME NEW w \in Workers, Drop(w) PROVE ServerInv'
  <2>1. PutBack({Var(w, "pkt")})
    BY <1>15, Zenon DEF Drop, Retire
  <2>2. /\ Exclusive' /\ hold' \in [Slots -> Pkts \cup {NoPkt}] /\ pool' \subseteq Pkts
        /\ made' \subseteq Pkts
    BY <2>1, PutBackExclusive, ZenonT(60)
  <2>3. TypeOK'
    BY <1>15, <2>2, Zenon DEF Drop, Retire, TypeOK
  <2>4. SlotInv'
    <3>1. opc' = [opc EXCEPT ![w] = "unused"] /\ tpc' = tpc /\ opc[w] # "send"
      BY <1>15, Zenon DEF Drop, Retire
    <3>2. hold' = [hold EXCEPT ![Var(w, "pkt")] = NoPkt]
      BY <2>1, Zenon DEF PutBack, TypeOK
    <3>. QED
      BY <3>1, <3>2, SMTT(60) DEF SlotInv, TypeOK
  <2>. QED
    BY <2>2, <2>3, <2>4, Zenon
<1>16. ASSUME NEW w \in Workers, MakeOutErrPkt(w) PROVE ServerInv'
  <2>1. PICK p \in Pkts : \E c : Obtain(Var(w, "err"), p, c)
    BY <1>16, Zenon DEF MakeOutErrPkt
  <2>2. hold[Var(w, "err")] = NoPkt
    BY <1>16, Zenon DEF MakeOutErrPkt, SlotInv
  <2>3. /\ Exclusive' /\ hold' \in [Slots -> Pkts \cup {NoPkt}] /\ pool' \subseteq Pkts
        /\ made' \subseteq Pkts
    BY <2>1, <2>2, ObtainExclusive, Zenon
  <2>4. TypeOK'
    BY <1>16, <2>3, Zenon DEF MakeOutErrPkt, TypeOK
  <2>5. SlotInv'
    <3>1. hold' = [hold EXCEPT ![Var(w, "err")] = p] /\ p # NoPkt
      BY <2>1, Zenon DEF Obtain
    <3>. QED
      BY <1>16, <3>1, ZenonT(30) DEF MakeOutErrPkt, SlotInv, TypeOK
  <2>. QED
    BY <2>3, <2>4, <2>5, Zenon
<1>17. ASSUME NEW w \in Workers, OutSend(w) PROVE ServerInv'
  <2>1. /\ hold' = [hold EXCEPT ![Var(w, "pkt")] = hold[Var(w, "err")], ![Var(w, "err")] = NoPkt]
        /\ pool' = pool \cup {hold[Var(w, "pkt")]} /\ made' = made
    BY <1>17, Zenon DEF OutSend
  <2>2. hold[Var(w, "pkt")] \in Pkts /\ hold[Var(w, "err")] \in Pkts
    BY <1>17, SMTT(60) DEF OutSend, SlotInv, TypeOK
  <2>3. /\ Exclusive' /\ hold' \in [Slots -> Pkts \cup {NoPkt}] /\ pool' \subseteq Pkts
        /\ made' \subseteq Pkts
    <3>1. Var(w, "pkt") # Var(w, "err") /\ pool' = pool \cup ({hold[Var(w, "pkt")]} \ {NoPkt})
      BY <2>1, <2>2, Zenon
    <3>. QED
      BY <2>1, <2>2, <3>1, MoveExclusive, Zenon
  <2>4. TypeOK'
    BY <1>17, <2>3, ZenonT(60) DEF OutSend, TypeOK
  <2>5. SlotInv'
    <3>1. /\ opc' = [opc EXCEPT ![w] = "process"] /\ tpc' = tpc
          /\ \A t \in Tasks, v \in {"pkt", "resp", "snd"} : hold'[Var(t, v)] = hold[Var(t, v)]
          /\ \A y \in Workers \ {w}, v \in {"pkt", "err"} :
               hold'[Var(y, v)] = hold[Var(y, v)]
      BY <1>17, <2>1, SMTT(60) DEF OutSend, TypeOK
    <3>2. hold'[Var(w, "pkt")] # NoPkt /\ hold'[Var(w, "err")] = NoPkt
      BY <2>1, <2>2, Zenon DEF TypeOK
    <3>3. ASSUME NEW y \in Workers
          PROVE  /\ hold'[Var(y, "pkt")] # NoPkt <=> opc'[y] # "unused"
                 /\ hold'[Var(y, "err")] # NoPkt <=> opc'[y] = "send"
      <4>1. DOMAIN opc = Workers
        BY Zenon DEF TypeOK
      <4>2. CASE y = w
        BY <4>1, <4>2, <3>1, <3>2, Zenon
      <4>3. CASE y # w
        BY <4>1, <4>3, <3>1, SMTT(60) DEF SlotInv
      <4>. QED
        BY <4>2, <4>3, Zenon
    <3>4. ASSUME NEW t \in Tasks
          PROVE  /\ tpc'[t] \in {"unused", "dataIn", "decode", "done"} =>
                      hold'[Var(t, "pkt")] = NoPkt
                 /\ tpc'[t] \in {"resp", "run", "forward"} => hold'[Var(t, "pkt")] # NoPkt
                 /\ hold'[Var(t, "resp")] # NoPkt <=> tpc'[t] \in {"run", "forward"}
                 /\ hold'[Var(t, "snd")] # NoPkt <=> tpc'[t] \in {"forward", "send"}
      BY <3>1, SMTT(60) DEF SlotInv
    <3>. QED
      BY <3>3, <3>4, SMTT(60) DEF SlotInv
  <2>. QED
    BY <2>3, <2>4, <2>5, Zenon
<1>18. ASSUME NEW w \in Workers, OutWrite(w) PROVE ServerInv'
  <2>1. PutBack({Var(w, "pkt")})
    BY <1>18, Zenon DEF OutWrite, Retire
  <2>2. /\ Exclusive' /\ hold' \in [Slots -> Pkts \cup {NoPkt}] /\ pool' \subseteq Pkts
        /\ made' \subseteq Pkts
    BY <2>1, PutBackExclusive, Zenon
  <2>3. TypeOK'
    BY <1>18, <2>2, SMTT(60) DEF OutWrite, Retire, TypeOK
  <2>4. SlotInv'
    <3>1. opc' = [opc EXCEPT ![w] = "unused"] /\ tpc' = tpc /\ opc[w] # "send"
      BY <1>18, Zenon DEF OutWrite, Retire
    <3>2. hold' = [hold EXCEPT ![Var(w, "pkt")] = NoPkt]
      BY <2>1, Zenon DEF PutBack, TypeOK
    <3>. QED
      BY <3>1, <3>2, SMTT(60) DEF SlotInv, TypeOK
  <2>. QED
    BY <2>2, <2>3, <2>4, Zenon
<1>19. CASE Written
  BY <1>19, ZenonT(60) DEF Written, TypeOK, SlotInv, Exclusive
<1>20. CASE SendOnClosed
  BY <1>20, ZenonT(60) DEF SendOnClosed, TypeOK, SlotInv, Exclusive
<1>21. CASE UNCHANGED vars
  BY <1>21, ZenonT(60) DEF vars, TypeOK, SlotInv, Exclusive
<1>. QED
  BY <1>1, <1>2, <1>3, <1>4, <1>5, <1>6, <1>7, <1>8, <1>9, <1>10, <1>11, <1>12, <1>13,
     <1>14, <1>15, <1>16, <1>17, <1>18, <1>19, <1>20, <1>21, Zenon
  DEF Next, TaskStep, WorkerStep

(* Wherever the goroutines of the server are, the packets they refer to    *)
(* are theirs alone.                                                       *)
THEOREM ServerInvariant == Spec => []ServerInv
  BY InitServerInv, NextServerInv, PTL DEF Spec

(* For any number of requests processed at once, every packet that the     *)
(* pool has made is in the pool or with one goroutine that runs: none is   *)
(* shared, put back twice, used after PutBack or leaked.                   *)
THEOREM PacketsOwned == Spec => []Ownership
<1>1. ServerInv => Ownership
  BY Zenon DEF ServerInv, SlotInv, Ownership
<1>. QED
  BY <1>1, ServerInvariant, PTL

=============================================================================
