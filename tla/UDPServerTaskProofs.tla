------------------------ MODULE UDPServerTaskProofs ------------------------
(***************************************************************************)
(* The steps of the task that answers a datagram, from the reader to the   *)
(* packet that is ready to be sent, for any number of requests, goroutines *)
(* and packets and any callback queues: each keeps what ReplyInv says of   *)
(* the task and leaves the packets of all others alone.                    *)
(***************************************************************************)
EXTENDS UDPServerProofs

-----------------------------------------------------------------------------
(* The operations on packets. *)

\* The metadata of a new packet and of an error packet with this ref.
RefMeta(ref) == [EmptyMeta EXCEPT !.ref = ref]
ErrMeta(ref) == [EmptyMeta EXCEPT !.ref = ref, !.err = TRUE]

(* NewPkt and NewErrPkt: the fields of what they make of a pooled packet. *)
LEMMA NewPktFields ==
  ASSUME NEW p, IsPkt(p), NEW ref, NEW dest
  PROVE  /\ IsPkt(NewPkt(p, ref, dest))
         /\ NewPkt(p, ref, dest).meta = RefMeta(ref)
         /\ NewPkt(p, ref, dest).buff = <<>>
         /\ NewPkt(p, ref, dest).dest = dest
         /\ IsPkt(NewErrPkt(p, ref, dest))
         /\ NewErrPkt(p, ref, dest).meta = ErrMeta(ref)
         /\ NewErrPkt(p, ref, dest).dest = dest
<1>1. DOMAIN FreshPkt = {"meta", "data", "buff", "dest"}
  BY Zenon DEF FreshPkt
<1>. QED
  BY <1>1, Zenon DEF NewPkt, NewErrPkt, EmptyMeta, IsPkt, RefMeta, ErrMeta

(* Unmarshal of a datagram that decodes. *)
LEMMA UnmarshalFields ==
  ASSUME NEW p, IsPkt(p), NEW d
  PROVE  /\ IsPkt(Unmarshal(p, d))
         /\ Unmarshals(d) => /\ Unmarshal(p, d).meta = d.meta
                             /\ Unmarshal(p, d).buff = DecodeString(d.data)
<1>1. DOMAIN FreshPkt = {"meta", "data", "buff", "dest"}
  BY Zenon DEF FreshPkt
<1>2. CASE d.form # "json"
  <2>1. Unmarshal(p, d) = p /\ ~Unmarshals(d)
    BY <1>2, Zenon DEF Unmarshal, Unmarshals
  <2>. QED
    BY <2>1, Zenon
<1>3. CASE d.form = "json" /\ d.data = BadText
  BY <1>1, <1>3, Zenon DEF Unmarshal, Unmarshals, IsPkt
<1>4. CASE d.form = "json" /\ d.data # BadText
  <2>1. Unmarshal(p, d) = [p EXCEPT !.meta = d.meta, !.data = d.data,
                                    !.buff = DecodeString(d.data)]
    BY <1>4, Zenon DEF Unmarshal
  <2>. QED
    BY <1>1, <2>1, Zenon DEF IsPkt
<1>. QED
  BY <1>2, <1>3, <1>4, Zenon

(* Write and Close. *)
LEMMA WriteCloseFields ==
  ASSUME NEW p, IsPkt(p), NEW c
  PROVE  /\ IsPkt(Write(p, c)) /\ Write(p, c).buff = p.buff \o c
         /\ Write(p, c).meta = p.meta /\ Write(p, c).dest = p.dest
         /\ IsPkt(Close(p)) /\ Close(p).data = Encode(p.buff)
         /\ Close(p).meta = p.meta /\ Close(p).dest = p.dest
<1>1. DOMAIN FreshPkt = {"meta", "data", "buff", "dest"}
  BY Zenon DEF FreshPkt
<1>. QED
  BY <1>1, Zenon DEF Write, Close, IsPkt

-----------------------------------------------------------------------------
(* The callback queue. *)

\* The code of a queue that has ended after k callbacks with a "write".
LastCode(q, k) == IF \E i \in 1..k : q[i] = "relay" THEN "relay" ELSE "write"

(* PacketPipeline.Process: the queue is over after k callbacks exactly     *)
(* when Processed has k.                                                   *)
LEMMA ProcessedPrefix ==
  ASSUME NEW d, d.meta.tgt \in Targets, NEW q, q = Queues[d.meta.tgt],
         NEW k \in Nat, k <= Len(q), \A i \in 1..(k - 1) : ~Ends(q[i]),
         k = Len(q) \/ (k > 0 /\ Ends(q[k]))
  PROVE  q \in Seq(CallbackKinds) /\ Processed(d) = SubSeq(q, 1, k)
<1>1. q \in Seq(CallbackKinds)
  BY ServerAssumption, Zenon
<1> DEFINE stops == {i \in DOMAIN q : q[i] \in {"error", "noop", "closeSend", "forward"}}
<1>2. stops = {i \in 1..Len(q) : Ends(q[i])} /\ Len(q) \in Nat
  BY <1>1, SMTT(60) DEF Ends
<1>3. Processed(d) = IF stops = {} THEN q
                     ELSE SubSeq(q, 1, CHOOSE i \in stops : \A j \in stops : i <= j)
  BY SMTT(60) DEF Processed
<1> HIDE DEF stops
<1>4. CASE k > 0 /\ Ends(q[k])
  <2>1. k \in stops /\ \A j \in stops : k <= j
    BY <1>2, <1>4, SMTT(60)
  <2>2. \A i \in stops : (\A j \in stops : i <= j) => i = k
    BY <1>2, <2>1, SMTT(60)
  <2>3. (CHOOSE i \in stops : \A j \in stops : i <= j) = k
    BY <2>1, <2>2, Zenon
  <2>. QED
    BY <1>1, <1>3, <2>1, <2>3, Zenon
<1>5. CASE ~(k > 0 /\ Ends(q[k]))
  <2>1. stops = {} /\ k = Len(q)
    BY <1>2, <1>5, SMTT(60)
  <2>2. SubSeq(q, 1, Len(q)) = q
    BY <1>1, SMTT(60)
  <2>. QED
    BY <1>1, <1>3, <2>1, <2>2, Zenon
<1>. QED
  BY <1>4, <1>5, Zenon

(* The code and the bytes with which such a queue ends. *)
LEMMA QueueOver ==
  ASSUME NEW t, NEW d, d.meta.tgt \in Targets, NEW q, q = Queues[d.meta.tgt],
         NEW k \in Nat, k <= Len(q), \A i \in 1..(k - 1) : ~Ends(q[i]),
         k = Len(q) \/ (k > 0 /\ Ends(q[k]))
  PROVE  /\ k > 0 /\ q[k] # "write" => Code(d) = q[k]
         /\ k = 0 \/ q[k] = "write" => Code(d) = LastCode(q, k)
         /\ Payload(t, d) = WrittenAfter(t, q, k)
<1>1. q \in Seq(CallbackKinds) /\ Processed(d) = SubSeq(q, 1, k)
  BY ProcessedPrefix, Zenon
<1> DEFINE ran == SubSeq(q, 1, k)
<1>2. Len(ran) = k /\ DOMAIN ran = 1..k /\ \A i \in 1..k : ran[i] = q[i]
  BY <1>1, SMTT(60)
<1>3. ran = <<>> <=> k = 0
  BY <1>1, <1>2, SMTT(60)
<1> DEFINE last == IF ran = <<>> THEN "write" ELSE ran[Len(ran)]
<1>4. Code(d) = IF last # "write" THEN last
                ELSE IF \E i \in DOMAIN ran : ran[i] = "relay" THEN "relay" ELSE "write"
  BY <1>1, Zenon DEF Code
<1>5. Payload(t, d) =
        Copies(t, Cardinality({j \in DOMAIN ran : ran[j] \in {"write", "closeSend"}}))
  BY <1>1, Zenon DEF Payload
<1>6. last = IF k = 0 THEN "write" ELSE q[k]
  BY <1>2, <1>3, SMTT(60)
<1> HIDE DEF last
<1> HIDE DEF ran
<1>7. (\E i \in DOMAIN ran : ran[i] = "relay") <=> \E i \in 1..k : q[i] = "relay"
  BY <1>2, Zenon
<1>8. {j \in DOMAIN ran : ran[j] \in {"write", "closeSend"}}
        = {j \in 1..k : q[j] \in {"write", "closeSend"}}
  BY <1>2, Zenon
<1>9. Payload(t, d) = WrittenAfter(t, q, k)
  BY <1>5, <1>8, Zenon DEF WrittenAfter
<1>. QED
  BY <1>4, <1>7, <1>9, <1>6, SMTT(60) DEF LastCode

(* A queue that has not stopped: its last callback wrote or named where to *)
(* relay, and the next one sets ctx.Stat.                                  *)
LEMMA StatOne ==
  ASSUME NEW q, NEW k \in Nat, \A i \in 1..k : q[i] \in CallbackKinds, q[k + 1] \in CallbackKinds,
         ~Stops(StatAfter(q, k))
  PROVE  /\ k > 0 => ~Ends(q[k])
         /\ q[k + 1] = "write" => StatAfter(q, k + 1) = StatAfter(q, k)
         /\ q[k + 1] = "forward" => StatAfter(q, k + 1) = "noop"
         /\ q[k + 1] \notin {"write", "forward"} => StatAfter(q, k + 1) = q[k + 1]
<1>1. k > 0 => q[k] \in {"write", "relay"}
  BY SMTT(60) DEF StatAfter, Stops, CallbackKinds
<1>2. q[k + 1] = "write" => StatAfter(q, k + 1) = StatAfter(q, k)
  <2>1. q[k + 1] = "write" =>
          ((\E i \in 1..(k + 1) : q[i] = "relay") <=> \E i \in 1..k : q[i] = "relay")
    BY SMTT(60)
  <2>2. k > 0 /\ q[k] = "relay" => \E i \in 1..k : q[i] = "relay"
    BY SMTT(60)
  <2>. QED
    BY <1>1, <2>1, <2>2, Zenon DEF StatAfter
<1>. QED
  BY <1>1, <1>2, SMTT(60) DEF StatAfter, Ends

-----------------------------------------------------------------------------
(* What a step leaves alone. *)

\* A variable refers to the same packet, with the same contents.
Same(s) == hold'[s] = hold[s] /\ (hold[s] # NoPkt => pkts'[hold[s]] = pkts[hold[s]])

TaskSame(t) ==
  /\ tpc'[t] = tpc[t] /\ dgram'[t] = dgram[t] /\ cb'[t] = cb[t] /\ stat'[t] = stat[t]
  /\ Same(Var(t, "pkt")) /\ Same(Var(t, "resp")) /\ Same(Var(t, "snd"))

WorkerSame(w) ==
  /\ opc'[w] = opc[w] /\ cause'[w] = cause[w] /\ bin'[w] = bin[w]
  /\ Same(Var(w, "pkt")) /\ Same(Var(w, "err"))

\* What is due for the datagram of t stays due.
Settled(t) ==
  tpc[t] \notin {"unused", "resp"} => dgram'[t] = dgram[t] /\ (cb'[t] = 0 <=> cb[t] = 0)

PktsTyped == DOMAIN pkts = Pkts /\ \A p \in Pkts : IsPkt(pkts[p])

TaskInv(t) == RequestInv(t) /\ RunInv(t) /\ SendInv(t)

(* NewPkt leaves the packets of everybody else alone. *)
LEMMA ObtainSame ==
  ASSUME TypeOK, Exclusive, PktsTyped, NEW s \in Slots, hold[s] = NoPkt, NEW p \in Pkts,
         NEW c, IsPkt(c), Obtain(s, p, c)
  PROVE  /\ \A r \in Slots : r # s => Same(r)
         /\ hold'[s] = p /\ pkts'[p] = c /\ p # NoPkt /\ PktsTyped'
<1>1. p \in pool \/ p \notin made
  BY Zenon DEF Obtain, Get, NextNew, TypeOK
<1>2. \A r \in Slots : hold[r] # p
  BY <1>1, ServerAssumption, SMTT(60) DEF Exclusive, TypeOK
<1>3. hold' = [hold EXCEPT ![s] = p] /\ pkts' = [pkts EXCEPT ![p] = c]
  BY Zenon DEF Obtain
<1>4. DOMAIN hold = Slots /\ DOMAIN pkts = Pkts /\ p # NoPkt
  BY ServerAssumption, Zenon DEF TypeOK, PktsTyped
<1>5. ASSUME NEW r \in Slots, r # s PROVE Same(r)
  <2>1. hold'[r] = hold[r]
    BY <1>3, <1>4, <1>5, Zenon
  <2>2. hold[r] # NoPkt => pkts'[hold[r]] = pkts[hold[r]]
    BY <1>2, <1>3, <1>4, Zenon DEF TypeOK
  <2>. QED
    BY <2>1, <2>2, Zenon DEF Same
<1>6. PktsTyped'
  BY <1>3, <1>4, Zenon DEF PktsTyped
<1>. QED
  BY <1>3, <1>4, <1>5, <1>6, Zenon

(* One packet is written to: those that other variables refer to are not. *)
LEMMA ChangeSame ==
  ASSUME TypeOK, Exclusive, PktsTyped, NEW s \in Slots, hold[s] # NoPkt,
         IsPkt(pkts'[hold[s]]), DOMAIN pkts' = Pkts,
         \A p \in Pkts : p # hold[s] => pkts'[p] = pkts[p]
  PROVE  PktsTyped' /\ \A r \in Slots : r # s /\ hold'[r] = hold[r] => Same(r)
<1>1. hold[s] \in Pkts /\ DOMAIN pkts = Pkts
  BY Zenon DEF TypeOK, PktsTyped
<1>2. ASSUME NEW r \in Slots, r # s, hold'[r] = hold[r] PROVE Same(r)
  <2>1. hold[r] # NoPkt => hold[r] # hold[s] /\ hold[r] \in Pkts
    BY <1>2, Zenon DEF Exclusive, TypeOK
  <2>. QED
    BY <1>1, <1>2, <2>1, Zenon DEF Same
<1>3. PktsTyped'
  BY <1>1, Zenon DEF PktsTyped
<1>. QED
  BY <1>1, <1>2, <1>3, Zenon

(* The variables of the other goroutines when only those of g change. *)
LEMMA OtherSlots ==
  ASSUME NEW g, \A r \in Slots : r[1] # g => Same(r)
  PROVE  /\ \A u \in Tasks : u # g =>
              Same(Var(u, "pkt")) /\ Same(Var(u, "resp")) /\ Same(Var(u, "snd"))
         /\ \A w \in Workers : w # g => Same(Var(w, "pkt")) /\ Same(Var(w, "err"))
<1>1. ASSUME NEW u \in Tasks, u # g
      PROVE  Same(Var(u, "pkt")) /\ Same(Var(u, "resp")) /\ Same(Var(u, "snd"))
  BY <1>1, SlotFacts, VarFacts, SMTT(60)
<1>2. ASSUME NEW w \in Workers, w # g PROVE Same(Var(w, "pkt")) /\ Same(Var(w, "err"))
  BY <1>2, SlotFacts, VarFacts, SMTT(60)
<1>. QED
  BY <1>1, <1>2, Zenon

(* A task that does nothing keeps its invariant. *)
LEMMA TaskSameInv ==
  ASSUME SlotInv, NEW t \in Tasks, TaskSame(t), TaskInv(t)
  PROVE  TaskInv(t)' /\ Settled(t)
<1>1. tpc'[t] = tpc[t] /\ dgram'[t] = dgram[t] /\ cb'[t] = cb[t] /\ stat'[t] = stat[t]
  BY Zenon DEF TaskSame
<1>2. /\ tpc[t] \in {"run", "forward"} => hold[Var(t, "resp")] # NoPkt
      /\ tpc[t] \in {"send", "forward"} => hold[Var(t, "snd")] # NoPkt
  BY Zenon DEF SlotInv
<1>3. RequestInv(t)'
  <2>1. CASE tpc[t] \in {"resp", "run", "forward"} \/ (tpc[t] = "fail" /\ cb[t] > 0)
    <3>1. /\ hold'[Var(t, "pkt")] = hold[Var(t, "pkt")] /\ hold[Var(t, "pkt")] # NoPkt
          /\ pkts'[hold'[Var(t, "pkt")]] = pkts[hold[Var(t, "pkt")]]
      BY <2>1, ZenonT(60) DEF TaskSame, Same, TaskInv, RequestInv
    <3>. QED
      BY <1>1, <2>1, <3>1, Zenon DEF TaskInv, RequestInv, Request
  <2>2. CASE ~(tpc[t] \in {"resp", "run", "forward"} \/ (tpc[t] = "fail" /\ cb[t] > 0))
    BY <1>1, <2>2, Zenon DEF TaskInv, RequestInv
  <2>. QED
    BY <2>1, <2>2, Zenon
<1>4. RunInv(t)'
  <2>1. CASE tpc[t] \in {"run", "forward"}
    <3>1. pkts'[hold'[Var(t, "resp")]] = pkts[hold[Var(t, "resp")]]
      BY <1>2, <2>1, Zenon DEF TaskSame, Same
    <3>2. RanInv(t, dgram[t], cb[t] - 1, stat[t], pkts[hold[Var(t, "resp")]])
      BY <2>1, Zenon DEF TaskInv, RunInv
    <3>3. RanInv(t, dgram'[t], cb'[t] - 1, stat'[t], pkts'[hold'[Var(t, "resp")]])
      BY <1>1, <3>1, <3>2, Zenon
    <3>. QED
      BY <1>1, <3>3, Zenon DEF TaskInv, RunInv
  <2>2. CASE tpc[t] \notin {"run", "forward"}
    BY <1>1, <2>2, Zenon DEF RunInv
  <2>. QED
    BY <2>1, <2>2, Zenon
<1>5. SendInv(t)'
  <2>1. tpc[t] \in {"send", "forward"} =>
          pkts'[hold'[Var(t, "snd")]] = pkts[hold[Var(t, "snd")]]
    BY <1>2, Zenon DEF TaskSame, Same
  <2>. QED
    BY <1>1, <2>1, Zenon DEF TaskInv, SendInv, Due
<1>. QED
  BY <1>1, <1>3, <1>4, <1>5, Zenon DEF TaskInv, Settled

(* A worker that does nothing keeps its invariant while what is due stays. *)
LEMMA WorkerSameInv ==
  ASSUME SlotInv, NEW w \in Workers, WorkerSame(w), OutInv(w),
         opc[w] # "unused" => /\ dgram'[cause[w]] = dgram[cause[w]]
                              /\ cb'[cause[w]] = 0 <=> cb[cause[w]] = 0
  PROVE  OutInv(w)'
<1>1. opc'[w] = opc[w] /\ cause'[w] = cause[w] /\ bin'[w] = bin[w]
  BY Zenon DEF WorkerSame
<1>2. /\ opc[w] # "unused" => hold[Var(w, "pkt")] # NoPkt
      /\ opc[w] = "send" => hold[Var(w, "err")] # NoPkt
  BY Zenon DEF SlotInv
<1>3. /\ opc[w] # "unused" => pkts'[hold'[Var(w, "pkt")]] = pkts[hold[Var(w, "pkt")]]
      /\ opc[w] = "send" => pkts'[hold'[Var(w, "err")]] = pkts[hold[Var(w, "err")]]
  BY <1>2, Zenon DEF WorkerSame, Same
<1>. QED
  BY <1>1, <1>3, Zenon DEF OutInv, Due, Outgoing

-----------------------------------------------------------------------------
(* The steps of a task. *)

\* Only the state of task t changes, and keeps its domains.
Touches(t) ==
  /\ \A u \in Tasks : u # t =>
       tpc'[u] = tpc[u] /\ dgram'[u] = dgram[u] /\ cb'[u] = cb[u] /\ stat'[u] = stat[u]
  /\ opc' = opc /\ cause' = cause /\ bin' = bin /\ wire' = wire
  /\ dgram' \in [Tasks -> Datagrams \cup {NoDatagram}] /\ DOMAIN stat' = Tasks

Alone(t) ==
  /\ \A u \in Tasks : u # t => TaskSame(u)
  /\ \A w \in Workers : WorkerSame(w)
  /\ cause' = cause /\ opc' = opc /\ wire' = wire

\* What a step of task t comes to. A task that has sent can only end.
Advances(t) ==
  /\ RecordInv' /\ Alone(t) /\ Settled(t) /\ TaskInv(t)'
  /\ Sent(t) => tpc'[t] = "done"

(* Such a step that leaves alone what the other goroutines refer to keeps   *)
(* the types of the records.                                               *)
LEMMA TouchesAlone ==
  ASSUME RecordInv, NEW t \in Tasks, Touches(t), PktsTyped', \A r \in Slots : r[1] # t => Same(r)
  PROVE  RecordInv' /\ Alone(t)
<1>1. /\ \A u \in Tasks : u # t =>
           Same(Var(u, "pkt")) /\ Same(Var(u, "resp")) /\ Same(Var(u, "snd"))
      /\ \A w \in Workers : Same(Var(w, "pkt")) /\ Same(Var(w, "err"))
  BY OtherSlots, SlotFacts, Zenon
<1>2. RecordInv'
  BY Zenon DEF RecordInv, Touches, PktsTyped
<1>3. \A u \in Tasks : u # t => TaskSame(u)
  BY <1>1, Zenon DEF TaskSame, Touches
<1>4. \A w \in Workers : WorkerSame(w)
  BY <1>1, Zenon DEF WorkerSame, Touches
<1>. QED
  BY <1>2, <1>3, <1>4, Zenon DEF Alone, Touches

(* The same, when the step changes one variable of t. *)
LEMMA TouchesOne ==
  ASSUME RecordInv, NEW t \in Tasks, Touches(t), PktsTyped', NEW v,
         \A r \in Slots : r # Var(t, v) => Same(r)
  PROVE  RecordInv' /\ Alone(t)
<1>1. \A r \in Slots : r[1] # t => Same(r)
  BY VarFacts, Zenon
<1>. QED
  BY <1>1, TouchesAlone, Zenon

(* What the invariants say of a task. *)
LEMMA Hypotheses ==
  ASSUME ServerInv, ReplyInv, NEW t \in Tasks
  PROVE  /\ TypeOK /\ SlotInv /\ Exclusive /\ RecordInv /\ PktsTyped
         /\ TaskInv(t) /\ RequestInv(t) /\ RunInv(t) /\ SendInv(t)
         /\ Sent(t) => \/ tpc[t] = "done"
                       \/ tpc[t] = "run" /\ stat[t] = "noop" /\ dgram[t].meta.tgt \in Targets
  BY Zenon DEF ServerInv, ReplyInv, RecordInv, PktsTyped, TaskInv, SentInv

(* readPkts starts a task with a datagram. *)
LEMMA ReadStep ==
  ASSUME ServerInv, ReplyInv, NEW t \in Tasks, NEW d \in Datagrams, Read(t, d)
  PROVE  Advances(t)
<1>1. /\ TypeOK /\ RecordInv /\ PktsTyped /\ RequestInv(t)
      /\ Sent(t) => tpc[t] \in {"done", "run"}
  BY Hypotheses, Zenon
<1>2. /\ tpc[t] = "unused" /\ tpc'[t] = "dataIn" /\ dgram'[t] = d /\ cb'[t] = cb[t]
      /\ stat'[t] = stat[t] /\ hold' = hold /\ pkts' = pkts /\ Touches(t)
  BY <1>1, Zenon DEF Read, TypeOK, RecordInv, Touches, output
<1>3. RecordInv' /\ Alone(t)
  BY <1>1, <1>2, TouchesAlone, Zenon DEF Same, PktsTyped
<1>4. TaskInv(t)'
  BY <1>1, <1>2, DatagramAssumption, Zenon DEF TaskInv, RequestInv, RunInv, SendInv
<1>. QED
  BY <1>1, <1>2, <1>3, <1>4, Zenon DEF Advances, Settled

(* The "_in_" data pipeline. *)
LEMMA DataInStep ==
  ASSUME ServerInv, ReplyInv, NEW t \in Tasks, DataIn(t)
  PROVE  Advances(t)
<1>1. /\ TypeOK /\ RecordInv /\ PktsTyped /\ RequestInv(t)
      /\ Sent(t) => tpc[t] \in {"done", "run"}
  BY Hypotheses, Zenon
<1>2. /\ tpc[t] = "dataIn" /\ tpc'[t] \in {"decode", "done", "fail"} /\ DOMAIN tpc = Tasks
      /\ \A u \in Tasks : u # t => tpc'[u] = tpc[u]
  <2>1. PICK o \in InOutcomes :
          tpc' = [tpc EXCEPT ![t] = CASE o = "ok" -> "decode"
                                      [] o = "noop" -> "done"
                                      [] o = "error" -> "fail"]
    BY Zenon DEF DataIn
  <2>2. o \in {"ok", "noop", "error"}
    BY ServerAssumption, Zenon DEF Outcomes
  <2>. QED
    BY <1>1, <2>1, <2>2, Zenon DEF DataIn, TypeOK
<1>3. /\ dgram'[t] = dgram[t] /\ cb'[t] = cb[t] /\ stat'[t] = stat[t]
      /\ hold' = hold /\ pkts' = pkts /\ Touches(t)
  BY <1>1, <1>2, Zenon DEF DataIn, TypeOK, RecordInv, Touches, output
<1>4. RecordInv' /\ Alone(t)
  BY <1>1, <1>3, TouchesAlone, ZenonT(60) DEF Same, PktsTyped
<1>5. TaskInv(t)'
  BY <1>1, <1>2, <1>3, SMTT(60) DEF TaskInv, RequestInv, RunInv, SendInv
<1>. QED
  BY <1>1, <1>2, <1>3, <1>4, <1>5, Zenon DEF Advances, Settled

(* NewPkt and Unmarshal of the datagram. *)
LEMMA DecodeStep ==
  ASSUME ServerInv, ReplyInv, NEW t \in Tasks, Decode(t)
  PROVE  Advances(t)
<1>1. /\ TypeOK /\ SlotInv /\ Exclusive /\ RecordInv /\ PktsTyped /\ RequestInv(t)
      /\ Sent(t) => tpc[t] \in {"done", "run"}
  BY Hypotheses, ZenonT(60)
<1>2. /\ tpc[t] = "decode" /\ tpc'[t] = (IF Unmarshals(dgram[t]) THEN "resp" ELSE "fail")
      /\ dgram'[t] = dgram[t] /\ cb'[t] = cb[t] /\ stat'[t] = stat[t] /\ Touches(t)
  BY <1>1, Zenon DEF Decode, TypeOK, RecordInv, Touches, output
<1>3. PICK p \in Pkts :
        Obtain(Var(t, "pkt"), p, Unmarshal(NewPkt(pkts[p], NoRef, NoAddr), dgram[t]))
  BY Zenon DEF Decode
<1> DEFINE c == Unmarshal(NewPkt(pkts[p], NoRef, NoAddr), dgram[t])
<1>4. /\ IsPkt(c)
      /\ Unmarshals(dgram[t]) => c.meta = dgram[t].meta /\ c.buff = DecodeString(dgram[t].data)
  <2>1. IsPkt(pkts[p])
    BY <1>1, Zenon DEF PktsTyped
  <2>2. IsPkt(NewPkt(pkts[p], NoRef, NoAddr))
    BY <2>1, NewPktFields, Zenon
  <2>. QED
    BY <2>2, UnmarshalFields, Zenon
<1> HIDE DEF c
<1>5. hold[Var(t, "pkt")] = NoPkt /\ Var(t, "pkt") \in Slots
  BY <1>1, <1>2, SlotFacts, ZenonT(60) DEF SlotInv
<1>6. /\ \A r \in Slots : r # Var(t, "pkt") => Same(r)
      /\ hold'[Var(t, "pkt")] = p /\ pkts'[p] = c /\ p # NoPkt /\ PktsTyped'
  BY <1>1, <1>3, <1>4, <1>5, ObtainSame, Zenon DEF c
<1>7. RecordInv' /\ Alone(t)
  BY <1>1, <1>2, <1>6, TouchesOne, ZenonT(60)
<1>8. TaskInv(t)'
  BY <1>1, <1>2, <1>4, <1>6, SMTT(60) DEF TaskInv, RequestInv, RunInv, SendInv, Request
<1>. QED
  BY <1>1, <1>2, <1>7, <1>8, Zenon DEF Advances, Settled

(* NewErrPkt, about a datagram that is not a request or a request that     *)
(* fails.                                                                  *)
LEMMA MakeErrPktStep ==
  ASSUME ServerInv, ReplyInv, NEW t \in Tasks, MakeErrPkt(t)
  PROVE  Advances(t)
<1>1. /\ TypeOK /\ SlotInv /\ Exclusive /\ RecordInv /\ PktsTyped /\ RequestInv(t) /\ SendInv(t)
      /\ Sent(t) => tpc[t] \in {"done", "run"}
  BY Hypotheses, Zenon
<1>2. /\ tpc[t] = "fail" /\ tpc'[t] = "send" /\ dgram'[t] = dgram[t] /\ cb'[t] = cb[t]
      /\ stat'[t] = stat[t] /\ Touches(t) /\ cb[t] \in Nat
  BY <1>1, ZenonT(60) DEF MakeErrPkt, TypeOK, RecordInv, Touches, output
<1> DEFINE ref == IF cb[t] = 0 THEN NoRef ELSE Request(t).meta.ref
<1>3. PICK p \in Pkts : Obtain(Var(t, "snd"), p, NewErrPkt(pkts[p], ref, dgram[t].from))
  BY Zenon DEF MakeErrPkt
<1> DEFINE c == NewErrPkt(pkts[p], ref, dgram[t].from)
<1>4. /\ IsPkt(c) /\ c.meta = [EmptyMeta EXCEPT !.ref = ref, !.err = TRUE]
      /\ c.dest = dgram[t].from
  <2>1. IsPkt(pkts[p])
    BY <1>1, Zenon DEF PktsTyped
  <2>2. IsPkt(c)
    BY <2>1, NewPktFields, ZenonT(60)
  <2>3. c.meta = ErrMeta(ref)
    BY <2>1, NewPktFields, SMTT(60)
  <2>4. c.dest = dgram[t].from
    BY <2>1, NewPktFields, SMTT(60)
  <2>. QED
    BY <2>2, <2>3, <2>4, Zenon DEF ErrMeta
<1>5. cb[t] > 0 => ref = dgram[t].meta.ref /\ Fails(dgram[t])
  BY <1>1, <1>2, SMTT(60) DEF RequestInv, SendInv
<1>6. cb[t] = 0 => ref = NoRef
  BY Zenon
<1> HIDE DEF c, ref
<1>7. hold[Var(t, "snd")] = NoPkt /\ Var(t, "snd") \in Slots
  BY <1>1, <1>2, SlotFacts, Zenon DEF SlotInv
<1>8. /\ \A r \in Slots : r # Var(t, "snd") => Same(r)
      /\ hold'[Var(t, "snd")] = p /\ pkts'[p] = c /\ p # NoPkt /\ PktsTyped'
  BY <1>1, <1>3, <1>4, <1>7, ObtainSame, Zenon DEF c
<1>9. RecordInv' /\ Alone(t)
  BY <1>1, <1>2, <1>8, TouchesOne, ZenonT(60)
<1>10. RequestInv(t)' /\ RunInv(t)'
  BY <1>1, <1>2, Zenon DEF RequestInv, RunInv
<1>11. AsWritten(c).meta.ref = ref /\ AsWritten(c).meta.err /\ AsWritten(c).to = dgram[t].from
  BY <1>4, Zenon DEF AsWritten, EmptyMeta
<1>12. IF cb[t] = 0 THEN Rejects(dgram[t], AsWritten(c)) ELSE Answers(t, dgram[t], AsWritten(c))
  <2>1. CASE cb[t] = 0
    BY <1>6, <1>11, <2>1, ZenonT(60) DEF Rejects
  <2>2. CASE cb[t] # 0
    BY <1>2, <1>5, <1>11, <2>2, SMTT(60) DEF Answers
  <2>. QED
    BY <2>1, <2>2, Zenon
<1>13. SendInv(t)'
  BY <1>2, <1>8, <1>12, Zenon DEF SendInv, Due
<1>. QED
  BY <1>1, <1>2, <1>9, <1>10, <1>13, Zenon DEF Advances, Settled, TaskInv

(* The target is unknown or a callback has failed: the response is put     *)
(* back.                                                                   *)
LEMMA PipelineErrorStep ==
  ASSUME ServerInv, ReplyInv, NEW t \in Tasks, PipelineError(t)
  PROVE  Advances(t)
<1>1. /\ TypeOK /\ SlotInv /\ RecordInv /\ PktsTyped /\ RequestInv(t) /\ RunInv(t)
      /\ Sent(t) => \/ tpc[t] = "done"
                    \/ tpc[t] = "run" /\ stat[t] = "noop" /\ dgram[t].meta.tgt \in Targets
  BY Hypotheses, Zenon
<1>2. /\ tpc[t] = "run" /\ tpc'[t] = "fail" /\ dgram'[t] = dgram[t] /\ cb'[t] = cb[t]
      /\ stat'[t] = stat[t] /\ Touches(t) /\ cb[t] \in Nat /\ PutBack({Var(t, "resp")})
      /\ Request(t).meta.tgt \notin Targets \/ stat[t] = "error"
  BY <1>1, Zenon DEF PipelineError, TypeOK, RecordInv, Touches, output
<1>3. /\ cb[t] > 0 /\ hold[Var(t, "pkt")] # NoPkt /\ Unmarshals(dgram[t])
      /\ Request(t).meta = dgram[t].meta /\ Request(t).buff = DecodeString(dgram[t].data)
  BY <1>1, <1>2, Zenon DEF RequestInv
<1>4. ~Sent(t)
  BY <1>1, <1>2, <1>3, Zenon
<1>5. (\A r \in Slots : r # Var(t, "resp") => Same(r)) /\ PktsTyped'
  BY <1>1, <1>2, Zenon DEF PutBack, Same, PktsTyped
<1>6. RecordInv' /\ Alone(t)
  BY <1>1, <1>2, <1>5, TouchesOne, Zenon
<1>7. hold'[Var(t, "pkt")] = hold[Var(t, "pkt")] /\ Request(t)' = Request(t)
  BY <1>3, <1>5, SlotFacts, VarFacts, Zenon DEF Same, Request
<1>8. RequestInv(t)' /\ RunInv(t)'
  BY <1>1, <1>2, <1>3, <1>7, Zenon DEF RequestInv, RunInv
<1>9. Fails(dgram[t])
  <2>1. CASE dgram[t].meta.tgt \notin Targets
    BY <2>1, Zenon DEF Fails
  <2>2. CASE dgram[t].meta.tgt \in Targets
    <3> DEFINE q == Queues[dgram[t].meta.tgt]
               k == cb[t] - 1
    <3>1. /\ k \in Nat /\ k <= Len(q) /\ \A i \in 1..(k - 1) : ~Ends(q[i])
          /\ StatAfter(q, k) = "error"
      BY <1>1, <1>2, <1>3, <2>2, SMTT(60) DEF RunInv, RanInv, QueueOf
    <3>2. k > 0 /\ q[k] = "error"
      BY <3>1, Zenon DEF StatAfter
    <3>3. k = Len(q) \/ (k > 0 /\ Ends(q[k]))
      BY <3>2, Zenon DEF Ends
    <3> HIDE DEF q, k
    <3>4. Code(dgram[t]) = q[k]
      BY <2>2, <3>1, <3>2, <3>3, QueueOver, ZenonT(60) DEF q
    <3>. QED
      BY <3>2, <3>4, ZenonT(60) DEF Fails
  <2>. QED
    BY <2>1, <2>2, Zenon
<1>10. SendInv(t)'
  BY <1>2, <1>9, Zenon DEF SendInv
<1>. QED
  BY <1>2, <1>4, <1>6, <1>8, <1>10, ZenonT(60) DEF Advances, Settled, TaskInv

\* Callback k + 1 of the queue q is next for task t, and leaves this in ctx.Stat.
AtCallback(t, q, k) ==
  /\ dgram[t].meta.tgt \in Targets /\ q = Queues[dgram[t].meta.tgt] /\ Queue(t) = q
  /\ k \in Nat /\ cb[t] = k + 1 /\ k + 1 <= Len(q) /\ \A i \in 1..k : ~Ends(q[i])
  /\ q[k + 1] \in CallbackKinds
  /\ stat[t] = StatAfter(q, k) /\ ~Stops(stat[t])
  /\ q[k + 1] = "write" => StatAfter(q, k + 1) = stat[t]
  /\ q[k + 1] = "forward" => StatAfter(q, k + 1) = "noop"
  /\ q[k + 1] \notin {"write", "forward"} => StatAfter(q, k + 1) = q[k + 1]

(* While a callback can run: the queue is that of the datagram's target,   *)
(* k of its callbacks have run, and none has ended it.                     *)
LEMMA RunningQueue ==
  ASSUME TypeOK, NEW t \in Tasks, RequestInv(t), RunInv(t), tpc[t] \in {"run", "forward"},
         cb[t] <= Len(Queue(t)), ~Stops(stat[t]), NEW q, q = QueueOf(dgram[t]), NEW k, k = cb[t] - 1
  PROVE  AtCallback(t, q, k)
<1>1. cb[t] \in Nat /\ cb[t] > 0 /\ Request(t).meta = dgram[t].meta
  BY Zenon DEF TypeOK, RequestInv
<1>2. Queue(t) = q
  BY <1>1, Zenon DEF Queue, QueueOf
<1>3. k \in Nat /\ cb[t] = k + 1 /\ k + 1 <= Len(q) /\ ~Stops(stat[t])
  BY <1>1, <1>2, SMTT(60)
<1>4. dgram[t].meta.tgt \in Targets /\ q = Queues[dgram[t].meta.tgt]
  <2>1. q = <<>> => FALSE
    BY <1>3, SMTT(60)
  <2>. QED
    BY <2>1, Zenon DEF QueueOf
<1>5. q \in Seq(CallbackKinds)
  BY <1>4, ServerAssumption, Zenon
<1>6. \A i \in 1..(k + 1) : q[i] \in CallbackKinds
  BY <1>3, <1>5, SMTT(60)
<1>7. stat[t] = StatAfter(q, k) /\ \A i \in 1..(k - 1) : ~Ends(q[i])
  BY <1>1, Zenon DEF RunInv, RanInv
<1>8. /\ \A i \in 1..k : q[i] \in CallbackKinds
      /\ q[k + 1] \in CallbackKinds /\ ~Stops(StatAfter(q, k))
  <2>1. (\A i \in 1..k : q[i] \in CallbackKinds) /\ q[k + 1] \in CallbackKinds
    BY <1>3, <1>6, SMTT(60)
  <2>2. ~Stops(StatAfter(q, k))
    BY <1>3, <1>7, Zenon
  <2>. QED
    BY <2>1, <2>2, Zenon
<1>9. /\ k > 0 => ~Ends(q[k])
      /\ q[k + 1] = "write" => StatAfter(q, k + 1) = StatAfter(q, k)
      /\ q[k + 1] = "forward" => StatAfter(q, k + 1) = "noop"
      /\ q[k + 1] \notin {"write", "forward"} => StatAfter(q, k + 1) = q[k + 1]
  BY <1>3, <1>8, StatOne, Zenon
<1>10. \A i \in 1..k : ~Ends(q[i])
  BY <1>3, <1>7, <1>9, SMTT(60)
<1>. QED
  BY <1>2, <1>3, <1>4, <1>7, <1>8, <1>9, <1>10, Zenon DEF AtCallback

(* relayCallback makes the packet that forwards the request. *)
LEMMA RelayCallbackStep ==
  ASSUME ServerInv, ReplyInv, NEW t \in Tasks, RelayCallback(t)
  PROVE  Advances(t)
<1>1. /\ TypeOK /\ SlotInv /\ Exclusive /\ RecordInv /\ PktsTyped /\ RequestInv(t) /\ RunInv(t)
      /\ Sent(t) => tpc[t] = "done" \/ stat[t] = "noop"
  BY Hypotheses, Zenon
<1>2. PICK q : q = QueueOf(dgram[t])
  BY Zenon
<1>3. PICK k : k = cb[t] - 1
  BY Zenon
<1>4. Running(t) /\ tpc[t] = "run"
  BY Zenon DEF RelayCallback, Running
<1>5. /\ dgram[t].meta.tgt \in Targets /\ q = Queues[dgram[t].meta.tgt] /\ Queue(t) = q
      /\ k \in Nat /\ cb[t] = k + 1 /\ k + 1 <= Len(q) /\ \A i \in 1..k : ~Ends(q[i])
      /\ ~Stops(stat[t])
  <2>1. AtCallback(t, q, k)
    BY <1>1, <1>2, <1>3, <1>4, RunningQueue, Zenon DEF Running
  <2>. QED
    BY <2>1, Zenon DEF AtCallback
<1>6. /\ tpc'[t] = "forward" /\ dgram'[t] = dgram[t] /\ cb'[t] = cb[t] /\ stat'[t] = stat[t]
      /\ Touches(t) /\ q[k + 1] = "forward"
  BY <1>1, <1>4, <1>5, ZenonT(60) DEF RelayCallback, TypeOK, RecordInv, Touches, output
<1>7. /\ hold[Var(t, "pkt")] # NoPkt /\ Unmarshals(dgram[t])
      /\ Request(t).meta = dgram[t].meta /\ Request(t).buff = DecodeString(dgram[t].data)
  BY <1>1, <1>4, Zenon DEF RequestInv
<1> DEFINE f(p) == NewPkt(pkts[p], Request(t).meta.ref, Request(t).meta.dst)
           g(p) == [f(p) EXCEPT !.meta.src = dgram[t].from]
           c(p) == Close(Write(g(p), Request(t).buff))
<1>8. PICK p \in Pkts : Obtain(Var(t, "snd"), p, c(p))
  BY Zenon DEF RelayCallback
<1>9. /\ IsPkt(f(p)) /\ f(p).buff = <<>> /\ f(p).dest = Request(t).meta.dst
      /\ f(p).meta = [EmptyMeta EXCEPT !.ref = Request(t).meta.ref]
  <2>1. IsPkt(pkts[p])
    BY <1>1, Zenon DEF PktsTyped
  <2>2. IsPkt(f(p))
    BY <2>1, NewPktFields, Zenon
  <2>3. f(p).meta = RefMeta(Request(t).meta.ref)
    BY <2>1, NewPktFields, SMTT(60)
  <2>4. f(p).buff = <<>> /\ f(p).dest = Request(t).meta.dst
    BY <2>1, NewPktFields, SMTT(60)
  <2>. QED
    BY <2>2, <2>3, <2>4, Zenon DEF RefMeta
<1> HIDE DEF f
<1>10. /\ IsPkt(g(p)) /\ g(p).buff = <<>> /\ g(p).dest = dgram[t].meta.dst
       /\ g(p).meta = [EmptyMeta EXCEPT !.ref = dgram[t].meta.ref, !.src = dgram[t].from]
  <2>1. DOMAIN f(p) = {"meta", "data", "buff", "dest"}
    BY <1>9, Zenon DEF FreshPkt, IsPkt
  <2>2. g(p).meta = [f(p).meta EXCEPT !.src = dgram[t].from]
    BY <2>1, Zenon
  <2>3. g(p).meta = [EmptyMeta EXCEPT !.ref = dgram[t].meta.ref, !.src = dgram[t].from]
    BY <1>7, <1>9, <2>2, Zenon DEF EmptyMeta
  <2>. QED
    BY <1>7, <1>9, <2>1, <2>3, Zenon DEF IsPkt, FreshPkt
<1> HIDE DEF g
<1>11. /\ IsPkt(c(p)) /\ c(p).dest = dgram[t].meta.dst
       /\ c(p).meta = [EmptyMeta EXCEPT !.ref = dgram[t].meta.ref, !.src = dgram[t].from]
       /\ c(p).data = Encode(<<>> \o Request(t).buff)
  <2>1. PICK h : h = Write(g(p), Request(t).buff)
    BY Zenon
  <2>2. IsPkt(h)
    BY <1>10, <2>1, WriteCloseFields, Zenon
  <2>3. h.buff = g(p).buff \o Request(t).buff /\ h.meta = g(p).meta /\ h.dest = g(p).dest
    BY <1>10, <2>1, WriteCloseFields, ZenonT(30)
  <2>4. IsPkt(Close(h))
    BY <2>2, WriteCloseFields, Zenon
  <2>5. Close(h).data = Encode(h.buff) /\ Close(h).meta = h.meta /\ Close(h).dest = h.dest
    BY <2>2, WriteCloseFields, Zenon
  <2>6. c(p) = Close(h)
    BY <2>1, Zenon
  <2>7. Close(h).data = Encode(<<>> \o Request(t).buff) /\ Close(h).dest = dgram[t].meta.dst
    BY <1>10, <2>3, <2>5, Zenon
  <2>. QED
    BY <1>10, <2>3, <2>4, <2>5, <2>6, <2>7, ZenonT(60)
<1> HIDE DEF c
<1>12. c(p).data = Encode(DecodeString(dgram[t].data))
  <2>1. dgram[t] \in Datagrams
    BY <1>1, <1>4, Zenon DEF RequestInv, RecordInv
  <2>2. PICK chunks : chunks = DecodeString(dgram[t].data)
    BY Zenon
  <2>3. chunks \in Seq({chunks[i] : i \in DOMAIN chunks})
    BY <1>7, <2>1, <2>2, DatagramAssumption, ZenonT(30)
  <2>4. <<>> \o chunks = chunks
    BY <2>3, SMTT(60)
  <2>. QED
    BY <1>7, <1>11, <2>2, <2>4, Zenon
<1>13. Var(t, "snd") \in Slots /\ hold[Var(t, "snd")] = NoPkt /\ hold[Var(t, "resp")] # NoPkt
  BY <1>1, <1>4, SlotFacts, Zenon DEF SlotInv
<1>14. /\ \A r \in Slots : r # Var(t, "snd") => Same(r)
       /\ hold'[Var(t, "snd")] = p /\ pkts'[p] = c(p) /\ p # NoPkt /\ PktsTyped'
  BY <1>1, <1>8, <1>11, <1>13, ObtainSame, Zenon
<1>15. RecordInv' /\ Alone(t)
  BY <1>1, <1>6, <1>14, TouchesOne, Zenon
<1>16. /\ hold'[Var(t, "pkt")] = hold[Var(t, "pkt")] /\ Request(t)' = Request(t)
       /\ pkts'[hold'[Var(t, "resp")]] = pkts[hold[Var(t, "resp")]]
  BY <1>7, <1>13, <1>14, SlotFacts, VarFacts, Zenon DEF Same, Request
<1>17. RequestInv(t)'
  BY <1>1, <1>4, <1>6, <1>7, <1>16, Zenon DEF RequestInv
<1>18. RunInv(t)'
  <2>1. RanInv(t, dgram[t], cb[t] - 1, stat[t], pkts[hold[Var(t, "resp")]])
    BY <1>1, <1>4, Zenon DEF RunInv
  <2>2. RanInv(t, dgram'[t], cb'[t] - 1, stat'[t], pkts'[hold'[Var(t, "resp")]])
    BY <1>6, <1>16, <2>1, Zenon
  <2>. QED
    BY <1>2, <1>5, <1>6, <2>2, Zenon DEF RunInv
<1>19. Code(dgram[t]) = "forward"
  <2>1. /\ k + 1 \in Nat /\ \A i \in 1..((k + 1) - 1) : ~Ends(q[i])
        /\ k + 1 > 0 /\ Ends(q[k + 1]) /\ q[k + 1] # "write"
    BY <1>5, <1>6, SMTT(60) DEF Ends
  <2>2. PICK n : n = k + 1
    BY Zenon
  <2>3. /\ n \in Nat /\ n <= Len(q) /\ \A i \in 1..(n - 1) : ~Ends(q[i])
        /\ n > 0 /\ Ends(q[n]) /\ q[n] # "write"
    BY <1>5, <2>1, <2>2, Zenon
  <2>4. Code(dgram[t]) = q[n]
    BY <1>5, <2>3, QueueOver, ZenonT(60)
  <2>. QED
    BY <1>6, <2>2, <2>4, ZenonT(30)
<1>20. SendInv(t)'
  <2>1. PICK x : x = AsWritten(c(p))
    BY Zenon
  <2>2. /\ x.to = dgram[t].meta.dst /\ x.data = Encode(DecodeString(dgram[t].data))
        /\ x.meta.ref = dgram[t].meta.ref /\ x.meta.src = dgram[t].from
    BY <1>11, <1>12, <2>1, Zenon DEF AsWritten, EmptyMeta
  <2>3. ~Fails(dgram[t])
    BY <1>5, <1>19, Zenon DEF Fails
  <2>4. Answers(t, dgram[t], x)
    BY <1>19, <2>2, <2>3, ZenonT(60) DEF Answers
  <2>5. cb[t] # 0
    BY <1>5, SMTT(60)
  <2>6. pkts'[hold'[Var(t, "snd")]] = c(p)
    BY <1>14, Zenon
  <2>7. Due(t, AsWritten(pkts[hold[Var(t, "snd")]]))'
    BY <1>6, <2>1, <2>4, <2>5, <2>6, ZenonT(60) DEF Due
  <2>8. tpc'[t] # "fail"
    BY <1>6, Zenon
  <2>. QED
    BY <2>7, <2>8, Zenon DEF SendInv
<1>21. ~Sent(t)
  BY <1>1, <1>4, <1>5, ZenonT(60) DEF Stops
<1>. QED
  BY <1>6, <1>15, <1>17, <1>18, <1>20, <1>21, Zenon DEF Advances, Settled, TaskInv

(* The queue is over, and ctx.Stat says that something is to be sent: it   *)
(* is the code with which the queue ends.                                  *)
LEMMA FinishedQueue ==
  ASSUME NEW t, NEW d, d.meta.tgt \in Targets, NEW q, q = Queues[d.meta.tgt],
         NEW k \in Nat, k <= Len(q), \A i \in 1..(k - 1) : ~Ends(q[i]),
         NEW s, s = StatAfter(q, k), s \notin {"error", "noop"}, k = Len(q) \/ Stops(s)
  PROVE  /\ s \in {"closeSend", "relay", "continue"} /\ ~Fails(d)
         /\ s = "continue" => Code(d) = "write"
         /\ s # "continue" => Code(d) = s
         /\ Payload(t, d) = WrittenAfter(t, q, k)
<1>1. q \in Seq(CallbackKinds)
  BY ServerAssumption, Zenon
<1>2. k > 0 => q[k] \in CallbackKinds
  BY <1>1, SMTT(60)
<1>3. k > 0 => q[k] \in {"write", "closeSend", "relay"}
  BY <1>2, ZenonT(60) DEF StatAfter, CallbackKinds
<1>4. k = Len(q) \/ (k > 0 /\ Ends(q[k]))
  BY <1>3, Zenon DEF StatAfter, Stops, Ends
<1>5. /\ k > 0 /\ q[k] # "write" => Code(d) = q[k]
      /\ k = 0 \/ q[k] = "write" => Code(d) = LastCode(q, k)
      /\ Payload(t, d) = WrittenAfter(t, q, k)
  BY <1>4, QueueOver, ZenonT(30)
<1>6. CASE k > 0 /\ q[k] # "write"
  BY <1>3, <1>5, <1>6, Zenon DEF StatAfter, Fails
<1>7. CASE k = 0 \/ q[k] = "write"
  BY <1>3, <1>5, <1>7, Zenon DEF StatAfter, Fails, LastCode
<1>. QED
  BY <1>6, <1>7, SMTT(60)

\* What Finish makes of the response.
Finished(r, s, d) ==
  IF s = "relay" THEN Close([r EXCEPT !.dest = r.meta.dst, !.meta.src = d.from]) ELSE Close(r)

(* The response once it is closed, and addressed if it is to be relayed,   *)
(* is due.                                                                 *)
LEMMA ResponseDue ==
  ASSUME NEW t, NEW d, d.meta.tgt \in Targets, NEW k \in Nat, NEW s, NEW r,
         IsPkt(r), RanInv(t, d, k, s, r), s \notin {"error", "noop"},
         k = Len(QueueOf(d)) \/ Stops(s), s = "relay" => r.meta.dst # NoAddr,
         NEW c, c = Finished(r, s, d)
  PROVE  IsPkt(c) /\ Answers(t, d, AsWritten(c))
<1>1. PICK q : q = Queues[d.meta.tgt] /\ q = QueueOf(d)
  BY Zenon DEF QueueOf
<1>2. /\ k <= Len(q) /\ s = StatAfter(q, k)
      /\ \A i \in 1..(k - 1) : ~Ends(q[i])
      /\ r.meta = [EmptyMeta EXCEPT !.ref = d.meta.ref, !.dst = r.meta.dst]
      /\ s = "relay" => r.meta.dst \in RelayDests
      /\ r.buff = WrittenAfter(t, q, k) /\ r.dest = d.from
  BY <1>1, Zenon DEF RanInv
<1>3. k = Len(q) \/ Stops(s)
  BY <1>1, Zenon
<1>4. /\ s \in {"closeSend", "relay", "continue"} /\ ~Fails(d)
      /\ s = "continue" => Code(d) = "write"
      /\ s # "continue" => Code(d) = s
      /\ Payload(t, d) = WrittenAfter(t, q, k)
  <2>1. q = Queues[d.meta.tgt]
    BY <1>1, Zenon
  <2>2. k <= Len(q) /\ \A i \in 1..(k - 1) : ~Ends(q[i])
    BY <1>2, Zenon
  <2>3. s = StatAfter(q, k)
    BY <1>2, Zenon
  <2>. QED
    BY <1>3, <2>1, <2>2, <2>3, FinishedQueue, Zenon
<1>5. CASE s = "relay"
  <2>1. PICK e : e = [r EXCEPT !.dest = r.meta.dst, !.meta.src = d.from]
    BY Zenon
  <2>2. DOMAIN r = {"meta", "data", "buff", "dest"}
    BY Zenon DEF FreshPkt, IsPkt
  <2>3. /\ IsPkt(e) /\ e.buff = r.buff /\ e.dest = r.meta.dst
        /\ e.meta = [r.meta EXCEPT !.src = d.from]
    BY <2>1, <2>2, Zenon DEF FreshPkt, IsPkt
  <2>4. e.meta.ref = d.meta.ref /\ e.meta.src = d.from
    BY <1>2, <2>3, ZenonT(60) DEF EmptyMeta
  <2>5. c = Close(e)
    BY <1>5, <2>1, Zenon DEF Finished
  <2>6. /\ IsPkt(c) /\ c.data = Encode(Payload(t, d))
        /\ c.meta = e.meta /\ c.dest = r.meta.dst
    <3>1. IsPkt(c)
      BY <2>3, <2>5, WriteCloseFields, Zenon
    <3>2. c.data = Encode(e.buff) /\ c.meta = e.meta /\ c.dest = e.dest
      BY <2>3, <2>5, WriteCloseFields, Zenon
    <3>. QED
      BY <1>2, <1>4, <2>3, <3>1, <3>2, Zenon
  <2>7. PICK x : x = AsWritten(c)
    BY Zenon
  <2>8. /\ x.to = r.meta.dst /\ x.data = Encode(Payload(t, d))
        /\ x.meta.ref = d.meta.ref /\ x.meta.src = d.from
    BY <2>4, <2>6, <2>7, Zenon DEF AsWritten
  <2>9. Code(d) = "relay"
    BY <1>4, <1>5, Zenon
  <2>10. Answers(t, d, x)
    BY <1>2, <1>4, <1>5, <2>8, <2>9, ZenonT(60) DEF Answers
  <2>. QED
    BY <2>6, <2>7, <2>10, Zenon
<1>6. CASE s # "relay"
  <2>1. r.meta.ref = d.meta.ref /\ r.meta.src = NoAddr
    BY <1>2, Zenon DEF EmptyMeta
  <2>2. c = Close(r)
    BY <1>6, Zenon DEF Finished
  <2>3. /\ IsPkt(c) /\ c.data = Encode(Payload(t, d))
        /\ c.meta = r.meta /\ c.dest = d.from
    <3>1. IsPkt(c)
      BY <2>2, WriteCloseFields, Zenon
    <3>2. c.data = Encode(r.buff) /\ c.meta = r.meta /\ c.dest = r.dest
      BY <2>2, WriteCloseFields, Zenon
    <3>. QED
      BY <1>2, <1>4, <3>1, <3>2, Zenon
  <2>4. PICK x : x = AsWritten(c)
    BY Zenon
  <2>5. /\ x.to = d.from /\ x.data = Encode(Payload(t, d))
        /\ x.meta.ref = d.meta.ref /\ x.meta.src = NoAddr
    BY <2>1, <2>3, <2>4, Zenon DEF AsWritten
  <2>6. Code(d) \in {"write", "closeSend"}
    BY <1>4, <1>6, Zenon
  <2>7. Answers(t, d, x)
    BY <1>4, <2>5, <2>6, Zenon DEF Answers
  <2>. QED
    BY <2>3, <2>4, <2>7, Zenon
<1>. QED
  BY <1>5, <1>6, ZenonT(60)

(* The switch on ctx.Stat. *)
LEMMA FinishStep ==
  ASSUME ServerInv, ReplyInv, NEW t \in Tasks, Finish(t)
  PROVE  Advances(t)
<1>1. /\ TypeOK /\ SlotInv /\ Exclusive /\ RecordInv /\ PktsTyped /\ RequestInv(t) /\ RunInv(t)
      /\ Sent(t) => tpc[t] = "done" \/ stat[t] = "noop"
  BY Hypotheses, Zenon
<1>2. /\ tpc[t] = "run" /\ tpc'[t] = (IF Silent(t) THEN "done" ELSE "send")
      /\ dgram'[t] = dgram[t] /\ cb'[t] = cb[t] /\ stat'[t] = stat[t] /\ Touches(t)
      /\ Request(t).meta.tgt \in Targets /\ stat[t] # "error" /\ ~Running(t) /\ cb[t] \in Nat
  BY <1>1, Zenon DEF Finish, TypeOK, RecordInv, Touches, output
<1>3. cb[t] > 0 /\ Request(t).meta = dgram[t].meta /\ dgram[t] # NoDatagram
  BY <1>1, <1>2, Zenon DEF RequestInv
<1>4. RequestInv(t)' /\ RunInv(t)' /\ Settled(t)
  BY <1>2, <1>3, Zenon DEF RequestInv, RunInv, Settled
<1>5. CASE Silent(t)
  <2>1. PutBack({Var(t, "pkt"), Var(t, "resp")})
    BY <1>5, Zenon DEF Finish
  <2>2. (\A r \in Slots : r[1] # t => Same(r)) /\ PktsTyped'
    BY VarFacts, <1>1, <2>1, Zenon DEF PutBack, Same, PktsTyped
  <2>3. RecordInv' /\ Alone(t)
    BY <1>1, <1>2, <2>2, TouchesAlone, Zenon
  <2>4. SendInv(t)'
    BY <1>2, <1>5, Zenon DEF SendInv
  <2>. QED
    BY <1>2, <1>4, <1>5, <2>3, <2>4, Zenon DEF Advances, TaskInv
<1>6. CASE ~Silent(t)
  <2>1. ~Sent(t) /\ stat[t] # "noop" /\ tpc'[t] = "send"
    BY <1>1, <1>2, <1>6, Zenon DEF Silent
  <2>2. /\ Var(t, "resp") \in Slots /\ Var(t, "snd") \in Slots /\ Var(t, "resp") # Var(t, "snd")
        /\ hold[Var(t, "resp")] # NoPkt
    BY <1>1, <1>2, SlotFacts, Zenon DEF SlotInv
  <2>3. PICK r : r = pkts[hold[Var(t, "resp")]]
    BY Zenon
  <2>4. stat[t] = "relay" => r.meta.dst # NoAddr
    BY <1>6, <2>3, Zenon DEF Silent
  <2>5. PICK c : c = Finished(r, stat[t], dgram[t])
    BY Zenon
  <2>6. hold' = [hold EXCEPT ![Var(t, "resp")] = NoPkt, ![Var(t, "snd")] = hold[Var(t, "resp")]]
    BY <1>6, Zenon DEF Finish
  <2>7. pkts' = [pkts EXCEPT ![hold[Var(t, "resp")]] = c]
    BY <1>6, <2>3, <2>5, Zenon DEF Finish, Finished
  <2>8. IsPkt(r)
    BY <1>1, <2>2, <2>3, Zenon DEF TypeOK, PktsTyped
  <2>9. PICK k : k = cb[t] - 1
    BY Zenon
  <2>10. k \in Nat /\ RanInv(t, dgram[t], k, stat[t], r)
    <3>1. k \in Nat
      BY <1>2, <1>3, <2>9, SMTT(60)
    <3>2. RanInv(t, dgram[t], cb[t] - 1, stat[t], pkts[hold[Var(t, "resp")]])
      BY <1>1, <1>2, Zenon DEF RunInv
    <3>. QED
      BY <2>3, <2>9, <3>1, <3>2, ZenonT(60)
  <2>11. k = Len(QueueOf(dgram[t])) \/ Stops(stat[t])
    <3>1. Queue(t) = QueueOf(dgram[t])
      BY <1>3, Zenon DEF Queue, QueueOf
    <3>2. PICK n : n = Len(QueueOf(dgram[t]))
      BY Zenon
    <3>3. n \in Nat
      BY <3>2, ServerAssumption, SMTT(60) DEF QueueOf
    <3>4. k <= n
      BY <2>10, <3>2, Zenon DEF RanInv
    <3>5. ~(cb[t] <= n) \/ Stops(stat[t])
      BY <1>2, <3>1, <3>2, ZenonT(60) DEF Running
    <3>6. cb[t] = k + 1
      BY <1>2, <2>9, <2>10, SMTT(60)
    <3>7. k = n \/ Stops(stat[t])
      BY <2>10, <3>3, <3>4, <3>5, <3>6, SMTT(60)
    <3>. QED
      BY <3>2, <3>7, Zenon
  <2>12. IsPkt(c) /\ Answers(t, dgram[t], AsWritten(c))
    <3>1. dgram[t].meta.tgt \in Targets
      BY <1>2, <1>3, ZenonT(60)
    <3>2. stat[t] \notin {"error", "noop"}
      BY <1>2, <2>1, Zenon
    <3>. QED
      BY <2>4, <2>5, <2>8, <2>10, <2>11, <3>1, <3>2, ResponseDue, Zenon
  <2>13. /\ \A s \in Slots : s # Var(t, "resp") /\ hold'[s] = hold[s] => Same(s)
         /\ pkts'[hold[Var(t, "resp")]] = c /\ PktsTyped'
    <3>1. DOMAIN pkts = Pkts /\ hold[Var(t, "resp")] \in Pkts
      BY <1>1, <2>2, Zenon DEF PktsTyped, TypeOK
    <3>2. /\ pkts'[hold[Var(t, "resp")]] = c /\ DOMAIN pkts' = Pkts
          /\ \A p \in Pkts : p # hold[Var(t, "resp")] => pkts'[p] = pkts[p]
      BY <2>7, <3>1, Zenon
    <3>3. IsPkt(pkts'[hold[Var(t, "resp")]])
      BY <2>12, <3>2, ZenonT(60)
    <3>. QED
      BY <1>1, <2>2, <3>2, <3>3, ChangeSame, Zenon
  <2>14. /\ \A s \in Slots : s[1] # t => hold'[s] = hold[s]
         /\ hold'[Var(t, "snd")] = hold[Var(t, "resp")]
    BY VarFacts, <1>1, <2>2, <2>6, SMTT(60) DEF TypeOK
  <2>15. \A s \in Slots : s[1] # t => Same(s)
    <3>1. \A s \in Slots : s[1] # t => s # Var(t, "resp")
      BY VarFacts, ZenonT(30)
    <3>. QED
      BY <2>13, <2>14, <3>1, Zenon
  <2>16. RecordInv' /\ Alone(t)
    BY <1>1, <1>2, <2>13, <2>15, TouchesAlone, Zenon
  <2>17. SendInv(t)'
    <3>1. cb[t] # 0
      BY <1>3, SMTT(60)
    <3>2. pkts'[hold'[Var(t, "snd")]] = c
      BY <2>13, <2>14, ZenonT(30)
    <3>3. Due(t, AsWritten(pkts[hold[Var(t, "snd")]]))'
      BY <1>2, <2>12, <3>1, <3>2, ZenonT(30) DEF Due
    <3>4. tpc'[t] # "fail"
      BY <1>2, <2>1, Zenon
    <3>. QED
      BY <3>3, <3>4, Zenon DEF SendInv
  <2>. QED
    BY <1>4, <2>1, <2>16, <2>17, ZenonT(60) DEF Advances, TaskInv
<1>. QED
  BY <1>5, <1>6, Zenon

-----------------------------------------------------------------------------
(* The sends on sendStream. *)

\* Task t sends its only packet to worker w and is over, or stopped.
Hands(t, w) ==
  /\ RecordInv' /\ Settled(t) /\ TaskInv(t)' /\ OutInv(w)'
  /\ \A u \in Tasks : u # t => TaskSame(u)
  /\ \A v \in Workers : v # w => WorkerSame(v)
  /\ opc[w] = "unused" /\ opc'[w] = "process" /\ cause' = [cause EXCEPT ![w] = t]
  /\ wire' = wire /\ ~Sent(t)
  /\ \/ tpc'[t] = "done"
     \/ tpc'[t] = "run" /\ stat'[t] = "noop" /\ dgram'[t].meta.tgt \in Targets

(* What was the packet to send of t is now the packet of w. *)
LEMMA HandToSame ==
  ASSUME TypeOK, PktsTyped, NEW t \in Tasks, NEW w \in Workers, NEW S, S \subseteq {Var(t, "pkt")},
         HandTo(w, Var(t, "snd"), S)
  PROVE  /\ \A r \in Slots : r # Var(w, "pkt") /\ r # Var(t, "snd") /\ r \notin S => Same(r)
         /\ hold'[Var(w, "pkt")] = hold[Var(t, "snd")] /\ pkts' = pkts /\ PktsTyped'
<1>1. Var(w, "pkt") \in Slots /\ t # w
  BY SlotFacts, Zenon
<1>2. /\ hold' = [r \in Slots |-> CASE r = Var(w, "pkt") -> hold[Var(t, "snd")]
                                   [] r \in S \cup {Var(t, "snd")} -> NoPkt
                                   [] OTHER -> hold[r]]
      /\ pkts' = pkts
  BY Zenon DEF HandTo
<1>3. Var(w, "pkt") \notin S \cup {Var(t, "snd")}
  BY <1>1, VarFacts, Zenon
<1>4. hold'[Var(w, "pkt")] = hold[Var(t, "snd")]
  BY <1>1, <1>2, <1>3, Zenon
<1>5. \A r \in Slots : r # Var(w, "pkt") /\ r # Var(t, "snd") /\ r \notin S => hold'[r] = hold[r]
  BY <1>2, Zenon
<1>. QED
  BY <1>2, <1>4, <1>5, Zenon DEF Same, PktsTyped

(* Everything but what t and w are about. *)
LEMMA HandsOthers ==
  ASSUME ServerInv, RecordInv, PktsTyped, NEW t \in Tasks, NEW w \in Workers,
         NEW S, S \subseteq {Var(t, "pkt")}, HandTo(w, Var(t, "snd"), S), Start(w, t), SendInv(t),
         tpc[t] \in {"send", "forward"}, dgram' = dgram, DOMAIN stat' = Tasks,
         \A u \in Tasks : u # t => tpc'[u] = tpc[u] /\ cb'[u] = cb[u] /\ stat'[u] = stat[u],
         cb'[t] = 0 <=> cb[t] = 0
  PROVE  /\ RecordInv' /\ Settled(t) /\ OutInv(w)'
         /\ \A u \in Tasks : u # t => TaskSame(u)
         /\ \A v \in Workers : v # w => WorkerSame(v)
         /\ opc[w] = "unused" /\ opc'[w] = "process" /\ cause' = [cause EXCEPT ![w] = t]
         /\ wire' = wire
<1>1. TypeOK
  BY Zenon DEF ServerInv
<1>2. /\ \A r \in Slots : r # Var(w, "pkt") /\ r # Var(t, "snd") /\ r \notin S => Same(r)
      /\ hold'[Var(w, "pkt")] = hold[Var(t, "snd")] /\ pkts' = pkts /\ PktsTyped'
  BY <1>1, HandToSame, Zenon
<1>3. /\ opc[w] = "unused" /\ opc'[w] = "process" /\ cause' = [cause EXCEPT ![w] = t]
      /\ cause'[w] = t /\ wire' = wire /\ bin' = bin
      /\ \A v \in Workers : v # w => opc'[v] = opc[v] /\ cause'[v] = cause[v]
  BY <1>1, Zenon DEF HandTo, Start, TypeOK
<1>4. RecordInv'
  BY <1>2, <1>3, ZenonT(30) DEF RecordInv, PktsTyped
<1>0. \A r \in Slots : r[1] # t /\ r[1] # w => Same(r)
  BY <1>2, VarFacts, SMTT(60)
<1>5. \A u \in Tasks : u # t => TaskSame(u)
  <2>1. ASSUME NEW u \in Tasks, u # t
        PROVE  Same(Var(u, "pkt")) /\ Same(Var(u, "resp")) /\ Same(Var(u, "snd"))
    <3>1. u # w
      BY SlotFacts, Zenon
    <3>. QED
      BY <1>0, <2>1, <3>1, SlotFacts, VarFacts, SMTT(60)
  <2>. QED
    BY <2>1, ZenonT(30) DEF TaskSame
<1>6. \A v \in Workers : v # w => WorkerSame(v)
  <2>1. ASSUME NEW v \in Workers, v # w
        PROVE  Same(Var(v, "pkt")) /\ Same(Var(v, "err"))
    <3>1. v # t
      BY SlotFacts, Zenon
    <3>. QED
      BY <1>0, <2>1, <3>1, SlotFacts, VarFacts, SMTT(60)
  <2>. QED
    BY <1>3, <2>1, ZenonT(30) DEF WorkerSame
<1>7. Settled(t)
  BY Zenon DEF Settled
<1>8. OutInv(w)'
  <2>1. Due(t, AsWritten(pkts[hold[Var(t, "snd")]]))
    BY Zenon DEF SendInv
  <2>2. PICK x : x = AsWritten(pkts[hold[Var(t, "snd")]])
    BY Zenon
  <2>3. IF cb'[t] = 0 THEN Rejects(dgram'[t], x) ELSE Answers(t, dgram'[t], x)
    BY <2>1, <2>2, ZenonT(60) DEF Due
  <2>4. AsWritten(pkts'[hold'[Var(w, "pkt")]]) = x
    BY <1>2, <2>2, Zenon
  <2>. QED
    BY <1>3, <2>3, <2>4, Zenon DEF OutInv, Due, Outgoing
<1>. QED
  BY <1>3, <1>4, <1>5, <1>6, <1>7, <1>8, Zenon

(* The last send of processIncoming. *)
LEMMA TaskSendStep ==
  ASSUME ServerInv, ReplyInv, NEW t \in Tasks, NEW w \in Workers, TaskSend(t, w)
  PROVE  Hands(t, w)
<1>1. /\ TypeOK /\ RecordInv /\ PktsTyped /\ RequestInv(t) /\ SendInv(t)
      /\ Sent(t) => tpc[t] \in {"done", "run"}
  BY Hypotheses, Zenon
<1>2. PICK S : S = {Var(t, "pkt")}
  BY Zenon
<1>3. /\ S \subseteq {Var(t, "pkt")} /\ HandTo(w, Var(t, "snd"), S) /\ Start(w, t)
      /\ tpc[t] \in {"send", "forward"} /\ tpc[t] = "send" /\ dgram' = dgram /\ DOMAIN stat' = Tasks
      /\ cb'[t] = 0 <=> cb[t] = 0
  BY <1>1, <1>2, Zenon DEF TaskSend, RecordInv
<1>4. /\ \A u \in Tasks : u # t => tpc'[u] = tpc[u] /\ cb'[u] = cb[u] /\ stat'[u] = stat[u]
      /\ tpc'[t] = "done"
  BY <1>1, Zenon DEF TaskSend, TypeOK
<1>5. /\ RecordInv' /\ Settled(t) /\ OutInv(w)'
      /\ \A u \in Tasks : u # t => TaskSame(u)
      /\ \A v \in Workers : v # w => WorkerSame(v)
      /\ opc[w] = "unused" /\ opc'[w] = "process" /\ cause' = [cause EXCEPT ![w] = t]
      /\ wire' = wire
  BY <1>1, <1>3, <1>4, HandsOthers, Zenon
<1>6. TaskInv(t)'
  BY <1>1, <1>3, <1>4, Zenon DEF TaskInv, RequestInv, RunInv, SendInv
<1>. QED
  BY <1>1, <1>3, <1>4, <1>5, <1>6, ZenonT(30) DEF Hands
=============================================================================
