------------------------- MODULE UDPServerStepProofs -------------------------
(***************************************************************************)
(* Every step of the server preserves ReplyInv, and is a step of Responder *)
(* or leaves its variables alone: the steps of the workers, the steps of   *)
(* the tasks that UDPServerTaskProofs leaves, and the two combined.        *)
(***************************************************************************)
EXTENDS UDPServerTaskProofs

-----------------------------------------------------------------------------
(* The steps of a worker. *)

\* Only the state of worker w changes, and keeps its domains.
WorkerTouches(w) ==
  /\ tpc' = tpc /\ dgram' = dgram /\ cb' = cb /\ stat' = stat
  /\ \A v \in Workers : v # w => opc'[v] = opc[v] /\ cause'[v] = cause[v] /\ bin'[v] = bin[v]
  /\ DOMAIN bin' = Workers /\ DOMAIN wire' = Tasks

WorkerAlone(w) ==
  /\ \A t \in Tasks : TaskSame(t)
  /\ \A v \in Workers : v # w => WorkerSame(v)

\* Worker w goes on.
Works(w) ==
  /\ RecordInv' /\ WorkerAlone(w) /\ OutInv(w)'
  /\ opc[w] # "unused" /\ opc'[w] # "unused" /\ cause' = cause /\ wire' = wire

\* Worker w is over, and has written nothing or a packet that is due.
Retires(w) ==
  /\ RecordInv' /\ WorkerAlone(w) /\ OutInv(w)'
  /\ opc[w] # "unused" /\ opc'[w] = "unused" /\ cause' = [cause EXCEPT ![w] = NoTask]
  /\ \/ wire' = wire
     \/ \E x : Due(cause[w], x) /\ wire' = [wire EXCEPT ![cause[w]] = Append(@, x)]

(* A worker that changes only its own variables and packets leaves what    *)
(* the invariant says of every task and of the other workers as it is.     *)
LEMMA WorkerTouchesAlone ==
  ASSUME RecordInv, NEW w \in Workers, WorkerTouches(w), PktsTyped',
         \A r \in Slots : r[1] # w => Same(r)
  PROVE  RecordInv' /\ WorkerAlone(w)
<1>1. /\ \A t \in Tasks : Same(Var(t, "pkt")) /\ Same(Var(t, "resp")) /\ Same(Var(t, "snd"))
      /\ \A v \in Workers : v # w => Same(Var(v, "pkt")) /\ Same(Var(v, "err"))
  BY OtherSlots, SlotFacts, Zenon
<1>2. RecordInv'
  BY Zenon DEF RecordInv, WorkerTouches, PktsTyped
<1>3. \A t \in Tasks : TaskSame(t)
  BY <1>1, Zenon DEF TaskSame, WorkerTouches
<1>4. \A v \in Workers : v # w => WorkerSame(v)
  BY <1>1, Zenon DEF WorkerSame, WorkerTouches
<1>. QED
  BY <1>2, <1>3, <1>4, Zenon DEF WorkerAlone

(* What the invariants say of the worker that takes a step. *)
LEMMA WorkerHypotheses ==
  ASSUME ServerInv, ReplyInv, NEW w \in Workers
  PROVE  /\ TypeOK /\ SlotInv /\ Exclusive /\ RecordInv /\ PktsTyped /\ OutInv(w)
         /\ opc[w] # "unused" => cause[w] \in Tasks
<1>1. /\ TypeOK /\ SlotInv /\ Exclusive /\ RecordInv /\ PktsTyped /\ OutInv(w) /\ SentInv
  BY Zenon DEF ServerInv, ReplyInv, RecordInv, PktsTyped
<1>2. opc[w] # "unused" => cause[w] \in Tasks
  BY <1>1, SMTT(60) DEF SentInv, TypeOK
<1>. QED
  BY <1>1, <1>2, Zenon

(* An error that names the same request and goes to the same address is    *)
(* due where any reply is.                                                 *)
LEMMA ErrorDue ==
  ASSUME NEW t, NEW x, Due(t, x), NEW y, y.to = x.to, y.meta.ref = x.meta.ref, y.meta.err
  PROVE  Due(t, y)
<1>1. CASE cb[t] = 0
  BY <1>1, Zenon DEF Due, Rejects
<1>2. CASE cb[t] # 0
  BY <1>2, Zenon DEF Due, Answers
<1>. QED
  BY <1>1, <1>2, Zenon

(* Marshal, ResolveUDPAddr and the data pipeline. *)
LEMMA ProcessOutStep ==
  ASSUME ServerInv, ReplyInv, NEW w \in Workers, ProcessOut(w)
  PROVE  Works(w)
<1>1. TypeOK /\ RecordInv /\ PktsTyped /\ OutInv(w)
  BY WorkerHypotheses, Zenon
<1>2. /\ opc[w] = "process" /\ opc'[w] \in {"write", "fail"} /\ bin'[w] = Marshal(Outgoing(w))
      /\ cause' = cause /\ wire' = wire /\ hold' = hold /\ pkts' = pkts /\ cb' = cb /\ dgram' = dgram
  BY <1>1, Zenon DEF ProcessOut, TypeOK, RecordInv
<1>3. WorkerTouches(w)
  <2>1. \A v \in Workers : v # w => opc'[v] = opc[v] /\ bin'[v] = bin[v]
    BY <1>1, Zenon DEF ProcessOut, TypeOK, RecordInv
  <2>. QED
    BY <1>1, <1>2, <2>1, Zenon DEF ProcessOut, RecordInv, WorkerTouches
<1>4. RecordInv' /\ WorkerAlone(w)
  BY <1>1, <1>2, <1>3, WorkerTouchesAlone, Zenon DEF Same, PktsTyped
<1>5. OutInv(w)'
  BY <1>1, <1>2, Zenon DEF OutInv, Due, Outgoing
<1>. QED
  BY <1>2, <1>4, <1>5, Zenon DEF Works

(* The end of a worker. *)
LEMMA RetireStep ==
  ASSUME ServerInv, ReplyInv, NEW w \in Workers, Retire(w), opc[w] # "unused",
         tpc' = tpc, dgram' = dgram, cb' = cb, stat' = stat, DOMAIN wire' = Tasks
  PROVE  /\ RecordInv' /\ WorkerAlone(w) /\ OutInv(w)'
         /\ opc'[w] = "unused" /\ cause' = [cause EXCEPT ![w] = NoTask]
<1>1. TypeOK /\ RecordInv /\ PktsTyped
  BY WorkerHypotheses, Zenon
<1>2. opc'[w] = "unused" /\ cause' = [cause EXCEPT ![w] = NoTask] /\ PutBack({Var(w, "pkt")})
  BY <1>1, Zenon DEF Retire, TypeOK
<1>3. WorkerTouches(w)
  <2>1. \A v \in Workers : v # w => opc'[v] = opc[v] /\ cause'[v] = cause[v] /\ bin'[v] = bin[v]
    BY <1>1, Zenon DEF Retire, TypeOK, RecordInv
  <2>2. DOMAIN bin' = Workers
    BY <1>1, Zenon DEF Retire, RecordInv
  <2>. QED
    BY <2>1, <2>2, Zenon DEF WorkerTouches
<1>4. (\A r \in Slots : r[1] # w => Same(r)) /\ PktsTyped'
  BY VarFacts, <1>1, <1>2, Zenon DEF PutBack, Same, PktsTyped
<1>5. RecordInv' /\ WorkerAlone(w)
  BY <1>1, <1>3, <1>4, WorkerTouchesAlone, Zenon
<1>6. OutInv(w)'
  BY <1>2, Zenon DEF OutInv
<1>. QED
  BY <1>2, <1>5, <1>6, Zenon

(* processOutgoing puts a packet back and returns without writing it. *)
LEMMA DropStep ==
  ASSUME ServerInv, ReplyInv, NEW w \in Workers, Drop(w)
  PROVE  Retires(w)
<1>1. RecordInv
  BY WorkerHypotheses, Zenon
<1>2. /\ Retire(w) /\ opc[w] # "unused" /\ wire' = wire /\ DOMAIN wire' = Tasks
      /\ tpc' = tpc /\ dgram' = dgram /\ cb' = cb /\ stat' = stat
  BY <1>1, Zenon DEF Drop, RecordInv
<1>. QED
  BY <1>2, RetireStep, Zenon DEF Retires

(* The only write. *)
LEMMA OutWriteStep ==
  ASSUME ServerInv, ReplyInv, NEW w \in Workers, OutWrite(w)
  PROVE  Retires(w)
<1>1. RecordInv /\ OutInv(w)
  BY WorkerHypotheses, Zenon
<1>2. PICK x : x = [to |-> Outgoing(w).dest, meta |-> bin[w].meta, data |-> bin[w].data]
  BY Zenon
<1>3. /\ Retire(w) /\ opc[w] = "write"
      /\ wire' = [wire EXCEPT ![cause[w]] = Append(@, x)]
      /\ tpc' = tpc /\ dgram' = dgram /\ cb' = cb /\ stat' = stat
  BY <1>2, Zenon DEF OutWrite
<1>4. x = AsWritten(Outgoing(w)) /\ Due(cause[w], AsWritten(Outgoing(w)))
  <2>1. bin[w] = Marshal(Outgoing(w)) /\ Due(cause[w], AsWritten(Outgoing(w)))
    BY <1>1, <1>3, Zenon DEF OutInv
  <2>2. bin[w].meta = Outgoing(w).meta /\ bin[w].data = Outgoing(w).data
    BY <2>1, SMTT(60) DEF Marshal
  <2>3. x = AsWritten(Outgoing(w))
    BY <1>2, <2>2, Zenon DEF AsWritten
  <2>. QED
    BY <2>1, <2>3, Zenon
<1>5. opc[w] # "unused" /\ DOMAIN wire' = Tasks
  BY <1>1, <1>3, Zenon DEF RecordInv
<1>6. /\ RecordInv' /\ WorkerAlone(w) /\ OutInv(w)'
      /\ opc'[w] = "unused" /\ cause' = [cause EXCEPT ![w] = NoTask]
  BY <1>3, <1>5, RetireStep, Zenon
<1>7. \E y : Due(cause[w], y) /\ wire' = [wire EXCEPT ![cause[w]] = Append(@, y)]
  BY <1>3, <1>4, Zenon
<1>. QED
  BY <1>5, <1>6, <1>7, Zenon DEF Retires

(* NewErrPkt about a packet that the pipeline refused. *)
LEMMA MakeOutErrPktStep ==
  ASSUME ServerInv, ReplyInv, NEW w \in Workers, MakeOutErrPkt(w)
  PROVE  Works(w)
<1>1. TypeOK /\ SlotInv /\ Exclusive /\ RecordInv /\ PktsTyped /\ OutInv(w)
  BY WorkerHypotheses, Zenon
<1>2. /\ opc[w] = "fail" /\ opc'[w] = "send" /\ cause' = cause /\ wire' = wire /\ bin' = bin
      /\ cb' = cb /\ dgram' = dgram
  BY <1>1, Zenon DEF MakeOutErrPkt, TypeOK
<1>3. WorkerTouches(w)
  BY <1>1, Zenon DEF MakeOutErrPkt, TypeOK, RecordInv, WorkerTouches
<1> DEFINE c(p) == NewErrPkt(pkts[p], Outgoing(w).meta.ref, Outgoing(w).dest)
<1>4. PICK p \in Pkts : Obtain(Var(w, "err"), p, c(p))
  BY Zenon DEF MakeOutErrPkt
<1>5. /\ IsPkt(c(p))
      /\ c(p).meta = [EmptyMeta EXCEPT !.ref = Outgoing(w).meta.ref, !.err = TRUE]
      /\ c(p).dest = Outgoing(w).dest
  <2>1. IsPkt(pkts[p])
    BY <1>1, Zenon DEF PktsTyped
  <2>2. IsPkt(c(p))
    BY <2>1, NewPktFields, Zenon
  <2>3. c(p).meta = ErrMeta(Outgoing(w).meta.ref)
    BY <2>1, NewPktFields, SMTT(60)
  <2>4. c(p).dest = Outgoing(w).dest
    BY <2>1, NewPktFields, SMTT(60)
  <2>. QED
    BY <2>2, <2>3, <2>4, Zenon DEF ErrMeta
<1> HIDE DEF c
<1>6. /\ Var(w, "err") \in Slots /\ Var(w, "pkt") \in Slots /\ hold[Var(w, "err")] = NoPkt
      /\ hold[Var(w, "pkt")] # NoPkt
  BY <1>1, <1>2, SlotFacts, Zenon DEF SlotInv
<1>7. /\ \A r \in Slots : r # Var(w, "err") => Same(r)
      /\ hold'[Var(w, "err")] = p /\ pkts'[p] = c(p) /\ p # NoPkt /\ PktsTyped'
  BY <1>1, <1>4, <1>5, <1>6, ObtainSame, Zenon
<1>8. RecordInv' /\ WorkerAlone(w)
  <2>1. \A r \in Slots : r[1] # w => Same(r)
    BY <1>7, VarFacts, Zenon
  <2>. QED
    BY <1>1, <1>3, <1>7, <2>1, WorkerTouchesAlone, Zenon
<1>9. OutInv(w)'
  <2>1. PICK x : x = AsWritten(Outgoing(w))
    BY Zenon
  <2>2. PICK y : y = AsWritten(c(p))
    BY Zenon
  <2>3. Due(cause[w], x)
    BY <1>1, <1>2, <2>1, Zenon DEF OutInv
  <2>4. y.to = x.to /\ y.meta.ref = x.meta.ref /\ y.meta.err
    BY <1>5, <2>1, <2>2, Zenon DEF AsWritten, EmptyMeta
  <2>5. Due(cause[w], y)
    BY <2>3, <2>4, ErrorDue, Zenon
  <2>6. Due(cause[w], x)' /\ Due(cause[w], y)'
    BY <1>2, <2>3, <2>5, Zenon DEF Due
  <2>7. AsWritten(Outgoing(w))' = x
    BY <1>6, <1>7, <2>1, Zenon DEF Same, Outgoing
  <2>8. AsWritten(pkts'[hold'[Var(w, "err")]]) = y
    BY <1>7, <2>2, Zenon
  <2>. QED
    BY <1>2, <2>6, <2>7, <2>8, Zenon DEF OutInv
<1>. QED
  BY <1>2, <1>8, <1>9, Zenon DEF Works

(* The error packet takes the place of the packet it is about. *)
LEMMA OutSendStep ==
  ASSUME ServerInv, ReplyInv, NEW w \in Workers, OutSend(w)
  PROVE  Works(w)
<1>1. TypeOK /\ RecordInv /\ PktsTyped /\ OutInv(w)
  BY WorkerHypotheses, Zenon
<1>2. /\ opc[w] = "send" /\ opc'[w] = "process" /\ cause' = cause /\ wire' = wire
      /\ cb' = cb /\ dgram' = dgram /\ pkts' = pkts
      /\ hold' = [hold EXCEPT ![Var(w, "pkt")] = hold[Var(w, "err")], ![Var(w, "err")] = NoPkt]
  BY <1>1, Zenon DEF OutSend, TypeOK
<1>3. WorkerTouches(w)
  BY <1>1, Zenon DEF OutSend, TypeOK, RecordInv, WorkerTouches
<1>4. /\ \A r \in Slots : r[1] # w => hold'[r] = hold[r]
      /\ hold'[Var(w, "pkt")] = hold[Var(w, "err")]
  <2>1. Var(w, "pkt") \in Slots /\ Var(w, "pkt") # Var(w, "err") /\ DOMAIN hold = Slots
    BY <1>1, SlotFacts, VarFacts, Zenon DEF TypeOK
  <2>. QED
    BY <1>2, <2>1, VarFacts, SMTT(60)
<1>5. RecordInv' /\ WorkerAlone(w)
  BY <1>1, <1>2, <1>3, <1>4, WorkerTouchesAlone, Zenon DEF Same, PktsTyped
<1>6. OutInv(w)'
  <2>1. PICK x : x = AsWritten(pkts[hold[Var(w, "err")]])
    BY Zenon
  <2>2. Due(cause[w], x)
    BY <1>1, <1>2, <2>1, Zenon DEF OutInv
  <2>3. Due(cause[w], x)'
    BY <1>2, <2>2, Zenon DEF Due
  <2>4. AsWritten(Outgoing(w))' = x
    BY <1>2, <1>4, <2>1, Zenon DEF Outgoing
  <2>. QED
    BY <1>2, <2>3, <2>4, Zenon DEF OutInv
<1>. QED
  BY <1>2, <1>5, <1>6, Zenon DEF Works

-----------------------------------------------------------------------------
(* The invariant, put together. *)

(* What is due when a packet has been sent stays due, so a worker that     *)
(* does nothing keeps its invariant.                                       *)
LEMMA DueStays ==
  ASSUME ServerInv, ReplyInv, \A t \in Tasks : Settled(t)
  PROVE  /\ \A t \in Tasks : Sent(t) => dgram'[t] = dgram[t] /\ (cb'[t] = 0 <=> cb[t] = 0)
         /\ \A w \in Workers : WorkerSame(w) => OutInv(w)'
<1>1. ASSUME NEW t \in Tasks, Sent(t) PROVE dgram'[t] = dgram[t] /\ (cb'[t] = 0 <=> cb[t] = 0)
  <2>1. tpc[t] \in {"done", "run"}
    BY <1>1, Hypotheses, Zenon
  <2>. QED
    BY <2>1, Zenon DEF Settled
<1>2. ASSUME NEW w \in Workers, WorkerSame(w) PROVE OutInv(w)'
  <2>1. SlotInv /\ OutInv(w) /\ (opc[w] # "unused" => cause[w] \in Tasks)
    BY WorkerHypotheses, Zenon
  <2>2. opc[w] # "unused" => /\ dgram'[cause[w]] = dgram[cause[w]]
                             /\ cb'[cause[w]] = 0 <=> cb[cause[w]] = 0
    <3>1. SUFFICES ASSUME opc[w] # "unused"
                   PROVE  /\ dgram'[cause[w]] = dgram[cause[w]]
                          /\ cb'[cause[w]] = 0 <=> cb[cause[w]] = 0
      BY Zenon
    <3>2. PICK u \in Tasks : cause[w] = u
      BY <2>1, <3>1, Zenon
    <3>3. Sent(u)
      BY <3>2, Zenon DEF Sent
    <3>. QED
      BY <1>1, <3>2, <3>3, Zenon
  <2>. QED
    BY <1>2, <2>1, <2>2, WorkerSameInv, Zenon
<1>. QED
  BY <1>1, <1>2, Zenon

(* What was written stays faithful. *)
LEMMA WireStays ==
  ASSUME ServerInv, ReplyInv, \A t \in Tasks : Settled(t), NEW t \in Tasks,
         NEW i \in DOMAIN wire[t]
  PROVE  IF cb'[t] = 0 THEN Rejects(dgram'[t], wire[t][i]) ELSE Answers(t, dgram'[t], wire[t][i])
<1>1. wire[t] # <<>>
  BY SMTT(60)
<1>2. dgram'[t] = dgram[t] /\ (cb'[t] = 0 <=> cb[t] = 0)
  BY <1>1, DueStays, Zenon DEF Sent
<1>3. RepliesFaithful
  BY Zenon DEF ReplyInv
<1>. QED
  BY <1>2, <1>3, Zenon DEF RepliesFaithful

(* Where nothing is written, what was written stays due. *)
LEMMA RepliesStay ==
  ASSUME ServerInv, ReplyInv, \A t \in Tasks : Settled(t), wire' = wire
  PROVE  RepliesFaithful'
<1>1. \A t \in Tasks : \A i \in DOMAIN wire'[t] :
        IF cb'[t] = 0 THEN Rejects(dgram'[t], wire'[t][i]) ELSE Answers(t, dgram'[t], wire'[t][i])
  BY WireStays, Zenon
<1>. QED
  BY <1>1, Zenon DEF RepliesFaithful

(* The tasks that a step leaves alone. *)
LEMMA TasksStay ==
  ASSUME ServerInv, ReplyInv, NEW t \in Tasks, TaskSame(t)
  PROVE  TaskInv(t)' /\ Settled(t)
<1>1. SlotInv /\ TaskInv(t)
  BY Hypotheses, Zenon
<1>. QED
  BY <1>1, TaskSameInv, Zenon

(* Steps that touch neither a task nor a worker, and steps of a task. *)
LEMMA AdvancesInv ==
  ASSUME ServerInv, ReplyInv, RecordInv', cause' = cause, opc' = opc, wire' = wire,
         \A w \in Workers : WorkerSame(w),
         \A u \in Tasks : TaskSame(u) \/ Advances(u)
  PROVE  ReplyInv'
<1>1. \A u \in Tasks : TaskInv(u)' /\ Settled(u)
  BY TasksStay, Zenon DEF Advances
<1>2. \A w \in Workers : OutInv(w)'
  BY <1>1, DueStays, Zenon
<1>3. RepliesFaithful'
  BY <1>1, RepliesStay, ZenonT(60)
<1>4. SentInv'
  <2>1. SentInv
    BY Zenon DEF ReplyInv
  <2>2. ASSUME NEW u \in Tasks, Sent(u)
        PROVE  \/ tpc'[u] = "done"
               \/ tpc'[u] = "run" /\ stat'[u] = "noop" /\ dgram'[u].meta.tgt \in Targets
    <3>1. CASE Advances(u)
      BY <2>2, <3>1, Zenon DEF Advances
    <3>2. CASE TaskSame(u)
      BY <2>1, <2>2, <3>2, Zenon DEF SentInv, TaskSame
    <3>. QED
      BY <3>1, <3>2, Zenon
  <2>3. \A u \in Tasks : Sent(u)' <=> Sent(u)
    BY Zenon DEF Sent
  <2>. QED
    BY <2>1, <2>2, <2>3, SMTT(60) DEF SentInv
<1>. QED
  BY <1>1, <1>2, <1>3, <1>4, Zenon DEF ReplyInv, TaskInv

(* A step of one task. *)
LEMMA OneAdvances ==
  ASSUME ServerInv, ReplyInv, NEW t \in Tasks, Advances(t)
  PROVE  ReplyInv'
  BY AdvancesInv, Zenon DEF Advances, Alone

(* A send on sendStream. *)
LEMMA HandsInv ==
  ASSUME ServerInv, ReplyInv, NEW t \in Tasks, NEW w \in Workers, Hands(t, w)
  PROVE  ReplyInv'
<1>1. \A u \in Tasks : TaskInv(u)' /\ Settled(u)
  BY TasksStay, Zenon DEF Hands
<1>2. \A v \in Workers : OutInv(v)'
  BY <1>1, DueStays, Zenon DEF Hands
<1>3. RepliesFaithful' /\ RecordInv'
  BY <1>1, RepliesStay, Zenon DEF Hands
<1>4. SentInv'
  <2>1. SentInv /\ TypeOK
    BY ZenonT(60) DEF ReplyInv, ServerInv
  <2>2. /\ opc[w] = "unused" /\ opc'[w] = "process" /\ cause'[w] = t /\ wire' = wire
        /\ cause[w] = NoTask /\ NoTask \notin Tasks /\ wire[t] = <<>>
        /\ \A v \in Workers : cause[v] # t
        /\ \A v \in Workers : v # w => cause'[v] = cause[v] /\ opc'[v] = opc[v]
    BY <2>1, ServerAssumption, SMTT(60) DEF Hands, TypeOK, SentInv, Sent, WorkerSame
  <2>3. ASSUME NEW v \in Workers PROVE cause'[v] = NoTask <=> opc'[v] = "unused"
    <3>1. CASE v = w
      BY <2>2, <3>1, ZenonT(60)
    <3>2. CASE v # w
      BY <2>1, <2>2, <3>2, SMTT(60) DEF SentInv
    <3>. QED
      BY <3>1, <3>2, Zenon
  <2>4. \A v, x \in Workers : cause'[v] = cause'[x] /\ cause'[v] # NoTask => v = x
    BY <2>1, <2>2, SMTT(60) DEF SentInv
  <2>5. ASSUME NEW u \in Tasks, wire'[u] # <<>>
        PROVE  Len(wire'[u]) = 1 /\ \A v \in Workers : cause'[v] # u
    BY <2>1, <2>2, <2>5, SMTT(60) DEF SentInv
  <2>6. ASSUME NEW u \in Tasks, Sent(u)'
        PROVE  \/ tpc'[u] = "done"
               \/ tpc'[u] = "run" /\ stat'[u] = "noop" /\ dgram'[u].meta.tgt \in Targets
    <3>1. CASE u = t
      BY <3>1, Zenon DEF Hands
    <3>2. CASE u # t
      <4>1. Sent(u)
        BY <2>2, <2>6, <3>2, Zenon DEF Sent
      <4>2. TaskSame(u)
        BY <3>2, Zenon DEF Hands
      <4>. QED
        BY <2>1, <4>1, <4>2, Zenon DEF SentInv, TaskSame
    <3>. QED
      BY <3>1, <3>2, Zenon
  <2>. QED
    BY <2>3, <2>4, <2>5, <2>6, ZenonT(60) DEF SentInv
<1>. QED
  BY <1>1, <1>2, <1>3, <1>4, ZenonT(60) DEF ReplyInv, TaskInv

(* A step of a worker that goes on. *)
LEMMA WorksInv ==
  ASSUME ServerInv, ReplyInv, NEW w \in Workers, Works(w)
  PROVE  ReplyInv'
<1>1. \A u \in Tasks : TaskSame(u) /\ TaskInv(u)' /\ Settled(u)
  BY TasksStay, Zenon DEF Works, WorkerAlone
<1>2. \A v \in Workers : OutInv(v)'
  BY <1>1, DueStays, Zenon DEF Works, WorkerAlone
<1>3. RepliesFaithful' /\ RecordInv'
  BY <1>1, RepliesStay, ZenonT(60) DEF Works
<1>4. SentInv'
  <2>1. SentInv
    BY Zenon DEF ReplyInv
  <2>2. /\ cause' = cause /\ wire' = wire
        /\ \A v \in Workers : opc'[v] = "unused" <=> opc[v] = "unused"
    BY Zenon DEF Works, WorkerAlone, WorkerSame
  <2>3. \A u \in Tasks : Sent(u)' <=> Sent(u)
    BY <2>2, Zenon DEF Sent
  <2>4. \A u \in Tasks : tpc'[u] = tpc[u] /\ stat'[u] = stat[u] /\ dgram'[u] = dgram[u]
    BY <1>1, Zenon DEF TaskSame
  <2>. QED
    BY <2>1, <2>2, <2>3, <2>4, SMTT(60) DEF SentInv
<1>. QED
  BY <1>1, <1>2, <1>3, <1>4, ZenonT(60) DEF ReplyInv, TaskInv

(* What a worker that is over has written is the only reply. *)
LEMMA RetiresWire ==
  ASSUME ServerInv, ReplyInv, NEW w \in Workers, Retires(w), wire' # wire
  PROVE  \E t \in Tasks : \E x :
           /\ t = cause[w] /\ wire[t] = <<>> /\ Due(t, x) /\ wire' = [wire EXCEPT ![t] = <<x>>]
<1>1. TypeOK /\ SentInv /\ RecordInv
  BY Zenon DEF ServerInv, ReplyInv
<1>2. PICK x : Due(cause[w], x) /\ wire' = [wire EXCEPT ![cause[w]] = Append(@, x)]
  BY Zenon DEF Retires
<1>3. PICK t \in Tasks : t = cause[w]
  BY <1>1, WorkerHypotheses, Zenon DEF Retires
<1>4. wire[t] = <<>>
  BY <1>1, <1>3, Zenon DEF SentInv
<1>5. wire' = [wire EXCEPT ![t] = <<x>>]
  <2>1. Append(<<>>, x) = <<x>>
    BY SMTT(60)
  <2>. QED
    BY <1>2, <1>3, <1>4, <2>1, Zenon
<1>6. Due(t, x)
  BY <1>2, <1>3, Zenon
<1>. QED
  BY <1>3, <1>4, <1>5, <1>6, Zenon

(* The end of a worker. *)
LEMMA RetiresInv ==
  ASSUME ServerInv, ReplyInv, NEW w \in Workers, Retires(w)
  PROVE  ReplyInv'
<1>1. \A u \in Tasks : TaskSame(u) /\ TaskInv(u)' /\ Settled(u)
  BY TasksStay, Zenon DEF Retires, WorkerAlone
<1>2. \A v \in Workers : OutInv(v)'
  BY <1>1, DueStays, Zenon DEF Retires, WorkerAlone
<1>3. SentInv /\ TypeOK /\ RecordInv /\ RecordInv'
  BY Zenon DEF ReplyInv, ServerInv, Retires
<1>4. /\ cause'[w] = NoTask /\ opc'[w] = "unused" /\ NoTask \notin Tasks
      /\ \A v \in Workers : v # w => cause'[v] = cause[v] /\ opc'[v] = opc[v]
  BY <1>3, ServerAssumption, Zenon DEF Retires, WorkerAlone, WorkerSame, TypeOK
<1>5. /\ \A v \in Workers : cause'[v] = NoTask <=> opc'[v] = "unused"
      /\ \A v, x \in Workers : cause'[v] = cause'[x] /\ cause'[v] # NoTask => v = x
  <2>1. ASSUME NEW v \in Workers PROVE cause'[v] = NoTask <=> opc'[v] = "unused"
    <3>1. CASE v = w
      BY <1>4, <3>1, Zenon
    <3>2. CASE v # w
      BY <1>3, <1>4, <3>2, SMTT(60) DEF SentInv
    <3>. QED
      BY <3>1, <3>2, Zenon
  <2>2. \A v, x \in Workers : cause'[v] = cause'[x] /\ cause'[v] # NoTask => v = x
    BY <1>3, <1>4, SMTT(60) DEF SentInv
  <2>. QED
    BY <2>1, <2>2, Zenon
<1>6. \A u \in Tasks : tpc'[u] = tpc[u] /\ stat'[u] = stat[u] /\ dgram'[u] = dgram[u]
                       /\ cb'[u] = cb[u]
  BY <1>1, Zenon DEF TaskSame
<1>7. CASE wire' = wire
  <2>1. RepliesFaithful'
    BY <1>1, <1>7, RepliesStay, Zenon
  <2>2. \A u \in Tasks : Sent(u)' => Sent(u)
    BY <1>4, <1>7, Zenon DEF Sent
  <2>3. \A u \in Tasks : wire'[u] # <<>> => Len(wire'[u]) = 1 /\ \A v \in Workers : cause'[v] # u
    BY <1>3, <1>4, <1>7, SMTT(60) DEF SentInv
  <2>4. SentInv'
    BY <1>3, <1>5, <1>6, <2>2, <2>3, SMTT(60) DEF SentInv
  <2>. QED
    BY <1>1, <1>2, <1>3, <2>1, <2>4, ZenonT(60) DEF ReplyInv, TaskInv
<1>8. CASE wire' # wire
  <2>0. PICK t \in Tasks : \E y :
          /\ t = cause[w] /\ wire[t] = <<>> /\ Due(t, y) /\ wire' = [wire EXCEPT ![t] = <<y>>]
    BY <1>8, RetiresWire, Zenon
  <2>1. PICK x :
          /\ t = cause[w] /\ wire[t] = <<>> /\ Due(t, x) /\ wire' = [wire EXCEPT ![t] = <<x>>]
    BY <2>0, Zenon
  <2>2. wire'[t] = <<x>> /\ \A u \in Tasks : u # t => wire'[u] = wire[u]
    BY <1>3, <2>1, Zenon DEF RecordInv
  <2>3. RepliesFaithful'
    <3>1. ASSUME NEW u \in Tasks, NEW i \in DOMAIN wire'[u]
          PROVE  IF cb'[u] = 0 THEN Rejects(dgram'[u], wire'[u][i])
                 ELSE Answers(u, dgram'[u], wire'[u][i])
      <4>1. CASE u = t
        <5>1. wire'[u][i] = x
          BY <2>2, <3>1, <4>1, SMTT(60)
        <5>. QED
          BY <1>6, <2>1, <4>1, <5>1, Zenon DEF Due
      <4>2. CASE u # t
        BY <1>1, <2>2, <3>1, <4>2, WireStays, ZenonT(60)
      <4>. QED
        BY <4>1, <4>2, Zenon
    <3>. QED
      BY <3>1, Zenon DEF RepliesFaithful
  <2>4. \A u \in Tasks : Sent(u)' => Sent(u)
    BY <1>4, <2>1, <2>2, SMTT(60) DEF Sent
  <2>5. ASSUME NEW u \in Tasks, wire'[u] # <<>>
        PROVE  Len(wire'[u]) = 1 /\ \A v \in Workers : cause'[v] # u
    <3>1. CASE u = t
      <4>1. Len(wire'[u]) = 1
        BY <2>2, <3>1, ZenonT(60)
      <4>2. \A v \in Workers : cause'[v] # u
        BY <1>3, <1>4, <2>1, <3>1, SMTT(60) DEF SentInv
      <4>. QED
        BY <4>1, <4>2, Zenon
    <3>2. CASE u # t
      BY <1>3, <1>4, <2>2, <2>5, <3>2, SMTT(60) DEF SentInv
    <3>. QED
      BY <3>1, <3>2, Zenon
  <2>6. SentInv'
    BY <1>3, <1>5, <1>6, <2>4, <2>5, SMTT(60) DEF SentInv
  <2>. QED
    BY <1>1, <1>2, <1>3, <2>3, <2>6, SMTT(60) DEF ReplyInv, TaskInv
<1>. QED
  BY <1>7, <1>8, Zenon

(* Before anything is read. *)
LEMMA InitReplyInv == Init => ReplyInv
<1> SUFFICES ASSUME Init PROVE ReplyInv
  BY Zenon
<1>1. RecordInv
  <2>1. IsPkt(FreshPkt)
    BY Zenon DEF IsPkt
  <2>2. DOMAIN pkts = Pkts /\ \A p \in Pkts : pkts[p] = FreshPkt
    BY Zenon DEF Init
  <2>3. /\ dgram \in [Tasks -> Datagrams \cup {NoDatagram}]
        /\ DOMAIN stat = Tasks /\ DOMAIN bin = Workers /\ DOMAIN wire = Tasks
    BY Zenon DEF Init
  <2>. QED
    BY <2>1, <2>2, <2>3, Zenon DEF RecordInv
<1>2. \A t \in Tasks : /\ tpc[t] = "unused" /\ dgram[t] = NoDatagram /\ cb[t] = 0
                       /\ stat[t] = "continue" /\ wire[t] = <<>>
  BY Zenon DEF Init
<1>3. \A w \in Workers : opc[w] = "unused" /\ cause[w] = NoTask
  BY Zenon DEF Init
<1>4. \A t \in Tasks : ~Sent(t)
  BY <1>2, <1>3, ServerAssumption, SMTT(60) DEF Sent
<1>5. SentInv
  BY <1>2, <1>3, <1>4, Zenon DEF SentInv
<1>6. \A t \in Tasks : RequestInv(t) /\ RunInv(t) /\ SendInv(t)
  BY <1>2, Zenon DEF RequestInv, RunInv, SendInv
<1>7. \A w \in Workers : OutInv(w)
  BY <1>3, Zenon DEF OutInv
<1>8. RepliesFaithful
  BY <1>2, SMTT(60) DEF RepliesFaithful
<1>. QED
  BY <1>1, <1>5, <1>6, <1>7, <1>8, ZenonT(60) DEF ReplyInv

(* The steps of Serve and writePkts, of which the packets know nothing. *)
LEMMA QuietInv ==
  ASSUME ServerInv, ReplyInv,
         UNCHANGED <<tpc, dgram, cb, stat, opc, cause, bin, wire, hold, pkts>>
  PROVE  ReplyInv'
<1>1. RecordInv'
  BY Zenon DEF ReplyInv, RecordInv
<1>2. \A t \in Tasks : TaskSame(t)
  BY Zenon DEF TaskSame, Same
<1>3. \A w \in Workers : WorkerSame(w)
  BY Zenon DEF WorkerSame, Same
<1>. QED
  BY <1>1, <1>2, <1>3, AdvancesInv, Zenon

-----------------------------------------------------------------------------
(* The steps that depend on how many callbacks have written. *)

\* A callback that writes adds its bytes to those written before.
WriteLaw ==
  \A t, q : /\ WrittenAfter(t, q, 0) = <<>>
            /\ \A k \in Nat :
                 WrittenAfter(t, q, k + 1) = IF q[k + 1] \in {"write", "closeSend"}
                                               THEN WrittenAfter(t, q, k) \o <<t>>
                                               ELSE WrittenAfter(t, q, k)

(* NewPkt for the response. *)
LEMMA MakeResponseStep ==
  ASSUME WriteLaw, ServerInv, ReplyInv, NEW t \in Tasks, MakeResponse(t)
  PROVE  Advances(t)
<1>1. /\ TypeOK /\ SlotInv /\ Exclusive /\ RecordInv /\ PktsTyped /\ RequestInv(t)
      /\ Sent(t) => tpc[t] \in {"done", "run"}
  BY Hypotheses, Zenon
<1>2. /\ tpc[t] = "resp" /\ tpc'[t] = "run" /\ dgram'[t] = dgram[t] /\ cb'[t] = 1
      /\ stat'[t] = stat[t] /\ stat[t] = "continue" /\ Touches(t)
  BY <1>1, Zenon DEF MakeResponse, TypeOK, RecordInv, RequestInv, Touches, output
<1>3. PICK p \in Pkts :
        Obtain(Var(t, "resp"), p, NewPkt(pkts[p], Request(t).meta.ref, dgram[t].from))
  BY Zenon DEF MakeResponse
<1> DEFINE c == NewPkt(pkts[p], Request(t).meta.ref, dgram[t].from)
<1>4. /\ IsPkt(c) /\ c.meta = [EmptyMeta EXCEPT !.ref = Request(t).meta.ref]
      /\ c.buff = <<>> /\ c.dest = dgram[t].from
  <2>1. IsPkt(pkts[p])
    BY <1>1, Zenon DEF PktsTyped
  <2>2. IsPkt(c)
    BY <2>1, NewPktFields, Zenon
  <2>3. c.meta = RefMeta(Request(t).meta.ref)
    BY <2>1, NewPktFields, SMTT(60)
  <2>4. c.buff = <<>> /\ c.dest = dgram[t].from
    BY <2>1, NewPktFields, SMTT(60)
  <2>. QED
    BY <2>2, <2>3, <2>4, Zenon DEF RefMeta
<1> HIDE DEF c
<1>5. hold[Var(t, "resp")] = NoPkt /\ Var(t, "resp") \in Slots /\ Var(t, "pkt") \in Slots
  BY <1>1, <1>2, SlotFacts, Zenon DEF SlotInv
<1>6. /\ \A r \in Slots : r # Var(t, "resp") => Same(r)
      /\ hold'[Var(t, "resp")] = p /\ pkts'[p] = c /\ p # NoPkt /\ PktsTyped'
  BY <1>1, <1>3, <1>4, <1>5, ObtainSame, ZenonT(60) DEF c
<1>7. RecordInv' /\ Alone(t)
  BY <1>1, <1>2, <1>6, TouchesOne, ZenonT(60)
<1>8. /\ hold[Var(t, "pkt")] # NoPkt /\ Unmarshals(dgram[t])
      /\ Request(t).meta = dgram[t].meta /\ Request(t).buff = DecodeString(dgram[t].data)
  BY <1>1, <1>2, Zenon DEF RequestInv
<1>9. hold'[Var(t, "pkt")] = hold[Var(t, "pkt")] /\ Request(t)' = Request(t)
  BY VarFacts, <1>5, <1>6, <1>8, ZenonT(60) DEF Same, Request
<1>10. RequestInv(t)'
  BY <1>1, <1>2, <1>8, <1>9, SMTT(60) DEF RequestInv
<1>11. RanInv(t, dgram[t], 0, "continue", c)
  <2>1. c.meta = [EmptyMeta EXCEPT !.ref = dgram[t].meta.ref, !.dst = c.meta.dst]
    BY <1>4, <1>8, Zenon DEF EmptyMeta
  <2>2. Len(QueueOf(dgram[t])) \in Nat
    BY ServerAssumption, SMTT(60) DEF QueueOf
  <2>3. WrittenAfter(t, QueueOf(dgram[t]), 0) = <<>>
    BY Zenon DEF WriteLaw
  <2>4. StatAfter(QueueOf(dgram[t]), 0) = "continue"
    BY SMTT(60) DEF StatAfter
  <2>. QED
    BY <1>4, <2>1, <2>2, <2>3, <2>4, SMTT(60) DEF RanInv
<1>12. RunInv(t)'
  BY <1>2, <1>6, <1>11, SMTT(60) DEF RunInv
<1>13. SendInv(t)'
  BY <1>2, Zenon DEF SendInv
<1>. QED
  BY <1>1, <1>2, <1>7, <1>10, <1>12, <1>13, ZenonT(60) DEF Advances, Settled, TaskInv

\* What an application callback of this kind makes of the response r of t.
Ran(kind, t, r, c) ==
  \/ kind \in {"write", "closeSend"} /\ c = Write(r, <<t>>)
  \/ kind = "relay" /\ \E dst \in RelayDests : c = [r EXCEPT !.meta.dst = dst]
  \/ kind \in {"noop", "error"} /\ c = r

(* It keeps what RanInv says of the response. *)
LEMMA CallbackRan ==
  ASSUME WriteLaw, NEW t, NEW d, NEW q, q = QueueOf(d), NEW k \in Nat, k + 1 <= Len(q),
         \A i \in 1..k : ~Ends(q[i]), NEW s, NEW r, RanInv(t, d, k, s, r), IsPkt(r),
         q[k + 1] = "write" => StatAfter(q, k + 1) = s,
         q[k + 1] # "write" => StatAfter(q, k + 1) = q[k + 1], NEW c,
         Ran(q[k + 1], t, r, c)
  PROVE  IsPkt(c) /\ RanInv(t, d, k + 1, StatAfter(q, k + 1), c)
<1>1. /\ r.meta = [EmptyMeta EXCEPT !.ref = d.meta.ref, !.dst = r.meta.dst]
      /\ s = "relay" => r.meta.dst \in RelayDests
      /\ r.buff = WrittenAfter(t, q, k) /\ r.dest = d.from
  BY Zenon DEF RanInv
<1>2. WrittenAfter(t, q, k + 1) = IF q[k + 1] \in {"write", "closeSend"}
                                    THEN WrittenAfter(t, q, k) \o <<t>>
                                    ELSE WrittenAfter(t, q, k)
  BY Zenon DEF WriteLaw
<1>3. /\ IsPkt(c) /\ c.dest = r.dest
      /\ c.buff = WrittenAfter(t, q, k + 1)
      /\ q[k + 1] # "relay" => c.meta = r.meta
      /\ q[k + 1] = "relay" => /\ c.meta = [r.meta EXCEPT !.dst = c.meta.dst]
                               /\ c.meta.dst \in RelayDests
  <2>1. CASE q[k + 1] \in {"write", "closeSend"}
    <3>1. c = Write(r, <<t>>) /\ q[k + 1] # "relay"
      BY <2>1, Zenon DEF Ran
    <3>2. IsPkt(c)
      BY <3>1, WriteCloseFields, Zenon
    <3>3. c.buff = r.buff \o <<t>> /\ c.meta = r.meta /\ c.dest = r.dest
      BY <3>1, WriteCloseFields, Zenon
    <3>. QED
      BY <1>1, <1>2, <2>1, <3>1, <3>2, <3>3, ZenonT(60)
  <2>2. CASE q[k + 1] = "relay"
    <3>1. PICK dst \in RelayDests : c = [r EXCEPT !.meta.dst = dst]
      BY <2>2, Zenon DEF Ran
    <3>2. WrittenAfter(t, q, k + 1) = WrittenAfter(t, q, k)
      BY <1>2, <2>2, Zenon
    <3>3. "dst" \in DOMAIN r.meta
      BY <1>1, ZenonT(60) DEF EmptyMeta
    <3>4. DOMAIN r = {"meta", "data", "buff", "dest"}
      BY Zenon DEF FreshPkt, IsPkt
    <3>5. /\ c.meta = [r.meta EXCEPT !.dst = dst] /\ c.buff = r.buff /\ c.dest = r.dest
          /\ DOMAIN c = DOMAIN r
      BY <3>1, <3>4, Zenon
    <3>6. c.meta.dst = dst
      BY <3>3, <3>5, Zenon
    <3>7. IsPkt(c)
      BY <3>5, Zenon DEF IsPkt
    <3>. QED
      BY <1>1, <2>2, <3>2, <3>5, <3>6, <3>7, ZenonT(60)
  <2>3. CASE q[k + 1] \in {"noop", "error"}
    <3>1. WrittenAfter(t, q, k + 1) = WrittenAfter(t, q, k) /\ c = r /\ q[k + 1] # "relay"
      BY <1>2, <2>3, Zenon DEF Ran
    <3>. QED
      BY <1>1, <3>1, Zenon
  <2>. QED
    BY <2>1, <2>2, <2>3, Zenon DEF Ran
<1>4. c.meta = [EmptyMeta EXCEPT !.ref = d.meta.ref, !.dst = c.meta.dst]
  BY <1>1, <1>3, ZenonT(60) DEF EmptyMeta
<1>5. StatAfter(q, k + 1) = "relay" => c.meta.dst \in RelayDests
  BY <1>1, <1>3, Zenon
<1>6. k + 1 <= Len(q) /\ \A i \in 1..((k + 1) - 1) : ~Ends(q[i])
  BY SMTT(60)
<1>7. c.buff = WrittenAfter(t, q, k + 1) /\ c.dest = d.from
  BY <1>1, <1>3, Zenon
<1>. QED
  BY <1>3, <1>4, <1>5, <1>6, <1>7, ZenonT(60) DEF RanInv

(* An application callback. *)
LEMMA RunCallbackStep ==
  ASSUME WriteLaw, ServerInv, ReplyInv, NEW t \in Tasks, RunCallback(t)
  PROVE  Advances(t)
<1>1. /\ TypeOK /\ SlotInv /\ Exclusive /\ RecordInv /\ PktsTyped /\ RequestInv(t) /\ RunInv(t)
      /\ Sent(t) => tpc[t] = "done" \/ stat[t] = "noop"
  BY Hypotheses, Zenon
<1>2. PICK q : q = QueueOf(dgram[t])
  BY Zenon
<1>3. PICK k : k = cb[t] - 1
  BY Zenon
<1>4. Running(t) /\ tpc[t] = "run"
  BY Zenon DEF RunCallback, Running
<1>5. /\ dgram[t].meta.tgt \in Targets /\ q = Queues[dgram[t].meta.tgt] /\ Queue(t) = q
      /\ k \in Nat /\ cb[t] = k + 1 /\ k + 1 <= Len(q) /\ \A i \in 1..k : ~Ends(q[i])
      /\ q[k + 1] \in CallbackKinds
      /\ stat[t] = StatAfter(q, k) /\ ~Stops(stat[t])
      /\ q[k + 1] = "write" => StatAfter(q, k + 1) = stat[t]
      /\ q[k + 1] \notin {"write", "forward"} => StatAfter(q, k + 1) = q[k + 1]
  <2>1. cb[t] <= Len(Queue(t)) /\ ~Stops(stat[t])
    BY <1>4, Zenon DEF Running
  <2>2. TypeOK /\ RequestInv(t) /\ RunInv(t) /\ tpc[t] \in {"run", "forward"}
    BY <1>1, <1>4, Zenon
  <2>3. AtCallback(t, q, k)
    BY <1>2, <1>3, <2>1, <2>2, RunningQueue, ZenonT(60)
  <2>. QED
    BY <2>3, Zenon DEF AtCallback
<1>6. PICK r : r = pkts[hold[Var(t, "resp")]]
  BY Zenon
<1>7. PICK c : c = pkts'[hold[Var(t, "resp")]]
  BY Zenon
<1>8. /\ tpc'[t] = "run" /\ dgram'[t] = dgram[t] /\ cb'[t] = k + 2 /\ Touches(t)
      /\ stat'[t] = StatAfter(q, k + 1) /\ hold' = hold /\ q[k + 1] # "forward"
  <2>1. /\ tpc' = tpc /\ dgram' = dgram /\ cb' = [cb EXCEPT ![t] = @ + 1] /\ hold' = hold
        /\ opc' = opc /\ cause' = cause /\ bin' = bin /\ wire' = wire /\ q[k + 1] # "forward"
        /\ stat' = [stat EXCEPT ![t] = IF q[k + 1] = "write" THEN @ ELSE q[k + 1]]
    BY <1>5, Zenon DEF RunCallback, output
  <2>2. Touches(t)
    BY <1>1, <2>1, ZenonT(60) DEF TypeOK, RecordInv, Touches
  <2>3. cb'[t] = k + 2
    <3>1. cb'[t] = cb[t] + 1
      BY <1>1, <2>1, Zenon DEF TypeOK
    <3>2. k \in Nat /\ cb[t] = k + 1
      BY <1>5, Zenon
    <3>. QED
      BY <3>1, <3>2, SMTT(60)
  <2>4. stat'[t] = IF q[k + 1] = "write" THEN stat[t] ELSE q[k + 1]
    BY <1>1, <2>1, Zenon DEF RecordInv
  <2>5. stat'[t] = StatAfter(q, k + 1)
    BY <1>5, <2>1, <2>4, ZenonT(60)
  <2>. QED
    BY <1>4, <2>1, <2>2, <2>3, <2>5, ZenonT(60)
<1>13. cb[t] # 0 /\ cb'[t] > 0 /\ cb'[t] # 0 /\ cb'[t] - 1 = k + 1
  <2>1. k \in Nat /\ cb[t] = k + 1 /\ cb'[t] = k + 2
    BY <1>5, <1>8, Zenon
  <2>. QED
    BY <2>1, SMTT(60)
<1>9. Var(t, "resp") \in Slots /\ hold[Var(t, "resp")] # NoPkt
  BY <1>1, <1>4, SlotFacts, ZenonT(60) DEF SlotInv
<1>10. IsPkt(r)
  BY <1>1, <1>6, <1>9, ZenonT(60) DEF TypeOK, PktsTyped
<1>11. /\ \A p \in Pkts : p # hold[Var(t, "resp")] => pkts'[p] = pkts[p]
      /\ DOMAIN pkts' = Pkts /\ Ran(q[k + 1], t, r, c)
  <2>1. DOMAIN pkts = Pkts /\ hold[Var(t, "resp")] \in Pkts
    BY <1>1, <1>9, ZenonT(60) DEF RecordInv, TypeOK
  <2>2. CASE q[k + 1] \in {"noop", "error"}
    <3>1. pkts' = pkts
      BY <1>5, <2>2, Zenon DEF RunCallback
    <3>. QED
      BY <1>6, <1>7, <2>1, <2>2, <3>1, Zenon DEF Ran
  <2>3. CASE q[k + 1] = "relay"
    <3>1. PICK dst \in RelayDests : pkts' = [pkts EXCEPT ![hold[Var(t, "resp")]].meta.dst = dst]
      BY <1>5, <2>3, ZenonT(60) DEF RunCallback
    <3>2. c = [r EXCEPT !.meta.dst = dst]
      BY <1>6, <1>7, <2>1, <3>1, Zenon
    <3>. QED
      BY <2>1, <2>3, <3>1, <3>2, Zenon DEF Ran
  <2>4. CASE q[k + 1] \in {"write", "closeSend"}
    <3>1. pkts' = [pkts EXCEPT ![hold[Var(t, "resp")]] = Write(@, <<t>>)]
      BY <1>5, <2>4, Zenon DEF RunCallback
    <3>. QED
      BY <1>6, <1>7, <2>1, <2>4, <3>1, Zenon DEF Ran
  <2>. QED
    BY <1>5, <1>8, <2>2, <2>3, <2>4, ZenonT(60) DEF CallbackKinds
<1>12. RanInv(t, dgram[t], k, stat[t], r)
  BY <1>1, <1>3, <1>4, <1>6, ZenonT(60) DEF RunInv
<1>14. IsPkt(c) /\ RanInv(t, dgram[t], k + 1, StatAfter(q, k + 1), c)
  <2>1. q[k + 1] # "write" => StatAfter(q, k + 1) = q[k + 1]
    BY <1>5, <1>8, ZenonT(60)
  <2>. QED
    BY <1>2, <1>5, <1>10, <1>11, <1>12, <2>1, CallbackRan, ZenonT(60)
<1>16. (\A s \in Slots : s # Var(t, "resp") => Same(s)) /\ PktsTyped'
  <2>1. IsPkt(pkts'[hold[Var(t, "resp")]])
    BY <1>7, <1>14, Zenon
  <2>. QED
    BY <1>1, <1>8, <1>9, <1>11, <2>1, ChangeSame, SMTT(60)
<1>17. RecordInv' /\ Alone(t)
  BY <1>1, <1>8, <1>16, TouchesOne, ZenonT(60)
<1>18. /\ hold[Var(t, "pkt")] # NoPkt /\ Unmarshals(dgram[t])
       /\ Request(t).meta = dgram[t].meta /\ Request(t).buff = DecodeString(dgram[t].data)
  BY <1>1, <1>4, Zenon DEF RequestInv
<1>19. hold'[Var(t, "pkt")] = hold[Var(t, "pkt")] /\ Request(t)' = Request(t)
  BY <1>16, <1>18, SlotFacts, VarFacts, ZenonT(60) DEF Same, Request
<1>20. RequestInv(t)'
  <2>1. dgram[t] # NoDatagram
    BY <1>1, <1>4, Zenon DEF RequestInv
  <2>. QED
    BY <1>8, <1>13, <1>18, <1>19, <2>1, Zenon DEF RequestInv
<1>21. RunInv(t)'
  BY <1>7, <1>8, <1>13, <1>14, ZenonT(60) DEF RunInv
<1>22. SendInv(t)'
  BY <1>8, Zenon DEF SendInv
<1>23. ~Sent(t)
  BY <1>1, <1>4, <1>5, ZenonT(60) DEF Stops
<1>24. Settled(t)
  BY <1>8, <1>13, Zenon DEF Settled
<1>. QED
  BY <1>17, <1>20, <1>21, <1>22, <1>23, <1>24, ZenonT(60) DEF Advances, TaskInv

(* The send of relayCallback: the queue is over. *)
LEMMA TaskForwardStep ==
  ASSUME ServerInv, ReplyInv, NEW t \in Tasks, NEW w \in Workers, TaskForward(t, w),
         WriteLaw
  PROVE  Hands(t, w)
<1>1. /\ TypeOK /\ SlotInv /\ RecordInv /\ PktsTyped /\ RequestInv(t) /\ RunInv(t) /\ SendInv(t)
      /\ Sent(t) => tpc[t] \in {"done", "run"}
  BY Hypotheses, Zenon
<1>2. PICK S : S = {}
  BY Zenon
<1>3. /\ S \subseteq {Var(t, "pkt")} /\ HandTo(w, Var(t, "snd"), S) /\ Start(w, t)
      /\ tpc[t] \in {"send", "forward"} /\ tpc[t] = "forward" /\ dgram' = dgram
  BY <1>2, Zenon DEF TaskForward
<1>4. /\ \A u \in Tasks : u # t => tpc'[u] = tpc[u] /\ cb'[u] = cb[u] /\ stat'[u] = stat[u]
      /\ tpc'[t] = "run" /\ cb'[t] = cb[t] + 1 /\ stat'[t] = "noop" /\ DOMAIN stat' = Tasks
  BY <1>1, Zenon DEF TaskForward, TypeOK, RecordInv
<1>5. /\ cb[t] \in Nat /\ cb[t] > 0 /\ hold[Var(t, "pkt")] # NoPkt /\ Unmarshals(dgram[t])
      /\ Request(t).meta = dgram[t].meta /\ Request(t).buff = DecodeString(dgram[t].data)
      /\ dgram[t] # NoDatagram
  BY <1>1, <1>3, ZenonT(60) DEF RequestInv, TypeOK
<1>6. cb'[t] > 0 /\ (cb'[t] = 0 <=> cb[t] = 0)
  <2>1. cb'[t] > 0 /\ cb'[t] # 0 /\ cb[t] # 0
    BY <1>4, <1>5, SMTT(60)
  <2>. QED
    BY <2>1, ZenonT(60)
<1>7. /\ RecordInv' /\ Settled(t) /\ OutInv(w)'
      /\ \A u \in Tasks : u # t => TaskSame(u)
      /\ \A v \in Workers : v # w => WorkerSame(v)
      /\ opc[w] = "unused" /\ opc'[w] = "process" /\ cause' = [cause EXCEPT ![w] = t]
      /\ wire' = wire
  BY <1>1, <1>3, <1>4, <1>6, HandsOthers, ZenonT(60)
<1>8. Same(Var(t, "pkt")) /\ Same(Var(t, "resp"))
  <2>1. \A r \in Slots : r # Var(w, "pkt") /\ r # Var(t, "snd") /\ r \notin S => Same(r)
    BY <1>1, <1>3, HandToSame, ZenonT(60)
  <2>2. Var(t, "pkt") \in Slots /\ Var(t, "resp") \in Slots /\ t # w
    BY SlotFacts, Zenon
  <2>. QED
    BY VarFacts, <1>2, <2>1, <2>2, ZenonT(60)
<1>9. RequestInv(t)'
  <2>1. hold'[Var(t, "pkt")] = hold[Var(t, "pkt")] /\ Request(t)' = Request(t)
    BY <1>5, <1>8, ZenonT(60) DEF Same, Request
  <2>. QED
    BY <1>3, <1>4, <1>5, <1>6, <2>1, ZenonT(60) DEF RequestInv
<1>10. PICK q : q = QueueOf(dgram[t])
  BY Zenon
<1>11. PICK k : k = cb[t] - 1
  BY Zenon
<1>12. cb[t] <= Len(Queue(t)) /\ q[cb[t]] = "forward" /\ ~Stops(stat[t])
  <2>1. Queue(t) = q
    BY <1>5, <1>10, ZenonT(60) DEF Queue, QueueOf
  <2>. QED
    BY <1>1, <1>3, <1>10, <2>1, ZenonT(60) DEF RunInv
<1>13. /\ dgram[t].meta.tgt \in Targets
       /\ k \in Nat /\ cb[t] = k + 1 /\ k + 1 <= Len(q) /\ \A i \in 1..k : ~Ends(q[i])
       /\ q[k + 1] = "forward" => StatAfter(q, k + 1) = "noop"
  <2>1. tpc[t] \in {"run", "forward"}
    BY <1>3, Zenon
  <2>2. TypeOK /\ RequestInv(t) /\ RunInv(t)
    BY <1>1, Zenon
  <2>3. AtCallback(t, q, k)
    BY <1>10, <1>11, <1>12, <2>1, <2>2, RunningQueue, ZenonT(60)
  <2>. QED
    BY <2>3, Zenon DEF AtCallback
<1>14. PICK r : r = pkts[hold[Var(t, "resp")]]
  BY Zenon
<1>15. pkts'[hold'[Var(t, "resp")]] = r
  BY <1>1, <1>3, <1>8, <1>14, ZenonT(60) DEF Same, SlotInv
<1>16. RanInv(t, dgram[t], k + 1, "noop", r)
  <2>1. RanInv(t, dgram[t], k, stat[t], r)
    BY <1>1, <1>3, <1>11, <1>14, Zenon DEF RunInv
  <2>2. q[k + 1] = "forward"
    BY <1>12, <1>13, Zenon
  <2>3. WrittenAfter(t, q, k + 1) = WrittenAfter(t, q, k)
    BY <1>13, <2>2, Zenon DEF WriteLaw
  <2>4. \A i \in 1..((k + 1) - 1) : ~Ends(q[i])
    BY <1>13, SMTT(60)
  <2>5. /\ r.meta = [EmptyMeta EXCEPT !.ref = dgram[t].meta.ref, !.dst = r.meta.dst]
        /\ r.buff = WrittenAfter(t, q, k) /\ r.dest = dgram[t].from
    BY <1>10, <2>1, Zenon DEF RanInv
  <2>. QED
    BY <1>10, <1>13, <2>2, <2>3, <2>4, <2>5, ZenonT(60) DEF RanInv
<1>17. RunInv(t)'
  <2>1. cb'[t] = cb[t] + 1 /\ k \in Nat /\ cb[t] = k + 1
    BY <1>4, <1>13, Zenon
  <2>2. cb'[t] - 1 = k + 1
    BY <2>1, SMTT(60)
  <2>. QED
    BY <1>3, <1>4, <1>15, <1>16, <2>2, ZenonT(60) DEF RunInv
<1>18. SendInv(t)'
  BY <1>4, Zenon DEF SendInv
<1>. QED
  BY <1>1, <1>3, <1>4, <1>7, <1>9, <1>13, <1>17, <1>18, ZenonT(60) DEF Hands, TaskInv

-----------------------------------------------------------------------------
(* ReplyInv is inductive. *)

(* No step of Serve, of a task or of a worker invalidates the invariant. *)
LEMMA NextReplyInv == WriteLaw /\ ServerInv /\ ReplyInv /\ [Next]_vars => ReplyInv'
<1> SUFFICES ASSUME WriteLaw, ServerInv, ReplyInv, [Next]_vars PROVE ReplyInv'
  BY Zenon
<1>1. ASSUME NEW t \in Tasks, NEW d \in Datagrams, Read(t, d) PROVE ReplyInv'
  BY <1>1, ReadStep, OneAdvances, Zenon
<1>2. CASE ReadErr \/ CloseWriteStream \/ CloseSendStream \/ Written \/ SendOnClosed
           \/ UNCHANGED vars
  <2>1. UNCHANGED <<tpc, dgram, cb, stat, opc, cause, bin, wire, hold, pkts>>
    BY <1>2, Zenon DEF ReadErr, CloseWriteStream, CloseSendStream, Written, SendOnClosed, output, vars
  <2>. QED
    BY <2>1, QuietInv, Zenon
<1>3. ASSUME NEW t \in Tasks, TaskStep(t) PROVE ReplyInv'
  <2>1. CASE \E w \in Workers : TaskSend(t, w) \/ TaskForward(t, w)
    BY <2>1, TaskSendStep, TaskForwardStep, HandsInv, Zenon
  <2>2. CASE \/ DataIn(t) \/ Decode(t) \/ MakeResponse(t) \/ MakeErrPkt(t) \/ PipelineError(t)
             \/ RunCallback(t) \/ RelayCallback(t) \/ Finish(t)
    <3>1. Advances(t)
      BY <2>2, DataInStep, DecodeStep, MakeResponseStep, MakeErrPktStep, PipelineErrorStep,
         RunCallbackStep, RelayCallbackStep, FinishStep, SMTT(60)
    <3>. QED
      BY <3>1, OneAdvances, Zenon
  <2>. QED
    BY <1>3, <2>1, <2>2, Zenon DEF TaskStep
<1>4. ASSUME NEW w \in Workers, WorkerStep(w) PROVE ReplyInv'
  <2>1. CASE ProcessOut(w) \/ MakeOutErrPkt(w) \/ OutSend(w)
    BY <2>1, ProcessOutStep, MakeOutErrPktStep, OutSendStep, WorksInv, Zenon
  <2>2. CASE Drop(w) \/ OutWrite(w)
    BY <2>2, DropStep, OutWriteStep, RetiresInv, Zenon
  <2>. QED
    BY <1>4, <2>1, <2>2, Zenon DEF WorkerStep
<1>. QED
  BY <1>1, <1>2, <1>3, <1>4, Zenon DEF Next

-----------------------------------------------------------------------------
(* The refinement: only Read and OutWrite change what Responder sees. *)

(* No datagram has been read and nothing has been written. *)
LEMMA InitResponds == Init => R!Init
  BY Zenon DEF Init, R!Init

(* A read is a Read of Responder, a write is an Answer that is due, and no  *)
(* other step changes the datagrams or the wire.                           *)
LEMMA NextResponds == ServerInv /\ ReplyInv /\ [Next]_vars => [R!Next]_<<dgram, wire>>
<1> SUFFICES ASSUME ServerInv, ReplyInv, [Next]_vars PROVE R!Next \/ UNCHANGED <<dgram, wire>>
  BY Zenon
<1>1. ASSUME NEW t \in Tasks, NEW d \in Datagrams, Read(t, d) PROVE R!Next
  <2>1. dgram[t] = NoDatagram
    BY <1>1, Hypotheses, Zenon DEF Read, RequestInv
  <2>2. R!Read(t, d)
    BY <1>1, <2>1, Zenon DEF Read, R!Read, output
  <2>. QED
    BY <2>2, Zenon DEF R!Next
<1>2. ASSUME NEW w \in Workers, OutWrite(w), wire' # wire PROVE R!Next
  <2>1. Retires(w) /\ RecordInv /\ dgram' = dgram
    BY <1>2, OutWriteStep, WorkerHypotheses, Zenon DEF OutWrite
  <2>2. PICK t \in Tasks : \E y :
          /\ t = cause[w] /\ wire[t] = <<>> /\ Due(t, y) /\ wire' = [wire EXCEPT ![t] = <<y>>]
    BY <1>2, <2>1, RetiresWire, Zenon
  <2>3. PICK x :
          /\ t = cause[w] /\ wire[t] = <<>> /\ Due(t, x) /\ wire' = [wire EXCEPT ![t] = <<x>>]
    BY <2>2, Zenon
  <2>4. dgram[t] # NoDatagram
    <3>1. Sent(t)
      BY <2>3, Zenon DEF Sent
    <3>. QED
      BY <3>1, Hypotheses, Zenon DEF RequestInv
  <2>5. MayAnswer(t, dgram[t], x)
    BY <2>3, ZenonT(60) DEF Due, MayAnswer
  <2>6. R!Answer(t, x)
    BY <2>1, <2>3, <2>4, <2>5, Zenon DEF R!Answer
  <2>7. x \in R!Written(t)'
    <3>1. wire'[t] = <<x>>
      BY <2>1, <2>3, ZenonT(60) DEF RecordInv
    <3>2. 1 \in DOMAIN wire'[t] /\ wire'[t][1] = x
      BY <3>1, SMTT(60)
    <3>. QED
      BY <3>2, Zenon DEF R!Written
  <2>. QED
    BY <2>6, <2>7, Zenon DEF R!Next
<1>3. ASSUME NEW w \in Workers, OutWrite(w), wire' = wire PROVE UNCHANGED <<dgram, wire>>
  BY <1>3, Zenon DEF OutWrite
<1>4. ASSUME NEW t \in Tasks, TaskStep(t) PROVE UNCHANGED <<dgram, wire>>
  BY <1>4, Zenon DEF TaskStep, DataIn, Decode, MakeResponse, MakeErrPkt, PipelineError, RunCallback,
              RelayCallback, Finish, TaskSend, TaskForward, Start, output
<1>5. ASSUME NEW w \in Workers, ProcessOut(w) \/ Drop(w) \/ MakeOutErrPkt(w) \/ OutSend(w)
      PROVE  UNCHANGED <<dgram, wire>>
  BY <1>5, Zenon DEF ProcessOut, Drop, MakeOutErrPkt, OutSend
<1>6. CASE ReadErr \/ CloseWriteStream \/ CloseSendStream \/ Written \/ SendOnClosed
           \/ UNCHANGED vars
  BY <1>6, Zenon DEF ReadErr, CloseWriteStream, CloseSendStream, Written, SendOnClosed, output, vars
<1>. QED
  BY <1>1, <1>2, <1>3, <1>4, <1>5, <1>6, Zenon DEF Next, WorkerStep

==============================================================================
