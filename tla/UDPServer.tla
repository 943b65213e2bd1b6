------------------------------ MODULE UDPServer ------------------------------
(***************************************************************************)
(* server/udp_server.go over the packets of package packet and the         *)
(* pipelines of package core. Each datagram read starts a goroutine        *)
(* ("task") that runs processIncoming; each packet received from           *)
(* sendStream starts one ("worker") that runs processOutgoing. Both        *)
(* channels are unbuffered: a send is one step with its receiver, and      *)
(* panics once the channel is closed. The packet objects come from a       *)
(* sync.Pool shared by all of them and are passed by reference.            *)
(***************************************************************************)
EXTENDS JSONPacket, Naturals, FiniteSets

CONSTANTS
  Tasks,       \* processIncoming goroutines, one per datagram read
  Workers,     \* processOutgoing goroutines alive at a time
  Pkts,        \* packet objects
  NoPkt,
  NoTask,
  NumReaders,  \* readPkts goroutines (5 in the code)
  Datagrams,   \* what may be read: [from, form, meta, data]
  Resolvable,  \* the addresses ResolveUDPAddr accepts
  Targets,     \* the targets with a callback queue
  Queues,      \* [Targets -> Seq(CallbackKinds)], set up before Serve
  TargetRelay, \* "svr.relay", whose queue NewUDPServer starts with relayCallback
  RelayDests,  \* where an application callback relays to; may hold NoAddr
  InOutcomes,  \* what the "_in_" data pipeline does: a subset of Outcomes
  OutOutcomes, \* what the "_out_" data pipeline does
  MaxReadErrors, \* bound: errors of ReadFrom
  MaxOutErrors \* bound: failures of the "_out_" data pipeline

\* What an application callback does: write to the response and leave ctx.Stat
\* alone, write and set CodeStopCloseSend, set CodeStopNoop, set CodeStopError,
\* or name a destination and set CodeRelay; "forward" is relayCallback.
CallbackKinds == {"write", "closeSend", "noop", "error", "relay", "forward"}
Outcomes == {"ok", "noop", "error"}

\* The local variable v of the goroutine g.
Var(g, v) == <<g, v>>
Slots == (Tasks \X {"pkt", "resp", "snd"}) \cup (Workers \X {"pkt", "err"})

ASSUME ServerAssumption ==
  /\ NoPkt \notin Pkts /\ NoTask \notin Tasks /\ Tasks \cap Workers = {}
  /\ NumReaders \in Nat /\ MaxReadErrors \in Nat /\ MaxOutErrors \in Nat
  /\ InOutcomes \subseteq Outcomes /\ OutOutcomes \subseteq Outcomes
  /\ TargetRelay \in Targets
  /\ Queues \in [Targets -> Seq(CallbackKinds)]
  /\ Len(Queues[TargetRelay]) > 0 /\ Queues[TargetRelay][1] = "forward"

VARIABLES
  readers,  \* readPkts goroutines that have not returned
  serve,    \* "wait" (wg.Wait), "writeClosed", "returned" (both channels closed)
  panic,    \* a goroutine sent on a closed channel: the process is gone
  tpc,      \* where a task is in processIncoming
  dgram,    \* the datagram a task was started with
  cb,       \* the callback a task runs next; 0 before the packet pipeline
  stat,     \* ctx.Stat of a task
  opc,      \* where a worker is in processOutgoing
  cause,    \* history: the task whose datagram a worker's packet comes from
  bin,      \* what a worker marshalled
  hold,     \* the packet each goroutine variable refers to
  pool,     \* the packets in the pool
  made,     \* the packets made by the pool's New
  pkts,     \* the contents of every packet
  wpc,      \* writePkts: "idle" at the range, or "writing" in th.WriteTo
  wire,     \* history: what was written on account of each task's datagram
  outErrors \* failures of the "_out_" pipeline so far

vars == <<readers, serve, panic, tpc, dgram, cb, stat, opc, cause, bin, hold,
          pool, made, pkts, wpc, wire, outErrors>>
loop == <<readers, serve>>
output == <<opc, cause, bin, wpc, wire, outErrors>>

NoDatagram == [from |-> NoAddr, form |-> "none", meta |-> EmptyMeta, data |-> Encode(<<>>)]
NoBin == Marshal(FreshPkt)

\* Text that decodes, decodes to a sequence of chunks.
ASSUME DatagramAssumption ==
  /\ NoDatagram \notin Datagrams
  /\ \A d \in Datagrams : Unmarshals(d) =>
       LET chunks == DecodeString(d.data)
       IN chunks \in Seq({chunks[i] : i \in DOMAIN chunks})

Init ==
  /\ readers = NumReaders /\ serve = "wait" /\ panic = FALSE
  /\ tpc = [t \in Tasks |-> "unused"] /\ dgram = [t \in Tasks |-> NoDatagram]
  /\ cb = [t \in Tasks |-> 0] /\ stat = [t \in Tasks |-> "continue"]
  /\ opc = [w \in Workers |-> "unused"] /\ cause = [w \in Workers |-> NoTask]
  /\ bin = [w \in Workers |-> NoBin]
  /\ hold = [s \in Slots |-> NoPkt]
  /\ pool = {} /\ made = {} /\ pkts = [p \in Pkts |-> FreshPkt]
  /\ wpc = "idle" /\ wire = [t \in Tasks |-> <<>>] /\ outErrors = 0

-----------------------------------------------------------------------------
(* The pool. Get takes any pooled packet or makes a new one. *)
NextNew == CHOOSE p \in Pkts : p \notin made
\* Mutant: a pool that makes no packets.
GetPooled(p) == p \in pool
Get(p) == p \in pool \/ (made # Pkts /\ p = NextNew)

(* A goroutine obtains p from the pool into slot s with contents c. *)
Obtain(s, p, c) ==
  /\ Get(p)
  /\ pool' = pool \ {p} /\ made' = made \cup {p}
  /\ hold' = [hold EXCEPT ![s] = p]
  /\ pkts' = [pkts EXCEPT ![p] = c]

(* PutBack of what the slots S refer to. *)
PutBack(S) ==
  /\ hold' = [s \in Slots |-> IF s \in S THEN NoPkt ELSE hold[s]]
  /\ pool' = pool \cup ({hold[s] : s \in S} \ {NoPkt})
  /\ UNCHANGED <<made, pkts>>

\* Mutant: the packet sent is put back as well.
HandToShared(w, s, S) ==
  /\ opc[w] = "unused"
  /\ hold' = [r \in Slots |-> CASE r = Var(w, "pkt") -> hold[s]
                                [] r \in S \cup {s} -> NoPkt
                                [] OTHER -> hold[r]]
  /\ pool' = pool \cup ({hold[r] : r \in S \cup {s}} \ {NoPkt})
  /\ UNCHANGED <<made, pkts>>

(* The packet in slot s goes to a new worker; the slots S are put back. *)
HandTo(w, s, S) ==
  /\ opc[w] = "unused"
  /\ hold' = [r \in Slots |-> CASE r = Var(w, "pkt") -> hold[s]
                                [] r \in S \cup {s} -> NoPkt
                                [] OTHER -> hold[r]]
  /\ pool' = pool \cup ({hold[r] : r \in S} \ {NoPkt})
  /\ UNCHANGED <<made, pkts>>

-----------------------------------------------------------------------------
(* Serve and readPkts. *)

Read(t, d) ==
  /\ readers > 0 /\ tpc[t] = "unused"
  /\ tpc' = [tpc EXCEPT ![t] = "dataIn"] /\ dgram' = [dgram EXCEPT ![t] = d]
  /\ UNCHANGED <<loop, panic, cb, stat, output, hold, pool, made, pkts>>

\* Mutant: wg.Done is called twice.
ReadErrTwice ==
  /\ readers > 0 /\ readers' = readers - 2
  /\ UNCHANGED <<serve, panic, tpc, dgram, cb, stat, output, hold, pool, made, pkts>>

ReadErr ==
  /\ readers > 0 /\ NumReaders - readers < MaxReadErrors /\ readers' = readers - 1
  /\ UNCHANGED <<serve, panic, tpc, dgram, cb, stat, output, hold, pool, made, pkts>>

(* wg.Wait is over and the deferred function closes the two channels. *)
CloseWriteStream ==
  /\ readers = 0 /\ serve = "wait" /\ serve' = "writeClosed"
  /\ UNCHANGED <<readers, panic, tpc, dgram, cb, stat, output, hold, pool, made, pkts>>

CloseSendStream ==
  /\ serve = "writeClosed" /\ serve' = "returned"
  /\ UNCHANGED <<readers, panic, tpc, dgram, cb, stat, output, hold, pool, made, pkts>>

-----------------------------------------------------------------------------
(* processIncoming. *)

DataIn(t) ==
  /\ tpc[t] = "dataIn"
  /\ \E o \in InOutcomes :
       tpc' = [tpc EXCEPT ![t] = CASE o = "ok" -> "decode"
                                   [] o = "noop" -> "done"
                                   [] o = "error" -> "fail"]
  /\ UNCHANGED <<loop, panic, dgram, cb, stat, output, hold, pool, made, pkts>>

(* NewPkt("", "") and Unmarshal. *)
Decode(t) ==
  /\ tpc[t] = "decode"
  /\ \E p \in Pkts :
       Obtain(Var(t, "pkt"), p, Unmarshal(NewPkt(pkts[p], NoRef, NoAddr), dgram[t]))
  /\ tpc' = [tpc EXCEPT ![t] = IF Unmarshals(dgram[t]) THEN "resp" ELSE "fail"]
  /\ UNCHANGED <<loop, panic, dgram, cb, stat, output>>

Request(t) == pkts[hold[Var(t, "pkt")]]

MakeResponse(t) ==
  /\ tpc[t] = "resp"
  /\ \E p \in Pkts :
       Obtain(Var(t, "resp"), p, NewPkt(pkts[p], Request(t).meta.ref, dgram[t].from))
  /\ tpc' = [tpc EXCEPT ![t] = "run"] /\ cb' = [cb EXCEPT ![t] = 1]
  /\ UNCHANGED <<loop, panic, dgram, stat, output>>

(* NewErrPkt, with the reference once the packet pipeline was reached. *)
MakeErrPkt(t) ==
  /\ tpc[t] = "fail"
  /\ \E p \in Pkts :
       Obtain(Var(t, "snd"), p,
              NewErrPkt(pkts[p], IF cb[t] = 0 THEN NoRef ELSE Request(t).meta.ref,
                        dgram[t].from))
  /\ tpc' = [tpc EXCEPT ![t] = "send"]
  /\ UNCHANGED <<loop, panic, dgram, cb, stat, output>>

(* PacketPipeline.Process. The callback queue of a target is fixed. *)
Queue(t) == IF Request(t).meta.tgt \in Targets THEN Queues[Request(t).meta.tgt] ELSE <<>>

PipelineError(t) ==
  /\ tpc[t] = "run"
  /\ Request(t).meta.tgt \notin Targets \/ stat[t] = "error"
  /\ PutBack({Var(t, "resp")})
  /\ tpc' = [tpc EXCEPT ![t] = "fail"]
  /\ UNCHANGED <<loop, panic, dgram, cb, stat, output>>

(* The codes that stop the queue; CodeRelay is not one of them. *)
Stops(s) == s \in {"error", "noop", "closeSend"}

Running(t) == tpc[t] = "run" /\ cb[t] <= Len(Queue(t)) /\ ~Stops(stat[t])

(* An application callback. *)
RunCallback(t) ==
  LET kind == Queue(t)[cb[t]]
      r    == hold[Var(t, "resp")]
  IN /\ Running(t) /\ kind # "forward"
     /\ cb' = [cb EXCEPT ![t] = @ + 1]
     /\ stat' = [stat EXCEPT ![t] = IF kind = "write" THEN @ ELSE kind]
     /\ \/ /\ kind \in {"write", "closeSend"}
           /\ pkts' = [pkts EXCEPT ![r] = Write(@, <<t>>)]
        \/ /\ kind = "relay"
           /\ \E dst \in RelayDests : pkts' = [pkts EXCEPT ![r].meta.dst = dst]
        \/ /\ kind \in {"noop", "error"}
           /\ pkts' = pkts
     /\ UNCHANGED <<loop, panic, tpc, dgram, output, hold, pool, made>>

(* relayCallback up to its send on sendStream. *)
RelayCallback(t) ==
  /\ Running(t) /\ Queue(t)[cb[t]] = "forward"
  /\ \E p \in Pkts :
       Obtain(Var(t, "snd"), p,
              LET f == NewPkt(pkts[p], Request(t).meta.ref, Request(t).meta.dst)
              IN Close(Write([f EXCEPT !.meta.src = dgram[t].from], Request(t).buff)))
  /\ tpc' = [tpc EXCEPT ![t] = "forward"]
  /\ UNCHANGED <<loop, panic, dgram, cb, stat, output>>

\* Mutant: CodeStopCloseSend sends nothing.
SilentOnClose(t) == stat[t] \in {"noop", "closeSend"}

(* The cases of the switch on ctx.Stat in which no reply is sent: noop, and  *)
(* a relay without a destination.                                            *)
Silent(t) ==
  \/ stat[t] = "noop"
  \/ stat[t] = "relay" /\ pkts[hold[Var(t, "resp")]].meta.dst = NoAddr

(* The switch on ctx.Stat once the queue is over. *)
Finish(t) ==
  LET r     == hold[Var(t, "resp")]
      relay == stat[t] = "relay"
  IN /\ tpc[t] = "run" /\ Request(t).meta.tgt \in Targets /\ stat[t] # "error"
     /\ ~Running(t)
     /\ IF Silent(t)
          THEN /\ PutBack({Var(t, "pkt"), Var(t, "resp")})
               /\ tpc' = [tpc EXCEPT ![t] = "done"]
          ELSE /\ hold' = [hold EXCEPT ![Var(t, "resp")] = NoPkt, ![Var(t, "snd")] = r]
               /\ pkts' = [pkts EXCEPT ![r] =
                    IF relay
                      THEN Close([@ EXCEPT !.dest = pkts[r].meta.dst, !.meta.src = dgram[t].from])
                      ELSE Close(@)]
               /\ tpc' = [tpc EXCEPT ![t] = "send"]
               /\ UNCHANGED <<pool, made>>
     /\ UNCHANGED <<loop, panic, dgram, cb, stat, output>>

(* sendStream <- pkt, sendPkts' receive and its go statement; the deferred *)
(* PutBack of the request's packet follows the last send.                  *)
Start(w, t) ==
  /\ opc' = [opc EXCEPT ![w] = "process"] /\ cause' = [cause EXCEPT ![w] = t]
  /\ UNCHANGED <<bin, wpc, wire>>

TaskSend(t, w) ==
  /\ tpc[t] = "send" /\ serve # "returned"
  /\ HandTo(w, Var(t, "snd"), {Var(t, "pkt")})
  /\ Start(w, t) /\ outErrors' = outErrors
  /\ tpc' = [tpc EXCEPT ![t] = "done"]
  /\ UNCHANGED <<loop, panic, dgram, cb, stat>>

\* Mutant: relayCallback leaves ctx.Stat alone.
TaskForwardOn(t, w) ==
  /\ tpc[t] = "forward" /\ serve # "returned"
  /\ HandTo(w, Var(t, "snd"), {})
  /\ Start(w, t) /\ outErrors' = outErrors
  /\ tpc' = [tpc EXCEPT ![t] = "run"] /\ cb' = [cb EXCEPT ![t] = @ + 1]
  /\ UNCHANGED <<loop, panic, dgram, stat>>

(* The send of relayCallback, which then sets CodeStopNoop. *)
TaskForward(t, w) ==
  /\ tpc[t] = "forward" /\ serve # "returned"
  /\ HandTo(w, Var(t, "snd"), {})
  /\ Start(w, t) /\ outErrors' = outErrors
  /\ tpc' = [tpc EXCEPT ![t] = "run"] /\ cb' = [cb EXCEPT ![t] = @ + 1]
  /\ stat' = [stat EXCEPT ![t] = "noop"]
  /\ UNCHANGED <<loop, panic, dgram>>

-----------------------------------------------------------------------------
(* processOutgoing. *)

Outgoing(w) == pkts[hold[Var(w, "pkt")]]

(* The deferred PutBack and the end of the goroutine. *)
Retire(w) ==
  /\ PutBack({Var(w, "pkt")})
  /\ opc' = [opc EXCEPT ![w] = "unused"] /\ cause' = [cause EXCEPT ![w] = NoTask]
  /\ bin' = [bin EXCEPT ![w] = NoBin]

(* Marshal, ResolveUDPAddr and the data pipeline. *)
ProcessOut(w) ==
  /\ opc[w] = "process" /\ Outgoing(w).dest \in Resolvable
  /\ \E o \in OutOutcomes \ {"noop"} :
       /\ o = "error" => outErrors < MaxOutErrors
       /\ opc' = [opc EXCEPT ![w] = IF o = "ok" THEN "write" ELSE "fail"]
       /\ outErrors' = IF o = "error" THEN outErrors + 1 ELSE outErrors
  /\ bin' = [bin EXCEPT ![w] = Marshal(Outgoing(w))]
  /\ UNCHANGED <<loop, panic, tpc, dgram, cb, stat, cause, hold, pool, made, pkts, wpc, wire>>

(* Nothing is sent: the address does not resolve or the pipeline says noop. *)
Drop(w) ==
  /\ opc[w] = "process" /\ (Outgoing(w).dest \notin Resolvable \/ "noop" \in OutOutcomes)
  /\ Retire(w)
  /\ UNCHANGED <<loop, panic, tpc, dgram, cb, stat, wpc, wire, outErrors>>

MakeOutErrPkt(w) ==
  /\ opc[w] = "fail"
  /\ \E p \in Pkts :
       Obtain(Var(w, "err"), p, NewErrPkt(pkts[p], Outgoing(w).meta.ref, Outgoing(w).dest))
  /\ opc' = [opc EXCEPT ![w] = "send"]
  /\ UNCHANGED <<loop, panic, tpc, dgram, cb, stat, cause, bin, wpc, wire, outErrors>>

(* svr.send() <- errPkt: w puts its packet back and is over, and a new      *)
(* worker, which takes its place here, has the error packet.                *)
OutSend(w) ==
  /\ opc[w] = "send" /\ serve # "returned"
  /\ hold' = [hold EXCEPT ![Var(w, "pkt")] = hold[Var(w, "err")], ![Var(w, "err")] = NoPkt]
  /\ pool' = pool \cup {hold[Var(w, "pkt")]}
  /\ opc' = [opc EXCEPT ![w] = "process"] /\ bin' = [bin EXCEPT ![w] = NoBin]
  /\ UNCHANGED <<loop, panic, tpc, dgram, cb, stat, cause, made, pkts, wpc, wire, outErrors>>

(* svr.dist() <- writePacket, received by writePkts, which calls th.WriteTo. *)
OutWrite(w) ==
  /\ opc[w] = "write" /\ serve = "wait" /\ wpc = "idle"
  /\ wpc' = "writing"
  /\ wire' = [wire EXCEPT ![cause[w]] =
                Append(@, [to |-> Outgoing(w).dest, meta |-> bin[w].meta, data |-> bin[w].data])]
  /\ Retire(w)
  /\ UNCHANGED <<loop, panic, tpc, dgram, cb, stat, outErrors>>

(* th.WriteTo returns; its result is ignored. *)
Written ==
  /\ wpc = "writing" /\ wpc' = "idle"
  /\ UNCHANGED <<loop, panic, tpc, dgram, cb, stat, opc, cause, bin, hold, pool,
                 made, pkts, wire, outErrors>>

(* A goroutine that sends on a channel closed by Serve. *)
SendOnClosed ==
  /\ \/ serve = "returned" /\ \E t \in Tasks : tpc[t] \in {"send", "forward"}
     \/ serve = "returned" /\ \E w \in Workers : opc[w] = "send"
     \/ serve # "wait" /\ \E w \in Workers : opc[w] = "write"
  /\ panic' = TRUE
  /\ UNCHANGED <<loop, tpc, dgram, cb, stat, output, hold, pool, made, pkts>>

-----------------------------------------------------------------------------
TaskStep(t) ==
  \/ DataIn(t) \/ Decode(t) \/ MakeResponse(t) \/ MakeErrPkt(t) \/ PipelineError(t)
  \/ RunCallback(t) \/ RelayCallback(t) \/ Finish(t)
  \/ \E w \in Workers : TaskSend(t, w) \/ TaskForward(t, w)

WorkerStep(w) ==
  \/ ProcessOut(w) \/ Drop(w) \/ MakeOutErrPkt(w) \/ OutSend(w) \/ OutWrite(w)

Next ==
  /\ ~panic
  /\ \/ \E t \in Tasks, d \in Datagrams : Read(t, d)
     \/ ReadErr \/ CloseWriteStream \/ CloseSendStream
     \/ \E t \in Tasks : TaskStep(t)
     \/ \E w \in Workers : WorkerStep(w)
     \/ Written \/ SendOnClosed

Spec == Init /\ [][Next]_vars

(* Goroutines that can run do run; workers blocked on writeStream, which   *)
(* they compete for, are served in turn (Go queues blocked senders first   *)
(* in, first out). sendPkts is always ready to receive: there are as many  *)
(* workers as tasks in the runs.                                           *)
Fairness ==
  /\ \A t \in Tasks : WF_vars(~panic /\ TaskStep(t))
  /\ \A w \in Workers : SF_vars(~panic /\ WorkerStep(w))
  /\ WF_vars(~panic /\ Written)

FairSpec == Spec /\ Fairness

-----------------------------------------------------------------------------
(* Reference: the reply a datagram calls for, computed from the datagram   *)
(* and the queue of its target alone.                                      *)

Processed(d) ==
  LET q     == Queues[d.meta.tgt]
      stops == {i \in DOMAIN q : q[i] \in {"error", "noop", "closeSend", "forward"}}
  IN IF stops = {} THEN q
     ELSE SubSeq(q, 1, CHOOSE i \in stops : \A j \in stops : i <= j)

Code(d) ==
  LET ran  == Processed(d)
      last == IF ran = <<>> THEN "write" ELSE ran[Len(ran)]
  IN IF last # "write" THEN last
     ELSE IF \E i \in DOMAIN ran : ran[i] = "relay" THEN "relay" ELSE "write"

Fails(d) == d.meta.tgt \notin Targets \/ Code(d) = "error"

\* What n callbacks for the request t that write have written.
Copies(t, n) == [i \in 1..n |-> t]

Payload(t, d) ==
  LET ran == Processed(d)
  IN Copies(t, Cardinality({j \in DOMAIN ran : ran[j] \in {"write", "closeSend"}}))

(* x may be written for datagram d of task t, whose packet pipeline was     *)
(* entered; without that, only an error that names no ref.                 *)
Answers(t, d, x) ==
  /\ x.meta.ref = d.meta.ref
  /\ IF Fails(d)
       THEN x.meta.err /\ x.to = d.from
       ELSE /\ Code(d) # "noop"
            /\ Code(d) \in {"write", "closeSend"} =>
                 /\ x.to = d.from
                 /\ x.meta.err \/ (x.data = Encode(Payload(t, d)) /\ x.meta.src = NoAddr)
            /\ Code(d) = "relay" =>
                 /\ x.to \in RelayDests \ {NoAddr}
                 /\ x.meta.err \/ (x.data = Encode(Payload(t, d)) /\ x.meta.src = d.from)
            /\ Code(d) = "forward" =>
                 /\ x.to = d.meta.dst
                 /\ x.meta.err \/ (x.data = Encode(DecodeString(d.data)) /\ x.meta.src = d.from)

Rejects(d, x) == x.meta.err /\ x.meta.ref = NoRef /\ x.to = d.from

MayAnswer(t, d, x) == Rejects(d, x) \/ Answers(t, d, x)

-----------------------------------------------------------------------------
(* The variables of Serve, the tasks and the workers keep their types. *)
TypeOK ==
  /\ readers \in 0..NumReaders /\ serve \in {"wait", "writeClosed", "returned"}
  /\ panic \in BOOLEAN /\ wpc \in {"idle", "writing"} /\ outErrors \in 0..MaxOutErrors
  /\ tpc \in [Tasks -> {"unused", "dataIn", "decode", "resp", "run", "fail", "forward",
                         "send", "done"}]
  /\ opc \in [Workers -> {"unused", "process", "fail", "send", "write"}]
  /\ cause \in [Workers -> Tasks \cup {NoTask}]
  /\ cb \in [Tasks -> Nat]
  /\ hold \in [Slots -> Pkts \cup {NoPkt}]
  /\ made \subseteq Pkts /\ pool \subseteq Pkts

\* The variables that refer to a packet, by where the goroutine is.
SlotInv ==
  /\ \A t \in Tasks :
       /\ tpc[t] \in {"unused", "dataIn", "decode", "done"} => hold[Var(t, "pkt")] = NoPkt
       /\ tpc[t] \in {"resp", "run", "forward"} => hold[Var(t, "pkt")] # NoPkt
       /\ hold[Var(t, "resp")] # NoPkt <=> tpc[t] \in {"run", "forward"}
       /\ hold[Var(t, "snd")] # NoPkt <=> tpc[t] \in {"forward", "send"}
  /\ \A w \in Workers :
       /\ hold[Var(w, "pkt")] # NoPkt <=> opc[w] # "unused"
       /\ hold[Var(w, "err")] # NoPkt <=> opc[w] = "send"

\* A packet is in the pool or in one slot, once made.
Exclusive ==
  /\ \A r, s \in Slots : hold[r] = hold[s] /\ hold[r] # NoPkt => r = s
  /\ \A s \in Slots : hold[s] \notin pool
  /\ \A p \in Pkts : p \in made <=> p \in pool \/ \E s \in Slots : hold[s] = p

(* Tasks and workers refer to packets exactly while their place in the     *)
(* code says so, and to different ones.                                    *)
ServerInv == TypeOK /\ SlotInv /\ Exclusive

(* Every packet the pool has made is in exactly one place: in the pool, or *)
(* in one variable of one goroutine that runs. No goroutine works on a     *)
(* packet that another one holds or that was put back, no packet is put    *)
(* back twice, and none is leaked on any early return of processIncoming   *)
(* and processOutgoing.                                                    *)
Ownership ==
  /\ Exclusive
  /\ \A t \in Tasks : tpc[t] \in {"unused", "done"} =>
       \A v \in {"pkt", "resp", "snd"} : hold[Var(t, v)] = NoPkt
  /\ \A w \in Workers : opc[w] = "unused" =>
       hold[Var(w, "pkt")] = NoPkt /\ hold[Var(w, "err")] = NoPkt

(* However tasks and workers interleave over recycled packets, what is     *)
(* written bears the reference of the request it answers, goes where that  *)
(* request or its callbacks say, and, unless it reports an error, carries  *)
(* the bytes its own callbacks wrote or its own request brought.           *)
RepliesFaithful ==
  \A t \in Tasks : \A i \in DOMAIN wire[t] :
    IF cb[t] = 0
      THEN Rejects(dgram[t], wire[t][i])
      ELSE Answers(t, dgram[t], wire[t][i])

(* No request is answered twice, relayed requests and failures of the     *)
(* "_out_" pipeline included.                                              *)
AtMostOneReply == \A t \in Tasks : Len(wire[t]) <= 1

-----------------------------------------------------------------------------
(* Why: what is in the packets while they are on their way. *)

\* What a packet is on the wire, and whether it is due for the datagram of t.
AsWritten(p) == [to |-> p.dest, meta |-> p.meta, data |-> p.data]
Due(t, x) == IF cb[t] = 0 THEN Rejects(dgram[t], x) ELSE Answers(t, dgram[t], x)

\* A packet has been sent on sendStream for the datagram of t.
Sent(t) == wire[t] # <<>> \/ \E w \in Workers : cause[w] = t

\* Packets, datagrams, codes and histories have their domains.
IsPkt(p) == DOMAIN p = DOMAIN FreshPkt
RecordInv ==
  /\ DOMAIN pkts = Pkts /\ \A p \in Pkts : IsPkt(pkts[p])
  /\ dgram \in [Tasks -> Datagrams \cup {NoDatagram}]
  /\ DOMAIN stat = Tasks /\ DOMAIN bin = Workers /\ DOMAIN wire = Tasks

\* A task sends once: afterwards it is over, or relayCallback has stopped it.
SentInv ==
  /\ \A w \in Workers : cause[w] = NoTask <=> opc[w] = "unused"
  /\ \A v, w \in Workers : cause[v] = cause[w] /\ cause[v] # NoTask => v = w
  /\ \A t \in Tasks :
       /\ wire[t] # <<>> => Len(wire[t]) = 1 /\ \A w \in Workers : cause[w] # t
       /\ Sent(t) => \/ tpc[t] = "done"
                     \/ tpc[t] = "run" /\ stat[t] = "noop" /\ dgram[t].meta.tgt \in Targets

\* From Unmarshal until it is put back, the request is what the datagram says.
RequestInv(t) ==
  /\ tpc[t] = "unused" <=> dgram[t] = NoDatagram
  /\ tpc[t] \in {"unused", "dataIn", "decode", "resp"} => cb[t] = 0 /\ stat[t] = "continue"
  /\ tpc[t] \in {"run", "forward"} => cb[t] > 0
  /\ tpc[t] \in {"resp", "run", "forward"} \/ (tpc[t] = "fail" /\ cb[t] > 0) =>
       /\ hold[Var(t, "pkt")] # NoPkt /\ Unmarshals(dgram[t])
       /\ Request(t).meta = dgram[t].meta
       /\ Request(t).buff = DecodeString(dgram[t].data)

\* After the first k callbacks of q: ctx.Stat, and what task t has written.
Ends(kind) == kind \in {"error", "noop", "closeSend", "forward"}
StatAfter(q, k) ==
  IF k > 0 /\ q[k] = "forward" THEN "noop"
  ELSE IF k > 0 /\ q[k] # "write" THEN q[k]
  ELSE IF \E i \in 1..k : q[i] = "relay" THEN "relay" ELSE "continue"
WrittenAfter(t, q, k) ==
  Copies(t, Cardinality({j \in 1..k : q[j] \in {"write", "closeSend"}}))

QueueOf(d) == IF d.meta.tgt \in Targets THEN Queues[d.meta.tgt] ELSE <<>>

\* ctx.Stat s and the response resp are what the first k callbacks for the
\* datagram d of t have made of them; none of these but the last ended the queue.
RanInv(t, d, k, s, resp) ==
  /\ k <= Len(QueueOf(d)) /\ \A i \in 1..(k - 1) : ~Ends(QueueOf(d)[i])
  /\ s = StatAfter(QueueOf(d), k)
  /\ resp.meta = [EmptyMeta EXCEPT !.ref = d.meta.ref, !.dst = resp.meta.dst]
  /\ s = "relay" => resp.meta.dst \in RelayDests
  /\ resp.buff = WrittenAfter(t, QueueOf(d), k) /\ resp.dest = d.from

RunInv(t) ==
  /\ tpc[t] \in {"run", "forward"} =>
       RanInv(t, dgram[t], cb[t] - 1, stat[t], pkts[hold[Var(t, "resp")]])
  /\ tpc[t] = "forward" =>
       /\ cb[t] <= Len(QueueOf(dgram[t])) /\ QueueOf(dgram[t])[cb[t]] = "forward"
       /\ ~Stops(stat[t])

\* Whatever is about to be sent or written is due.
SendInv(t) ==
  /\ tpc[t] = "fail" /\ cb[t] > 0 => Fails(dgram[t])
  /\ tpc[t] \in {"send", "forward"} => Due(t, AsWritten(pkts[hold[Var(t, "snd")]]))

OutInv(w) ==
  /\ opc[w] # "unused" => Due(cause[w], AsWritten(Outgoing(w)))
  /\ opc[w] = "send" => Due(cause[w], AsWritten(pkts[hold[Var(w, "err")]]))
  /\ opc[w] = "write" => bin[w] = Marshal(Outgoing(w))

(* From the datagram to the wire: each packet on the way holds what its    *)
(* request calls for, and each request is answered by one of them only.    *)
ReplyInv ==
  /\ RecordInv /\ SentInv /\ RepliesFaithful
  /\ \A t \in Tasks : RequestInv(t) /\ RunInv(t) /\ SendInv(t)
  /\ \A w \in Workers : OutInv(w)

-----------------------------------------------------------------------------
R == INSTANCE Responder WITH got <- dgram, out <- wire

(* The goroutines of the server implement the promise of server.Server:    *)
(* every write answers a datagram that was read and not answered so far,   *)
(* and is one that the datagram calls for.                                 *)
ImplementsResponder == R!Spec

(* While Serve runs, processIncoming ends for every datagram read: the     *)
(* channels and the single writer never block it for good.                 *)
TaskEnds ==
  \A t \in Tasks : tpc[t] = "dataIn" ~> (tpc[t] = "done" \/ serve # "wait")

(* While Serve runs and the data pipelines let packets through, a request  *)
(* that calls for a reply to an address that resolves gets it written.     *)
ReplyWritten ==
  \A t \in Tasks :
    /\ tpc[t] = "run" /\ dgram[t].meta.tgt \in Targets
    /\ Code(dgram[t]) \in {"write", "closeSend", "error"} /\ dgram[t].from \in Resolvable
    ~> (wire[t] # <<>> \/ serve # "wait")

-----------------------------------------------------------------------------
(* Statements of the repository that the code does not keep. *)

(* Serve "blocks until there is an error in reading over the connection,   *)
(* which is then returned": the rest of the process goes on.               *)
ServeReturnsSafely == ~panic

(* NewErrPkt "creates error packets" and NewPkt "returns a new packet":    *)
(* nothing was written to an error packet, so it carries no data.          *)
ErrorCarriesNoData ==
  \A t \in Tasks : \A i \in DOMAIN wire[t] :
    wire[t][i].meta.err => wire[t][i].data = Encode(<<>>)
=============================================================================
