----------------------------- MODULE UDPThrottle -----------------------------
(***************************************************************************)
(* core/throttle/udp_throttle.go: the goroutines read and write between a  *)
(* UDP connection and two buffered channels, WriteTo and ReadFrom on the   *)
(* other side of the channels, and the setters of the rate. Time advances  *)
(* in ticks; an operation of read or write takes at least tpo ticks from   *)
(* its start to the start of the next one.                                 *)
(***************************************************************************)
EXTENDS Integers, Sequences

CONSTANTS
  Sec,         \* ticks in a second: the code's sec, 10^9 nanoseconds
  Rates,       \* the rates SetThroughput is called with
  Factors,     \* the factors ScaleThroughput is called with
  InitialRate,
  RecvCap,     \* capacity of th.recv (100 in the code)
  SendCap,     \* capacity of th.send (100)
  Writers,     \* calls of WriteTo, one per packet
  NoWriter,
  MaxReads,    \* bound: results of ReadFromUDP
  MaxTime,     \* bound: the clock stops here unless somebody sleeps
  MaxRate      \* bound: no scaling beyond it

ASSUME ThrottleAssumption ==
  /\ Sec \in Nat /\ RecvCap \in Nat \ {0} /\ SendCap \in Nat \ {0}
  /\ InitialRate \in Nat \ {0} /\ Rates \subseteq Nat \ {0} /\ Factors \subseteq Nat \ {0}
  /\ NoWriter \notin Writers
  /\ MaxReads \in Nat /\ MaxTime \in Nat /\ MaxRate \in Nat

VARIABLES
  now,       \* the clock
  rate, tpo, \* th.rate and th.tpo
  fastest,   \* history: the smallest tpo so far
  rpc, rstart, rwake,        \* read: its place, start of the operation, end of the sleep
  recv,                      \* the channel th.recv
  reads, delivered,          \* history: results read off the connection; returned by ReadFrom
  wpc, wstart, wwake, wcur,  \* write: the same, and the packet it took
  send,                      \* the channel th.send
  accepted, written,         \* history: packets put in th.send; results of conn.WriteTo
  cpc, status,               \* WriteTo: its place and the status it returned
  shutdown                   \* Shutdown: "none" or "sending"

clock == <<rate, tpo, fastest>>
reading == <<rpc, rstart, rwake, recv, reads, delivered>>
writing == <<wpc, wstart, wwake, wcur, send, accepted, written, cpc, status>>
vars == <<now, clock, reading, writing, shutdown>>

(* tpo is computed by truncating division. *)
TimePerOp(r) == Sec \div r

(* NewUDPThrottle; results of ReadFromUDP are numbered. *)
Init ==
  /\ now = 0 /\ rate = InitialRate /\ tpo = TimePerOp(InitialRate) /\ fastest = tpo
  /\ rpc = "select" /\ rstart = 0 /\ rwake = 0 /\ recv = <<>> /\ reads = 0 /\ delivered = <<>>
  /\ wpc = "select" /\ wstart = 0 /\ wwake = 0 /\ wcur = NoWriter /\ send = <<>>
  /\ accepted = <<>> /\ written = <<>>
  /\ cpc = [c \in Writers |-> "none"] /\ status = [c \in Writers |-> "none"]
  /\ shutdown = "none"

-----------------------------------------------------------------------------
Asleep == (rpc = "sleep" /\ rwake > now) \/ (wpc = "sleep" /\ wwake > now)

Tick ==
  /\ now < MaxTime \/ Asleep
  /\ now' = now + 1
  /\ UNCHANGED <<clock, reading, writing, shutdown>>

ChangeRate(r) ==
  /\ rate' = r /\ tpo' = TimePerOp(r)
  /\ fastest' = IF TimePerOp(r) < fastest THEN TimePerOp(r) ELSE fastest
  /\ UNCHANGED <<now, reading, writing, shutdown>>

SetThroughput(r) == ChangeRate(r)

ScaleThroughput(f) == rate * f <= MaxRate /\ ChangeRate(rate * f)

(* Shutdown sends on th.done, which NewUDPThrottle never makes: a send on  *)
(* a nil channel blocks, and the receives of read and write are never      *)
(* ready.                                                                  *)
Shutdown ==
  /\ shutdown = "none" /\ shutdown' = "sending"
  /\ UNCHANGED <<now, clock, reading, writing>>

\* Mutant: the sleep is a tick short.
WakeEarly(start) == IF tpo > now - start THEN start + tpo - 1 ELSE now

(* When throttleOperation, called by an operation begun at start, returns. *)
WakeTime(start) == IF tpo > now - start THEN start + tpo ELSE now

-----------------------------------------------------------------------------
(* read: select falls through to ReadFromUDP. *)
ReadStart ==
  /\ rpc = "select" /\ rpc' = "read" /\ rstart' = now
  /\ UNCHANGED <<now, clock, rwake, recv, reads, delivered, writing, shutdown>>

(* ReadFromUDP returns a datagram or an error. *)
ReadFromUDP ==
  /\ rpc = "read" /\ reads < MaxReads
  /\ reads' = reads + 1 /\ rpc' = "push"
  /\ UNCHANGED <<now, clock, rstart, rwake, recv, delivered, writing, shutdown>>

\* Mutant: a full th.recv drops the packet.
ReadPushDrops ==
  /\ rpc = "push" /\ rpc' = "throttle"
  /\ recv' = IF Len(recv) < RecvCap THEN Append(recv, reads) ELSE recv
  /\ UNCHANGED <<now, clock, rstart, rwake, reads, delivered, writing, shutdown>>

(* th.recv <- pkt, which waits for room. *)
ReadPush ==
  /\ rpc = "push" /\ Len(recv) < RecvCap
  /\ recv' = Append(recv, reads) /\ rpc' = "throttle"
  /\ UNCHANGED <<now, clock, rstart, rwake, reads, delivered, writing, shutdown>>

ReadThrottle ==
  /\ rpc = "throttle" /\ rpc' = "sleep" /\ rwake' = WakeTime(rstart)
  /\ UNCHANGED <<now, clock, rstart, recv, reads, delivered, writing, shutdown>>

ReadWake ==
  /\ rpc = "sleep" /\ now >= rwake /\ rpc' = "select"
  /\ UNCHANGED <<now, clock, rstart, rwake, recv, reads, delivered, writing, shutdown>>

(* A call of ReadFrom takes the oldest packet. *)
ReadFrom ==
  /\ recv # <<>>
  /\ delivered' = Append(delivered, Head(recv)) /\ recv' = Tail(recv)
  /\ UNCHANGED <<now, clock, rpc, rstart, rwake, reads, writing, shutdown>>

-----------------------------------------------------------------------------
(* WriteTo: th.send <- pkt, which waits for room, then <-respCh. *)
WriteTo(c) ==
  /\ cpc[c] = "none" /\ cpc' = [cpc EXCEPT ![c] = "enqueue"]
  /\ UNCHANGED <<now, clock, reading, wpc, wstart, wwake, wcur, send, accepted, written,
                 status, shutdown>>

\* Mutant: one packet too many.
EnqueueOver(c) ==
  /\ cpc[c] = "enqueue" /\ Len(send) <= SendCap
  /\ send' = Append(send, c) /\ accepted' = Append(accepted, c)
  /\ cpc' = [cpc EXCEPT ![c] = "await"]
  /\ UNCHANGED <<now, clock, reading, wpc, wstart, wwake, wcur, written, status, shutdown>>

Enqueue(c) ==
  /\ cpc[c] = "enqueue" /\ Len(send) < SendCap
  /\ send' = Append(send, c) /\ accepted' = Append(accepted, c)
  /\ cpc' = [cpc EXCEPT ![c] = "await"]
  /\ UNCHANGED <<now, clock, reading, wpc, wstart, wwake, wcur, written, status, shutdown>>

\* Mutant: a packet whose write failed goes back to the channel.
ConnWriteRequeues ==
  /\ wpc = "write"
  /\ \E res \in {"ok", "error"} :
       /\ written' = Append(written, [by |-> wcur, res |-> res])
       /\ IF res = "error" /\ Len(send) < SendCap
            THEN send' = Append(send, wcur) /\ wpc' = "throttle"
            ELSE wpc' = "respond" /\ UNCHANGED send
  /\ UNCHANGED <<now, clock, reading, wstart, wwake, wcur, accepted, cpc, status, shutdown>>

(* write: pkt := <-th.send. *)
WriteStart ==
  /\ wpc = "select" /\ send # <<>>
  /\ wcur' = Head(send) /\ send' = Tail(send) /\ wstart' = now /\ wpc' = "write"
  /\ UNCHANGED <<now, clock, reading, wwake, accepted, written, cpc, status, shutdown>>

(* conn.WriteTo succeeds or fails. *)
ConnWrite ==
  /\ wpc = "write" /\ wpc' = "respond"
  /\ \E res \in {"ok", "error"} : written' = Append(written, [by |-> wcur, res |-> res])
  /\ UNCHANGED <<now, clock, reading, wstart, wwake, wcur, send, accepted, cpc, status, shutdown>>

\* Mutants: one respCh for all calls; a failed write is not reported.
RespondAny ==
  /\ wpc = "respond"
  /\ \E c \in Writers :
       /\ cpc[c] = "await"
       /\ status' = [status EXCEPT ![c] = written[Len(written)].res]
       /\ cpc' = [cpc EXCEPT ![c] = "returned"]
  /\ wpc' = "throttle" /\ wcur' = NoWriter
  /\ UNCHANGED <<now, clock, reading, wstart, wwake, send, accepted, written, shutdown>>

RespondOk ==
  /\ wpc = "respond" /\ cpc[wcur] = "await"
  /\ LET res == written[Len(written)].res IN
       /\ status' = IF res = "ok" THEN [status EXCEPT ![wcur] = res] ELSE status
       /\ cpc' = IF res = "ok" THEN [cpc EXCEPT ![wcur] = "returned"] ELSE cpc
  /\ wpc' = "throttle" /\ wcur' = NoWriter
  /\ UNCHANGED <<now, clock, reading, wstart, wwake, send, accepted, written, shutdown>>

(* pkt.respCh <- status meets the WriteTo that made the channel. *)
Respond ==
  /\ wpc = "respond" /\ cpc[wcur] = "await"
  /\ status' = [status EXCEPT ![wcur] = written[Len(written)].res]
  /\ cpc' = [cpc EXCEPT ![wcur] = "returned"]
  /\ wpc' = "throttle" /\ wcur' = NoWriter
  /\ UNCHANGED <<now, clock, reading, wstart, wwake, send, accepted, written, shutdown>>

WriteThrottle ==
  /\ wpc = "throttle" /\ wpc' = "sleep" /\ wwake' = WakeTime(wstart)
  /\ UNCHANGED <<now, clock, reading, wstart, wcur, send, accepted, written, cpc, status, shutdown>>

WriteWake ==
  /\ wpc = "sleep" /\ now >= wwake /\ wpc' = "select"
  /\ UNCHANGED <<now, clock, reading, wstart, wwake, wcur, send, accepted, written, cpc,
                 status, shutdown>>

-----------------------------------------------------------------------------
ReadStep == ReadStart \/ ReadFromUDP \/ ReadPush \/ ReadThrottle \/ ReadWake
WriteStep == WriteStart \/ ConnWrite \/ Respond \/ WriteThrottle \/ WriteWake

Next ==
  \/ Tick \/ Shutdown
  \/ \E r \in Rates : SetThroughput(r)
  \/ \E f \in Factors : ScaleThroughput(f)
  \/ ReadStep \/ ReadFrom \/ WriteStep
  \/ \E c \in Writers : WriteTo(c) \/ Enqueue(c)

Spec == Init /\ [][Next]_vars

(* Time passes, goroutines run, the servers call ReadFrom in a loop, and a  *)
(* sender waiting for room in th.send gets its turn.                        *)
Fairness ==
  /\ WF_vars(Tick) /\ WF_vars(ReadStep) /\ WF_vars(WriteStep) /\ WF_vars(ReadFrom)
  /\ \A c \in Writers : SF_vars(Enqueue(c))

FairSpec == Spec /\ Fairness

-----------------------------------------------------------------------------
\* What conn.WriteTo made of a packet.
Results == [by : Writers, res : {"ok", "error"}]

(* The variables of the throttle keep their types and the channels their   *)
(* capacity.                                                               *)
TypeOK ==
  /\ now \in Nat /\ rate \in Nat \ {0} /\ tpo \in Nat /\ fastest \in Nat
  /\ rpc \in {"select", "read", "push", "throttle", "sleep"} /\ rstart \in Nat /\ rwake \in Nat
  /\ wpc \in {"select", "write", "respond", "throttle", "sleep"} /\ wstart \in Nat /\ wwake \in Nat
  /\ recv \in Seq(Nat) /\ Len(recv) <= RecvCap /\ reads \in Nat /\ delivered \in Seq(Nat)
  /\ send \in Seq(Writers) /\ Len(send) <= SendCap /\ wcur \in Writers \cup {NoWriter}
  /\ accepted \in Seq(Writers) /\ written \in Seq(Results)
  /\ cpc \in [Writers -> {"none", "enqueue", "await", "returned"}]
  /\ status \in [Writers -> {"none", "ok", "error"}]
  /\ shutdown \in {"none", "sending"}

(* Whatever comes off the connection is returned by ReadFrom once and in   *)
(* order, full and empty buffers and rate changes notwithstanding: what    *)
(* was delivered, what th.recv holds and what read is about to put there   *)
(* make up everything read.                                                *)
ReadsInOrder ==
  delivered \o recv \o (IF rpc = "push" THEN <<reads>> ELSE <<>>) = [i \in 1..reads |-> i]

(* Packets go out once each, in the order in which th.send took them.      *)
WritesInOrder ==
  [i \in DOMAIN written |-> written[i].by]
    \o (IF wpc = "write" THEN <<wcur>> ELSE <<>>) \o send = accepted

(* WriteTo returns the outcome of writing its own packet, written exactly  *)
(* once, however many calls are under way.                                 *)
OwnStatus ==
  \A c \in Writers : cpc[c] = "returned" =>
    \E i \in DOMAIN written :
      /\ written[i] = [by |-> c, res |-> status[c]]
      /\ \A j \in DOMAIN written : written[j].by = c => j = i

(* The rate is a limit: by time now no more than one operation per tpo,    *)
(* and one to start with, has gone through in either direction; under      *)
(* changes of the rate the smallest tpo so far counts.                     *)
RateLimit ==
  /\ Len(written) > 0 => (Len(written) - 1) * fastest <= now
  /\ reads > 0 => (reads - 1) * fastest <= now

-----------------------------------------------------------------------------
(* Inductive invariant. *)

\* th.send takes a packet of each call once, when the call begins to wait.
AcceptedInv ==
  /\ \A i, j \in DOMAIN accepted : accepted[i] = accepted[j] => i = j
  /\ \A i \in DOMAIN accepted : cpc[accepted[i]] \in {"await", "returned"}

\* The status that write is about to return, and those it has returned.
StatusInv ==
  /\ wpc \in {"write", "respond"} => wcur \in Writers
  /\ wpc = "respond" => written # <<>> /\ written[Len(written)].by = wcur
  /\ \A c \in Writers : cpc[c] = "returned" =>
       \E i \in DOMAIN written : written[i] = [by |-> c, res |-> status[c]]

\* A routine at pc that has done n operations and begun the last one at start.
Paced(pc, n, start, wake) ==
  /\ start <= now
  /\ pc = "select" => n * fastest <= now
  /\ pc \in {"read", "write"} => n * fastest <= start
  /\ pc \in {"push", "respond", "throttle", "sleep"} => n > 0 /\ (n - 1) * fastest <= start
  /\ pc = "sleep" => start + fastest <= wake

PaceInv ==
  /\ fastest <= tpo
  /\ Paced(rpc, reads, rstart, rwake)
  /\ Paced(wpc, Len(written), wstart, wwake)

(* The state of the throttle between any two steps: types and capacities,  *)
(* where each packet is, whose status is under way and how far the         *)
(* operations done are ahead of the clock.                                 *)
ThrottleInv ==
  TypeOK /\ ReadsInOrder /\ WritesInOrder /\ AcceptedInv /\ StatusInv /\ PaceInv

-----------------------------------------------------------------------------
(* Every call of WriteTo returns, full buffer or not. *)
WriteToReturns == \A c \in Writers : cpc[c] = "enqueue" ~> cpc[c] = "returned"

(* Every datagram read off the connection reaches a caller of ReadFrom: a  *)
(* full th.recv delays the reader and loses nothing.                       *)
ReadsDelivered ==
  \A n \in 1..MaxReads : reads = n ~> (Len(delivered) >= n /\ delivered[n] = n)
=============================================================================
