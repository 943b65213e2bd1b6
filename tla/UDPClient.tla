------------------------------ MODULE UDPClient ------------------------------
(***************************************************************************)
(* client/udp_client.go: the goroutines of a UDPClient and the requests    *)
(* map they share. Each call of Send has a response channel of its own; an *)
(* unbuffered Go channel is a step that its sender and its receiver take   *)
(* together. The server, the peers and the lossy, duplicating, reordering  *)
(* network between them are what RecvRead may read: any packet that the    *)
(* requests transmitted so far can have caused, any number of times.       *)
(***************************************************************************)
EXTENDS FiniteSets

CONSTANTS
  Calls,      \* calls of Send made by the application
  NilCalls,   \* those made with respCh = nil
  Refs,       \* non-empty values of the "_ref" metadata key
  NoRef,      \* the empty ref
  RefsOf,     \* [Calls -> SUBSET Refs]: refs a call may bear, set or genRef'd
  PeerRefs,   \* refs on packets the server sends unasked (relayed packets)
  Handlers,   \* processIncoming goroutines: bounds the packets decoded
  Peer, Local, NoCall, NoAnswer

AllRefs == Refs \cup {NoRef}

ASSUME ClientAssumption ==
  /\ NilCalls \subseteq Calls
  /\ RefsOf \in [Calls -> SUBSET Refs]
  /\ PeerRefs \subseteq AllRefs
  /\ NoRef \notin Refs
  /\ NoCall \notin Calls
  /\ Peer \notin Calls /\ Local \notin Calls /\ Peer # Local
  /\ NoAnswer \notin [ref : AllRefs, from : Calls \cup {Peer, Local}]

VARIABLES
  pc,        \* where each call is: in Send, or receiving on its respCh
  ref,       \* the ref on each call's packet
  answer,    \* the packet each caller received on its respCh
  requests,  \* UDPClient.requests: the call registered for a ref, or NoCall
  wpc,       \* the write routine
  wcall,     \* the call whose datagram the write routine holds
  sent,      \* calls whose datagram WriteTo put on the wire
  rpc,       \* the recv routine
  hpc,       \* each processIncoming goroutine
  hpkt,      \* the packet it decoded
  hcall,     \* the call it found in requests
  cleanup    \* "none", or "shutdown" once Cleanup was called

vars == <<pc, ref, answer, requests, wpc, wcall, sent, rpc, hpc, hpkt, hcall,
          cleanup>>
callVars == <<pc, ref, answer>>
writeVars == <<wpc, wcall, sent>>
recvVars == <<rpc, hpc, hpkt, hcall>>

Packets == [ref : AllRefs, from : Calls \cup {Peer, Local}]
ErrPkt == [ref |-> NoRef, from |-> Local]

TypeOK ==
  /\ pc \in [Calls -> {"idle", "write", "register", "await", "returned",
                       "answered", "refused"}]
  /\ ref \in [Calls -> AllRefs]
  /\ answer \in [Calls -> Packets \cup {NoAnswer}]
  /\ requests \in [AllRefs -> Calls \cup {NoCall}]
  /\ wpc \in {"select", "writeTo", "report", "exited"}
  /\ wcall \in Calls \cup {NoCall}
  /\ sent \subseteq Calls
  /\ rpc \in {"select", "read", "exited"}
  /\ hpc \in [Handlers -> {"free", "lookup", "respond", "misc", "delete",
                           "done"}]
  /\ hpkt \in [Handlers -> Packets]
  /\ hcall \in [Handlers -> Calls \cup {NoCall}]
  /\ cleanup \in {"none", "shutdown"}

\* NewUDPClient: nothing registered, recv and write started.
Init ==
  /\ pc = [c \in Calls |-> "idle"]
  /\ ref = [c \in Calls |-> NoRef]
  /\ answer = [c \in Calls |-> NoAnswer]
  /\ requests = [r \in AllRefs |-> NoCall]
  /\ wpc = "select" /\ wcall = NoCall /\ sent = {}
  /\ rpc = "select"
  /\ hpc = [h \in Handlers |-> "free"]
  /\ hpkt = [h \in Handlers |-> ErrPkt]
  /\ hcall = [h \in Handlers |-> NoCall]
  /\ cleanup = "none"

-----------------------------------------------------------------------------
(* Send, up to the blocking send on writeStream. *)
Send(c, r) ==
  /\ pc[c] = "idle"
  /\ r \in RefsOf[c]
  /\ ref' = [ref EXCEPT ![c] = r]
  /\ pc' = [pc EXCEPT ![c] = "write"]
  /\ UNCHANGED <<answer, requests, writeVars, recvVars, cleanup>>

(* Send returns an error: the packet does not encode, or the "_out_"       *)
(* pipeline fails or says CodeStopNoop.                                    *)
SendRefused(c, r) ==
  /\ pc[c] = "idle"
  /\ r \in RefsOf[c]
  /\ ref' = [ref EXCEPT ![c] = r]
  /\ pc' = [pc EXCEPT ![c] = "refused"]
  /\ UNCHANGED <<answer, requests, writeVars, recvVars, cleanup>>

(* writeStream: Send hands the datagram to the write routine. With         *)
(* doneStream closed both cases of its select are ready.                   *)
HandOff(c) ==
  /\ pc[c] = "write"
  /\ wpc = "select"
  /\ wpc' = "writeTo" /\ wcall' = c
  /\ pc' = [pc EXCEPT ![c] = "register"]
  /\ UNCHANGED <<ref, answer, requests, sent, recvVars, cleanup>>

(* The last step of Send: the request is registered only now. A caller     *)
(* with a channel then receives on it.                                     *)
Register(c) ==
  /\ pc[c] = "register"
  /\ requests' = [requests EXCEPT ![ref[c]] = c]
  /\ pc' = [pc EXCEPT ![c] = IF c \in NilCalls THEN "returned" ELSE "await"]
  /\ UNCHANGED <<ref, answer, writeVars, recvVars, cleanup>>

-----------------------------------------------------------------------------
\* Mutant: the same datagram is written again.
WriteRepeats ==
  /\ wpc = "writeTo"
  /\ sent' = sent \cup {wcall}
  /\ UNCHANGED <<wpc, wcall, callVars, requests, recvVars, cleanup>>

(* The write routine. *)
WriteOk ==
  /\ wpc = "writeTo"
  /\ sent' = sent \cup {wcall}
  /\ wpc' = "select" /\ wcall' = NoCall
  /\ UNCHANGED <<callVars, requests, recvVars, cleanup>>

\* Mutant: respCh is not compared with nil.
WriteErrUnchecked ==
  /\ wpc = "writeTo" /\ wpc' = "report"
  /\ UNCHANGED <<wcall, callVars, requests, sent, recvVars, cleanup>>

WriteErr ==
  /\ wpc = "writeTo"
  /\ IF wcall \in NilCalls
       THEN wpc' = "select" /\ wcall' = NoCall
       ELSE wpc' = "report" /\ UNCHANGED wcall
  /\ UNCHANGED <<callVars, requests, sent, recvVars, cleanup>>

\* Mutant: the write is tried again after it was reported.
ReportErrRetry ==
  /\ wpc = "report"
  /\ pc[wcall] = "await"
  /\ answer' = [answer EXCEPT ![wcall] = ErrPkt]
  /\ pc' = [pc EXCEPT ![wcall] = "answered"]
  /\ wpc' = "writeTo"
  /\ UNCHANGED <<wcall, ref, requests, sent, recvVars, cleanup>>

(* respCh <- NewErrPkt: blocks the write routine until the caller receives. *)
ReportErr ==
  /\ wpc = "report"
  /\ pc[wcall] = "await"
  /\ answer' = [answer EXCEPT ![wcall] = ErrPkt]
  /\ pc' = [pc EXCEPT ![wcall] = "answered"]
  /\ wpc' = "select" /\ wcall' = NoCall
  /\ UNCHANGED <<ref, requests, sent, recvVars, cleanup>>

WriterExit ==
  /\ wpc = "select"
  /\ cleanup # "none"
  /\ wpc' = "exited"
  /\ UNCHANGED <<callVars, requests, wcall, sent, recvVars, cleanup>>

-----------------------------------------------------------------------------
(* The recv routine: doneStream is only looked at between two reads. *)
RecvSelect ==
  /\ rpc = "select"
  /\ rpc' = IF cleanup # "none" THEN "exited" ELSE "read"
  /\ UNCHANGED <<callVars, requests, writeVars, hpc, hpkt, hcall, cleanup>>

(* What the server and its peers may have sent by now: relayed packets, and *)
(* responses to transmitted requests, which bear the request's ref unless   *)
(* the server could not decode the request.                                 *)
Arrived(p) ==
  \/ p.from = Peer /\ p.ref \in PeerRefs
  \/ p.from \in sent /\ p.ref \in {ref[p.from], NoRef}

(* ReadFrom returns a packet and processIncoming, in a new goroutine,      *)
(* passes it through the "_in_" pipeline and decodes it.                   *)
Receive(h, p) ==
  /\ rpc = "read"
  /\ hpc[h] = "free"
  /\ rpc' = "select"
  /\ hpc' = [hpc EXCEPT ![h] = "lookup"]
  /\ hpkt' = [hpkt EXCEPT ![h] = p]
  /\ UNCHANGED <<callVars, requests, writeVars, hcall, cleanup>>

RecvRead(h, p) == Arrived(p) /\ Receive(h, p)

(* A read error, or data that the pipeline refuses or that does not decode. *)
RecvIgnored ==
  /\ rpc = "read"
  /\ rpc' = "select"
  /\ UNCHANGED <<callVars, requests, writeVars, hpc, hpkt, hcall, cleanup>>

\* Mutants: the wrong key is looked up; a nil respCh is sent to.
LookupAnyRef(h) ==
  /\ hpc[h] = "lookup"
  /\ \E r \in AllRefs :
       /\ hcall' = [hcall EXCEPT ![h] = requests[r]]
       /\ hpc' = [hpc EXCEPT ![h] =
                    IF requests[r] \in Calls \ NilCalls THEN "respond" ELSE "misc"]
  /\ UNCHANGED <<callVars, requests, writeVars, rpc, hpkt, cleanup>>

LookupUnchecked(h) ==
  /\ hpc[h] = "lookup"
  /\ LET c == requests[hpkt[h].ref] IN
       /\ hcall' = [hcall EXCEPT ![h] = c]
       /\ hpc' = [hpc EXCEPT ![h] = IF c \in Calls THEN "respond" ELSE "misc"]
  /\ UNCHANGED <<callVars, requests, writeVars, rpc, hpkt, cleanup>>

(* processIncoming, under RLock: the call registered for the packet's ref. *)
Lookup(h) ==
  /\ hpc[h] = "lookup"
  /\ LET c == requests[hpkt[h].ref] IN
       /\ hcall' = [hcall EXCEPT ![h] = c]
       /\ hpc' = [hpc EXCEPT ![h] =
                    IF c \in Calls \ NilCalls THEN "respond" ELSE "misc"]
  /\ UNCHANGED <<callVars, requests, writeVars, rpc, hpkt, cleanup>>

(* ctx.respCh <- pkt *)
Respond(h) ==
  /\ hpc[h] = "respond"
  /\ pc[hcall[h]] = "await"
  /\ answer' = [answer EXCEPT ![hcall[h]] = hpkt[h]]
  /\ pc' = [pc EXCEPT ![hcall[h]] = "answered"]
  /\ hpc' = [hpc EXCEPT ![h] = "delete"]
  /\ UNCHANGED <<ref, requests, writeVars, rpc, hpkt, hcall, cleanup>>

(* miscStream <- pkt, when the application receives from Misc(). *)
MiscReceive(h) ==
  /\ hpc[h] = "misc"
  /\ hpc' = [hpc EXCEPT ![h] = "delete"]
  /\ UNCHANGED <<callVars, requests, writeVars, rpc, hpkt, hcall, cleanup>>

\* Mutant: the whole map is reset.
DeleteAll(h) ==
  /\ hpc[h] = "delete"
  /\ requests' = [r \in AllRefs |-> NoCall]
  /\ hpc' = [hpc EXCEPT ![h] = "done"]
  /\ UNCHANGED <<callVars, writeVars, rpc, hpkt, hcall, cleanup>>

(* delete(c.requests, ref), whatever is registered for the ref by then. *)
Delete(h) ==
  /\ hpc[h] = "delete"
  /\ requests' = [requests EXCEPT ![hpkt[h].ref] = NoCall]
  /\ hpc' = [hpc EXCEPT ![h] = "done"]
  /\ UNCHANGED <<callVars, writeVars, rpc, hpkt, hcall, cleanup>>

-----------------------------------------------------------------------------
(* Cleanup closes doneStream and then calls Shutdown, which blocks (see    *)
(* UDPThrottle), so the socket stays open and the recv routine in ReadFrom. *)
Cleanup ==
  /\ cleanup = "none"
  /\ cleanup' = "shutdown"
  /\ UNCHANGED <<callVars, requests, writeVars, recvVars>>

Next ==
  \/ \E c \in Calls :
       \/ \E r \in Refs : Send(c, r) \/ SendRefused(c, r)
       \/ HandOff(c)
       \/ Register(c)
  \/ WriteOk \/ WriteErr \/ ReportErr \/ WriterExit
  \/ RecvSelect \/ RecvIgnored
  \/ \E h \in Handlers :
       \/ \E p \in Packets : RecvRead(h, p)
       \/ Lookup(h) \/ Respond(h) \/ MiscReceive(h) \/ Delete(h)
  \/ Cleanup

Spec == Init /\ [][Next]_vars

(* Every runnable goroutine is eventually scheduled. Nothing obliges the   *)
(* application to call Send or Cleanup or to read Misc(), or the network   *)
(* to deliver.                                                             *)
Fairness ==
  /\ \A c \in Calls : WF_vars(HandOff(c)) /\ WF_vars(Register(c))
  /\ WF_vars(WriteOk \/ WriteErr)
  /\ WF_vars(ReportErr)
  /\ \A h \in Handlers :
       WF_vars(Lookup(h)) /\ WF_vars(Respond(h)) /\ WF_vars(Delete(h))

FairSpec == Spec /\ Fairness
-----------------------------------------------------------------------------
(* Inductive invariant. *)

\* A ref is registered only for a call that bears it and has left Send.
RegistrationInv ==
  \A r \in AllRefs : requests[r] \in Calls =>
    /\ ref[requests[r]] = r
    /\ pc[requests[r]] \in {"await", "returned", "answered"}

\* A call's datagram is with Send, then with the write routine, then sent.
WriterInv ==
  /\ \A c \in Calls : c \in sent \/ c = wcall =>
       pc[c] \in {"register", "await", "returned", "answered"}
  /\ wpc \in {"writeTo", "report"} <=> wcall \in Calls
  /\ wcall \notin sent
  /\ wpc = "report" => wcall \notin NilCalls

\* A decoded packet was caused by a transmitted request or sent unasked; a
\* goroutine about to respond found a caller that bears the packet's ref.
HandlerInv ==
  \A h \in Handlers :
    /\ hpc[h] # "free" =>
         \/ hpkt[h].from = Peer
         \/ hpkt[h].from \in sent /\ hpkt[h].ref \in {ref[hpkt[h].from], NoRef}
    /\ hpc[h] = "respond" =>
         /\ hcall[h] \in Calls \ NilCalls
         /\ ref[hcall[h]] = hpkt[h].ref
         /\ pc[hcall[h]] \in {"await", "answered"}

\* Only callers with a channel wait, and what they get is for their ref.
AnswerInv ==
  \A c \in Calls :
    /\ pc[c] = "idle" <=> ref[c] = NoRef
    /\ pc[c] = "await" => c \notin NilCalls
    /\ pc[c] = "returned" => c \in NilCalls
    /\ pc[c] = "answered" <=> answer[c] # NoAnswer
    /\ answer[c] = ErrPkt => c \notin sent /\ wcall # c
    /\ answer[c] \in Packets =>
         \/ answer[c].from \in {Peer, Local}
         \/ answer[c].from \in sent /\ ref[answer[c].from] = ref[c]

\* A goroutine about to delete found no waiting caller, or has answered it.
FinishInv ==
  \A h \in Handlers : hcall[h] \in Calls \ NilCalls =>
    /\ hpc[h] # "misc"
    /\ hpc[h] = "delete" => pc[hcall[h]] = "answered"

(* The state of the client between any two steps of its goroutines: who is *)
(* registered, who holds which datagram, which answers may be under way.   *)
ClientInv ==
  TypeOK /\ RegistrationInv /\ WriterInv /\ HandlerInv /\ AnswerInv /\ FinishInv

-----------------------------------------------------------------------------
(* Properties. *)

Status(c) ==
  CASE pc[c] = "idle" -> "idle"
    [] pc[c] = "refused" -> "refused"
    [] pc[c] = "answered" -> "answered"
    [] OTHER -> "open"

RR == INSTANCE RequestReply WITH
        status <- [c \in Calls |-> Status(c)], transmitted <- sent

(* The goroutines of the client implement the promise of client.Client:    *)
(* one answer per call, bearing its ref, caused by a transmitted request   *)
(* or sent unasked, or an error packet and then no transmission.           *)
ImplementsRequestReply == RR!Spec

RefsDistinct ==
  \A c, d \in Calls : c # d /\ ref[c] # NoRef => ref[c] # ref[d]

(* While no two calls bear the same ref, no caller receives the response   *)
(* to another call, however the lookups, deletions and registrations of    *)
(* the requests map interleave.                                            *)
OwnAnswer ==
  RefsDistinct =>
    \A c \in Calls : answer[c] # NoAnswer =>
      answer[c].from \in {c, Peer, Local}

(* processIncoming deletes whatever is registered for a ref when it is     *)
(* done. A waiting call still loses its registration in one way only: a    *)
(* packet with its ref was looked up before the call was registered and    *)
(* went to Misc().                                                         *)
ForgottenOnlyThroughMisc ==
  \A c \in Calls :
    RefsDistinct /\ pc[c] = "await" /\ requests[ref[c]] # c =>
      \E h \in Handlers :
        hpc[h] = "done" /\ hpkt[h].ref = ref[c] /\ hcall[h] # c

(* Send returns unless the client is cleaned up: the write routine is      *)
(* never held up for good by a caller it must report a write error to.     *)
SendReturns ==
  \A c \in Calls : pc[c] = "write" ~> (pc[c] # "write" \/ cleanup # "none")

(* A caller that some processIncoming found in the requests map receives a *)
(* packet, whichever of several responses and a write error comes first.   *)
FoundCallerAnswered ==
  \A c \in Calls, h \in Handlers :
    hpc[h] = "respond" /\ hcall[h] = c ~> pc[c] = "answered"

(* "The first packet received from that channel will be either a response  *)
(* from the server or an packet informing of an error": the response to a  *)
(* request, once the client in use has read it, reaches the caller.        *)
ResponseReachesCaller ==
  \A c \in Calls \ NilCalls, h \in Handlers :
    hpc[h] = "lookup" /\ hpkt[h] = [ref |-> ref[c], from |-> c]
      ~> (pc[c] = "answered" \/ cleanup # "none")
=============================================================================
