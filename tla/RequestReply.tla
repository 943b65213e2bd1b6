---------------------------- MODULE RequestReply ----------------------------
(***************************************************************************)
(* What client.Client promises the application about Send                  *)
(* (client/client.go): a call is refused, or stays open until one packet   *)
(* is received on its response channel. That packet is a response bearing  *)
(* the call's ref, or the client's own error packet, and then the request  *)
(* never reaches the wire.                                                 *)
(***************************************************************************)
CONSTANTS
  Calls,   \* calls of Send
  Refs,    \* values of the "_ref" metadata key
  NoRef,   \* the empty ref
  Peer,    \* origin of a packet that no call asked for (a relayed packet)
  Local,   \* origin of the client's own error packets
  NoAnswer

VARIABLES
  status,       \* [Calls -> {"idle", "open", "refused", "answered"}]
  ref,          \* [Calls -> Refs \cup {NoRef}]
  transmitted,  \* the calls whose request was written to the socket
  answer        \* [Calls -> packet or NoAnswer], what the caller received

vars == <<status, ref, transmitted, answer>>

ErrorAnswer == [ref |-> NoRef, from |-> Local]

Init ==
  /\ status = [c \in Calls |-> "idle"]
  /\ ref = [c \in Calls |-> NoRef]
  /\ transmitted = {}
  /\ answer = [c \in Calls |-> NoAnswer]

Issue(c, r) ==
  /\ status[c] = "idle"
  /\ status' = [status EXCEPT ![c] = "open"]
  /\ ref' = [ref EXCEPT ![c] = r]
  /\ UNCHANGED <<transmitted, answer>>

Refuse(c, r) ==
  /\ status[c] = "idle"
  /\ status' = [status EXCEPT ![c] = "refused"]
  /\ ref' = [ref EXCEPT ![c] = r]
  /\ UNCHANGED <<transmitted, answer>>

\* A request is transmitted at most once, and never after its caller was told
\* that the write failed.
Transmit(c) ==
  /\ status[c] \in {"open", "answered"}
  /\ c \notin transmitted
  /\ answer[c] # ErrorAnswer
  /\ transmitted' = transmitted \cup {c}
  /\ UNCHANGED <<status, ref, answer>>

\* A response that answers call o may answer c when both bear the same ref.
Answer(c, p) ==
  /\ status[c] = "open"
  /\ \/ p = ErrorAnswer /\ c \notin transmitted
     \/ p.ref = ref[c] /\ p.from = Peer
     \/ p.ref = ref[c] /\ \E o \in transmitted : p.from = o /\ ref[o] = p.ref
  /\ status' = [status EXCEPT ![c] = "answered"]
  /\ answer' = [answer EXCEPT ![c] = p]
  /\ UNCHANGED <<ref, transmitted>>

Packets == [ref : Refs \cup {NoRef}, from : Calls \cup {Peer, Local}]

Next ==
  \E c \in Calls :
    \/ \E r \in Refs : Issue(c, r) \/ Refuse(c, r)
    \/ Transmit(c)
    \/ \E p \in Packets : Answer(c, p)

Spec == Init /\ [][Next]_vars
=============================================================================
