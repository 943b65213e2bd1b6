----------------------------- MODULE JSONPacket -----------------------------
(***************************************************************************)
(* packet/json_packet.go, json_packet_creator.go, metadata.go: the object  *)
(* behind packet.Packet and the operations on it. "data" is jsonPkt.Data,  *)
(* the base64 text that Marshal puts on the wire; "buff" is the buffer     *)
(* that Write and Data work on; Close copies the one to the other. The     *)
(* metadata map of jsonPkt and of KVMeta is one map. Payload bytes are     *)
(* sequences of the chunks written.                                        *)
(***************************************************************************)
EXTENDS Sequences

CONSTANTS
  NoRef,    \* "" under KeyRef
  NoAddr,   \* "" as an address
  NoTarget, \* "" under KeyTarget
  BadText   \* text that is not base64

(* base64.StdEncoding, applied by Close and undone by Unmarshal. *)
Encode(chunks) == <<"base64", chunks>>
DecodeString(text) == text[2]

\* The keys of the protocol; err stands for KeySvrStatus = "-1", src and dst
\* for KeyRelayFrom and KeyRelayTo.
EmptyMeta ==
  [ref |-> NoRef, err |-> FALSE, tgt |-> NoTarget, src |-> NoAddr, dst |-> NoAddr]

(* The New function of the pool. *)
FreshPkt ==
  [meta |-> EmptyMeta, data |-> Encode(<<>>), buff |-> <<>>, dest |-> NoAddr]

\* Mutant: the buffer of the last user is kept.
NewPktKeepsBuffer(p, ref, dest) ==
  [p EXCEPT !.meta = [EmptyMeta EXCEPT !.ref = ref], !.dest = dest]

(* NewPkt on an object from the pool: jsonPkt.Data keeps what it had. *)
NewPkt(p, ref, dest) ==
  [p EXCEPT !.meta = [EmptyMeta EXCEPT !.ref = ref], !.buff = <<>>, !.dest = dest]

\* Mutant: the status is not set.
NewErrPktUnmarked(p, ref, dest) == NewPkt(p, ref, dest)

(* NewErrPkt: the buffer is never committed with Close. *)
NewErrPkt(p, ref, dest) ==
  [NewPkt(p, ref, dest) EXCEPT !.meta.err = TRUE]

Write(p, chunks) == [p EXCEPT !.buff = @ \o chunks]

Close(p) == [p EXCEPT !.data = Encode(p.buff)]

(* What Marshal puts in the datagram. *)
Marshal(p) == [meta |-> p.meta, data |-> p.data]

(* A datagram whose "form" is "json" decodes into meta and data; otherwise  *)
(* json.Unmarshal fails and leaves the packet alone. Text that is not       *)
(* base64 is found out after meta and data were overwritten.                *)
Unmarshals(d) == d.form = "json" /\ d.data # BadText

Unmarshal(p, d) ==
  IF d.form # "json" THEN p
  ELSE IF d.data = BadText THEN [p EXCEPT !.meta = d.meta, !.data = d.data]
  ELSE [p EXCEPT !.meta = d.meta, !.data = d.data, !.buff = DecodeString(d.data)]
=============================================================================
