--------------------------- MODULE UDPClientProofs ---------------------------
(***************************************************************************)
(* ClientInv is an inductive invariant of UDPClient for every set of calls *)
(* and handlers; OwnAnswer, ForgottenOnlyThroughMisc and the refinement of *)
(* RequestReply follow from it.  In the composition of client, server and  *)
(* network the client behaves as UDPClient says, whatever the numbers of   *)
(* calls and datagrams; its theorems carry over, and EndToEnd follows.     *)
(***************************************************************************)
EXTENDS Session, TLAPS

-----------------------------------------------------------------------------
(* The client. *)

(* The initial state of NewUDPClient satisfies the invariant. *)
LEMMA InitClientInv == Init => ClientInv
  BY ClientAssumption, SMTT(60)
  DEF Init, ClientInv, TypeOK, RegistrationInv, WriterInv, HandlerInv, AnswerInv,
      FinishInv, AllRefs, Packets, ErrPkt

(* No step of any goroutine of the client invalidates the invariant. *)
LEMMA NextClientInv == ClientInv /\ [Next]_vars => ClientInv'
<1> SUFFICES ASSUME ClientInv, [Next]_vars PROVE ClientInv'
  BY Zenon
<1> USE ClientAssumption DEF ClientInv, AllRefs, Packets, ErrPkt, callVars, writeVars, recvVars
<1>1. ASSUME NEW c \in Calls, NEW r \in Refs, Send(c, r) PROVE ClientInv'
  <2>1. TypeOK'
    BY <1>1, Zenon DEF Send, TypeOK
  <2>2. RegistrationInv'
    BY <1>1, SMTT(60) DEF Send, TypeOK, RegistrationInv
  <2>3. WriterInv'
    BY <1>1, Zenon DEF Send, TypeOK, WriterInv
  <2>4. HandlerInv'
    BY <1>1, SMTT(60) DEF Send, TypeOK, RegistrationInv, WriterInv, HandlerInv, AnswerInv
  <2>5. AnswerInv'
    BY <1>1, SMTT(60) DEF Send, TypeOK, WriterInv, HandlerInv, AnswerInv
  <2>6. FinishInv'
    BY <1>1, ZenonT(60) DEF Send, TypeOK, HandlerInv, FinishInv
  <2>. QED
    BY <2>1, <2>2, <2>3, <2>4, <2>5, <2>6, Zenon
<1>2. ASSUME NEW c \in Calls, NEW r \in Refs, SendRefused(c, r) PROVE ClientInv'
  <2>1. TypeOK'
    BY <1>2, Zenon DEF SendRefused, TypeOK
  <2>2. RegistrationInv'
    BY <1>2, SMTT(60) DEF SendRefused, TypeOK, RegistrationInv
  <2>3. WriterInv'
    BY <1>2, Zenon DEF SendRefused, TypeOK, WriterInv
  <2>4. HandlerInv'
    BY <1>2, SMTT(60) DEF SendRefused, TypeOK, RegistrationInv, WriterInv, HandlerInv, AnswerInv
  <2>5. AnswerInv'
    BY <1>2, SMTT(60) DEF SendRefused, TypeOK, WriterInv, HandlerInv, AnswerInv
  <2>6. FinishInv'
    BY <1>2, SMTT(60) DEF SendRefused, TypeOK, HandlerInv, FinishInv
  <2>. QED
    BY <2>1, <2>2, <2>3, <2>4, <2>5, <2>6, Zenon
<1>3. ASSUME NEW c \in Calls, HandOff(c) PROVE ClientInv'
  <2>1. TypeOK'
    BY <1>3, Zenon DEF HandOff, TypeOK
  <2>2. RegistrationInv'
    BY <1>3, SMTT(60) DEF HandOff, TypeOK, RegistrationInv
  <2>3. WriterInv'
    BY <1>3, Zenon DEF HandOff, TypeOK, WriterInv
  <2>4. HandlerInv'
    BY <1>3, ZenonT(60) DEF HandOff, TypeOK, RegistrationInv, WriterInv, HandlerInv, AnswerInv
  <2>5. AnswerInv'
    BY <1>3, SMTT(60) DEF HandOff, TypeOK, WriterInv, HandlerInv, AnswerInv
  <2>6. FinishInv'
    BY <1>3, ZenonT(60) DEF HandOff, TypeOK, HandlerInv, FinishInv
  <2>. QED
    BY <2>1, <2>2, <2>3, <2>4, <2>5, <2>6, Zenon
<1>4. ASSUME NEW c \in Calls, Register(c) PROVE ClientInv'
  <2>1. TypeOK'
    BY <1>4, Zenon DEF Register, TypeOK
  <2>2. RegistrationInv'
    BY <1>4, SMTT(60) DEF Register, TypeOK, RegistrationInv
  <2>3. WriterInv'
    BY <1>4, Zenon DEF Register, TypeOK, WriterInv
  <2>4. HandlerInv'
    BY <1>4, ZenonT(60) DEF Register, TypeOK, RegistrationInv, WriterInv, HandlerInv, AnswerInv
  <2>5. AnswerInv'
    BY <1>4, SMTT(60) DEF Register, TypeOK, WriterInv, HandlerInv, AnswerInv
  <2>6. FinishInv'
    BY <1>4, SMTT(60) DEF Register, TypeOK, HandlerInv, FinishInv
  <2>. QED
    BY <2>1, <2>2, <2>3, <2>4, <2>5, <2>6, Zenon
<1>5. CASE WriteOk
  <2>1. TypeOK'
    BY <1>5, Zenon DEF WriteOk, TypeOK, WriterInv
  <2>2. RegistrationInv'
    BY <1>5, Zenon DEF WriteOk, TypeOK, RegistrationInv
  <2>3. WriterInv'
    BY <1>5, Zenon DEF WriteOk, TypeOK, WriterInv
  <2>4. HandlerInv'
    BY <1>5, ZenonT(60) DEF WriteOk, TypeOK, RegistrationInv, WriterInv, HandlerInv, AnswerInv
  <2>5. AnswerInv'
    BY <1>5, SMTT(60) DEF WriteOk, TypeOK, WriterInv, HandlerInv, AnswerInv
  <2>6. FinishInv'
    BY <1>5, Zenon DEF WriteOk, TypeOK, HandlerInv, FinishInv
  <2>. QED
    BY <2>1, <2>2, <2>3, <2>4, <2>5, <2>6, Zenon
<1>6. CASE WriteErr
  <2>1. TypeOK'
    BY <1>6, Zenon DEF WriteErr, TypeOK
  <2>2. RegistrationInv'
    BY <1>6, Zenon DEF WriteErr, TypeOK, RegistrationInv
  <2>3. WriterInv'
    BY <1>6, SMTT(60) DEF WriteErr, TypeOK, WriterInv
  <2>4. HandlerInv'
    BY <1>6, Zenon DEF WriteErr, TypeOK, RegistrationInv, WriterInv, HandlerInv, AnswerInv
  <2>5. AnswerInv'
    BY <1>6, SMTT(60) DEF WriteErr, TypeOK, WriterInv, HandlerInv, AnswerInv
  <2>6. FinishInv'
    BY <1>6, Zenon DEF WriteErr, TypeOK, HandlerInv, FinishInv
  <2>. QED
    BY <2>1, <2>2, <2>3, <2>4, <2>5, <2>6, Zenon
<1>7. CASE ReportErr
  <2>1. TypeOK'
    BY <1>7, Zenon DEF ReportErr, TypeOK
  <2>2. RegistrationInv'
    BY <1>7, SMTT(60) DEF ReportErr, TypeOK, RegistrationInv
  <2>3. WriterInv'
    BY <1>7, SMTT(60) DEF ReportErr, TypeOK, WriterInv
  <2>4. HandlerInv'
    BY <1>7, SMTT(60) DEF ReportErr, TypeOK, RegistrationInv, WriterInv, HandlerInv, AnswerInv
  <2>5. AnswerInv'
    BY <1>7, SMTT(60) DEF ReportErr, TypeOK, WriterInv, HandlerInv, AnswerInv
  <2>6. FinishInv'
    BY <1>7, SMTT(60) DEF ReportErr, TypeOK, HandlerInv, FinishInv
  <2>. QED
    BY <2>1, <2>2, <2>3, <2>4, <2>5, <2>6, Zenon
<1>8. CASE WriterExit
  BY <1>8, SMTT(60) DEF WriterExit, TypeOK, RegistrationInv, WriterInv, HandlerInv, AnswerInv, FinishInv
<1>9. CASE RecvSelect
  BY <1>9, SMTT(60) DEF RecvSelect, TypeOK, RegistrationInv, WriterInv, HandlerInv, AnswerInv, FinishInv
<1>10. CASE RecvIgnored
  BY <1>10, SMTT(60) DEF RecvIgnored, TypeOK, RegistrationInv, WriterInv, HandlerInv, AnswerInv, FinishInv
<1>11. ASSUME NEW h \in Handlers, NEW p \in Packets, RecvRead(h, p) PROVE ClientInv'
  <2>1. TypeOK'
    BY <1>11, Zenon DEF RecvRead, Receive, Arrived, TypeOK
  <2>2. RegistrationInv'
    BY <1>11, Zenon DEF RecvRead, Receive, Arrived, TypeOK, RegistrationInv
  <2>3. WriterInv'
    BY <1>11, ZenonT(60) DEF RecvRead, Receive, Arrived, TypeOK, WriterInv
  <2>4. HandlerInv'
    BY <1>11, SMTT(60) DEF RecvRead, Receive, Arrived, TypeOK, RegistrationInv, WriterInv, HandlerInv, AnswerInv
  <2>5. AnswerInv'
    BY <1>11, ZenonT(60) DEF RecvRead, Receive, Arrived, TypeOK, WriterInv, HandlerInv, AnswerInv
  <2>6. FinishInv'
    BY <1>11, SMTT(60) DEF RecvRead, Receive, Arrived, TypeOK, HandlerInv, FinishInv
  <2>. QED
    BY <2>1, <2>2, <2>3, <2>4, <2>5, <2>6, Zenon
<1>12. ASSUME NEW h \in Handlers, Lookup(h) PROVE ClientInv'
  <2>1. TypeOK'
    BY <1>12, Zenon DEF Lookup, TypeOK
  <2>2. RegistrationInv'
    BY <1>12, Zenon DEF Lookup, TypeOK, RegistrationInv
  <2>3. WriterInv'
    BY <1>12, ZenonT(60) DEF Lookup, TypeOK, WriterInv
  <2>4. HandlerInv'
    BY <1>12, SMTT(60) DEF Lookup, TypeOK, RegistrationInv, WriterInv, HandlerInv, AnswerInv
  <2>5. AnswerInv'
    BY <1>12, Zenon DEF Lookup, TypeOK, WriterInv, HandlerInv, AnswerInv
  <2>6. FinishInv'
    BY <1>12, ZenonT(60) DEF Lookup, TypeOK, HandlerInv, FinishInv
  <2>. QED
    BY <2>1, <2>2, <2>3, <2>4, <2>5, <2>6, Zenon
<1>13. ASSUME NEW h \in Handlers, Respond(h) PROVE ClientInv'
  <2>1. TypeOK'
    BY <1>13, Zenon DEF Respond, TypeOK
  <2>2. RegistrationInv'
    BY <1>13, SMTT(60) DEF Respond, TypeOK, RegistrationInv
  <2>3. WriterInv'
    BY <1>13, SMTT(60) DEF Respond, TypeOK, WriterInv
  <2>4. HandlerInv'
    BY <1>13, SMTT(60) DEF Respond, TypeOK, RegistrationInv, WriterInv, HandlerInv, AnswerInv
  <2>5. AnswerInv'
    BY <1>13, SMTT(60) DEF Respond, TypeOK, WriterInv, HandlerInv, AnswerInv
  <2>6. FinishInv'
    BY <1>13, ZenonT(60) DEF Respond, TypeOK, HandlerInv, FinishInv
  <2>. QED
    BY <2>1, <2>2, <2>3, <2>4, <2>5, <2>6, Zenon
<1>14. ASSUME NEW h \in Handlers, MiscReceive(h) PROVE ClientInv'
  BY <1>14, SMTT(60) DEF MiscReceive, TypeOK, RegistrationInv, WriterInv, HandlerInv, AnswerInv, FinishInv
<1>15. ASSUME NEW h \in Handlers, Delete(h) PROVE ClientInv'
  <2>1. TypeOK'
    BY <1>15, Zenon DEF Delete, TypeOK
  <2>2. RegistrationInv'
    BY <1>15, Zenon DEF Delete, TypeOK, RegistrationInv
  <2>3. WriterInv'
    BY <1>15, ZenonT(60) DEF Delete, TypeOK, WriterInv
  <2>4. HandlerInv'
    BY <1>15, SMTT(60) DEF Delete, TypeOK, RegistrationInv, WriterInv, HandlerInv, AnswerInv
  <2>5. AnswerInv'
    BY <1>15, ZenonT(60) DEF Delete, TypeOK, WriterInv, HandlerInv, AnswerInv
  <2>6. FinishInv'
    BY <1>15, ZenonT(60) DEF Delete, TypeOK, HandlerInv, FinishInv
  <2>. QED
    BY <2>1, <2>2, <2>3, <2>4, <2>5, <2>6, Zenon
<1>16. CASE Cleanup
  BY <1>16, SMTT(60) DEF Cleanup, TypeOK, RegistrationInv, WriterInv, HandlerInv, AnswerInv, FinishInv
<1>17. CASE UNCHANGED vars
  BY <1>17, SMTT(60) DEF vars, TypeOK, RegistrationInv, WriterInv, HandlerInv, AnswerInv, FinishInv
<1>. QED
  BY <1>1, <1>2, <1>3, <1>4, <1>5, <1>6, <1>7, <1>8, <1>9, <1>10, <1>11, <1>12, <1>13, <1>14, <1>15, <1>16, <1>17, Zenon DEF Next

(* Between any two steps of the goroutines of udp_client.go, whatever the  *)
(* network delivers, ClientInv holds: it is the invariant that the rest of *)
(* the module builds on.                                                   *)
THEOREM ClientInvariant == Spec => []ClientInv
  BY InitClientInv, NextClientInv, PTL DEF Spec

(* While the refs of the calls differ, no caller of Send receives the      *)
(* response to another call.                                               *)
THEOREM AnswersAreOwn == Spec => []OwnAnswer
<1>1. ClientInv => OwnAnswer
  <2> SUFFICES ASSUME ClientInv, RefsDistinct, NEW c \in Calls, answer[c] # NoAnswer
               PROVE  answer[c].from \in {c, Peer, Local}
    BY Zenon DEF OwnAnswer
  <2>1. answer[c] \in Packets /\ ref[c] # NoRef
    BY SMTT(60) DEF ClientInv, TypeOK, AnswerInv
  <2>2. \/ answer[c].from \in {Peer, Local}
        \/ answer[c].from \in Calls /\ ref[answer[c].from] = ref[c]
    BY <2>1, Zenon DEF ClientInv, TypeOK, AnswerInv
  <2>. QED
    BY <2>1, <2>2, Zenon DEF RefsDistinct
<1>. QED
  BY <1>1, ClientInvariant, PTL

-----------------------------------------------------------------------------
(* Refs are never taken back: a call bears its ref from Send on, so that   *)
(* two calls that bear the same ref do so for good.                        *)
LEMMA RefsStay ==
  ASSUME ClientInv, [Next]_vars
  PROVE  /\ \A c \in Calls : ref[c] # NoRef => ref'[c] = ref[c]
         /\ RefsDistinct' => RefsDistinct
<1> USE DEF callVars
<1>1. \A c \in Calls : ref[c] # NoRef => ref'[c] = ref[c]
  <2>1. ASSUME NEW c \in Calls, NEW r \in Refs, Send(c, r) \/ SendRefused(c, r)
        PROVE  \A d \in Calls : ref[d] # NoRef => ref'[d] = ref[d]
    BY <2>1, SMTT(60) DEF Send, SendRefused, ClientInv, TypeOK, AnswerInv
  <2>2. CASE UNCHANGED ref
    BY <2>2, Zenon
  <2>. QED
    BY <2>1, <2>2, Zenon DEF Next, HandOff, Register, WriteOk, WriteErr, ReportErr, WriterExit,
       RecvSelect, RecvIgnored, RecvRead, Receive, Lookup, Respond, MiscReceive, Delete, Cleanup,
       vars
<1>2. RefsDistinct' => RefsDistinct
  BY <1>1, Zenon DEF RefsDistinct
<1>. QED
  BY <1>1, <1>2, Zenon

(* A registration is lost to nothing but the deletion by a goroutine that  *)
(* had passed its packet to Misc().                                        *)
LEMMA NextForgotten ==
  ClientInv /\ ForgottenOnlyThroughMisc /\ [Next]_vars => ForgottenOnlyThroughMisc'
<1> SUFFICES ASSUME ClientInv, ForgottenOnlyThroughMisc, [Next]_vars,
                    NEW c \in Calls, RefsDistinct', pc'[c] = "await", requests'[ref'[c]] # c
             PROVE  \E h \in Handlers :
                      hpc'[h] = "done" /\ hpkt'[h].ref = ref'[c] /\ hcall'[h] # c
  BY ZenonT(30) DEF ForgottenOnlyThroughMisc
<1> USE DEF callVars, writeVars, recvVars
<1>1. RefsDistinct /\ \A d \in Calls : ref[d] # NoRef => ref'[d] = ref[d]
  BY RefsStay, Zenon
<1>2. \A h \in Handlers : hpc[h] = "done" =>
        hpc'[h] = "done" /\ hpkt'[h] = hpkt[h] /\ hcall'[h] = hcall[h]
  <2>1. ASSUME NEW h \in Handlers, NEW p \in Packets, RecvRead(h, p)
        PROVE  \A k \in Handlers : hpc[k] = "done" =>
                 hpc'[k] = "done" /\ hpkt'[k] = hpkt[k] /\ hcall'[k] = hcall[k]
    BY <2>1, Zenon DEF RecvRead, Receive, ClientInv, TypeOK
  <2>2. ASSUME NEW h \in Handlers, Lookup(h) \/ Respond(h) \/ MiscReceive(h) \/ Delete(h)
        PROVE  \A k \in Handlers : hpc[k] = "done" =>
                 hpc'[k] = "done" /\ hpkt'[k] = hpkt[k] /\ hcall'[k] = hcall[k]
    BY <2>2, SMTT(60) DEF Lookup, Respond, MiscReceive, Delete, ClientInv, TypeOK
  <2>3. CASE UNCHANGED <<hpc, hpkt, hcall>>
    BY <2>3, Zenon
  <2>. QED
    BY <2>1, <2>2, <2>3, Zenon DEF Next, Send, SendRefused, HandOff, Register, WriteOk, WriteErr,
       ReportErr, WriterExit, RecvSelect, RecvIgnored, Cleanup, vars
<1>3. ASSUME pc[c] = "await", requests[ref[c]] # c
      PROVE  \E h \in Handlers :
               hpc'[h] = "done" /\ hpkt'[h].ref = ref'[c] /\ hcall'[h] # c
  <2>1. ref[c] # NoRef
    BY <1>3, Zenon DEF ClientInv, AnswerInv
  <2>2. PICK h \in Handlers : hpc[h] = "done" /\ hpkt[h].ref = ref[c] /\ hcall[h] # c
    BY <1>1, <1>3, Zenon DEF ForgottenOnlyThroughMisc
  <2>. QED
    BY <1>1, <1>2, <2>1, <2>2, Zenon
<1>4. ASSUME NEW d \in Calls, Register(d) PROVE pc[c] = "await" /\ requests[ref[c]] # c
  <2>1. /\ requests' = [requests EXCEPT ![ref[d]] = d] /\ ref' = ref
        /\ requests \in [AllRefs -> Calls \cup {NoCall}] /\ ref \in [Calls -> AllRefs]
    BY <1>4, Zenon DEF Register, ClientInv, TypeOK
  <2>2. c # d
    BY <2>1, Zenon DEF AllRefs
  <2>3. pc[c] = "await"
    BY <1>4, <2>2, Zenon DEF Register, ClientInv, TypeOK
  <2>4. ref[c] # ref[d]
    BY <1>1, <2>2, <2>3, SMTT(60) DEF RefsDistinct, ClientInv, AnswerInv
  <2>. QED
    BY <2>1, <2>3, <2>4, Zenon
<1>5. ASSUME NEW h \in Handlers, Delete(h)
      PROVE  \/ pc[c] = "await" /\ requests[ref[c]] # c
             \/ hpc'[h] = "done" /\ hpkt'[h].ref = ref'[c] /\ hcall'[h] # c
  <2>1. /\ pc[c] = "await" /\ ref' = ref /\ hpkt' = hpkt /\ hcall' = hcall /\ hpc[h] = "delete"
        /\ requests' = [requests EXCEPT ![hpkt[h].ref] = NoCall] /\ hpc'[h] = "done"
    BY <1>5, Zenon DEF Delete, ClientInv, TypeOK
  <2>2. CASE hpkt[h].ref = ref[c]
    BY <2>1, <2>2, SMTT(60) DEF ClientInv, AnswerInv, FinishInv
  <2>3. CASE hpkt[h].ref # ref[c]
    BY <2>1, <2>3, Zenon DEF ClientInv, TypeOK
  <2>. QED
    BY <2>2, <2>3, Zenon
<1>6. CASE ~(\E d \in Calls : Register(d)) /\ ~(\E h \in Handlers : Delete(h))
  <2>1. requests' = requests
    BY <1>6, Zenon DEF Next, Send, SendRefused, HandOff, WriteOk, WriteErr, ReportErr, WriterExit,
       RecvSelect, RecvIgnored, RecvRead, Receive, Lookup, Respond, MiscReceive, Cleanup, vars
  <2>2. pc[c] = "await"
    BY <1>6, ZenonT(60) DEF Next, Send, SendRefused, HandOff, WriteOk, WriteErr, ReportErr, WriterExit,
       RecvSelect, RecvIgnored, RecvRead, Receive, Lookup, Respond, MiscReceive, Cleanup, vars,
       ClientInv, TypeOK
  <2>3. ref'[c] = ref[c]
    BY <1>1, <2>2, Zenon DEF ClientInv, AnswerInv
  <2>. QED
    BY <1>3, <2>1, <2>2, <2>3, Zenon
<1>. QED
  BY <1>3, <1>4, <1>5, <1>6, ZenonT(30)

(* A waiting call whose registration is gone lost it to a response that    *)
(* was read before Send had registered the call, and never otherwise.      *)
THEOREM RegistrationsForgotten == Spec => []ForgottenOnlyThroughMisc
<1>1. Init => ForgottenOnlyThroughMisc
  BY SMTT(60) DEF Init, ForgottenOnlyThroughMisc
<1>. QED
  BY <1>1, NextForgotten, ClientInvariant, PTL DEF Spec

-----------------------------------------------------------------------------
(* The initial state of the client is one of RequestReply. *)
LEMMA InitRefines == Init => RR!Init
  BY Zenon DEF Init, RR!Init, Status

(* Every step of the client's goroutines is a step of RequestReply, or     *)
(* none of its variables changes.                                          *)
LEMMA NextRefines == ClientInv /\ [Next]_vars => [RR!Next]_(RR!vars)
<1> SUFFICES ASSUME ClientInv, [Next]_vars PROVE RR!Next \/ UNCHANGED RR!vars
  BY Zenon
<1> DEFINE status == [c \in Calls |-> Status(c)]
<1> USE ClientAssumption DEF ClientInv, AllRefs, callVars, writeVars, recvVars
<1>1. ASSUME NEW c \in Calls, NEW r \in Refs, Send(c, r) PROVE RR!Next
  <2>1. status' = [status EXCEPT ![c] = "open"]
    BY <1>1, Zenon DEF Send, Status, TypeOK
  <2>2. RR!Issue(c, r)
    BY <1>1, <2>1, Zenon DEF Send, Status, RR!Issue
  <2>. QED
    BY <2>2, Zenon DEF RR!Next
<1>2. ASSUME NEW c \in Calls, NEW r \in Refs, SendRefused(c, r) PROVE RR!Next
  <2>1. status' = [status EXCEPT ![c] = "refused"]
    BY <1>2, Zenon DEF SendRefused, Status, TypeOK
  <2>2. RR!Refuse(c, r)
    BY <1>2, <2>1, Zenon DEF SendRefused, Status, RR!Refuse
  <2>. QED
    BY <2>2, Zenon DEF RR!Next
<1>3. CASE WriteOk
  <2>1. wcall \in Calls /\ UNCHANGED <<pc, ref, answer>> /\ sent' = sent \cup {wcall}
    BY <1>3, Zenon DEF WriteOk, WriterInv
  <2>2. pc[wcall] \in {"register", "await", "returned", "answered"}
        /\ wcall \notin sent /\ answer[wcall] # ErrPkt
    BY <2>1, Zenon DEF WriterInv, AnswerInv
  <2>3. UNCHANGED status
    BY <2>1, Zenon DEF Status
  <2>4. RR!Transmit(wcall)
    BY <2>1, <2>2, <2>3, Zenon DEF Status, RR!Transmit, RR!ErrorAnswer, ErrPkt
  <2>. QED
    BY <2>1, <2>4, Zenon DEF RR!Next
<1>4. CASE ReportErr
  <2>1. wcall \in Calls /\ pc[wcall] = "await" /\ wcall \notin sent
    BY <1>4, Zenon DEF ReportErr, WriterInv
  <2>2. status' = [status EXCEPT ![wcall] = "answered"]
    BY <1>4, <2>1, Zenon DEF ReportErr, Status, TypeOK
  <2>3. RR!Answer(wcall, ErrPkt)
    BY <1>4, <2>1, <2>2, Zenon DEF ReportErr, Status, RR!Answer, RR!ErrorAnswer, ErrPkt
  <2>4. ErrPkt \in RR!Packets
    BY Zenon DEF ErrPkt, RR!Packets
  <2>. QED
    BY <2>1, <2>3, <2>4, Zenon DEF RR!Next
<1>5. ASSUME NEW h \in Handlers, Respond(h) PROVE RR!Next
  <2> DEFINE c == hcall[h]
             p == hpkt[h]
  <2>1. c \in Calls /\ pc[c] = "await" /\ p.ref = ref[c] /\ ref[c] # NoRef
    BY <1>5, SMTT(60) DEF Respond, HandlerInv, AnswerInv
  <2>2. p.from = Peer \/ (p.from \in sent /\ ref[p.from] = p.ref)
    BY <1>5, <2>1, Zenon DEF Respond, HandlerInv
  <2>3. status' = [status EXCEPT ![c] = "answered"]
    BY <1>5, <2>1, ZenonT(30) DEF Respond, Status, TypeOK
  <2>4. RR!Answer(c, p)
    BY <1>5, <2>1, <2>2, <2>3, Zenon DEF Respond, Status, RR!Answer
  <2>5. p \in RR!Packets
    BY Zenon DEF TypeOK, Packets, RR!Packets
  <2>. QED
    BY <2>1, <2>4, <2>5, Zenon DEF RR!Next
<1>6. ASSUME NEW c \in Calls, HandOff(c) \/ Register(c) PROVE UNCHANGED RR!vars
  BY <1>6, SMTT(60) DEF HandOff, Register, Status, TypeOK, RR!vars
<1>7. CASE \/ WriteErr \/ WriterExit \/ RecvSelect \/ RecvIgnored \/ Cleanup \/ UNCHANGED vars
           \/ \E h \in Handlers : \/ \E p \in Packets : RecvRead(h, p)
                                  \/ Lookup(h) \/ MiscReceive(h) \/ Delete(h)
  <2>1. UNCHANGED <<pc, ref, answer, sent>>
    BY <1>7, Zenon DEF WriteErr, WriterExit, RecvSelect, RecvIgnored, Cleanup, vars, RecvRead, Receive,
                Lookup, MiscReceive, Delete
  <2>. QED
    BY <2>1, Zenon DEF Status, RR!vars
<1>. QED
  BY <1>1, <1>2, <1>3, <1>4, <1>5, <1>6, <1>7, SMTT(60) DEF Next

(* The client implements RequestReply: each Send gets at most one packet,  *)
(* which bears its ref and answers a transmitted request or was sent       *)
(* unasked, or reports a write that failed.                                *)
THEOREM ClientImplementsRequestReply == Spec => ImplementsRequestReply
  BY InitRefines, NextRefines, ClientInvariant, PTL DEF Spec, ImplementsRequestReply, RR!Spec

-----------------------------------------------------------------------------
(* The session. *)

(* A reply under way to the client is one that UDPClient expects of its    *)
(* environment: caused by a transmitted request, or a peer's packet.       *)
LEMMA RepliesExpected ==
  ASSUME SessionInv, NEW t \in net
  PROVE  t \in Handlers /\ Decoded(t) \in Packets /\ Arrived(Decoded(t))
<1> USE SessionAssumption DEF SessionInv
<1>1. t \in Tasks /\ out[t] # <<>> /\ out[t][1].to = Clt
  BY ZenonT(60) DEF DeliveryInv, ToClient
<1>2. out[t][1] \in Replies /\ got[t] # NoDatagram /\ MayAnswer(t, got[t], out[t][1])
  BY <1>1, SMTT(60) DEF ServerInv
<1>3. Decoded(t) \in Packets
  BY <1>2, Zenon DEF Decoded, Packets, Replies
<1>4. CASE got[t] \in PeerDatagrams
  <2>1. PICK r \in PeerRefs : got[t] = [from |-> Other, ref |-> r, dst |-> Clt, body |-> Peer]
    BY <1>4, ZenonT(60) DEF PeerDatagrams
  <2>2. out[t][1].body = Peer /\ out[t][1].ref = r
    BY <1>1, <1>2, <2>1, SMTT(60) DEF MayAnswer
  <2>. QED
    BY <1>1, <1>3, <2>2, Zenon DEF Decoded, Arrived
<1>5. ASSUME NEW c \in sent, got[t] = Datagram(c)
      PROVE  t \in Handlers /\ Decoded(t) \in Packets /\ Arrived(Decoded(t))
  <2>1. out[t][1].body = c /\ out[t][1].ref \in {ref[c], NoRef}
    BY <1>2, <1>5, SMTT(60) DEF MayAnswer, Datagram
  <2>. QED
    BY <1>1, <1>3, <2>1, Zenon DEF Decoded, Arrived
<1>. QED
  BY <1>1, <1>2, <1>4, <1>5, Zenon DEF ServerInv

(* Every step of the session is a step of the client, or leaves it alone. *)
LEMMA SessionStepsClient == SessionInv /\ [SessionNext]_sessionVars => [Next]_vars
<1> SUFFICES ASSUME SessionInv, [SessionNext]_sessionVars PROVE [Next]_vars
  BY Zenon
<1>1. CASE ClientStep
  BY <1>1, Zenon DEF ClientStep, Next
<1>2. ASSUME NEW t \in Tasks, ServerRead(t) \/ ServerAnswer(t) PROVE UNCHANGED vars
  BY <1>2, Zenon DEF ServerRead, ServerAnswer
<1>3. ASSUME NEW t \in Tasks, ClientRead(t) PROVE Next
  <2>1. t \in net /\ Receive(t, Decoded(t))
    BY <1>3, Zenon DEF ClientRead
  <2>2. t \in Handlers /\ Decoded(t) \in Packets /\ RecvRead(t, Decoded(t))
    BY <2>1, RepliesExpected, Zenon DEF RecvRead
  <2>. QED
    BY <2>2, Zenon DEF Next
<1>4. CASE UNCHANGED sessionVars
  BY <1>4, Zenon DEF sessionVars
<1>. QED
  BY <1>1, <1>2, <1>3, <1>4, Zenon DEF SessionNext

-----------------------------------------------------------------------------
(* The session starts in the invariant: nothing sent, read or answered. *)
LEMMA InitSessionInv == SessionInit => SessionInv
<1> SUFFICES ASSUME SessionInit PROVE SessionInv
  BY Zenon
<1>1. ClientInv
  BY InitClientInv, Zenon DEF SessionInit
<1>2. ServerInv
  BY Zenon DEF SessionInit, S!Init, ServerInv
<1>3. DeliveryInv
  BY Zenon DEF SessionInit, Init, DeliveryInv
<1>. QED
  BY <1>1, <1>2, <1>3, Zenon DEF SessionInv

(* What the client has transmitted stays transmitted, with the same ref. *)
LEMMA SentStays ==
  ASSUME ClientInv, [Next]_vars
  PROVE  /\ sent \subseteq sent'
         /\ \A c \in sent : Datagram(c)' = Datagram(c)
<1>1. sent \subseteq sent'
  BY Zenon DEF Next, Send, SendRefused, HandOff, Register, WriteOk, WriteErr, ReportErr, WriterExit,
     RecvSelect, RecvIgnored, RecvRead, Receive, Lookup, Respond, MiscReceive, Delete, Cleanup,
     vars, writeVars
<1>2. \A c \in sent : c \in Calls /\ ref[c] # NoRef
  BY Zenon DEF ClientInv, TypeOK, WriterInv, AnswerInv
<1>3. \A c \in sent : ref'[c] = ref[c]
  BY <1>2, RefsStay, Zenon
<1>. QED
  BY <1>1, <1>3, Zenon DEF Datagram

(* No step of the client, the server or the network invalidates the        *)
(* invariant.                                                              *)
LEMMA NextSessionInv == SessionInv /\ [SessionNext]_sessionVars => SessionInv'
<1> SUFFICES ASSUME SessionInv, [SessionNext]_sessionVars PROVE SessionInv'
  BY Zenon
<1> USE SessionAssumption
<1>1. [Next]_vars /\ ClientInv /\ ServerInv /\ DeliveryInv
  BY SessionStepsClient, Zenon DEF SessionInv
<1>2. ClientInv'
  BY <1>1, NextClientInv, Zenon
<1>3. /\ sent \subseteq sent' /\ \A c \in sent : Datagram(c)' = Datagram(c)
      /\ \A c \in Calls : ref[c] # NoRef => ref'[c] = ref[c]
  BY <1>1, SentStays, RefsStay, ZenonT(60)
<1>4. ASSUME UNCHANGED <<got, out>> PROVE ServerInv'
  BY <1>1, <1>3, <1>4, SMTT(60) DEF ServerInv, MayAnswer
<1>5. ASSUME NEW t \in Tasks, ServerRead(t) PROVE ServerInv' /\ DeliveryInv'
  <2>1. PICK d \in {Datagram(c) : c \in sent} \cup PeerDatagrams : S!Read(t, d)
    BY <1>5, Zenon DEF ServerRead
  <2>2. /\ got[t] = NoDatagram /\ got' = [got EXCEPT ![t] = d] /\ UNCHANGED <<out, vars, net>>
    BY <1>5, <2>1, ZenonT(60) DEF ServerRead, S!Read
  <2>3. d \in Datagrams
    BY <1>1, ClientAssumption, SMTT(60)
    DEF ClientInv, TypeOK, Datagram, Datagrams, PeerDatagrams
  <2>4. ServerInv'
    <3>1. got' \in [Tasks -> Datagrams \cup {NoDatagram}]
      BY <1>1, <2>2, <2>3, Zenon DEF ServerInv
    <3>2. \A u \in Tasks : u # t => got'[u] = got[u]
      BY <1>1, <2>2, Zenon DEF ServerInv
    <3>3. got'[t] = d /\ out[t] = <<>>
      BY <1>1, <2>2, Zenon DEF ServerInv
    <3>4. sent' = sent /\ \A c \in sent : Datagram(c)' = Datagram(c)
      BY <1>3, <2>2, Zenon DEF vars
    <3>5. \A u \in Tasks : got'[u] # NoDatagram =>
            got'[u] \in PeerDatagrams \/ \E c \in sent' : got'[u] = Datagram(c)'
      BY <1>1, <2>1, <3>2, <3>3, <3>4, ZenonT(60) DEF ServerInv
    <3>6. \A u \in Tasks : out'[u] # <<>> =>
            got'[u] # NoDatagram /\ MayAnswer(u, got'[u], out'[u][1])
      BY <1>1, <2>2, <3>2, <3>3, Zenon DEF ServerInv
    <3>. QED
      BY <1>1, <2>2, <3>1, <3>5, <3>6, Zenon DEF ServerInv, MayAnswer
  <2>5. DeliveryInv'
    BY <1>1, <2>2, SMTT(60) DEF DeliveryInv, ToClient, Decoded, vars
  <2>. QED
    BY <2>4, <2>5, Zenon
<1>6. ASSUME NEW t \in Tasks, ServerAnswer(t) PROVE ServerInv' /\ DeliveryInv'
  <2>1. PICK x \in Replies :
          /\ S!Answer(t, x)
          /\ net' = IF x.to = Clt THEN net \cup {t} ELSE net
    BY <1>6, Zenon DEF ServerAnswer
  <2>2. /\ got[t] # NoDatagram /\ out[t] = <<>> /\ MayAnswer(t, got[t], x)
        /\ out' = [out EXCEPT ![t] = <<x>>] /\ UNCHANGED <<got, vars>>
    BY <1>6, <2>1, ZenonT(60) DEF ServerAnswer, S!Answer
  <2>3. /\ out' \in [Tasks -> {<<>>} \cup {<<y>> : y \in Replies}]
        /\ out'[t] = <<x>> /\ \A u \in Tasks : u # t => out'[u] = out[u]
    BY <1>1, <2>2, Zenon DEF ServerInv
  <2>4. ServerInv'
    <3>1. \A u \in Tasks : out'[u] # <<>> =>
            got[u] # NoDatagram /\ MayAnswer(u, got[u], out'[u][1])
      BY <1>1, <2>2, <2>3, Zenon DEF ServerInv
    <3>. QED
      BY <1>1, <1>3, <2>2, <2>3, <3>1, SMTT(60) DEF ServerInv, MayAnswer
  <2>5. \A u : ToClient(u) => ToClient(u)' /\ Decoded(u)' = Decoded(u)
    BY <2>2, <2>3, Zenon DEF ToClient, Decoded
  <2>6. x.to = Clt => ToClient(t)'
    BY <2>3, SMTT(60) DEF ToClient
  <2>7. DeliveryInv'
    BY <1>1, <2>1, <2>2, <2>5, <2>6, Zenon DEF DeliveryInv, vars
  <2>. QED
    BY <2>4, <2>7, Zenon
<1>7. ASSUME UNCHANGED <<got, out>>
      PROVE  \A u : ToClient(u)' = ToClient(u) /\ Decoded(u)' = Decoded(u)
  BY <1>7, Zenon DEF ToClient, Decoded
<1>8. ASSUME NEW t \in Tasks, ClientRead(t) PROVE DeliveryInv'
  <2>1. /\ t \in net /\ UNCHANGED <<got, out, answer, ref>> /\ net' \subseteq net
        /\ hpc' = [hpc EXCEPT ![t] = "lookup"] /\ hpkt' = [hpkt EXCEPT ![t] = Decoded(t)]
    BY <1>8, Zenon DEF ClientRead, Receive, callVars
  <2>2. t \in Handlers /\ hpkt'[t] = Decoded(t) /\ ToClient(t)
        /\ \A h \in Handlers : h # t => hpc'[h] = hpc[h] /\ hpkt'[h] = hpkt[h]
    BY <1>1, <2>1, Zenon DEF ClientInv, TypeOK, DeliveryInv
  <2>. QED
    BY <1>1, <1>7, <2>1, <2>2, Zenon DEF DeliveryInv
<1>9. ASSUME ClientStep PROVE DeliveryInv'
  <2>0. UNCHANGED <<got, out, net>>
    BY <1>9, Zenon DEF ClientStep
  <2>1. \A h \in Handlers : hpc'[h] # "free" => hpc[h] # "free" /\ hpkt'[h] = hpkt[h]
    BY <1>1, <1>9, ZenonT(30) DEF ClientStep, ClientInv, TypeOK, Send, SendRefused, HandOff, Register, WriteOk,
       WriteErr, ReportErr, WriterExit, RecvSelect, RecvIgnored, Lookup, Respond, MiscReceive,
       Delete, Cleanup, recvVars
  <2>2. ASSUME NEW c \in Calls, answer'[c] \notin {NoAnswer, ErrPkt}
        PROVE  \E t \in Tasks : ToClient(t) /\ answer'[c] = Decoded(t) /\ answer'[c].ref = ref'[c]
    <3>1. CASE answer'[c] = answer[c]
      <4>1. ref[c] # NoRef
        BY <1>1, <2>2, <3>1, Zenon DEF ClientInv, AnswerInv
      <4>. QED
        BY <1>1, <1>3, <2>2, <3>1, <4>1, ZenonT(30) DEF DeliveryInv
    <3>2. ASSUME NEW h \in Handlers, Respond(h), answer'[c] # answer[c]
          PROVE  \E t \in Tasks :
                   ToClient(t) /\ answer'[c] = Decoded(t) /\ answer'[c].ref = ref'[c]
      <4>1. hcall[h] = c /\ answer'[c] = hpkt[h] /\ hpc[h] = "respond" /\ ref' = ref
        BY <1>1, <3>2, Zenon DEF Respond, ClientInv, TypeOK
      <4>2. ref[c] = hpkt[h].ref /\ ToClient(h) /\ hpkt[h] = Decoded(h)
        BY <1>1, <4>1, Zenon DEF ClientInv, HandlerInv, DeliveryInv
      <4>. QED
        BY <4>1, <4>2, Zenon DEF ToClient
    <3>3. CASE ReportErr
      BY <1>1, <2>2, <3>1, <3>3, Zenon DEF ReportErr, ClientInv, TypeOK
    <3>4. CASE answer' = answer
      BY <3>1, <3>4, Zenon
    <3>. QED
      BY <1>9, <3>1, <3>2, <3>3, <3>4, ZenonT(30) DEF ClientStep, Send, SendRefused, HandOff, Register, WriteOk,
         WriteErr, WriterExit, RecvSelect, RecvIgnored, Lookup, MiscReceive, Delete, Cleanup,
         callVars
  <2>. QED
    BY <1>1, <1>4, <1>7, <2>0, <2>1, <2>2, ZenonT(30) DEF DeliveryInv
<1>10. ASSUME UNCHANGED sessionVars PROVE ServerInv' /\ DeliveryInv'
  BY <1>1, <1>4, <1>7, <1>10, Zenon DEF sessionVars, vars, DeliveryInv
<1>11. ServerInv' /\ DeliveryInv'
  <2>1. CASE ClientStep
    BY <1>4, <1>9, <2>1, Zenon DEF ClientStep
  <2>2. ASSUME NEW t \in Tasks, ClientRead(t) PROVE ServerInv' /\ DeliveryInv'
    BY <1>4, <1>8, <2>2, Zenon DEF ClientRead
  <2>3. CASE UNCHANGED sessionVars
    BY <1>4, <1>10, <2>3, Zenon DEF sessionVars
  <2>. QED
    BY <1>5, <1>6, <2>1, <2>2, <2>3, Zenon DEF SessionNext
<1>. QED
  BY <1>2, <1>11, Zenon DEF SessionInv

(* In every run of the session the packets that the client decodes and     *)
(* returns are the server's answers to what the client or a peer sent.     *)
THEOREM SessionInvariant == SessionSpec => []SessionInv
  BY InitSessionInv, NextSessionInv, PTL DEF SessionSpec

(* What UDPClient assumes of its environment is met by the server and the  *)
(* network: the client in the session satisfies its specification.         *)
THEOREM AssumptionMet == SessionSpec => ClientAssumptionMet
<1>1. SessionInit => Init
  BY Zenon DEF SessionInit
<1>. QED
  BY <1>1, SessionInvariant, SessionStepsClient, PTL DEF SessionSpec, ClientAssumptionMet, Spec

(* Therefore the client in the session keeps the promise of RequestReply. *)
THEOREM SessionKeepsPromise == SessionSpec => ImplementsRequestReply
  BY AssumptionMet, ClientImplementsRequestReply, Zenon DEF ClientAssumptionMet

(* From call to callback and back: with refs that differ, a response that  *)
(* a caller gets was written by the server for the caller's own request,   *)
(* and an error packet means that the server never saw the request.        *)
THEOREM EndToEndHolds == SessionSpec => []EndToEnd
<1>1. SessionInv => EndToEnd
  <2> SUFFICES ASSUME SessionInv, NEW c \in Calls, answer[c] # NoAnswer, RefsDistinct,
                      ref[c] \notin PeerRefs
               PROVE  IF answer[c] = ErrPkt
                        THEN \A t \in Tasks : got[t] # NoDatagram => got[t].body # c
                        ELSE \E t \in Tasks :
                               /\ got[t] = Datagram(c)
                               /\ out[t] = <<[to |-> Clt, ref |-> ref[c], body |-> c]>>
    BY Zenon DEF EndToEnd
  <2>1. CASE answer[c] = ErrPkt
    <3>1. c \notin sent
      BY <2>1, Zenon DEF SessionInv, ClientInv, AnswerInv
    <3>2. ASSUME NEW t \in Tasks, got[t] # NoDatagram PROVE got[t].body # c
      <4>1. CASE got[t] \in PeerDatagrams
        BY <4>1, ClientAssumption, SMTT(60) DEF PeerDatagrams
      <4>2. CASE \E d \in sent : got[t] = Datagram(d)
        BY <3>1, <4>2, SMTT(60) DEF Datagram
      <4>. QED
        BY <3>2, <4>1, <4>2, Zenon DEF SessionInv, ServerInv
    <3>. QED
      BY <2>1, <3>2, Zenon
  <2>2. CASE answer[c] # ErrPkt
    <3>1. PICK t \in Tasks : ToClient(t) /\ answer[c] = Decoded(t) /\ answer[c].ref = ref[c]
      BY <2>2, Zenon DEF SessionInv, DeliveryInv
    <3>2. PICK x \in Replies : out[t] = <<x>>
      BY <3>1, ZenonT(60) DEF SessionInv, ServerInv, ToClient
    <3>3. x.to = Clt /\ x.ref = ref[c] /\ got[t] # NoDatagram /\ MayAnswer(t, got[t], x)
      BY <3>1, <3>2, SMTT(60) DEF SessionInv, ServerInv, ToClient, Decoded
    <3>4. got[t] \notin PeerDatagrams
      BY <3>3, SessionAssumption, SMTT(60) DEF PeerDatagrams, MayAnswer
    <3>5. PICK d \in sent : got[t] = Datagram(d)
      BY <3>3, <3>4, Zenon DEF SessionInv, ServerInv
    <3>6. d \in Calls /\ ref[c] # NoRef
      BY Zenon DEF SessionInv, ClientInv, TypeOK, AnswerInv
    <3>7. x.body = d /\ ref[c] = ref[d]
      BY <3>3, <3>5, <3>6, SMTT(60) DEF MayAnswer, Datagram
    <3>8. d = c
      BY <3>6, <3>7, Zenon DEF RefsDistinct
    <3>9. x = [to |-> Clt, ref |-> ref[c], body |-> c]
      BY <3>2, <3>3, <3>7, <3>8, Zenon DEF Replies
    <3>. QED
      BY <2>2, <3>2, <3>5, <3>8, <3>9, Zenon
  <2>. QED
    BY <2>1, <2>2, Zenon
<1>. QED
  BY <1>1, SessionInvariant, PTL
=============================================================================
