-------------------------- MODULE UDPThrottleProofs --------------------------
(***************************************************************************)
(* ThrottleInv is an inductive invariant of UDPThrottle for every set of   *)
(* callers, capacity of the channels and choice of rates; the order of the *)
(* packets, the statuses that WriteTo returns and the limit on the rate    *)
(* follow from it.                                                         *)
(***************************************************************************)
EXTENDS UDPThrottle, SequenceTheorems, TLAPS

-----------------------------------------------------------------------------
(* Arithmetic of the clock and the rate. *)

(* A smaller time per operation makes the time for n operations smaller. *)
LEMMA TimesMonotone ==
  ASSUME NEW n \in Nat, NEW f \in Nat, NEW g \in Nat, g <= f
  PROVE  n * g <= n * f
<1>1. n * (f - g) >= 0
  BY SMT
<1>2. n * (f - g) = n * f - n * g
  BY SMT
<1>. QED
  BY <1>1, <1>2, SMT

(* The time for n operations is a number of ticks. *)
LEMMA TimesNat == \A n, f \in Nat : n * f \in Nat
  BY SMT

(* One more operation takes one more tpo. *)
LEMMA TimesSuccessor ==
  ASSUME NEW n \in Nat, n > 0, NEW f \in Nat
  PROVE  /\ (n - 1) * f + f = n * f
         /\ (n - 1) * f \in Nat /\ n * f \in Nat
<1>1. PICK m \in Nat : m = n - 1
  BY SMTT(60)
<1>2. m * f \in Nat /\ n * f \in Nat
  BY TimesNat, Zenon
<1>3. m * f + f = (m + 1) * f
  BY SMT
<1>. QED
  BY <1>1, <1>2, <1>3, SMTT(60)

(* time.Sleep: an operation that began after the n - 1 before it, and whose *)
(* routine has slept out its tpo, ends after n of them.                     *)
LEMMA SleptOut ==
  ASSUME NEW n \in Nat, n > 0, NEW f \in Nat, NEW start \in Nat, NEW wake \in Nat,
         NEW t \in Nat, (n - 1) * f <= start, start + f <= wake, wake <= t
  PROVE  n * f <= t
<1>1. PICK a \in Nat : a = (n - 1) * f
  BY TimesSuccessor, Zenon
<1>2. PICK b \in Nat : b = n * f
  BY TimesSuccessor, Zenon
<1>3. a + f = b
  BY <1>1, <1>2, TimesSuccessor, Zenon
<1>4. a <= start
  BY <1>1, Zenon
<1>5. b <= t
  BY <1>3, <1>4, SMTT(60)
<1>. QED
  BY <1>2, <1>5, Zenon

(* The operation under way is not counted in the time that has passed. *)
LEMMA Elapsed ==
  ASSUME NEW n \in Nat, n > 0, NEW f \in Nat, NEW start \in Nat, NEW t \in Nat, start <= t,
         n * f <= t \/ n * f <= start \/ (n - 1) * f <= start
  PROVE  (n - 1) * f <= t
<1>1. PICK a \in Nat : a = (n - 1) * f
  BY TimesSuccessor, Zenon
<1>2. PICK b \in Nat : b = n * f
  BY TimesSuccessor, Zenon
<1>3. a + f = b
  BY <1>1, <1>2, TimesSuccessor, Zenon
<1>4. b <= t \/ b <= start \/ a <= start
  BY <1>1, <1>2, Zenon
<1>5. a <= t
  BY <1>3, <1>4, SMTT(60)
<1>. QED
  BY <1>1, <1>5, Zenon

(* The time per operation is a natural number of ticks: truncated to 0    *)
(* when the rate exceeds the ticks of a second.                            *)
LEMMA TimePerOpType == \A r \in Nat \ {0} : TimePerOp(r) \in Nat
  BY ThrottleAssumption, SMTT(60) DEF TimePerOp

(* Scaling a rate by a factor leaves a rate. *)
LEMMA ScaledRate == \A r, f \in Nat \ {0} : r * f \in Nat \ {0}
  BY SMT

(* What the invariant says of a routine stays true when the time per       *)
(* operation gets smaller.                                                 *)
LEMMA PacedFaster ==
  ASSUME NEW t \in Nat, NEW f \in Nat, NEW g \in Nat, g <= f,
         NEW pc, NEW n \in Nat, NEW start \in Nat, NEW wake \in Nat,
         start <= t,
         pc = "select" => n * f <= t,
         pc \in {"read", "write"} => n * f <= start,
         pc \in {"push", "respond", "throttle", "sleep"} => n > 0 /\ (n - 1) * f <= start,
         pc = "sleep" => start + f <= wake
  PROVE  /\ pc = "select" => n * g <= t
         /\ pc \in {"read", "write"} => n * g <= start
         /\ pc \in {"push", "respond", "throttle", "sleep"} => n > 0 /\ (n - 1) * g <= start
         /\ pc = "sleep" => start + g <= wake
<1>1. n * f \in Nat /\ n * g \in Nat /\ n * g <= n * f
  BY TimesNat, TimesMonotone, Zenon
<1>2. ASSUME n > 0
      PROVE  (n - 1) * f \in Nat /\ (n - 1) * g \in Nat /\ (n - 1) * g <= (n - 1) * f
  <2>1. n - 1 \in Nat
    BY <1>2, SMTT(60)
  <2>. QED
    BY <2>1, TimesNat, TimesMonotone, Zenon
<1>3. pc = "select" => n * g <= t
  BY <1>1, SMTT(60)
<1>4. pc \in {"read", "write"} => n * g <= start
  BY <1>1, SMTT(60)
<1>5. pc \in {"push", "respond", "throttle", "sleep"} => n > 0 /\ (n - 1) * g <= start
  BY <1>2, SMTT(60)
<1>. QED
  BY <1>3, <1>4, <1>5, SMTT(60)

-----------------------------------------------------------------------------
(* Sequences: taking the head of a channel, putting a packet in it. *)

(* Moving the head of t to the end of s does not change s \o t. *)
LEMMA MoveHead ==
  ASSUME NEW S, NEW s \in Seq(S), NEW t \in Seq(S), t # <<>>
  PROVE  Append(s, Head(t)) \o Tail(t) = s \o t
<1>1. /\ Head(t) \in S /\ Tail(t) \in Seq(S) /\ t = <<Head(t)>> \o Tail(t)
  BY HeadTailProperties, ConcatProperties, SMTT(60)
<1>2. Append(s, Head(t)) = s \o <<Head(t)>>
  BY <1>1, AppendIsConcat, Zenon
<1>3. <<Head(t)>> \in Seq(S)
  BY <1>1, SMTT(60)
<1>4. (s \o <<Head(t)>>) \o Tail(t) = s \o (<<Head(t)>> \o Tail(t))
  BY <1>1, <1>3, ConcatAssociative, SMTT(60)
<1>. QED
  BY <1>1, <1>2, <1>4, Zenon

(* Appending to the second part of a concatenation appends to the whole. *)
LEMMA AppendRight ==
  ASSUME NEW S, NEW s \in Seq(S), NEW t \in Seq(S), NEW e \in S
  PROVE  s \o Append(t, e) = Append(s \o t, e)
<1>1. Append(t, e) = t \o <<e>> /\ Append(s \o t, e) = (s \o t) \o <<e>>
  BY AppendIsConcat, ConcatProperties, Zenon
<1>. QED
  BY <1>1, ConcatAssociative, SMTT(60)

(* One more result off the connection: the numbers read so far grow by one. *)
LEMMA NumbersGrow ==
  ASSUME NEW n \in Nat
  PROVE  /\ [i \in 1..n |-> i] \in Seq(Nat)
         /\ [i \in 1..(n + 1) |-> i] = Append([i \in 1..n |-> i], n + 1)
<1>1. [i \in 1..n |-> i] \in Seq(Nat) /\ [i \in 1..(n + 1) |-> i] \in Seq(Nat)
  BY SMTT(60)
<1>. QED
  BY <1>1, SMTT(60)

\* The writers of the results in w, in order.
By(w) == [i \in DOMAIN w |-> w[i].by]

(* The writers of a sequence of results form a sequence. *)
LEMMA WritersSeq ==
  ASSUME NEW w \in Seq(Results)
  PROVE  By(w) \in Seq(Writers) /\ Len(By(w)) = Len(w)
<1>1. DOMAIN w = 1..Len(w) /\ Len(w) \in Nat /\ w \in [1..Len(w) -> Results]
  BY LenProperties, Zenon
<1>2. \A r \in Results : r.by \in Writers
  BY Zenon DEF Results
<1>. QED
  BY <1>1, <1>2, SMTT(60) DEF By

(* conn.WriteTo extends that sequence by the writer of the packet at hand. *)
LEMMA WritersGrow ==
  ASSUME NEW w \in Seq(Results), NEW e \in Results
  PROVE  By(Append(w, e)) = Append(By(w), e.by)
<1>1. ASSUME NEW v \in Seq(Results) PROVE By(v) \in Seq(Writers) /\ Len(By(v)) = Len(v)
  BY WritersSeq, Zenon
<1>2. /\ Append(w, e) \in Seq(Results) /\ Len(Append(w, e)) = Len(w) + 1
      /\ \A i \in 1..Len(w) : Append(w, e)[i] = w[i]
      /\ Append(w, e)[Len(w) + 1] = e
  BY AppendProperties, SMTT(60)
<1>3. \A i \in 1..(Len(w) + 1) : By(Append(w, e))[i] = Append(By(w), e.by)[i]
  <2>. SUFFICES ASSUME NEW i \in 1..(Len(w) + 1)
                PROVE  By(Append(w, e))[i] = Append(By(w), e.by)[i]
    BY Zenon
  <2>1. By(Append(w, e))[i] = Append(w, e)[i].by
    BY <1>2, SMTT(60) DEF By
  <2>2. CASE i \in 1..Len(w)
    BY <1>1, <1>2, <2>1, <2>2, SMTT(60) DEF By
  <2>3. CASE i = Len(w) + 1
    BY <1>1, <1>2, <2>1, <2>3, SMTT(60)
  <2>4. Len(w) \in Nat
    BY LenProperties, Zenon
  <2>5. i \in 1..Len(w) \/ i = Len(w) + 1
    BY <2>4, SMTT(60)
  <2>. QED
    BY <2>2, <2>3, <2>5, Zenon
<1>4. e.by \in Writers
  BY Zenon DEF Results
<1>5. By(Append(w, e)) \in Seq(Writers) /\ Len(By(Append(w, e))) = Len(w) + 1
  BY <1>1, <1>2, Zenon
<1>6. Append(By(w), e.by) \in Seq(Writers) /\ Len(Append(By(w), e.by)) = Len(w) + 1
  <2>1. By(w) \in Seq(Writers) /\ Len(By(w)) = Len(w)
    BY <1>1, Zenon
  <2>. QED
    BY <2>1, <1>4, AppendProperties, SMTT(60)
<1>. QED
  BY <1>1, <1>3, <1>5, <1>6, SeqEqual, SMTT(60)

-----------------------------------------------------------------------------
(* The inductive invariant. *)

(* NewUDPThrottle starts in the invariant. *)
LEMMA InitThrottleInv == Init => ThrottleInv
<1> SUFFICES ASSUME Init PROVE ThrottleInv
  BY Zenon
<1>1. TypeOK
  BY ThrottleAssumption, TimePerOpType, SMTT(60) DEF Init, TypeOK
<1>2. ReadsInOrder
  BY SMTT(60) DEF Init, ReadsInOrder
<1>3. WritesInOrder
  BY SMTT(60) DEF Init, WritesInOrder
<1>4. AcceptedInv
  BY SMTT(60) DEF Init, AcceptedInv
<1>5. StatusInv
  BY Zenon DEF Init, StatusInv
<1>6. PaceInv
  BY <1>1, SMTT(60) DEF Init, PaceInv, Paced, TypeOK
<1>. QED
  BY <1>1, <1>2, <1>3, <1>4, <1>5, <1>6, Zenon DEF ThrottleInv

(* No step of read, of write, of their callers or of the setters of the    *)
(* rate invalidates the invariant.                                         *)
LEMMA NextThrottleInv == ThrottleInv /\ [Next]_vars => ThrottleInv'
<1> SUFFICES ASSUME ThrottleInv, [Next]_vars PROVE ThrottleInv'
  BY Zenon
<1> USE ThrottleAssumption DEF ThrottleInv, clock, reading, writing
<1>1. CASE Tick
  <2>1. TypeOK'
    BY <1>1, SMTT(60) DEF Tick, TypeOK
  <2>2. ReadsInOrder'
    BY <1>1, Zenon DEF Tick, ReadsInOrder
  <2>3. (WritesInOrder /\ AcceptedInv /\ StatusInv)'
    BY <1>1, ZenonT(60) DEF Tick, WritesInOrder, AcceptedInv, StatusInv
  <2>4. PaceInv'
    BY <1>1, SMTT(60) DEF Tick, PaceInv, Paced, TypeOK
  <2>. QED
    BY <2>1, <2>2, <2>3, <2>4, Zenon
<1>2. CASE Shutdown
  <2>1. TypeOK'
    BY <1>2, Zenon DEF Shutdown, TypeOK
  <2>2. ReadsInOrder'
    BY <1>2, Zenon DEF Shutdown, ReadsInOrder
  <2>3. (WritesInOrder /\ AcceptedInv /\ StatusInv)'
    BY <1>2, ZenonT(60) DEF Shutdown, WritesInOrder, AcceptedInv, StatusInv
  <2>4. PaceInv'
    BY <1>2, SMTT(60) DEF Shutdown, PaceInv, Paced, TypeOK
  <2>. QED
    BY <2>1, <2>2, <2>3, <2>4, Zenon
<1>3. ASSUME NEW r \in Nat \ {0}, ChangeRate(r) PROVE ThrottleInv'
  <2>0. TimePerOp(r) \in Nat
    BY <1>3, TimePerOpType, Zenon
  <2>1. TypeOK'
    BY <1>3, <2>0, SMTT(60) DEF ChangeRate, TypeOK
  <2>2. ReadsInOrder'
    BY <1>3, Zenon DEF ChangeRate, ReadsInOrder
  <2>3. (WritesInOrder /\ AcceptedInv /\ StatusInv)'
    BY <1>3, ZenonT(60) DEF ChangeRate, WritesInOrder, AcceptedInv, StatusInv
  <2>4. PaceInv'
    <3>1. fastest' \in Nat /\ fastest' <= fastest /\ fastest' <= tpo'
      BY <1>3, <2>0, SMTT(60) DEF ChangeRate, TypeOK
    <3>3. /\ now' = now /\ rpc' = rpc /\ reads' = reads /\ rstart' = rstart /\ rwake' = rwake
          /\ wpc' = wpc /\ written' = written /\ wstart' = wstart /\ wwake' = wwake
      BY <1>3, Zenon DEF ChangeRate
    <3>4. Len(written) \in Nat
      BY LenProperties, Zenon DEF TypeOK
    <3>6. Paced(rpc, reads, rstart, rwake)'
      <4>1. reads \in Nat /\ rstart \in Nat /\ rwake \in Nat /\ now \in Nat /\ fastest \in Nat
        BY Zenon DEF TypeOK
      <4>2. /\ rstart <= now
            /\ rpc = "select" => reads * fastest <= now
            /\ rpc \in {"read", "write"} => reads * fastest <= rstart
            /\ rpc \in {"push", "respond", "throttle", "sleep"} =>
                 reads > 0 /\ (reads - 1) * fastest <= rstart
            /\ rpc = "sleep" => rstart + fastest <= rwake
        BY Zenon DEF PaceInv, Paced
      <4>3. /\ rpc = "select" => reads * fastest' <= now
            /\ rpc \in {"read", "write"} => reads * fastest' <= rstart
            /\ rpc \in {"push", "respond", "throttle", "sleep"} =>
                 reads > 0 /\ (reads - 1) * fastest' <= rstart
            /\ rpc = "sleep" => rstart + fastest' <= rwake
        BY <3>1, <4>1, <4>2, PacedFaster, Zenon
      <4>. QED
        BY <3>3, <4>2, <4>3, Zenon DEF Paced
    <3>7. Paced(wpc, Len(written), wstart, wwake)'
      <4>. DEFINE n == Len(written)
      <4>. HIDE DEF n
      <4>1. n \in Nat /\ wstart \in Nat /\ wwake \in Nat /\ now \in Nat /\ fastest \in Nat
        BY <3>4, Zenon DEF TypeOK, n
      <4>2. /\ wstart <= now
            /\ wpc = "select" => n * fastest <= now
            /\ wpc \in {"read", "write"} => n * fastest <= wstart
            /\ wpc \in {"push", "respond", "throttle", "sleep"} =>
                 n > 0 /\ (n - 1) * fastest <= wstart
            /\ wpc = "sleep" => wstart + fastest <= wwake
        BY Zenon DEF PaceInv, Paced, n
      <4>3. /\ wpc = "select" => n * fastest' <= now
            /\ wpc \in {"read", "write"} => n * fastest' <= wstart
            /\ wpc \in {"push", "respond", "throttle", "sleep"} =>
                 n > 0 /\ (n - 1) * fastest' <= wstart
            /\ wpc = "sleep" => wstart + fastest' <= wwake
        BY <3>1, <4>1, <4>2, PacedFaster, Zenon
      <4>. QED
        BY <3>3, <4>2, <4>3, Zenon DEF Paced, n
    <3>. QED
      BY <3>1, <3>6, <3>7, Zenon DEF PaceInv
  <2>. QED
    BY <2>1, <2>2, <2>3, <2>4, Zenon
<1>4. CASE ReadStart
  <2>1. TypeOK'
    BY <1>4, Zenon DEF ReadStart, TypeOK
  <2>2. ReadsInOrder'
    BY <1>4, Zenon DEF ReadStart, ReadsInOrder
  <2>3. (WritesInOrder /\ AcceptedInv /\ StatusInv)'
    BY <1>4, ZenonT(60) DEF ReadStart, WritesInOrder, AcceptedInv, StatusInv
  <2>4. PaceInv'
    BY <1>4, SMTT(60) DEF ReadStart, PaceInv, Paced, TypeOK
  <2>. QED
    BY <2>1, <2>2, <2>3, <2>4, Zenon
<1>5. CASE ReadFromUDP
  <2>1. TypeOK'
    BY <1>5, SMTT(60) DEF ReadFromUDP, TypeOK
  <2>2. ReadsInOrder'
    <3>1. delivered \o recv \in Seq(Nat)
      BY ConcatProperties, Zenon DEF TypeOK
    <3>2. delivered \o recv = [i \in 1..reads |-> i]
      BY <1>5, <3>1, ConcatEmptySeq, Zenon DEF ReadFromUDP, ReadsInOrder
    <3>3. (delivered \o recv) \o <<reads + 1>> = [i \in 1..(reads + 1) |-> i]
      BY <3>1, <3>2, NumbersGrow, AppendIsConcat, SMTT(60) DEF TypeOK
    <3>. QED
      BY <1>5, <3>3, Zenon DEF ReadFromUDP, ReadsInOrder
  <2>3. (WritesInOrder /\ AcceptedInv /\ StatusInv)'
    BY <1>5, ZenonT(60) DEF ReadFromUDP, WritesInOrder, AcceptedInv, StatusInv
  <2>4. PaceInv'
    BY <1>5, SMTT(60) DEF ReadFromUDP, PaceInv, Paced, TypeOK
  <2>. QED
    BY <2>1, <2>2, <2>3, <2>4, Zenon
<1>6. CASE ReadPush
  <2>1. TypeOK'
    BY <1>6, SMTT(60) DEF ReadPush, TypeOK
  <2>2. ReadsInOrder'
    <3>1. delivered \o recv \in Seq(Nat)
      BY ConcatProperties, Zenon DEF TypeOK
    <3>2. (delivered \o recv) \o <<reads>> = [i \in 1..reads |-> i]
      BY <1>6, Zenon DEF ReadPush, ReadsInOrder
    <3>3. delivered \o Append(recv, reads) = (delivered \o recv) \o <<reads>>
      BY <3>1, AppendRight, AppendIsConcat, SMTT(60) DEF TypeOK
    <3>4. (delivered \o Append(recv, reads)) \o <<>> = delivered \o Append(recv, reads)
      BY ConcatEmptySeq, ConcatProperties, AppendProperties, SMTT(60) DEF TypeOK
    <3>. QED
      BY <1>6, <3>2, <3>3, <3>4, Zenon DEF ReadPush, ReadsInOrder
  <2>3. (WritesInOrder /\ AcceptedInv /\ StatusInv)'
    BY <1>6, ZenonT(60) DEF ReadPush, WritesInOrder, AcceptedInv, StatusInv
  <2>4. PaceInv'
    BY <1>6, Zenon DEF ReadPush, PaceInv, Paced, TypeOK
  <2>. QED
    BY <2>1, <2>2, <2>3, <2>4, Zenon
<1>7. CASE ReadThrottle
  <2>1. TypeOK'
    BY <1>7, SMTT(60) DEF ReadThrottle, WakeTime, TypeOK
  <2>2. ReadsInOrder'
    BY <1>7, Zenon DEF ReadThrottle, WakeTime, ReadsInOrder
  <2>3. (WritesInOrder /\ AcceptedInv /\ StatusInv)'
    BY <1>7, ZenonT(60) DEF ReadThrottle, WakeTime, WritesInOrder, AcceptedInv, StatusInv
  <2>4. PaceInv'
    BY <1>7, SMTT(60) DEF ReadThrottle, WakeTime, PaceInv, Paced, TypeOK
  <2>. QED
    BY <2>1, <2>2, <2>3, <2>4, Zenon
<1>8. CASE ReadWake
  <2>1. TypeOK'
    BY <1>8, Zenon DEF ReadWake, TypeOK
  <2>2. ReadsInOrder'
    BY <1>8, Zenon DEF ReadWake, ReadsInOrder
  <2>3. (WritesInOrder /\ AcceptedInv /\ StatusInv)'
    BY <1>8, ZenonT(60) DEF ReadWake, WritesInOrder, AcceptedInv, StatusInv
  <2>4. PaceInv'
    <3>1. reads \in Nat /\ reads > 0
      BY <1>8, Zenon DEF ReadWake, PaceInv, Paced, TypeOK
    <3>2. /\ fastest \in Nat /\ rstart \in Nat /\ rwake \in Nat /\ now \in Nat
          /\ rwake <= now
      BY <1>8, Zenon DEF ReadWake, TypeOK
    <3>3. (reads - 1) * fastest <= rstart /\ rstart + fastest <= rwake
      BY <1>8, Zenon DEF ReadWake, PaceInv, Paced
    <3>4. reads * fastest <= now
      BY <3>1, <3>2, <3>3, SleptOut, Zenon
    <3>. QED
      BY <1>8, <3>4, Zenon DEF ReadWake, PaceInv, Paced
  <2>. QED
    BY <2>1, <2>2, <2>3, <2>4, Zenon
<1>9. CASE ReadFrom
  <2>1. TypeOK'
    <3>1. /\ recv \in Seq(Nat) /\ recv # <<>> /\ Len(recv) <= RecvCap /\ delivered \in Seq(Nat)
          /\ RecvCap \in Nat
      BY <1>9, ThrottleAssumption, Zenon DEF ReadFrom, TypeOK
    <3>2. /\ Head(recv) \in Nat /\ Tail(recv) \in Seq(Nat) /\ Len(Tail(recv)) = Len(recv) - 1
          /\ Len(recv) \in Nat
      BY <3>1, HeadTailProperties, LenProperties, Zenon
    <3>3. Len(Tail(recv)) <= RecvCap
      BY <3>1, <3>2, SMTT(60)
    <3>4. Append(delivered, Head(recv)) \in Seq(Nat)
      BY <3>1, <3>2, AppendProperties, Zenon
    <3>. QED
      BY <1>9, <3>2, <3>3, <3>4, Zenon DEF ReadFrom, TypeOK, clock, writing
  <2>2. ReadsInOrder'
    <3>1. Append(delivered, Head(recv)) \o Tail(recv) = delivered \o recv
      BY <1>9, MoveHead, ZenonT(60) DEF ReadFrom, TypeOK
    <3>. QED
      BY <1>9, <3>1, Zenon DEF ReadFrom, ReadsInOrder
  <2>3. (WritesInOrder /\ AcceptedInv /\ StatusInv)'
    BY <1>9, ZenonT(60) DEF ReadFrom, WritesInOrder, AcceptedInv, StatusInv
  <2>4. PaceInv'
    BY <1>9, SMTT(60) DEF ReadFrom, PaceInv, Paced, TypeOK
  <2>. QED
    BY <2>1, <2>2, <2>3, <2>4, SMTT(60)
<1>10. ASSUME NEW c \in Writers, WriteTo(c) PROVE ThrottleInv'
  <2>1. TypeOK'
    BY <1>10, SMTT(60) DEF WriteTo, TypeOK
  <2>2. ReadsInOrder'
    BY <1>10, Zenon DEF WriteTo, ReadsInOrder
  <2>3. (WritesInOrder /\ AcceptedInv /\ StatusInv)'
    <3>1. WritesInOrder'
      BY <1>10, Zenon DEF WriteTo, WritesInOrder
    <3>2. \A d \in Writers : cpc'[d] \in {"await", "returned"} <=> cpc[d] \in {"await", "returned"}
      BY <1>10, Zenon DEF WriteTo, TypeOK
    <3>3. AcceptedInv'
      <4>1. accepted' = accepted /\ \A i \in DOMAIN accepted : accepted[i] \in Writers
        BY <1>10, LenProperties, SMTT(60) DEF WriteTo, TypeOK
      <4>. QED
        BY <3>2, <4>1, Zenon DEF AcceptedInv
    <3>4. \A d \in Writers : cpc'[d] = "returned" => cpc[d] = "returned"
      BY <1>10, Zenon DEF WriteTo, TypeOK
    <3>5. StatusInv'
      BY <1>10, <3>4, Zenon DEF WriteTo, StatusInv
    <3>. QED
      BY <3>1, <3>3, <3>5, Zenon
  <2>4. PaceInv'
    BY <1>10, Zenon DEF WriteTo, PaceInv, Paced, TypeOK
  <2>. QED
    BY <2>1, <2>2, <2>3, <2>4, Zenon
<1>11. ASSUME NEW c \in Writers, Enqueue(c) PROVE ThrottleInv'
  <2>1. TypeOK'
    BY <1>11, AppendProperties, SMTT(60) DEF Enqueue, TypeOK
  <2>2. ReadsInOrder'
    BY <1>11, Zenon DEF Enqueue, ReadsInOrder
  <2>3. (WritesInOrder /\ AcceptedInv /\ StatusInv)'
    <3> DEFINE taken == By(written) \o (IF wpc = "write" THEN <<wcur>> ELSE <<>>)
    <3>1. taken \in Seq(Writers)
      <4>1. By(written) \in Seq(Writers)
        BY WritersSeq, Zenon DEF TypeOK
      <4>2. (IF wpc = "write" THEN <<wcur>> ELSE <<>>) \in Seq(Writers)
        BY SMTT(60) DEF StatusInv
      <4>. QED
        BY <4>1, <4>2, ConcatProperties, Zenon
    <3>2. taken \o send = accepted
      BY Zenon DEF WritesInOrder, By
    <3>. HIDE DEF taken
    <3>3. taken \o Append(send, c) = Append(accepted, c)
      BY <3>1, <3>2, AppendRight, SMTT(60) DEF TypeOK
    <3>4. WritesInOrder'
      BY <1>11, <3>3, Zenon DEF Enqueue, WritesInOrder, By, taken
    <3>5. AcceptedInv'
      <4>1. /\ accepted' = Append(accepted, c) /\ Len(accepted) \in Nat
            /\ DOMAIN accepted = 1..Len(accepted)
            /\ \A i \in DOMAIN accepted : accepted[i] \in Writers
        BY <1>11, LenProperties, SMTT(60) DEF Enqueue, TypeOK
      <4>2. /\ DOMAIN accepted' = 1..(Len(accepted) + 1)
            /\ \A i \in DOMAIN accepted : accepted'[i] = accepted[i]
            /\ accepted'[Len(accepted) + 1] = c
        BY <4>1, AppendProperties, LenProperties, SMTT(60) DEF TypeOK
      <4>3. \A i \in DOMAIN accepted : accepted[i] # c
        BY <1>11, Zenon DEF Enqueue, AcceptedInv
      <4>4. cpc'[c] = "await" /\ \A d \in Writers : d # c => cpc'[d] = cpc[d]
        BY <1>11, Zenon DEF Enqueue, TypeOK
      <4>. QED
        BY <4>1, <4>2, <4>3, <4>4, SMTT(60) DEF AcceptedInv
    <3>6. StatusInv'
      BY <1>11, Zenon DEF Enqueue, StatusInv, TypeOK
    <3>. QED
      BY <3>4, <3>5, <3>6, Zenon
  <2>4. PaceInv'
    BY <1>11, ZenonT(60) DEF Enqueue, PaceInv, Paced, TypeOK
  <2>. QED
    BY <2>1, <2>2, <2>3, <2>4, Zenon
<1>12. CASE WriteStart
  <2>1. TypeOK'
    BY <1>12, HeadTailProperties, SMTT(60) DEF WriteStart, TypeOK
  <2>2. ReadsInOrder'
    BY <1>12, Zenon DEF WriteStart, ReadsInOrder
  <2>3. (WritesInOrder /\ AcceptedInv /\ StatusInv)'
    <3>1. By(written) \in Seq(Writers)
      BY WritersSeq, Zenon DEF TypeOK
    <3>2. Head(send) \in Writers
      BY <1>12, HeadTailProperties, Zenon DEF WriteStart, TypeOK
    <3>3. By(written) \o <<>> = By(written)
      BY <3>1, ConcatEmptySeq, Zenon
    <3>4. By(written) \o send = accepted
      BY <1>12, <3>3, Zenon DEF WriteStart, WritesInOrder, By
    <3>5. (By(written) \o <<Head(send)>>) \o Tail(send) = accepted
      <4>1. Append(By(written), Head(send)) \o Tail(send) = By(written) \o send
        BY <1>12, <3>1, MoveHead, ZenonT(60) DEF WriteStart, TypeOK
      <4>2. Append(By(written), Head(send)) = By(written) \o <<Head(send)>>
        BY <3>1, <3>2, AppendIsConcat, SMTT(60)
      <4>. QED
        BY <4>1, <4>2, <3>4, Zenon
    <3>6. WritesInOrder'
      BY <1>12, <3>5, Zenon DEF WriteStart, WritesInOrder, By
    <3>7. AcceptedInv'
      BY <1>12, Zenon DEF WriteStart, AcceptedInv
    <3>8. StatusInv'
      BY <1>12, <3>2, Zenon DEF WriteStart, StatusInv
    <3>. QED
      BY <3>6, <3>7, <3>8, Zenon
  <2>4. PaceInv'
    BY <1>12, SMTT(60) DEF WriteStart, PaceInv, Paced, TypeOK
  <2>. QED
    BY <2>1, <2>2, <2>3, <2>4, Zenon
<1>13. CASE ConnWrite
  <2>0. PICK res \in {"ok", "error"} : written' = Append(written, [by |-> wcur, res |-> res])
    BY <1>13, Zenon DEF ConnWrite
  <2>a. wcur \in Writers /\ [by |-> wcur, res |-> res] \in Results
    BY <1>13, Zenon DEF ConnWrite, StatusInv, Results
  <2>b. /\ written' \in Seq(Results) /\ Len(written) \in Nat /\ Len(written') = Len(written) + 1
        /\ \A i \in 1..Len(written) : written'[i] = written[i]
        /\ written'[Len(written) + 1] = [by |-> wcur, res |-> res]
        /\ DOMAIN written = 1..Len(written) /\ DOMAIN written' = 1..(Len(written) + 1)
    BY <2>0, <2>a, AppendProperties, LenProperties, SMTT(60) DEF TypeOK
  <2>1. TypeOK'
    BY <1>13, <2>b, SMTT(60) DEF ConnWrite, TypeOK
  <2>2. ReadsInOrder'
    BY <1>13, Zenon DEF ConnWrite, ReadsInOrder
  <2>3. (WritesInOrder /\ AcceptedInv /\ StatusInv)'
    <3>1. By(written) \in Seq(Writers)
      BY WritersSeq, SMTT(60) DEF TypeOK
    <3>2. By(written') = Append(By(written), wcur)
      <4>1. written \in Seq(Results)
        BY Zenon DEF TypeOK
      <4>. QED
        BY WritersGrow, <2>0, <2>a, <4>1, Zenon
    <3>3. (By(written) \o <<wcur>>) \o send = accepted
      BY <1>13, Zenon DEF ConnWrite, WritesInOrder, By
    <3>4. By(written') = By(written) \o <<wcur>>
      BY <3>1, <3>2, <2>a, AppendIsConcat, Zenon
    <3>5. By(written') \in Seq(Writers)
      BY <3>1, <3>2, <2>a, AppendProperties, SMTT(60)
    <3>6. (By(written') \o <<>>) \o send = accepted
      BY <3>3, <3>4, <3>5, ConcatEmptySeq, Zenon
    <3>7. WritesInOrder'
      BY <1>13, <3>6, Zenon DEF ConnWrite, WritesInOrder, By
    <3>8. AcceptedInv'
      BY <1>13, Zenon DEF ConnWrite, AcceptedInv
    <3>9. StatusInv'
      <4>1. written' # <<>> /\ written'[Len(written')].by = wcur
        BY <2>b, SMTT(60)
      <4>2. ASSUME NEW c \in Writers, cpc[c] = "returned"
            PROVE  \E i \in DOMAIN written' : written'[i] = [by |-> c, res |-> status[c]]
        BY <4>2, <2>b, SMTT(60) DEF StatusInv
      <4>. QED
        BY <1>13, <2>a, <4>1, <4>2, ZenonT(60) DEF ConnWrite, StatusInv
    <3>. QED
      BY <3>7, <3>8, <3>9, Zenon
  <2>4. PaceInv'
    BY <1>13, <2>b, SMTT(60) DEF ConnWrite, PaceInv, Paced, TypeOK
  <2>. QED
    BY <2>1, <2>2, <2>3, <2>4, Zenon
<1>14. CASE Respond
  <2>0. /\ wcur \in Writers /\ Len(written) \in DOMAIN written
        /\ written[Len(written)] \in Results /\ written[Len(written)].by = wcur
    <3>1. wcur \in Writers /\ written # <<>> /\ written[Len(written)].by = wcur
      BY <1>14, Zenon DEF Respond, StatusInv
    <3>2. written \in Seq(Results)
      BY Zenon DEF TypeOK
    <3>. QED
      BY <3>1, <3>2, LenProperties, EmptySeq, SMTT(60)
  <2>1. TypeOK'
    BY <1>14, <2>0, Zenon DEF Respond, TypeOK, Results
  <2>2. ReadsInOrder'
    BY <1>14, Zenon DEF Respond, ReadsInOrder
  <2>3. (WritesInOrder /\ AcceptedInv /\ StatusInv)'
    <3>1. WritesInOrder'
      BY <1>14, ZenonT(60) DEF Respond, WritesInOrder
    <3>2. AcceptedInv'
      BY <1>14, SMTT(60) DEF Respond, AcceptedInv, TypeOK
    <3>3. written[Len(written)] = [by |-> wcur, res |-> status'[wcur]]
      BY <1>14, <2>0, Zenon DEF Respond, TypeOK, Results
    <3>4. \A c \in Writers : c # wcur => cpc'[c] = cpc[c] /\ status'[c] = status[c]
      BY <1>14, Zenon DEF Respond, TypeOK
    <3>5. StatusInv'
      <4>1. ASSUME NEW c \in Writers, cpc'[c] = "returned"
            PROVE  \E i \in DOMAIN written : written[i] = [by |-> c, res |-> status'[c]]
        <5>1. CASE c = wcur
          BY <5>1, <2>0, <3>3, Zenon
        <5>2. CASE c # wcur
          BY <4>1, <5>2, <3>4, ZenonT(60) DEF StatusInv
        <5>. QED
          BY <5>1, <5>2, Zenon
      <4>. QED
        BY <1>14, <4>1, Zenon DEF Respond, StatusInv
    <3>. QED
      BY <3>1, <3>2, <3>5, SMTT(60)
  <2>4. PaceInv'
    BY <1>14, Zenon DEF Respond, PaceInv, Paced, TypeOK
  <2>. QED
    BY <2>1, <2>2, <2>3, <2>4, Zenon
<1>15. CASE WriteThrottle
  <2>1. TypeOK'
    BY <1>15, SMTT(60) DEF WriteThrottle, WakeTime, TypeOK
  <2>2. ReadsInOrder'
    BY <1>15, Zenon DEF WriteThrottle, WakeTime, ReadsInOrder
  <2>3. (WritesInOrder /\ AcceptedInv /\ StatusInv)'
    BY <1>15, ZenonT(60) DEF WriteThrottle, WakeTime, WritesInOrder, AcceptedInv, StatusInv
  <2>4. PaceInv'
    BY <1>15, SMTT(60) DEF WriteThrottle, WakeTime, PaceInv, Paced, TypeOK
  <2>. QED
    BY <2>1, <2>2, <2>3, <2>4, Zenon
<1>16. CASE WriteWake
  <2>1. TypeOK'
    BY <1>16, Zenon DEF WriteWake, TypeOK
  <2>2. ReadsInOrder'
    BY <1>16, Zenon DEF WriteWake, ReadsInOrder
  <2>3. (WritesInOrder /\ AcceptedInv /\ StatusInv)'
    BY <1>16, ZenonT(60) DEF WriteWake, WritesInOrder, AcceptedInv, StatusInv
  <2>4. PaceInv'
    <3>1. Len(written) \in Nat /\ Len(written) > 0
      BY <1>16, LenProperties, Zenon DEF WriteWake, PaceInv, Paced, TypeOK
    <3>2. /\ fastest \in Nat /\ wstart \in Nat /\ wwake \in Nat /\ now \in Nat
          /\ wwake <= now
      BY <1>16, Zenon DEF WriteWake, TypeOK
    <3>3. (Len(written) - 1) * fastest <= wstart /\ wstart + fastest <= wwake
      BY <1>16, SMTT(60) DEF WriteWake, PaceInv, Paced
    <3>4. Len(written) * fastest <= now
      BY <3>1, <3>2, <3>3, SleptOut, ZenonT(60)
    <3>. QED
      BY <1>16, <3>4, Zenon DEF WriteWake, PaceInv, Paced
  <2>. QED
    BY <2>1, <2>2, <2>3, <2>4, Zenon
<1>17. CASE UNCHANGED vars
  <2>1. TypeOK'
    BY <1>17, SMTT(60) DEF vars, TypeOK
  <2>2. ReadsInOrder'
    BY <1>17, Zenon DEF vars, ReadsInOrder
  <2>3. (WritesInOrder /\ AcceptedInv /\ StatusInv)'
    BY <1>17, ZenonT(60) DEF vars, WritesInOrder, AcceptedInv, StatusInv
  <2>4. PaceInv'
    BY <1>17, SMTT(60) DEF vars, PaceInv, Paced
  <2>. QED
    BY <2>1, <2>2, <2>3, <2>4, SMTT(60)
<1>18. ASSUME NEW r \in Rates, SetThroughput(r) PROVE ThrottleInv'
  BY <1>3, <1>18, SMTT(60) DEF SetThroughput
<1>19. ASSUME NEW f \in Factors, ScaleThroughput(f) PROVE ThrottleInv'
  BY <1>3, <1>19, ScaledRate, Zenon DEF ScaleThroughput, TypeOK
<1>. QED
  BY <1>1, <1>2, <1>4, <1>5, <1>6, <1>7, <1>8, <1>9, <1>10, <1>11, <1>12, <1>13, <1>14, <1>15, <1>16, <1>17, <1>18, <1>19, ZenonT(60) DEF Next, ReadStep, WriteStep

(* In every run of the throttle, at any capacity of its channels, the      *)
(* invariant holds: every packet is in one place, every status belongs to  *)
(* its call and no operation is ahead of the clock.                        *)
THEOREM ThrottleInvariant == Spec => []ThrottleInv
  BY InitThrottleInv, NextThrottleInv, PTL DEF Spec

(* Whatever comes off the connection is returned by ReadFrom once and in   *)
(* order, whatever the capacities of the channels.                         *)
THEOREM ReadsKeepOrder == Spec => []ReadsInOrder
<1>1. ThrottleInv => ReadsInOrder
  BY Zenon DEF ThrottleInv
<1>. QED
  BY <1>1, ThrottleInvariant, PTL

(* WriteTo: packets go out once each in the order in which th.send took    *)
(* them.                                                                   *)
THEOREM WritesKeepOrder == Spec => []WritesInOrder
<1>1. ThrottleInv => WritesInOrder
  BY Zenon DEF ThrottleInv
<1>. QED
  BY <1>1, ThrottleInvariant, PTL

(* Every call of WriteTo that returns, of any number of concurrent calls,  *)
(* returns the outcome of the one write of its own packet.                 *)
THEOREM StatusesOwn == Spec => []OwnStatus
<1>1. ThrottleInv => OwnStatus
  <2>. SUFFICES ASSUME ThrottleInv, NEW c \in Writers, cpc[c] = "returned"
                PROVE  \E i \in DOMAIN written :
                         /\ written[i] = [by |-> c, res |-> status[c]]
                         /\ \A j \in DOMAIN written : written[j].by = c => j = i
    BY Zenon DEF OwnStatus
  <2>. DEFINE rest == (IF wpc = "write" THEN <<wcur>> ELSE <<>>)
  <2>1. /\ By(written) \in Seq(Writers) /\ Len(By(written)) = Len(written)
        /\ Len(written) \in Nat /\ DOMAIN written = 1..Len(written)
    BY WritersSeq, LenProperties, Zenon DEF ThrottleInv, TypeOK
  <2>2. rest \in Seq(Writers) /\ send \in Seq(Writers)
    BY SMTT(60) DEF ThrottleInv, TypeOK, StatusInv
  <2>3. (By(written) \o rest) \o send = accepted
    BY Zenon DEF ThrottleInv, WritesInOrder, By
  <2>. HIDE DEF rest
  <2>. DEFINE later == rest \o send
  <2>4. later \in Seq(Writers) /\ By(written) \o later = accepted
    <3>1. later \in Seq(Writers)
      BY <2>2, ConcatProperties, Zenon
    <3>2. (By(written) \o rest) \o send = By(written) \o later
      BY <2>1, <2>2, ConcatAssociative, SMTT(60)
    <3>. QED
      BY <2>3, <3>1, <3>2, Zenon
  <2>. HIDE DEF later
  <2>5. \A i \in DOMAIN written : i \in DOMAIN accepted /\ accepted[i] = By(written)[i]
    <3>1. Len(accepted) = Len(written) + Len(later) /\ Len(later) \in Nat
      <4>1. Len(later) \in Nat
        BY <2>4, LenProperties, Zenon
      <4>2. Len(By(written) \o later) = Len(By(written)) + Len(later)
        BY <2>1, <2>4, ConcatProperties, Zenon
      <4>. QED
        BY <2>1, <2>4, <4>1, <4>2, Zenon
    <3>2. DOMAIN accepted = 1..Len(accepted)
      BY LenProperties, Zenon DEF ThrottleInv, TypeOK
    <3>3. \A i \in 1..Len(accepted) : i <= Len(written) => accepted[i] = By(written)[i]
      BY <2>1, <2>4, <3>1, ConcatProperties, SMTT(60)
    <3>. QED
      BY <2>1, <3>1, <3>2, <3>3, SMTT(60)
  <2>6. \A i \in DOMAIN written : accepted[i] = written[i].by
    BY <2>5, Zenon DEF By
  <2>7. PICK i \in DOMAIN written : written[i] = [by |-> c, res |-> status[c]]
    BY Zenon DEF ThrottleInv, StatusInv
  <2>8. \A j \in DOMAIN written : written[j].by = c => j = i
    BY <2>5, <2>6, <2>7, SMTT(60) DEF ThrottleInv, AcceptedInv
  <2>. QED
    BY <2>7, <2>8, Zenon
<1>. QED
  BY <1>1, ThrottleInvariant, PTL

(* The rate is a limit in both directions: one operation per tpo of the    *)
(* fastest rate so far, and one to start with, however the rate is changed *)
(* and whenever the routines are scheduled.                                *)
THEOREM RateLimited == Spec => []RateLimit
<1>1. ThrottleInv => RateLimit
  <2>. SUFFICES ASSUME ThrottleInv PROVE RateLimit
    BY Zenon
  <2>1. fastest \in Nat /\ now \in Nat
    BY Zenon DEF ThrottleInv, TypeOK
  <2>2. reads > 0 => (reads - 1) * fastest <= now
    <3>. SUFFICES ASSUME reads > 0 PROVE (reads - 1) * fastest <= now
      BY Zenon
    <3>1. reads \in Nat /\ rstart \in Nat
      BY Zenon DEF ThrottleInv, TypeOK
    <3>2. reads * fastest <= now \/ reads * fastest <= rstart \/ (reads - 1) * fastest <= rstart
      BY Zenon DEF ThrottleInv, TypeOK, PaceInv, Paced
    <3>3. rstart <= now
      BY Zenon DEF ThrottleInv, PaceInv, Paced
    <3>. QED
      BY <2>1, <3>1, <3>2, <3>3, Elapsed, Zenon
  <2>3. Len(written) > 0 => (Len(written) - 1) * fastest <= now
    <3>. SUFFICES ASSUME Len(written) > 0 PROVE (Len(written) - 1) * fastest <= now
      BY Zenon
    <3>1. Len(written) \in Nat /\ wstart \in Nat
      BY LenProperties, Zenon DEF ThrottleInv, TypeOK
    <3>2. \/ Len(written) * fastest <= now \/ Len(written) * fastest <= wstart
          \/ (Len(written) - 1) * fastest <= wstart
      BY Zenon DEF ThrottleInv, TypeOK, PaceInv, Paced
    <3>3. wstart <= now
      BY Zenon DEF ThrottleInv, PaceInv, Paced
    <3>. QED
      BY <2>1, <3>1, <3>2, <3>3, Elapsed, Zenon
  <2>. QED
    BY <2>2, <2>3, Zenon DEF RateLimit
<1>. QED
  BY <1>1, ThrottleInvariant, PTL
=============================================================================
