--------------------------- MODULE PipelinesProofs ---------------------------
(***************************************************************************)
(* Proofs about Pipelines. PipelinesInv is inductive: between the two      *)
(* accesses of a registration nobody else changes the queue, because of    *)
(* the write lock or, where AddTransform takes none, as long as there was  *)
(* no race; so the queue holds each registration once and in order, and a  *)
(* Process goes through the start of it.                                   *)
(***************************************************************************)
EXTENDS Pipelines, SequenceTheorems, TLAPS

-----------------------------------------------------------------------------
(* Sequences. *)

(* The append of AddCallback and AddTransform. *)
LEMMA AppendAtEnd ==
  ASSUME NEW S, NEW q \in Seq(S), NEW f \in S
  PROVE  /\ Append(q, f) \in Seq(S) /\ Len(q) \in Nat /\ DOMAIN q = 1..Len(q)
         /\ DOMAIN Append(q, f) = 1..(Len(q) + 1) /\ Len(Append(q, f)) = Len(q) + 1
         /\ \A i \in 1..Len(q) : Append(q, f)[i] = q[i]
         /\ Append(q, f)[Len(q) + 1] = f
BY AppendProperties, LenProperties, SMTT(60)

(* Process: the callbacks that ran are the start of the copy. *)
LEMMA StartOfCopy ==
  ASSUME NEW S, NEW q \in Seq(S), NEW n \in Nat, n <= Len(q)
  PROVE  /\ SubSeq(q, 1, n) \in Seq(S) /\ Len(SubSeq(q, 1, n)) = n
         /\ DOMAIN SubSeq(q, 1, n) = 1..n
         /\ \A i \in 1..n : SubSeq(q, 1, n)[i] = q[i]
<1>1. \A i \in 1..n : i \in 1..Len(q)
  BY LenProperties, SMTT(60)
<1>2. \A i \in 1..n : q[i] \in S
  BY <1>1, ElementOfSeq, Zenon
<1>3. QED
  BY <1>2, SubSeqProperties, LenProperties, SMTT(60)

-----------------------------------------------------------------------------
(* Init: nothing is registered and no call is under way. *)
LEMMA InitPipelinesInv ==
  Init => PipelinesInv
<1> SUFFICES ASSUME Init PROVE PipelinesInv
  BY Zenon
<1>1. TypeOK
  <2>1. <<>> \in Seq(Callbacks) /\ 0 \in Nat
    BY SMTT(60)
  <2>2. /\ queue \in [Pipes -> Seq(Callbacks)] /\ slice \in [Goroutines -> Seq(Callbacks)]
        /\ copy \in [Goroutines -> Seq(Callbacks)] /\ next \in [Goroutines -> Nat]
    BY <2>1, Zenon DEF Init
  <2>3. QED
    BY <2>1, <2>2, Zenon DEF Init, TypeOK, Pipes
<1>2. \A p \in Pipes : Registered(p) = {} /\ queue[p] = <<>> /\ DOMAIN queue[p] = {}
  BY SMTT(60) DEF Init, Registered
<1>3. AddingInv
  BY Zenon DEF Init, AddingInv
<1>4. AppendInv
  BY Zenon DEF Init, AppendInv
<1>5. QueueInv
  BY <1>2, Zenon DEF QueueInv
<1>6. RunInv
  <2>1. \A g \in Goroutines : pc[g] = "idle" /\ next[g] = 0
    BY Zenon DEF Init
  <2>2. ~(0 > 0) /\ "idle" # "run"
    BY SMTT(60)
  <2>3. QED
    BY <2>1, <2>2, Zenon DEF RunInv
<1>7. QED
  BY <1>1, <1>3, <1>4, <1>5, <1>6, Zenon DEF PipelinesInv

-----------------------------------------------------------------------------
(* Access: a race is not forgotten, and where accesses have not overlapped *)
(* nobody else is between the two accesses of a registration.              *)
LEMMA AccessSound ==
  ASSUME TypeOK, NEW g \in Goroutines, NEW p, Access(g, p)
  PROVE  /\ raced' \in BOOLEAN /\ fatal' \in BOOLEAN
         /\ raced => raced'
         /\ ~raced' => \A h \in Goroutines : on[h] = p /\ pc[h] = "append" => h = g
BY Zenon DEF Access, TypeOK

(* AddCallback and AddTransform begin: the callback is a new one. *)
LEMMA AddKeeps ==
  ASSUME PipelinesInv, NEW g \in Goroutines, NEW p \in Pipes, NEW f \in Fresh, Add(g, p, f),
         pc[g] = "idle" \/ (pc[g] = "run" /\ on[g] = p),
         calls' \in Nat, next' \in [Goroutines -> Nat],
         next'[g] = 0 => next[g] = 0, \A h \in Goroutines \ {g} : next'[h] = next[h]
  PROVE  TypeOK' /\ AddingInv' /\ AppendInv' /\ QueueInv'
<1>1. TypeOK /\ AddingInv /\ AppendInv /\ QueueInv /\ RunInv
  BY Zenon DEF PipelinesInv
<1>2. /\ pc' = [pc EXCEPT ![g] = "add"] /\ on' = [on EXCEPT ![g] = p]
      /\ item' = [item EXCEPT ![g] = f] /\ home' = [home EXCEPT ![f] = p]
      /\ before' = [before EXCEPT ![f] = Registered(p)]
      /\ UNCHANGED <<queue, locked, slice, copy, fatal, done, raced>>
  BY Zenon DEF Add
<1>3. f \in Callbacks /\ home[f] = "none" /\ f \notin done /\ f \notin Goroutines /\ g \notin Callbacks
  BY <1>1, PipelinesAssumption, Zenon DEF Fresh, AddingInv
<1>4. /\ pc'[g] = "add" /\ on'[g] = p /\ item'[g] = f /\ home'[f] = p
      /\ before'[f] = Registered(p)
      /\ \A h \in Goroutines : before'[h] = before[h]
      /\ \A h \in Goroutines \ {g} : pc'[h] = pc[h] /\ on'[h] = on[h] /\ item'[h] = item[h]
      /\ \A e \in Callbacks \ {f} : home'[e] = home[e] /\ before'[e] = before[e]
  BY <1>1, <1>2, <1>3, Zenon DEF TypeOK
<1>5. \A q : Registered(q)' = Registered(q)
  BY <1>1, <1>2, <1>3, <1>4, SMTT(60) DEF TypeOK, Registered
<1>6. Registered(p) \subseteq Callbacks
  BY <1>1, Zenon DEF Registered, TypeOK
<1>7. TypeOK'
  BY <1>1, <1>2, <1>3, <1>6, Zenon DEF TypeOK
<1>8. AddingInv'
  <2>1. ASSUME NEW h \in Goroutines, pc'[h] \in {"add", "append"}
        PROVE  /\ item'[h] \in Callbacks \ done' /\ home'[item'[h]] = on'[h]
               /\ \A k \in Goroutines : pc'[k] \in {"add", "append"} /\ item'[k] = item'[h] => k = h
    <3>1. \A k \in Goroutines \ {g} : pc'[k] \in {"add", "append"} =>
            item'[k] # f /\ item'[k] \in Callbacks \ done /\ home[item'[k]] = on'[k]
      <4>1. \A k \in Goroutines \ {g} : on[k] # "none"
        BY <1>1, Zenon DEF TypeOK, Pipes
      <4>2. QED
        BY <1>1, <1>3, <1>4, <4>1, SMTT(60) DEF AddingInv
    <3>2. \A k, l \in Goroutines \ {g} :
            pc'[k] \in {"add", "append"} /\ pc'[l] \in {"add", "append"} /\ item'[k] = item'[l]
            => k = l
      BY <1>1, <1>4, SMTT(60) DEF AddingInv
    <3>3. QED
      BY <1>2, <1>3, <1>4, <2>1, <3>1, <3>2, SMTT(60)
  <2>2. ASSUME NEW e \in Callbacks
        PROVE  /\ home'[e] = "none" => e \notin done'
               /\ home'[e] # "none" => before'[e] \subseteq Registered(home'[e])
    BY <1>1, <1>2, <1>3, <1>4, SMTT(60) DEF AddingInv
  <2>3. ASSUME NEW h \in Goroutines
        PROVE  /\ before'[h] \subseteq Registered(on'[h])
               /\ pc'[h] # "process" /\ next'[h] = 0 => before'[h] = {}
    <3>1. CASE h = g
      BY <1>1, <1>4, <3>1, SMTT(60) DEF AddingInv, RunInv
    <3>2. CASE h # g
      BY <1>1, <1>4, <3>2, SMTT(60) DEF AddingInv
    <3>3. QED
      BY <3>1, <3>2, Zenon
  <2>4. QED
    BY <1>5, <2>1, <2>2, <2>3, Zenon DEF AddingInv
<1>9. AppendInv'
  BY <1>1, <1>2, <1>4, SMTT(60) DEF AppendInv, Sound
<1>10. QueueInv'
  <2>1. ASSUME NEW q \in Pipes, Sound(q)'
        PROVE  /\ \A i \in DOMAIN queue[q] : queue[q][i] \in Registered(q)
               /\ \A e \in Registered(q) : \E i \in DOMAIN queue[q] : queue[q][i] = e
               /\ \A i, j \in DOMAIN queue[q] : queue[q][i] = queue[q][j] => i = j
               /\ \A i \in DOMAIN queue[q] : \A e \in before'[queue[q][i]] :
                    \E j \in 1..(i - 1) : queue[q][j] = e
    <3>1. Sound(q)
      BY <1>2, <2>1, Zenon DEF Sound
    <3>2. \A e \in Registered(q) : e # f /\ before'[e] = before[e]
      BY <1>1, <1>3, <1>4, SMTT(60) DEF Registered, TypeOK
    <3>3. QED
      BY <1>1, <3>1, <3>2, SMTT(60) DEF QueueInv
  <2>2. ASSUME NEW q \in Pipes, Sound(q)'
        PROVE  /\ \A i \in DOMAIN queue'[q] : queue'[q][i] \in Registered(q)'
               /\ \A e \in Registered(q)' : \E i \in DOMAIN queue'[q] : queue'[q][i] = e
               /\ \A i, j \in DOMAIN queue'[q] : queue'[q][i] = queue'[q][j] => i = j
               /\ \A i \in DOMAIN queue'[q] : \A e \in before'[queue'[q][i]] :
                    \E j \in 1..(i - 1) : queue'[q][j] = e
    <3>1. queue' = queue /\ Registered(q)' = Registered(q)
      BY <1>2, <1>5, Zenon
    <3>2. QED
      BY <2>1, <2>2, <3>1, SMTT(60)
  <2>3. QED
    BY <2>2, Zenon DEF QueueInv
<1>11. QED
  BY <1>7, <1>8, <1>9, <1>10, Zenon

(* AddCallback and AddTransform read the queue: of those that append to a  *)
(* queue without races, the goroutine is the only one.                     *)
LEMMA ReadSliceKeeps ==
  ASSUME PipelinesInv, NEW g \in Goroutines, ReadSlice(g)
  PROVE  PipelinesInv'
<1>1. TypeOK /\ AddingInv /\ AppendInv /\ QueueInv /\ RunInv
  BY Zenon DEF PipelinesInv
<1>2. /\ pc[g] = "add" /\ pc' = [pc EXCEPT ![g] = "append"]
      /\ slice' = [slice EXCEPT ![g] = queue[on[g]]] /\ Access(g, on[g])
      /\ UNCHANGED <<queue, locked, on, item, copy, next, calls, home, before, done>>
  BY Zenon DEF ReadSlice, history
<1>3. /\ raced' \in BOOLEAN /\ fatal' \in BOOLEAN /\ (raced => raced')
      /\ ~raced' => \A h \in Goroutines : on[h] = on[g] /\ pc[h] = "append" => h = g
  BY <1>1, <1>2, AccessSound, Zenon
<1>4. /\ pc'[g] = "append" /\ slice'[g] = queue[on[g]] /\ on[g] \in Pipes
      /\ \A h \in Goroutines \ {g} : pc'[h] = pc[h] /\ slice'[h] = slice[h]
  BY <1>1, <1>2, Zenon DEF TypeOK
<1>5. ASSUME Sound(on[g])', NEW h \in Goroutines, pc[h] = "append", on[h] = on[g]
      PROVE  FALSE
  <2>1. CASE on[g] = "packet"
    BY <1>5, <2>1, Zenon DEF ReadSlice, CanLock, Writers, Exclusive
  <2>2. CASE ~raced'
    BY <1>2, <1>3, <1>5, <2>2, Zenon
  <2>3. QED
    BY <1>2, <1>5, <2>1, <2>2, Zenon DEF Sound
<1>6. \A p : Sound(p)' => Sound(p)
  BY <1>3, Zenon DEF Sound
<1>7. TypeOK'
  BY <1>1, <1>2, <1>3, <1>4, Zenon DEF TypeOK
<1>8. AddingInv'
  <2>1. \A h \in Goroutines :
          /\ (pc'[h] \in {"add", "append"}) <=> (pc[h] \in {"add", "append"})
          /\ (pc'[h] = "process") <=> (pc[h] = "process")
    BY <1>2, <1>4, Zenon
  <2>2. QED
    BY <1>1, <1>2, <2>1, SMTT(60) DEF AddingInv, Registered
<1>9. AppendInv'
  <2>1. ASSUME NEW h \in Goroutines, pc'[h] = "append", Sound(on[h])'
        PROVE  /\ slice'[h] = queue[on[h]]
               /\ \A k \in Goroutines : pc'[k] = "append" /\ on[k] = on[h] => k = h
    <3>1. CASE h = g
      BY <1>4, <1>5, <2>1, <3>1, Zenon
    <3>2. CASE h # g
      <4>1. pc[h] = "append" /\ Sound(on[h]) /\ on[h] # on[g]
        BY <1>2, <1>4, <1>5, <1>6, <2>1, <3>2, Zenon DEF Sound
      <4>2. QED
        BY <1>1, <1>4, <3>2, <4>1, SMTT(60) DEF AppendInv
    <3>3. QED
      BY <3>1, <3>2, Zenon
  <2>2. QED
    BY <1>2, <2>1, Zenon DEF AppendInv, Sound
<1>10. QueueInv'
  BY <1>1, <1>2, <1>3, SMTT(60) DEF QueueInv, Registered, Sound
<1>11. RunInv'
  <2>1. \A h \in Goroutines :
          /\ pc'[h] \in {"idle", "setLock", "process"} => pc[h] \in {"idle", "setLock", "process"}
          /\ pc'[h] = "run" => pc[h] = "run"
    BY <1>2, <1>4, Zenon
  <2>2. QED
    BY <1>1, <1>2, <1>3, <2>1, SMTT(60) DEF RunInv, Sound
<1>12. QED
  BY <1>7, <1>8, <1>9, <1>10, <1>11, Zenon DEF PipelinesInv

(* AddCallback and AddTransform write the queue back: it grows by one      *)
(* callback at its end.                                                    *)
LEMMA AppendKeeps ==
  ASSUME PipelinesInv, NEW g \in Goroutines, Append1(g)
  PROVE  PipelinesInv'
<1>1. TypeOK /\ AddingInv /\ AppendInv /\ QueueInv /\ RunInv
  BY Zenon DEF PipelinesInv
<1>p. PICK p \in Pipes : p = on[g]
  BY <1>1, Zenon DEF TypeOK
<1>f. PICK f \in Callbacks : f = item[g]
  BY <1>1, Zenon DEF AddingInv, Append1
<1>2. /\ pc[g] = "append" /\ queue' = [queue EXCEPT ![p] = Append(slice[g], f)]
      /\ pc' = [pc EXCEPT ![g] = IF next[g] = 0 THEN "idle" ELSE "run"]
      /\ done' = done \cup {f} /\ item' = [item EXCEPT ![g] = NoCallback]
      /\ Access(g, p) /\ slice' = [slice EXCEPT ![g] = <<>>]
      /\ UNCHANGED <<locked, on, copy, next, calls, home, before>>
  BY <1>p, <1>f, Zenon DEF Append1
<1>3. p \in Pipes /\ f \in Callbacks /\ f \notin done /\ home[f] = p
  BY <1>1, <1>2, <1>p, <1>f, Zenon DEF AddingInv, TypeOK
<1>4. /\ raced' \in BOOLEAN /\ fatal' \in BOOLEAN /\ (raced => raced')
      /\ ~raced' => \A h \in Goroutines : on[h] = p /\ pc[h] = "append" => h = g
  BY <1>1, <1>2, AccessSound, Zenon
<1>5. slice[g] \in Seq(Callbacks) /\ Append(slice[g], f) \in Seq(Callbacks)
  BY <1>1, <1>3, AppendAtEnd, Zenon DEF TypeOK
<1>6. /\ pc'[g] = IF next[g] = 0 THEN "idle" ELSE "run"
      /\ \A h \in Goroutines \ {g} :
           pc'[h] = pc[h] /\ slice'[h] = slice[h] /\ item'[h] = item[h]
      /\ queue'[p] = Append(slice[g], f) /\ \A q \in Pipes \ {p} : queue'[q] = queue[q]
  BY <1>1, <1>2, <1>3, Zenon DEF TypeOK
<1>7. ASSUME NEW q, Sound(q)'
      PROVE  Sound(q)
  BY <1>4, <1>7, Zenon DEF Sound
<1>8. \A q : Registered(q)' = IF q = p THEN Registered(q) \cup {f} ELSE Registered(q)
  BY <1>2, <1>3, Zenon DEF Registered
<1>9. TypeOK'
  <2>1. <<>> \in Seq(Callbacks) /\ next[g] \in Nat
    BY <1>1, SMTT(60) DEF TypeOK
  <2>2. queue' \in [Pipes -> Seq(Callbacks)] /\ slice' \in [Goroutines -> Seq(Callbacks)]
        /\ done' \subseteq Callbacks /\ item' \in [Goroutines -> Callbacks \cup {NoCallback}]
    BY <1>1, <1>2, <1>3, <1>5, <2>1, Zenon DEF TypeOK
  <2>3. pc' \in [Goroutines -> {"idle", "add", "append", "setLock", "process", "run"}]
    BY <1>1, <1>2, Zenon DEF TypeOK
  <2>4. QED
    BY <1>1, <1>2, <1>4, <2>2, <2>3, Zenon DEF TypeOK
<1>10. AddingInv'
  <2>1. ASSUME NEW h \in Goroutines, pc'[h] \in {"add", "append"}
        PROVE  /\ item'[h] \in Callbacks \ done' /\ home[item'[h]] = on[h]
               /\ \A k \in Goroutines : pc'[k] \in {"add", "append"} /\ item'[k] = item'[h] => k = h
    <3>1. \A k \in Goroutines : pc'[k] \in {"add", "append"} =>
            k # g /\ pc[k] \in {"add", "append"} /\ item'[k] = item[k]
      BY <1>6, Zenon
    <3>2. item[h] # f
      BY <1>1, <1>2, <1>f, <2>1, <3>1, Zenon DEF AddingInv
    <3>3. QED
      BY <1>1, <1>2, <2>1, <3>1, <3>2, SMTT(60) DEF AddingInv
  <2>2. \A e \in Callbacks : home[e] = "none" => e \notin done'
    BY <1>1, <1>2, <1>3, Zenon DEF AddingInv, Pipes
  <2>3. \A e \in Callbacks : home[e] # "none" => before[e] \subseteq Registered(home[e])'
    BY <1>1, <1>2, <1>8, ZenonT(60) DEF AddingInv, Registered
  <2>4. ASSUME NEW h \in Goroutines
        PROVE  /\ before[h] \subseteq Registered(on[h])'
               /\ pc'[h] # "process" /\ next[h] = 0 => before[h] = {}
    <3>1. before[h] \subseteq Registered(on[h])'
      BY <1>1, <1>2, Zenon DEF AddingInv, Registered
    <3>2. pc'[h] # "process" => pc[h] # "process"
      BY <1>2, <1>6, Zenon
    <3>3. QED
      BY <1>1, <3>1, <3>2, Zenon DEF AddingInv
  <2>5. QED
    BY <1>2, <2>1, <2>2, <2>3, <2>4, Zenon DEF AddingInv
<1>11. ASSUME Sound(p)'
       PROVE  slice[g] = queue[p] /\ \A h \in Goroutines : pc[h] = "append" /\ on[h] = p => h = g
  BY <1>1, <1>2, <1>7, <1>p, <1>11, Zenon DEF AppendInv
<1>12. AppendInv'
  <2>1. ASSUME NEW h \in Goroutines, pc'[h] = "append", Sound(on[h])'
        PROVE  /\ slice'[h] = queue'[on[h]]
               /\ \A k \in Goroutines : pc'[k] = "append" /\ on[k] = on[h] => k = h
    <3>1. h # g /\ pc[h] = "append" /\ slice'[h] = slice[h]
      BY <1>6, <2>1, Zenon
    <3>2. on[h] # p
      BY <1>2, <1>11, <2>1, <3>1, Zenon DEF Sound
    <3>3. Sound(on[h]) /\ on[h] \in Pipes
      BY <1>1, <1>2, <1>4, <2>1, Zenon DEF Sound, TypeOK
    <3>4. QED
      BY <1>1, <1>6, <3>1, <3>2, <3>3, SMTT(60) DEF AppendInv
  <2>2. QED
    BY <1>2, <2>1, Zenon DEF AppendInv, Sound
<1>13. QueueInv'
  <2>1. ASSUME NEW q \in Pipes, Sound(q)'
        PROVE  /\ \A i \in DOMAIN queue'[q] : queue'[q][i] \in Registered(q)'
               /\ \A e \in Registered(q)' : \E i \in DOMAIN queue'[q] : queue'[q][i] = e
               /\ \A i, j \in DOMAIN queue'[q] : queue'[q][i] = queue'[q][j] => i = j
               /\ \A i \in DOMAIN queue'[q] : \A e \in before[queue'[q][i]] :
                    \E j \in 1..(i - 1) : queue'[q][j] = e
    <3>1. CASE q # p
      <4>1. Sound(q) /\ queue'[q] = queue[q] /\ Registered(q)' = Registered(q)
        BY <1>6, <1>7, <1>8, <2>1, <3>1, Zenon
      <4>2. QED
        BY <1>1, <4>1, SMTT(60) DEF QueueInv
    <3>2. CASE q = p
      <4> DEFINE s == queue[p]
                 n == Len(s)
                 t == queue'[p]
      <4>1. Sound(p) /\ slice[g] = s /\ s \in Seq(Callbacks) /\ t = Append(s, f)
        BY <1>1, <1>3, <1>6, <1>7, <1>11, <2>1, <3>2, Zenon DEF TypeOK
      <4>2. /\ \A i \in DOMAIN s : s[i] \in Registered(p)
            /\ \A e \in Registered(p) : \E i \in DOMAIN s : s[i] = e
            /\ \A i, j \in DOMAIN s : s[i] = s[j] => i = j
            /\ \A i \in DOMAIN s : \A e \in before[s[i]] : \E j \in 1..(i - 1) : s[j] = e
        BY <1>1, <1>3, <4>1, Zenon DEF QueueInv
      <4>3. f \notin Registered(p) /\ before[f] \subseteq Registered(p)
        BY <1>1, <1>3, Zenon DEF AddingInv, Registered, Pipes
      <4>4. Registered(p)' = Registered(p) \cup {f}
        BY <1>8, Zenon
      <4> HIDE DEF s, t
      <4>5. /\ n \in Nat /\ DOMAIN s = 1..n /\ DOMAIN t = 1..(n + 1)
            /\ \A i \in 1..n : t[i] = s[i]
            /\ t[n + 1] = f
        BY <1>3, <4>1, AppendAtEnd, SMTT(60)
      <4> HIDE DEF n
      <4>6. \A i \in DOMAIN t : i \in 1..n \/ i = n + 1
        BY <4>5, SMTT(60)
      <4>7. \A i \in 1..n : i \in DOMAIN t /\ i # n + 1 /\ n + 1 \in DOMAIN t
        BY <4>5, SMTT(60)
      <4>8. \A i \in DOMAIN t : t[i] \in Registered(p)'
        BY <4>2, <4>4, <4>5, <4>6, Zenon
      <4>9. \A e \in Registered(p)' : \E i \in DOMAIN t : t[i] = e
        <5>1. n + 1 \in DOMAIN t
          BY <4>5, SMTT(60)
        <5>2. QED
          BY <4>2, <4>4, <4>5, <4>7, <5>1, Zenon
      <4>10. \A i, j \in DOMAIN t : t[i] = t[j] => i = j
        BY <4>2, <4>3, <4>5, <4>6, SMTT(60)
      <4>11. ASSUME NEW i \in DOMAIN t, NEW e \in before[t[i]]
             PROVE  \E j \in 1..(i - 1) : t[j] = e
        <5>1. CASE i \in 1..n
          <6>1. PICK j \in 1..(i - 1) : s[j] = e
            BY <4>2, <4>5, <4>11, <5>1, Zenon
          <6>2. j \in 1..n
            BY <4>5, <5>1, SMTT(60)
          <6>3. QED
            BY <4>5, <6>1, <6>2, Zenon
        <5>2. CASE i = n + 1
          <6>1. e \in Registered(p)
            BY <4>3, <4>5, <4>11, <5>2, Zenon
          <6>2. PICK j \in 1..n : s[j] = e
            BY <4>2, <4>5, <6>1, Zenon
          <6>3. j \in 1..(i - 1)
            BY <4>5, <5>2, SMTT(60)
          <6>4. QED
            BY <4>5, <6>2, <6>3, Zenon
        <5>3. QED
          BY <4>6, <5>1, <5>2, Zenon
      <4>12. QED
        BY <3>2, <4>8, <4>9, <4>10, <4>11, SMTT(60) DEF t
    <3>3. QED
      BY <3>1, <3>2, Zenon
  <2>2. before' = before
    BY <1>2, ZenonT(60)
  <2>3. QED
    BY <2>1, <2>2, Zenon DEF QueueInv
<1>14. RunInv'
  <2>1. ASSUME NEW h \in Goroutines
        PROVE  /\ pc'[h] \in {"idle", "setLock", "process"} => next[h] = 0
               /\ pc'[h] = "run" => next[h] > 0
    <3>1. CASE h = g
      BY <1>1, <1>6, <3>1, SMTT(60) DEF TypeOK
    <3>2. CASE h # g
      BY <1>1, <1>6, <3>2, Zenon DEF RunInv
    <3>3. QED
      BY <3>1, <3>2, Zenon
  <2>2. ASSUME NEW h \in Goroutines, next[h] > 0, Sound(on[h])'
        PROVE  /\ Len(copy[h]) <= Len(queue'[on[h]])
               /\ \A i \in 1..Len(copy[h]) : copy[h][i] = queue'[on[h]][i]
               /\ \A e \in before[h] : \E i \in 1..Len(copy[h]) : copy[h][i] = e
    <3>1. Sound(on[h]) /\ on[h] \in Pipes /\ on' = on
      BY <1>1, <1>2, <1>4, <2>2, Zenon DEF Sound, TypeOK
    <3>2. /\ Len(copy[h]) <= Len(queue[on[h]])
          /\ \A i \in 1..Len(copy[h]) : copy[h][i] = queue[on[h]][i]
          /\ \A e \in before[h] : \E i \in 1..Len(copy[h]) : copy[h][i] = e
      BY <1>1, <2>2, <3>1, Zenon DEF RunInv
    <3>3. CASE on[h] # p
      BY <1>6, <3>1, <3>2, <3>3, Zenon
    <3>4. CASE on[h] = p
      <4> DEFINE s == queue[p]
                 t == queue'[p]
                 c == copy[h]
      <4>1. slice[g] = s /\ s \in Seq(Callbacks) /\ c \in Seq(Callbacks) /\ t = Append(s, f)
        BY <1>1, <1>3, <1>6, <1>11, <2>2, <3>1, <3>4, Zenon DEF TypeOK, Sound
      <4>2. Len(c) <= Len(s) /\ \A i \in 1..Len(c) : c[i] = s[i]
        BY <3>2, <3>4, Zenon
      <4> HIDE DEF s, t, c
      <4>3. Len(c) \in Nat /\ Len(s) \in Nat /\ Len(t) = Len(s) + 1 /\ \A i \in 1..Len(s) : t[i] = s[i]
        BY <1>3, <4>1, AppendAtEnd, LenProperties, SMTT(60)
      <4>4. Len(c) <= Len(t) /\ \A i \in 1..Len(c) : c[i] = t[i]
        BY <4>2, <4>3, SMTT(60)
      <4>5. QED
        BY <3>2, <3>4, <4>4, Zenon DEF c, t
    <3>5. QED
      BY <3>3, <3>4, Zenon
  <2>3. QED
    BY <1>1, <1>2, <2>1, <2>2, SMTT(60) DEF RunInv, Sound
<1>15. QED
  BY <1>9, <1>10, <1>12, <1>13, <1>14, Zenon DEF PipelinesInv

-----------------------------------------------------------------------------
\* The goroutine is not within a registration and does not run a queue
\* afterwards.
Outside(g, p, c, B, loc) ==
  /\ pc[g] \notin {"add", "append"} /\ (loc # "process" => B = {})
  /\ pc' = [pc EXCEPT ![g] = loc] /\ on' = [on EXCEPT ![g] = p]
  /\ next' = [next EXCEPT ![g] = 0] /\ copy' = [copy EXCEPT ![g] = c]
  /\ before' = [before EXCEPT ![g] = B] /\ locked' \in BOOLEAN /\ calls' \in Nat
  /\ queue' = queue /\ item' = item /\ slice' = slice /\ fatal' = fatal
  /\ home' = home /\ done' = done /\ raced' = raced

(* Lock, Unlock, the call of Process and its return. *)
LEMMA OutsideKeeps ==
  ASSUME PipelinesInv, NEW g \in Goroutines, NEW p \in Pipes, NEW c \in Seq(Callbacks),
         NEW B \in SUBSET Registered(p), NEW loc \in {"idle", "setLock", "process"},
         Outside(g, p, c, B, loc)
  PROVE  PipelinesInv'
<1>1. TypeOK /\ AddingInv /\ AppendInv /\ QueueInv /\ RunInv
  BY Zenon DEF PipelinesInv
<1>q. /\ queue' = queue /\ item' = item /\ slice' = slice /\ fatal' = fatal
      /\ home' = home /\ done' = done /\ raced' = raced
  BY Zenon DEF Outside
<1>2. /\ pc'[g] = loc /\ on'[g] = p /\ next'[g] = 0 /\ before'[g] = B
      /\ \A h \in Goroutines \ {g} :
           /\ pc'[h] = pc[h] /\ on'[h] = on[h] /\ next'[h] = next[h] /\ copy'[h] = copy[h]
           /\ before'[h] = before[h]
      /\ \A f \in Callbacks : before'[f] = before[f]
  <2>1. \A f \in Callbacks : f # g
    BY PipelinesAssumption, Zenon
  <2>2. QED
    BY <1>1, <2>1, SMTT(60) DEF TypeOK, Outside
<1>3. loc \notin {"add", "append", "run"} /\ ~(0 > 0)
  BY SMTT(60)
<1>4. TypeOK'
  <2>1. Registered(p) \subseteq Callbacks
    BY <1>1, Zenon DEF Registered, TypeOK
  <2>2. before' \in [Callbacks \cup Goroutines -> SUBSET Callbacks]
    BY <1>1, <2>1, Zenon DEF TypeOK, Outside
  <2>3. QED
    BY <1>1, <2>2, Zenon DEF TypeOK, Outside
<1>5. AddingInv'
  <2>1. \A h \in Goroutines : pc'[h] \in {"add", "append"} =>
          h # g /\ pc[h] \in {"add", "append"} /\ on'[h] = on[h]
    BY <1>2, <1>3, Zenon DEF Outside
  <2>2. \A h \in Goroutines :
          /\ before'[h] \subseteq {f \in done : home[f] = on'[h]}
          /\ pc'[h] # "process" /\ next'[h] = 0 => before'[h] = {}
    BY <1>1, <1>2, SMTT(60) DEF AddingInv, Registered, Outside
  <2>3. QED
    BY <1>1, <1>2, <1>q, <2>1, <2>2, SMTT(60) DEF AddingInv, Registered
<1>6. AppendInv'
  <2>1. \A h \in Goroutines : pc'[h] = "append" => h # g /\ pc[h] = "append" /\ on'[h] = on[h]
    BY <1>2, <1>3, Zenon
  <2>2. QED
    BY <1>1, <1>q, <2>1, SMTT(60) DEF AppendInv, Sound
<1>7. QueueInv'
  <2>1. ASSUME NEW q \in Pipes, Sound(q)'
        PROVE  /\ \A i \in DOMAIN queue'[q] : queue'[q][i] \in Registered(q)'
               /\ \A e \in Registered(q)' : \E i \in DOMAIN queue'[q] : queue'[q][i] = e
               /\ \A i, j \in DOMAIN queue'[q] : queue'[q][i] = queue'[q][j] => i = j
               /\ \A i \in DOMAIN queue'[q] : \A e \in before'[queue'[q][i]] :
                    \E j \in 1..(i - 1) : queue'[q][j] = e
    <3>1. Sound(q)
      BY <1>q, <2>1, Zenon DEF Sound
    <3>2. \A e \in Registered(q) : before'[e] = before[e]
      BY <1>1, <1>2, Zenon DEF Registered, TypeOK
    <3>3. /\ \A i \in DOMAIN queue[q] : queue[q][i] \in Registered(q)
          /\ \A e \in Registered(q) : \E i \in DOMAIN queue[q] : queue[q][i] = e
          /\ \A i, j \in DOMAIN queue[q] : queue[q][i] = queue[q][j] => i = j
          /\ \A i \in DOMAIN queue[q] : \A e \in before[queue[q][i]] :
               \E j \in 1..(i - 1) : queue[q][j] = e
      BY <1>1, <3>1, Zenon DEF QueueInv
    <3>4. queue' = queue /\ Registered(q)' = Registered(q)
      BY <1>q, Zenon DEF Registered
    <3>5. ASSUME NEW i \in DOMAIN queue[q], NEW e \in before'[queue[q][i]]
          PROVE  \E j \in 1..(i - 1) : queue[q][j] = e
      <4>1. before'[queue[q][i]] = before[queue[q][i]]
        BY <3>2, <3>3, Zenon
      <4>2. QED
        BY <3>3, <3>5, <4>1, Zenon
    <3>6. QED
      BY <3>3, <3>4, <3>5, SMTT(20)
  <2>2. QED
    BY <2>1, Zenon DEF QueueInv
<1>8. RunInv'
  <2>1. ASSUME NEW h \in Goroutines
        PROVE  /\ pc'[h] \in {"idle", "setLock", "process"} => next'[h] = 0
               /\ pc'[h] = "run" => next'[h] > 0
               /\ next'[h] > 0 =>
                    /\ next'[h] <= Len(copy'[h]) + 1
                    /\ \A i \in 1..(next'[h] - 2) : ~Stops(copy'[h][i])
               /\ next'[h] > 0 /\ (on'[h] = "packet" \/ ~raced') =>
                    /\ Len(copy'[h]) <= Len(queue'[on'[h]])
                    /\ \A i \in 1..Len(copy'[h]) : copy'[h][i] = queue'[on'[h]][i]
                    /\ \A f \in before'[h] : \E i \in 1..Len(copy'[h]) : copy'[h][i] = f
    <3>1. CASE h = g
      BY <1>2, <1>3, <3>1, Zenon
    <3>2. CASE h # g
      <4>1. /\ pc[h] \in {"idle", "setLock", "process"} => next[h] = 0
            /\ pc[h] = "run" => next[h] > 0
            /\ next[h] > 0 =>
                 /\ next[h] <= Len(copy[h]) + 1
                 /\ \A i \in 1..(next[h] - 2) : ~Stops(copy[h][i])
            /\ next[h] > 0 /\ Sound(on[h]) =>
                 /\ Len(copy[h]) <= Len(queue[on[h]])
                 /\ \A i \in 1..Len(copy[h]) : copy[h][i] = queue[on[h]][i]
                 /\ \A f \in before[h] : \E i \in 1..Len(copy[h]) : copy[h][i] = f
        BY <1>1, Zenon DEF RunInv
      <4>2. /\ pc'[h] = pc[h] /\ on'[h] = on[h] /\ next'[h] = next[h] /\ copy'[h] = copy[h]
            /\ before'[h] = before[h] /\ queue' = queue /\ raced' = raced
        BY <1>2, <1>q, <3>2, Zenon
      <4>3. QED
        BY <4>1, <4>2, ZenonT(60) DEF Sound
    <3>3. QED
      BY <3>1, <3>2, Zenon
  <2>2. QED
    BY <2>1, Zenon DEF RunInv, Sound, Stops
<1>9. QED
  BY <1>4, <1>5, <1>6, <1>7, <1>8, Zenon DEF PipelinesInv

(* Process reads the queue: it is the one it runs, and all that was        *)
(* registered when Process was called is in it.                            *)
LEMMA ReadQueueKeeps ==
  ASSUME PipelinesInv, NEW g \in Goroutines, ReadQueue(g)
  PROVE  PipelinesInv'
<1>1. TypeOK /\ AddingInv /\ AppendInv /\ QueueInv /\ RunInv
  BY Zenon DEF PipelinesInv
<1>2. /\ pc[g] = "process" /\ pc' = [pc EXCEPT ![g] = "run"]
      /\ copy' = [copy EXCEPT ![g] = queue[on[g]]] /\ next' = [next EXCEPT ![g] = 1]
      /\ Access(g, on[g])
      /\ UNCHANGED <<queue, locked, on, item, slice, calls, home, before, done>>
  BY Zenon DEF ReadQueue, history
<1>3. raced' \in BOOLEAN /\ fatal' \in BOOLEAN /\ (raced => raced')
  BY <1>1, <1>2, AccessSound, Zenon
<1>4. /\ pc'[g] = "run" /\ copy'[g] = queue[on[g]] /\ next'[g] = 1 /\ on[g] \in Pipes
      /\ \A h \in Goroutines \ {g} :
           pc'[h] = pc[h] /\ copy'[h] = copy[h] /\ next'[h] = next[h]
  BY <1>1, <1>2, Zenon DEF TypeOK
<1>5. TypeOK'
  BY <1>1, <1>2, <1>3, <1>4, ZenonT(60) DEF TypeOK
<1>6. AddingInv'
  <2>1. \A h \in Goroutines :
          /\ pc'[h] \in {"add", "append"} => pc[h] \in {"add", "append"}
          /\ pc'[h] # "process" /\ next'[h] = 0 => pc[h] # "process" /\ next[h] = 0
    BY <1>4, SMTT(60)
  <2>2. QED
    BY <1>1, <1>2, <2>1, SMTT(60) DEF AddingInv, Registered
<1>7. AppendInv'
  <2>1. \A h \in Goroutines : pc'[h] = "append" => pc[h] = "append"
    BY <1>4, Zenon
  <2>2. QED
    BY <1>1, <1>2, <1>3, <2>1, SMTT(60) DEF AppendInv, Sound
<1>8. QueueInv'
  BY <1>1, <1>2, <1>3, SMTT(60) DEF QueueInv, Registered, Sound
<1>9. RunInv'
  <2>1. ASSUME NEW h \in Goroutines
        PROVE  /\ pc'[h] \in {"idle", "setLock", "process"} => next'[h] = 0
               /\ pc'[h] = "run" => next'[h] > 0
               /\ next'[h] > 0 =>
                    /\ next'[h] <= Len(copy'[h]) + 1
                    /\ \A i \in 1..(next'[h] - 2) : ~Stops(copy'[h][i])
               /\ next'[h] > 0 /\ (on'[h] = "packet" \/ ~raced') =>
                    /\ Len(copy'[h]) <= Len(queue'[on'[h]])
                    /\ \A i \in 1..Len(copy'[h]) : copy'[h][i] = queue'[on'[h]][i]
                    /\ \A f \in before'[h] : \E i \in 1..Len(copy'[h]) : copy'[h][i] = f
    <3>1. CASE h = g
      <4> DEFINE q == queue[on[g]]
      <4>1. q \in Seq(Callbacks) /\ before[g] \subseteq Registered(on[g])
        BY <1>1, <1>4, Zenon DEF TypeOK, AddingInv
      <4>2. on[g] = "packet" \/ ~raced' => \A f \in Registered(on[g]) : \E i \in DOMAIN q : q[i] = f
        BY <1>1, <1>3, <1>4, Zenon DEF QueueInv, Sound
      <4> HIDE DEF q
      <4>3. Len(q) \in Nat /\ DOMAIN q = 1..Len(q) /\ Len(q) <= Len(q) /\ 1 <= Len(q) + 1
        BY <4>1, LenProperties, SMTT(60)
      <4>4. 1..(1 - 2) = {} /\ 1 > 0
        BY SMTT(60)
      <4>5. /\ pc'[g] = "run" /\ copy'[g] = q /\ next'[g] = 1 /\ queue'[on'[g]] = q
            /\ on'[g] = on[g] /\ before'[g] = before[g]
        BY <1>2, <1>4, Zenon DEF q
      <4>6. \A i \in 1..(next'[g] - 2) : ~Stops(copy'[g][i])
        BY <4>4, <4>5, Zenon
      <4>7. QED
        BY <3>1, <4>1, <4>2, <4>3, <4>4, <4>5, <4>6, Zenon
    <3>2. CASE h # g
      <4>1. /\ pc[h] \in {"idle", "setLock", "process"} => next[h] = 0
            /\ pc[h] = "run" => next[h] > 0
            /\ next[h] > 0 =>
                 /\ next[h] <= Len(copy[h]) + 1
                 /\ \A i \in 1..(next[h] - 2) : ~Stops(copy[h][i])
            /\ next[h] > 0 /\ Sound(on[h]) =>
                 /\ Len(copy[h]) <= Len(queue[on[h]])
                 /\ \A i \in 1..Len(copy[h]) : copy[h][i] = queue[on[h]][i]
                 /\ \A f \in before[h] : \E i \in 1..Len(copy[h]) : copy[h][i] = f
        BY <1>1, Zenon DEF RunInv
      <4>2. /\ pc'[h] = pc[h] /\ on'[h] = on[h] /\ next'[h] = next[h] /\ copy'[h] = copy[h]
            /\ before'[h] = before[h] /\ queue' = queue /\ (raced => raced')
        BY <1>2, <1>3, <1>4, <3>2, Zenon
      <4>3. QED
        BY <4>1, <4>2, ZenonT(60) DEF Sound
    <3>3. QED
      BY <3>1, <3>2, Zenon
  <2>2. QED
    BY <2>1, Zenon DEF RunInv, Sound, Stops
<1>10. QED
  BY <1>5, <1>6, <1>7, <1>8, <1>9, Zenon DEF PipelinesInv

\* A callback runs, whether it registers another one or not.
Advance(g) ==
  /\ pc[g] = "run" /\ ~Over(g) /\ next' = [next EXCEPT ![g] = @ + 1]
  /\ pc'[g] \in {"run", "add"} /\ \A h \in Goroutines \ {g} : pc'[h] = pc[h]
  /\ on' = on /\ queue' = queue /\ copy' = copy /\ raced' = raced
  /\ \A h \in Goroutines : before'[h] = before[h]

(* Process runs the next callback: the previous one did not stop it. *)
LEMMA RunKeeps ==
  ASSUME PipelinesInv, NEW g \in Goroutines, Advance(g)
  PROVE  RunInv'
<1>1. TypeOK /\ RunInv
  BY Zenon DEF PipelinesInv
<1>2. /\ next'[g] = next[g] + 1 /\ next[g] \in Nat /\ next[g] > 0
      /\ copy[g] \in Seq(Callbacks) /\ Len(copy[g]) \in Nat
      /\ \A h \in Goroutines \ {g} : next'[h] = next[h]
  BY <1>1, LenProperties, ZenonT(60) DEF TypeOK, RunInv, Advance
<1>3. next[g] <= Len(copy[g]) /\ (next[g] > 1 => ~Stops(copy[g][next[g] - 1]))
  BY <1>2, SMTT(60) DEF Over, Advance
<1>4. ASSUME NEW i \in 1..(next'[g] - 2)
      PROVE  ~Stops(copy[g][i])
  <2>1. i \in 1..(next[g] - 2) \/ (i = next[g] - 1 /\ next[g] > 1)
    BY <1>2, <1>4, SMTT(60)
  <2>2. \A j \in 1..(next[g] - 2) : ~Stops(copy[g][j])
    BY <1>1, <1>2, Zenon DEF RunInv
  <2>3. QED
    BY <1>3, <2>1, <2>2, Zenon
<1>5. next'[g] > 0 /\ next'[g] <= Len(copy[g]) + 1
  BY <1>2, <1>3, SMTT(60)
<1>6. ASSUME NEW h \in Goroutines
      PROVE  /\ pc'[h] \in {"idle", "setLock", "process"} => next'[h] = 0
             /\ pc'[h] = "run" => next'[h] > 0
             /\ next'[h] > 0 =>
                  /\ next'[h] <= Len(copy'[h]) + 1
                  /\ \A i \in 1..(next'[h] - 2) : ~Stops(copy'[h][i])
             /\ next'[h] > 0 /\ (on'[h] = "packet" \/ ~raced') =>
                  /\ Len(copy'[h]) <= Len(queue'[on'[h]])
                  /\ \A i \in 1..Len(copy'[h]) : copy'[h][i] = queue'[on'[h]][i]
                  /\ \A f \in before'[h] : \E i \in 1..Len(copy'[h]) : copy'[h][i] = f
  <2>1. /\ pc[h] \in {"idle", "setLock", "process"} => next[h] = 0
        /\ pc[h] = "run" => next[h] > 0
        /\ next[h] > 0 =>
             /\ next[h] <= Len(copy[h]) + 1
             /\ \A i \in 1..(next[h] - 2) : ~Stops(copy[h][i])
        /\ next[h] > 0 /\ Sound(on[h]) =>
             /\ Len(copy[h]) <= Len(queue[on[h]])
             /\ \A i \in 1..Len(copy[h]) : copy[h][i] = queue[on[h]][i]
             /\ \A f \in before[h] : \E i \in 1..Len(copy[h]) : copy[h][i] = f
    BY <1>1, Zenon DEF RunInv
  <2>2. /\ on'[h] = on[h] /\ copy'[h] = copy[h] /\ before'[h] = before[h]
        /\ queue' = queue /\ raced' = raced
    BY Zenon DEF Advance
  <2>3. CASE h = g
    <3>1. pc'[g] \notin {"idle", "setLock", "process"}
      BY Zenon DEF Advance
    <3>2. next[h] > 0 /\ next'[h] > 0 /\ next'[h] <= Len(copy[h]) + 1
          /\ pc'[h] \notin {"idle", "setLock", "process"}
          /\ \A i \in 1..(next'[h] - 2) : ~Stops(copy[h][i])
      BY <1>2, <1>4, <1>5, <2>3, <3>1, Zenon
    <3>3. QED
      BY <2>1, <2>2, <3>2, Zenon DEF Sound
  <2>4. CASE h # g
    <3>1. pc'[h] = pc[h] /\ next'[h] = next[h]
      BY <1>2, <2>4, Zenon DEF Advance
    <3>2. QED
      BY <2>1, <2>2, <3>1, ZenonT(60) DEF Sound
  <2>5. QED
    BY <2>3, <2>4, Zenon
<1>7. QED
  BY <1>6, Zenon DEF RunInv, Sound, Stops

-----------------------------------------------------------------------------
(* Every step keeps the invariant. *)
LEMMA NextPipelinesInv ==
  ASSUME PipelinesInv, [Next]_vars
  PROVE  PipelinesInv'
<1>1. TypeOK /\ AddingInv /\ AppendInv /\ QueueInv /\ RunInv
  BY Zenon DEF PipelinesInv
<1>2. ASSUME NEW g \in Goroutines, NEW p \in Pipes, NEW f \in Fresh, CallAdd(g, p, f)
      PROVE  PipelinesInv'
  <2>1. /\ pc[g] = "idle" /\ calls' = calls + 1 /\ Add(g, p, f) /\ next' = next
        /\ pc' = [pc EXCEPT ![g] = "add"] /\ on' = [on EXCEPT ![g] = p]
        /\ before' = [before EXCEPT ![f] = Registered(p)]
        /\ queue' = queue /\ copy' = copy /\ raced' = raced
    BY <1>2, ZenonT(60) DEF CallAdd, Call, Add
  <2>2. calls' \in Nat /\ next' \in [Goroutines -> Nat] /\ next[g] = 0
    BY <1>1, <2>1, SMTT(60) DEF TypeOK, RunInv
  <2>3. TypeOK' /\ AddingInv' /\ AppendInv' /\ QueueInv'
    BY <2>1, <2>2, AddKeeps, Zenon
  <2>4. f \in Callbacks /\ f \notin Goroutines
    BY <1>2, PipelinesAssumption, Zenon DEF Fresh
  <2>5. /\ pc'[g] = "add"
        /\ \A h \in Goroutines : before'[h] = before[h]
        /\ \A h \in Goroutines \ {g} : pc'[h] = pc[h] /\ on'[h] = on[h]
    BY <1>1, <2>1, <2>4, Zenon DEF TypeOK
  <2>6. RunInv'
    <3>1. ASSUME NEW h \in Goroutines
          PROVE  /\ pc'[h] \in {"idle", "setLock", "process"} => next'[h] = 0
                 /\ pc'[h] = "run" => next'[h] > 0
                 /\ next'[h] > 0 =>
                      /\ next'[h] <= Len(copy'[h]) + 1
                      /\ \A i \in 1..(next'[h] - 2) : ~Stops(copy'[h][i])
                 /\ next'[h] > 0 /\ (on'[h] = "packet" \/ ~raced') =>
                      /\ Len(copy'[h]) <= Len(queue'[on'[h]])
                      /\ \A i \in 1..Len(copy'[h]) : copy'[h][i] = queue'[on'[h]][i]
                      /\ \A e \in before'[h] : \E i \in 1..Len(copy'[h]) : copy'[h][i] = e
      <4>1. CASE h = g
        <5>1. next'[h] = 0 /\ ~(0 > 0) /\ pc'[h] # "run"
          BY <2>1, <2>2, <2>5, <4>1, SMTT(60)
        <5>2. QED
          BY <5>1, Zenon
      <4>2. CASE h # g
        <5>1. /\ pc[h] \in {"idle", "setLock", "process"} => next[h] = 0
              /\ pc[h] = "run" => next[h] > 0
              /\ next[h] > 0 =>
                   /\ next[h] <= Len(copy[h]) + 1
                   /\ \A i \in 1..(next[h] - 2) : ~Stops(copy[h][i])
              /\ next[h] > 0 /\ Sound(on[h]) =>
                   /\ Len(copy[h]) <= Len(queue[on[h]])
                   /\ \A i \in 1..Len(copy[h]) : copy[h][i] = queue[on[h]][i]
                   /\ \A e \in before[h] : \E i \in 1..Len(copy[h]) : copy[h][i] = e
          BY <1>1, Zenon DEF RunInv
        <5>2. /\ pc'[h] = pc[h] /\ on'[h] = on[h] /\ next'[h] = next[h] /\ copy'[h] = copy[h]
              /\ before'[h] = before[h] /\ queue' = queue /\ raced' = raced
          BY <2>1, <2>5, <4>2, SMTT(60)
        <5>3. QED
          BY <5>1, <5>2, Zenon DEF Sound
      <4>3. QED
        BY <4>1, <4>2, Zenon
    <3>2. QED
      BY <3>1, Zenon DEF RunInv, Sound, Stops
  <2>7. QED
    BY <2>3, <2>6, Zenon DEF PipelinesInv
<1>3. ASSUME NEW g \in Goroutines, CallSetLocked(g) \/ SetLocked(g)
      PROVE  PipelinesInv'
  <2>1. /\ pc[g] \in {"idle", "setLock"} /\ calls' \in Nat /\ locked' \in BOOLEAN
        /\ \E loc \in {"idle", "setLock"} : pc' = [pc EXCEPT ![g] = loc]
        /\ \E p \in Pipes : on' = [on EXCEPT ![g] = p]
        /\ UNCHANGED <<queue, item, slice, fatal, home, done, raced, next, copy, before>>
    <3>1. CASE CallSetLocked(g)
      BY <1>1, <3>1, SMTT(60) DEF CallSetLocked, Call, TypeOK, Pipes, history
    <3>2. CASE SetLocked(g)
      <4>1. on' = [on EXCEPT ![g] = on[g]] /\ on[g] \in Pipes
        BY <1>1, <3>2, Zenon DEF SetLocked, TypeOK
      <4>2. QED
        BY <1>1, <3>2, <4>1, Zenon DEF SetLocked, TypeOK, history
    <3>3. QED
      BY <1>3, <3>1, <3>2, Zenon
  <2>2. PICK loc \in {"idle", "setLock"} : pc' = [pc EXCEPT ![g] = loc]
    BY <2>1, Zenon
  <2>3. PICK p \in Pipes : on' = [on EXCEPT ![g] = p]
    BY <2>1, Zenon
  <2>4. next[g] = 0 /\ before[g] = {}
    BY <1>1, <2>1, Zenon DEF RunInv, AddingInv
  <2>5. /\ next' = [next EXCEPT ![g] = 0] /\ copy' = [copy EXCEPT ![g] = copy[g]]
        /\ before' = [before EXCEPT ![g] = {}] /\ copy[g] \in Seq(Callbacks)
    BY <1>1, <2>1, <2>4, SMTT(60) DEF TypeOK
  <2>6. {} \in SUBSET Registered(p)
    BY Zenon
  <2>7. loc \in {"idle", "setLock", "process"} /\ pc[g] \notin {"add", "append"}
    BY <2>1, Zenon
  <2>8. Outside(g, p, copy[g], {}, loc)
    BY <2>1, <2>2, <2>3, <2>5, <2>7, Zenon DEF Outside
  <2>9. QED
    BY <2>5, <2>6, <2>7, <2>8, OutsideKeeps, Zenon
<1>4. ASSUME NEW g \in Goroutines, NEW p \in Pipes, CallProcess(g, p)
      PROVE  PipelinesInv'
  <2>1. /\ pc[g] = "idle" /\ calls' \in Nat /\ locked' \in BOOLEAN
        /\ pc' = [pc EXCEPT ![g] = "process"] /\ on' = [on EXCEPT ![g] = p]
        /\ before' = [before EXCEPT ![g] = Registered(p)]
        /\ UNCHANGED <<queue, item, slice, fatal, home, done, raced>>
        /\ next' = next /\ copy' = copy
    BY <1>1, <1>4, SMTT(60) DEF CallProcess, Call, TypeOK
  <2>2. /\ next' = [next EXCEPT ![g] = 0] /\ copy' = [copy EXCEPT ![g] = copy[g]]
        /\ copy[g] \in Seq(Callbacks)
    BY <1>1, <2>1, SMTT(60) DEF TypeOK, RunInv
  <2>3. Outside(g, p, copy[g], Registered(p), "process")
    BY <2>1, <2>2, Zenon DEF Outside
  <2>4. QED
    BY <2>2, <2>3, OutsideKeeps, Zenon
<1>5. ASSUME NEW g \in Goroutines, Return(g)
      PROVE  PipelinesInv'
  <2>1. /\ pc[g] = "run" /\ calls' \in Nat /\ locked' \in BOOLEAN
        /\ pc' = [pc EXCEPT ![g] = "idle"] /\ next' = [next EXCEPT ![g] = 0]
        /\ copy' = [copy EXCEPT ![g] = <<>>] /\ before' = [before EXCEPT ![g] = {}]
        /\ UNCHANGED <<queue, item, slice, fatal, home, done, raced>> /\ on' = on
    BY <1>1, <1>5, Zenon DEF Return, TypeOK
  <2>2. PICK p \in Pipes : on' = [on EXCEPT ![g] = p]
    BY <1>1, <2>1, SMTT(60) DEF TypeOK
  <2>3. <<>> \in Seq(Callbacks) /\ {} \in SUBSET Registered(p)
    BY SMTT(60)
  <2>4. Outside(g, p, <<>>, {}, "idle")
    BY <2>1, <2>2, Zenon DEF Outside
  <2>5. QED
    BY <2>3, <2>4, OutsideKeeps, Zenon
<1>6. ASSUME NEW g \in Goroutines, RunNext(g)
      PROVE  PipelinesInv'
  <2>1. pc[g] = "run" /\ ~Over(g) /\ next' = [next EXCEPT ![g] = @ + 1]
    BY <1>6, Zenon DEF RunNext
  <2>2. /\ next' \in [Goroutines -> Nat] /\ next'[g] = next[g] + 1 /\ next[g] \in Nat
        /\ next[g] > 0 /\ \A h \in Goroutines \ {g} : next'[h] = next[h]
    <3>1. next[g] > 0
      BY <1>1, <2>1, Zenon DEF RunInv
    <3>2. next \in [Goroutines -> Nat]
      BY <1>1, Zenon DEF TypeOK
    <3>3. QED
      BY <2>1, <3>1, <3>2, SMTT(60)
  <2>3. CASE \E f \in Fresh : Add(g, on[g], f) /\ calls' = calls
    <3>1. PICK f \in Fresh : Add(g, on[g], f) /\ calls' = calls
      BY <2>3, Zenon
    <3>2. PICK p \in Pipes : p = on[g]
      BY <1>1, Zenon DEF TypeOK
    <3>3. /\ Add(g, p, f) /\ calls' \in Nat /\ (next'[g] = 0 => next[g] = 0)
          /\ pc[g] = "run" /\ on[g] = p
      <4>1. next'[g] # 0
        BY <2>2, SMTT(60)
      <4>2. QED
        BY <1>1, <2>1, <3>1, <3>2, <4>1, Zenon DEF TypeOK
    <3>4. TypeOK' /\ AddingInv' /\ AppendInv' /\ QueueInv'
      BY <2>2, <3>3, AddKeeps, Zenon
    <3>5. f \in Callbacks /\ f \notin Goroutines
      BY PipelinesAssumption, Zenon DEF Fresh
    <3>6. /\ pc'[g] = "add" /\ \A h \in Goroutines \ {g} : pc'[h] = pc[h]
          /\ on' = on /\ \A h \in Goroutines : before'[h] = before[h]
          /\ UNCHANGED <<queue, copy, raced>>
      BY <1>1, <3>2, <3>3, <3>5, Zenon DEF Add, TypeOK
    <3>7. RunInv'
      BY <2>1, <3>6, RunKeeps, Zenon DEF Advance
    <3>8. QED
      BY <3>4, <3>7, Zenon DEF PipelinesInv
  <2>4. CASE UNCHANGED <<queue, locked, pc, on, item, slice, copy, calls, fatal, history, raced>>
    <3>1. /\ queue' = queue /\ locked' = locked /\ pc' = pc /\ on' = on /\ item' = item
          /\ slice' = slice /\ copy' = copy /\ calls' = calls /\ fatal' = fatal /\ home' = home
          /\ before' = before /\ done' = done /\ raced' = raced
      BY <2>4, Zenon DEF history
    <3>2. TypeOK'
      BY <1>1, <2>2, <3>1, Zenon DEF TypeOK
    <3>3. AddingInv'
      <4>1. next'[g] # 0
        BY <2>2, SMTT(60)
      <4>2. \A h \in Goroutines : next'[h] = 0 => next[h] = 0
        BY <2>2, <4>1, Zenon
      <4>3. QED
        BY <1>1, <3>1, <4>2, SMTT(60) DEF AddingInv, Registered
    <3>4. AppendInv'
      BY <1>1, <3>1, ZenonT(60) DEF AppendInv, Sound
    <3>5. QueueInv'
      <4>1. \A p \in Pipes : Registered(p)' = Registered(p) /\ (Sound(p)' <=> Sound(p))
        BY <3>1, Zenon DEF Registered, Sound
      <4>2. QueueInv
        BY <1>1, Zenon
      <4>3. QED
        BY <3>1, <4>1, <4>2, SMTT(60) DEF QueueInv
    <3>6. RunInv'
      <4>1. pc'[g] \in {"run", "add"}
        BY <2>1, <3>1, Zenon
      <4>2. QED
        BY <2>1, <3>1, <4>1, RunKeeps, Zenon DEF Advance
    <3>7. QED
      BY <3>2, <3>3, <3>4, <3>5, <3>6, Zenon DEF PipelinesInv
  <2>5. QED
    BY <1>6, <2>3, <2>4, Zenon DEF RunNext
<1>7. CASE UNCHANGED vars
  <2>1. /\ queue' = queue /\ locked' = locked /\ pc' = pc /\ on' = on /\ item' = item
        /\ slice' = slice /\ copy' = copy /\ next' = next /\ calls' = calls /\ fatal' = fatal
        /\ home' = home /\ before' = before /\ done' = done /\ raced' = raced
    BY <1>7, Zenon DEF vars, history
  <2>2. TypeOK'
    BY <1>1, <2>1, ZenonT(60) DEF TypeOK
  <2>3. AddingInv'
    BY <1>1, <2>1, SMTT(60) DEF AddingInv, Registered
  <2>4. AppendInv'
    BY <1>1, <2>1, Zenon DEF AppendInv, Sound
  <2>5. QueueInv'
    BY <1>1, <2>1, SMTT(60) DEF QueueInv, Sound, Registered
  <2>6. RunInv'
    BY <1>1, <2>1, SMTT(30) DEF RunInv, Sound, Stops
  <2>7. QED
    BY <2>2, <2>3, <2>4, <2>5, <2>6, Zenon DEF PipelinesInv
<1>8. QED
  BY <1>2, <1>3, <1>4, <1>5, <1>6, <1>7, ReadSliceKeeps, AppendKeeps, ReadQueueKeeps, Zenon DEF Next, Step

(* core/packet_pipeline.go and core/data_pipeline.go: the queues hold what *)
(* is registered, and the calls under way agree with them, whichever way   *)
(* the goroutines interleave.                                              *)
THEOREM PipelinesInvariant ==
  Spec => []PipelinesInv
<1>1. PipelinesInv /\ [Next]_vars => PipelinesInv'
  BY NextPipelinesInv, Zenon
<1>2. QED
  BY <1>1, InitPipelinesInv, PTL DEF Spec

(* AddCallback and AddTransform: no registration is lost, doubled or put   *)
(* before an earlier one; with AddTransform, as long as no two accesses to *)
(* the map overlapped.                                                     *)
THEOREM RegistrationsAreKept ==
  Spec => []RegistrationsKept
<1>1. PipelinesInv => RegistrationsKept
  <2> SUFFICES ASSUME PipelinesInv PROVE RegistrationsKept
    BY Zenon
  <2>1. ASSUME NEW p \in Pipes, Sound(p)
        PROVE  Kept(p)
    <3> SUFFICES ASSUME NEW f \in Registered(p)
                 PROVE  \E i \in DOMAIN queue[p] :
                          /\ \A j \in DOMAIN queue[p] : queue[p][j] = f <=> j = i
                          /\ before[f] \subseteq {queue[p][j] : j \in 1..(i - 1)}
      BY Zenon DEF Kept
    <3>1. PICK i \in DOMAIN queue[p] : queue[p][i] = f
      BY <2>1, Zenon DEF PipelinesInv, QueueInv
    <3>2. \A j \in DOMAIN queue[p] : queue[p][j] = f <=> j = i
      BY <2>1, <3>1, Zenon DEF PipelinesInv, QueueInv
    <3>3. \A e \in before[f] : \E j \in 1..(i - 1) : queue[p][j] = e
      BY <2>1, <3>1, ZenonT(60) DEF PipelinesInv, QueueInv
    <3>4. QED
      BY <3>2, <3>3, SMTT(60)
  <2>2. QED
    BY <2>1, Zenon DEF RegistrationsKept, Sound, Pipes
<1>2. QED
  BY <1>1, PipelinesInvariant, PTL

(* Process: it runs the start of the queue, up to the first callback that  *)
(* stops it, and passes over none that was registered before the call.     *)
THEOREM ProcessIsFaithful ==
  Spec => []ProcessFaithful
<1>1. PipelinesInv => ProcessFaithful
  <2> SUFFICES ASSUME PipelinesInv, NEW g \in Goroutines,
                      pc[g] = "run", Over(g), on[g] = "packet" \/ ~raced
               PROVE  LET q   == queue[on[g]]
                          ran == Ran(g)
                      IN /\ Len(ran) <= Len(q) /\ ran = SubSeq(q, 1, Len(ran))
                         /\ \A i \in 1..(Len(ran) - 1) : Effect[ran[i]] \in {"continue", "extend"}
                         /\ \/ before[g] \subseteq {ran[i] : i \in DOMAIN ran}
                            \/ ran # <<>> /\ Effect[ran[Len(ran)]] \in {"stop", "error"}
                         /\ Error(g) /\ before[g] # {} => Effect[ran[Len(ran)]] = "error"
    BY Zenon DEF ProcessFaithful
  <2> DEFINE c == copy[g]
             n == next[g]
             q == queue[on[g]]
             ran == SubSeq(c, 1, n - 1)
             B == before[g]
  <2>1. c \in Seq(Callbacks) /\ q \in Seq(Callbacks) /\ n \in Nat /\ n > 0 /\ ran = Ran(g)
    BY SMTT(60) DEF PipelinesInv, TypeOK, RunInv, Ran
  <2>2. /\ n <= Len(c) + 1 /\ Len(c) <= Len(q)
        /\ \A i \in 1..(n - 2) : ~Stops(c[i])
        /\ \A i \in 1..Len(c) : c[i] = q[i]
        /\ \A f \in B : \E i \in 1..Len(c) : c[i] = f
    BY <2>1, Zenon DEF PipelinesInv, RunInv, Sound
  <2>3. n > Len(c) \/ (n > 1 /\ Stops(c[n - 1]))
    BY Zenon DEF Over
  <2>4. Error(g) => c = <<>> \/ (ran # <<>> /\ Effect[c[n - 1]] = "error")
    BY Zenon DEF Error, Ran
  <2> HIDE DEF c, n, q, B
  <2>5. Len(c) \in Nat /\ Len(q) \in Nat /\ n - 1 \in Nat /\ n - 1 <= Len(c) /\ n - 1 <= Len(q)
    BY <2>1, <2>2, LenProperties, SMTT(60)
  <2>6. /\ ran \in Seq(Callbacks) /\ Len(ran) = n - 1 /\ DOMAIN ran = 1..(n - 1)
        /\ \A i \in 1..(n - 1) : ran[i] = c[i]
    BY <2>1, <2>5, StartOfCopy, ZenonT(60)
  <2>7. /\ SubSeq(q, 1, n - 1) \in Seq(Callbacks) /\ Len(SubSeq(q, 1, n - 1)) = n - 1
        /\ \A i \in 1..(n - 1) : SubSeq(q, 1, n - 1)[i] = q[i]
    BY <2>1, <2>5, StartOfCopy, Zenon
  <2> HIDE DEF ran
  <2>8. Len(ran) <= Len(q) /\ ran = SubSeq(q, 1, Len(ran))
    <3>1. \A i \in 1..(n - 1) : i \in 1..Len(c)
      BY <2>1, <2>5, SMTT(60)
    <3>2. \A i \in 1..Len(ran) : ran[i] = SubSeq(q, 1, n - 1)[i]
      BY <2>2, <2>6, <2>7, <3>1, Zenon
    <3>3. QED
      BY <2>5, <2>6, <2>7, <3>2, SeqEqual, Zenon
  <2>9. ASSUME NEW i \in 1..(Len(ran) - 1)
        PROVE  Effect[ran[i]] \in {"continue", "extend"}
    <3>1. i \in 1..(n - 2) /\ i \in 1..(n - 1) /\ i \in DOMAIN ran
      BY <2>1, <2>6, <2>9, SMTT(60)
    <3>2. ran[i] \in Callbacks
      BY <2>6, <3>1, SMTT(60)
    <3>3. Effect[ran[i]] \in Effects
      BY <3>2, PipelinesAssumption, Zenon
    <3>4. QED
      BY <2>2, <2>6, <3>1, <3>3, Zenon DEF Stops, Effects
  <2>10. B \subseteq {ran[i] : i \in DOMAIN ran} \/ (ran # <<>> /\ Effect[ran[Len(ran)]] \in {"stop", "error"})
    <3>1. CASE n > Len(c)
      <4>1. 1..Len(c) = 1..(n - 1)
        BY <2>5, <3>1, <2>1, SMTT(60)
      <4>2. QED
        BY <2>2, <2>6, <4>1, SMTT(60)
    <3>2. CASE n > 1 /\ Stops(c[n - 1])
      <4>1. Len(ran) > 0 /\ n - 1 \in 1..(n - 1)
        BY <2>1, <2>6, <3>2, SMTT(60)
      <4>2. ran # <<>>
        BY <4>1, SMTT(60)
      <4>3. QED
        BY <2>6, <3>2, <4>1, <4>2, Zenon DEF Stops
    <3>3. QED
      BY <2>3, <3>1, <3>2, Zenon
  <2>11. ASSUME Error(g), B # {}
         PROVE  Effect[ran[Len(ran)]] = "error"
    <3>1. c # <<>>
      BY <2>2, <2>11, SMTT(60)
    <3>2. ran # <<>> /\ Effect[c[n - 1]] = "error"
      BY <2>4, <2>11, <3>1, Zenon
    <3>3. Len(ran) # 0
      BY <2>6, <3>2, EmptySeq, Zenon
    <3>4. n - 1 \in 1..(n - 1)
      BY <2>1, <2>5, <2>6, <3>3, SMTT(60)
    <3>5. QED
      BY <2>6, <3>2, <3>4, Zenon
  <2>12. QED
    BY <2>1, <2>8, <2>9, <2>10, <2>11, SMTT(60) DEF q, B
<1>2. QED
  BY <1>1, PipelinesInvariant, PTL

=============================================================================
