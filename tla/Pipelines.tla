------------------------------ MODULE Pipelines ------------------------------
(***************************************************************************)
(* core/packet_pipeline.go and core/data_pipeline.go used by several       *)
(* goroutines at once: the callback queue of one target ("packet") and the *)
(* transforms of one data pipeline ("data"), each in a map behind a        *)
(* sync.RWMutex of its own. AddCallback takes the write lock, AddTransform *)
(* only the read lock, so that its access to the map can overlap others: a *)
(* race, in which Go may end the process. Process copies the queue under   *)
(* the read lock and runs it without; a callback may register another one. *)
(***************************************************************************)
EXTENDS Naturals, Sequences

CONSTANTS
  Goroutines,
  Callbacks,  \* callbacks and transforms, each registered at most once
  NoCallback,
  Effect,     \* [Callbacks -> Effects]
  MaxCalls    \* bound: calls made by all goroutines

Pipes == {"packet", "data"}

\* What a callback does: leave ctx.Stat alone (or set CodeRelay), set
\* CodeStopNoop or CodeStopCloseSend, set CodeStopError, or register another.
Effects == {"continue", "stop", "error", "extend"}

ASSUME PipelinesAssumption ==
  /\ NoCallback \notin Callbacks /\ Callbacks \cap Goroutines = {}
  /\ Effect \in [Callbacks -> Effects] /\ MaxCalls \in Nat

VARIABLES
  queue,   \* [Pipes -> Seq(Callbacks)]: callbackQueues[target], pipelines[name]
  locked,  \* DataPipeline.locked
  pc,      \* where each goroutine is
  on,      \* the pipeline its call is about
  item,    \* the callback it registers
  slice,   \* what it read from the map in order to append to it
  copy,    \* the queue its Process runs
  next,    \* the callback it runs next, 0 when it is not in Process
  calls,   \* calls made so far
  fatal,   \* the process ended with a fatal error
  home,    \* history: the pipeline a callback is for, once its registration began
  before,  \* history: the callbacks registered when a registration or a Process began
  done,    \* history: the callbacks whose registration returned
  raced    \* history: accesses to the map of the data pipeline have overlapped

history == <<home, before, done>>
vars == <<queue, locked, pc, on, item, slice, copy, next, calls, fatal, history, raced>>

Init ==
  /\ queue = [p \in Pipes |-> <<>>] /\ locked = FALSE
  /\ pc = [g \in Goroutines |-> "idle"] /\ on = [g \in Goroutines |-> "data"]
  /\ item = [g \in Goroutines |-> NoCallback] /\ slice = [g \in Goroutines |-> <<>>]
  /\ copy = [g \in Goroutines |-> <<>>] /\ next = [g \in Goroutines |-> 0]
  /\ calls = 0 /\ fatal = FALSE
  /\ home = [f \in Callbacks |-> "none"] /\ before = [x \in Callbacks \cup Goroutines |-> {}]
  /\ done = {} /\ raced = FALSE

-----------------------------------------------------------------------------
(* sync.RWMutex: a goroutine that has read the map in order to append to it *)
(* holds the lock; a waiting writer keeps new readers out.                  *)

\* Mutant: AddCallback takes the read lock as well.
ExclusiveNever(p) == FALSE
Exclusive(p) == p = "packet"

\* Mutant: Process runs the queue under the read lock.
ReadersWhileRunning(p) ==
  {g \in Goroutines : on[g] = p /\ (next[g] > 0 \/ (pc[g] = "append" /\ ~Exclusive(p)))}
Readers(p) == {g \in Goroutines : on[g] = p /\ pc[g] = "append" /\ ~Exclusive(p)}
Writers(p) == {g \in Goroutines : on[g] = p /\ pc[g] = "append" /\ Exclusive(p)}
Waiting(p) ==
  {g \in Goroutines : on[g] = p /\ (pc[g] = "setLock" \/ (pc[g] = "add" /\ Exclusive(p)))}

\* Mutant: a second writer is let in.
CanLockReadersOnly(p) == Readers(p) = {}
CanLock(p) == Readers(p) = {} /\ Writers(p) = {}
CanRLock(p) == Writers(p) = {} /\ (Waiting(p) = {} \/ Readers(p) = {})

(* An access to the map of pipeline p while another goroutine appends. *)
Access(g, p) ==
  IF \E h \in Goroutines \ {g} : on[h] = p /\ pc[h] = "append"
    THEN raced' = TRUE /\ fatal' \in BOOLEAN
    ELSE UNCHANGED <<raced, fatal>>

-----------------------------------------------------------------------------
Registered(p) == {f \in done : home[f] = p}

\* Callbacks left to register: a bound.
Fresh == {f \in Callbacks : home[f] = "none"}

Call(g) == pc[g] = "idle" /\ calls < MaxCalls /\ calls' = calls + 1

(* AddCallback and AddTransform, which does not look at locked. *)
Add(g, p, f) ==
  /\ pc' = [pc EXCEPT ![g] = "add"] /\ on' = [on EXCEPT ![g] = p]
  /\ item' = [item EXCEPT ![g] = f] /\ home' = [home EXCEPT ![f] = p]
  /\ before' = [before EXCEPT ![f] = Registered(p)]
  /\ UNCHANGED <<queue, locked, slice, copy, fatal, done, raced>>

CallAdd(g, p, f) == Call(g) /\ Add(g, p, f) /\ next' = next

ReadSlice(g) ==
  /\ pc[g] = "add" /\ IF Exclusive(on[g]) THEN CanLock(on[g]) ELSE CanRLock(on[g])
  /\ slice' = [slice EXCEPT ![g] = queue[on[g]]] /\ pc' = [pc EXCEPT ![g] = "append"]
  /\ Access(g, on[g])
  /\ UNCHANGED <<queue, locked, on, item, copy, next, calls, history>>

(* The append, the assignment and the unlock. *)
Append1(g) ==
  /\ pc[g] = "append"
  /\ queue' = [queue EXCEPT ![on[g]] = Append(slice[g], item[g])]
  /\ pc' = [pc EXCEPT ![g] = IF next[g] = 0 THEN "idle" ELSE "run"]
  /\ done' = done \cup {item[g]} /\ item' = [item EXCEPT ![g] = NoCallback]
  /\ Access(g, on[g])
  /\ slice' = [slice EXCEPT ![g] = <<>>]
  /\ UNCHANGED <<locked, on, copy, next, calls, home, before>>

(* Lock and Unlock, whichever changes locked. *)
CallSetLocked(g) ==
  /\ Call(g) /\ pc' = [pc EXCEPT ![g] = "setLock"] /\ on' = [on EXCEPT ![g] = "data"]
  /\ UNCHANGED <<queue, locked, item, slice, copy, next, fatal, history, raced>>

SetLocked(g) ==
  /\ pc[g] = "setLock" /\ CanLock("data")
  /\ locked' = ~locked /\ pc' = [pc EXCEPT ![g] = "idle"]
  /\ UNCHANGED <<queue, on, item, slice, copy, next, calls, fatal, history, raced>>

-----------------------------------------------------------------------------
(* Process. *)
CallProcess(g, p) ==
  /\ Call(g) /\ pc' = [pc EXCEPT ![g] = "process"] /\ on' = [on EXCEPT ![g] = p]
  /\ before' = [before EXCEPT ![g] = Registered(p)]
  /\ UNCHANGED <<queue, locked, item, slice, copy, next, fatal, home, done, raced>>

ReadQueue(g) ==
  /\ pc[g] = "process" /\ CanRLock(on[g])
  /\ copy' = [copy EXCEPT ![g] = queue[on[g]]] /\ next' = [next EXCEPT ![g] = 1]
  /\ pc' = [pc EXCEPT ![g] = "run"]
  /\ Access(g, on[g])
  /\ UNCHANGED <<queue, locked, on, item, slice, calls, history>>

\* Mutant: only an error stops the queue.
StopsOnError(f) == Effect[f] = "error"
Stops(f) == Effect[f] \in {"stop", "error"}

Ran(g) == SubSeq(copy[g], 1, next[g] - 1)
Over(g) == next[g] > Len(copy[g]) \/ (next[g] > 1 /\ Stops(copy[g][next[g] - 1]))

RunNext(g) ==
  /\ pc[g] = "run" /\ ~Over(g)
  /\ next' = [next EXCEPT ![g] = @ + 1]
  /\ IF Effect[copy[g][next[g]]] = "extend" /\ Fresh # {}
       THEN (\E f \in Fresh : Add(g, on[g], f)) /\ calls' = calls
       ELSE UNCHANGED <<queue, locked, pc, on, item, slice, copy, calls, fatal, history, raced>>

Return(g) ==
  /\ pc[g] = "run" /\ Over(g)
  /\ pc' = [pc EXCEPT ![g] = "idle"] /\ next' = [next EXCEPT ![g] = 0]
  /\ copy' = [copy EXCEPT ![g] = <<>>] /\ before' = [before EXCEPT ![g] = {}]
  /\ UNCHANGED <<queue, locked, on, item, slice, calls, fatal, home, done, raced>>

(* The error Process returns. *)
Error(g) ==
  \/ on[g] = "packet" /\ copy[g] = <<>>
  \/ Ran(g) # <<>> /\ Effect[copy[g][next[g] - 1]] = "error"

-----------------------------------------------------------------------------
Step(g) == ReadSlice(g) \/ Append1(g) \/ SetLocked(g) \/ ReadQueue(g) \/ RunNext(g) \/ Return(g)

Next ==
  /\ ~fatal
  /\ \E g \in Goroutines :
       \/ \E p \in Pipes : CallProcess(g, p) \/ \E f \in Fresh : CallAdd(g, p, f)
       \/ CallSetLocked(g) \/ Step(g)

Spec == Init /\ [][Next]_vars

(* As long as some goroutine can go on, one does: with a bounded number of *)
(* calls that is enough for each of them.                                  *)
FairSpec == Spec /\ WF_vars(~fatal /\ \E g \in Goroutines : Step(g))

-----------------------------------------------------------------------------
(* Inductive invariant. *)

\* The variables keep their types.
TypeOK ==
  /\ queue \in [Pipes -> Seq(Callbacks)] /\ locked \in BOOLEAN /\ fatal \in BOOLEAN
  /\ pc \in [Goroutines -> {"idle", "add", "append", "setLock", "process", "run"}]
  /\ on \in [Goroutines -> Pipes] /\ item \in [Goroutines -> Callbacks \cup {NoCallback}]
  /\ slice \in [Goroutines -> Seq(Callbacks)] /\ copy \in [Goroutines -> Seq(Callbacks)]
  /\ next \in [Goroutines -> Nat] /\ calls \in Nat /\ raced \in BOOLEAN
  /\ home \in [Callbacks -> Pipes \cup {"none"}] /\ done \subseteq Callbacks
  /\ before \in [Callbacks \cup Goroutines -> SUBSET Callbacks]

\* The pipelines in which accesses to the map have not overlapped.
Sound(p) == p = "packet" \/ ~raced

\* A registration is that of one goroutine and under way until it is done;
\* what was registered before it, or before a Process, still is.
AddingInv ==
  /\ \A g \in Goroutines : pc[g] \in {"add", "append"} =>
       /\ item[g] \in Callbacks \ done /\ home[item[g]] = on[g]
       /\ \A h \in Goroutines : pc[h] \in {"add", "append"} /\ item[h] = item[g] => h = g
  /\ \A f \in Callbacks : home[f] = "none" => f \notin done
  /\ \A f \in Callbacks : home[f] # "none" => before[f] \subseteq Registered(home[f])
  /\ \A g \in Goroutines :
       /\ before[g] \subseteq Registered(on[g])
       /\ pc[g] # "process" /\ next[g] = 0 => before[g] = {}

\* While a goroutine appends nobody else does, and the queue is what it read.
AppendInv ==
  \A g \in Goroutines : pc[g] = "append" /\ Sound(on[g]) =>
    /\ slice[g] = queue[on[g]]
    /\ \A h \in Goroutines : pc[h] = "append" /\ on[h] = on[g] => h = g

\* The queue holds what is registered, each once and after what came before it.
QueueInv ==
  \A p \in Pipes : Sound(p) =>
    /\ \A i \in DOMAIN queue[p] : queue[p][i] \in Registered(p)
    /\ \A f \in Registered(p) : \E i \in DOMAIN queue[p] : queue[p][i] = f
    /\ \A i, j \in DOMAIN queue[p] : queue[p][i] = queue[p][j] => i = j
    /\ \A i \in DOMAIN queue[p] : \A f \in before[queue[p][i]] :
         \E j \in 1..(i - 1) : queue[p][j] = f

\* A Process runs the start of the queue and has met nothing that stops it,
\* but for the last callback it ran.
RunInv ==
  \A g \in Goroutines :
    /\ pc[g] \in {"idle", "setLock", "process"} => next[g] = 0
    /\ pc[g] = "run" => next[g] > 0
    /\ next[g] > 0 =>
         /\ next[g] <= Len(copy[g]) + 1
         /\ \A i \in 1..(next[g] - 2) : ~Stops(copy[g][i])
    /\ next[g] > 0 /\ Sound(on[g]) =>
         /\ Len(copy[g]) <= Len(queue[on[g]])
         /\ \A i \in 1..Len(copy[g]) : copy[g][i] = queue[on[g]][i]
         /\ \A f \in before[g] : \E i \in 1..Len(copy[g]) : copy[g][i] = f

(* The queues hold what is registered, and the calls under way agree with  *)
(* them: the lock, or the absence of races, keeps a queue from changing    *)
(* between the two accesses of a registration.                             *)
PipelinesInv == TypeOK /\ AddingInv /\ AppendInv /\ QueueInv /\ RunInv

-----------------------------------------------------------------------------
\* Every callback whose registration returned is in the queue once, after
\* those registered before its registration began.
Kept(p) ==
  \A f \in Registered(p) : \E i \in DOMAIN queue[p] :
    /\ \A j \in DOMAIN queue[p] : queue[p][j] = f <=> j = i
    /\ before[f] \subseteq {queue[p][j] : j \in 1..(i - 1)}

(* No registration is lost, doubled or put before an earlier one, with     *)
(* goroutines registering and processing at once, callbacks included: of   *)
(* the packet pipeline always, of the data pipeline, whose AddTransform    *)
(* writes under the read lock, as long as no two accesses overlapped.      *)
RegistrationsKept == Kept("packet") /\ (raced \/ Kept("data"))

(* Process runs the queue in order from its start, without what is         *)
(* registered meanwhile, up to the first callback that stops it; it passes *)
(* over none that was registered before the call, and returns an error     *)
(* only for a target without callbacks or from its last callback.          *)
ProcessFaithful ==
  \A g \in Goroutines :
    LET q   == queue[on[g]]
        ran == Ran(g)
    IN pc[g] = "run" /\ Over(g) /\ (on[g] = "packet" \/ ~raced) =>
         /\ Len(ran) <= Len(q) /\ ran = SubSeq(q, 1, Len(ran))
         /\ \A i \in 1..(Len(ran) - 1) : Effect[ran[i]] \in {"continue", "extend"}
         /\ \/ before[g] \subseteq {ran[i] : i \in DOMAIN ran}
            \/ ran # <<>> /\ Effect[ran[Len(ran)]] \in {"stop", "error"}
         /\ Error(g) /\ before[g] # {} => Effect[ran[Len(ran)]] = "error"

(* Every call returns, or the process ends in a race: registering from     *)
(* within a callback, next to waiting readers and writers, does not block. *)
CallsReturn == \A g \in Goroutines : pc[g] # "idle" ~> (pc[g] = "idle" \/ fatal)
=============================================================================
