# Concord in TLA+

A verification project for `navaz-alani/concord`: a Go library for packet-based
client/server communication over UDP, with target callbacks, a relay, throttled
connections and an optional encryption extension. The modules here model the
concurrent core of the library and the encryption extension, TLC checks them on
small instances, and TLAPS proves every safety property that the passing runs
check, refinements and action properties included, for every instance.

## The system

| Part | State | Operations | Interacts with |
|---|---|---|---|
| UDP client (`client/udp_client.go`) | `requests` (ref to response channel), `writeStream`, `miscStream`, `doneStream` | `Send`, routines `write` and `recv`, a `processIncoming` goroutine per packet, `Misc`, `Cleanup` | throttle, packet pool, data pipeline, application |
| UDP server (`server/udp_server.go`) | `sendStream`, `writeStream`, five readers | `Serve`, `readPkts`, a `processIncoming` goroutine per datagram, `relayCallback`, `sendPkts`, a `processOutgoing` goroutine per packet, `writePkts` | throttle, packet pool, both pipelines |
| Packets (`packet/`) | metadata, buffer, committed text, destination; a `sync.Pool` of packets | `NewPkt`, `NewErrPkt`, `PutBack`, `Marshal`, `Unmarshal`, `Write`, `Close` | everything that sends or receives |
| Packet pipeline (`core/packet_pipeline.go`) | callback queue per target | `AddCallback`, `Process` | server |
| Data pipeline (`core/data_pipeline.go`) | transforms per pipeline, `locked` | `Lock`, `Unlock`, `AddTransform`, `Process` | client, server, crypto |
| Throttle (`core/throttle/`) | rate, time per operation, buffered channels `recv`, `send` | `ReadFrom`, `WriteTo`, `SetThroughput`, `ScaleThroughput`, `Shutdown`, routines `read` and `write` | connection, client, server |
| Crypto (`core/crypto/`) | key stores per address, `keySent` | key exchange with the server and between clients, transport and end-to-end encryption | pipelines, client, server |
| TCP server (`server/tcp_server.go`) | listener, back-off delay | `Serve`; the rest is unreachable | packet pool, pipelines |

What makes it hard to get right: unbuffered channels between goroutines that
block each other; a request that is registered after it was sent; a map that is
read, released and updated by different goroutines; packets that are recycled
and passed by reference; channels that are closed while others send on them;
UDP, which loses, repeats and reorders; buffers at their limit; arithmetic on
rates and times. `PROJECT.json` lists these hazards with their lines and the
properties that cover them.

## Modules

An unbuffered channel is a step that its sender and its receiver take together.
A buffered channel is a sequence with a capacity. A goroutine has a program
counter whose values are the points where it can be interrupted or blocked.
Definitions marked "Mutant" describe a plausible mistake in the definition that
follows them; no specification uses them.

* **RequestReply**: what `client.Client` promises about `Send`. A call is
  refused, or it is open until one packet answers it: a response with its ref,
  or the client's error packet, after which the request is never transmitted.
* **UDPClient**: the client. `pc[c]` is a call of `Send` and the caller's receive
  on its response channel; `wpc`/`wcall` the `write` routine; `rpc` the `recv`
  routine; `hpc`/`hpkt`/`hcall` the `processIncoming` goroutines; `requests` the
  map. `Send`, `HandOff`, `Register` are the three parts of `Send`;
  `WriteOk`, `WriteErr`, `ReportErr`, `WriterExit` those of `write`;
  `RecvSelect`, `RecvRead`, `RecvIgnored` those of `recv`; `Lookup`, `Respond`,
  `MiscReceive`, `Delete` those of `processIncoming`. Server and network are the
  predicate `Arrived`: a packet that a transmitted request can have caused, or
  one sent unasked, may be read at any time and any number of times.
* **JSONPacket**: the packet object and the operations of package `packet`.
  Base64 is an encoding that may fail to decode; the buffer and the committed
  text are kept apart, as in the code.
* **UDPServer** (extends JSONPacket): the server. A task is a `processIncoming`
  goroutine, a worker a `processOutgoing` goroutine. `hold` says which packet
  object each packet variable of each goroutine refers to; `pool` and `made` are
  the `sync.Pool`, from which `Get` takes any pooled packet or a new one.
  `PacketPipeline.Process` is `RunCallback`, one callback per step, with
  `PipelineError` and `Finish` for what follows it. Serve's end is two steps,
  `CloseWriteStream` and `CloseSendStream`; a send on a closed channel sets
  `panic`, after which nothing happens.
* **Responder**: what `server.Server` promises about the datagrams it reads: each
  causes at most one packet, one that `MayAnswer` allows. UDPServer's `MayAnswer`
  says which packet a datagram and its callback queue call for.
* **Session** (extends UDPClient): the client, the server as Responder promises
  it, the network between them and a peer whose packets are relayed to the
  client. `Datagram(c)` is the request of a call; several tasks of the server may
  read it (repetition), none (loss), in any order; a reply in `net` is read by
  the client once or never. UDPClient's `Arrived` is replaced by what the server
  has written.
* **Pipelines**: both pipelines, used by several goroutines. A call of
  `AddCallback` or `AddTransform` is `CallAdd`, `ReadSlice` (lock and map read)
  and `Append1` (append, map write, unlock), of `Lock` or `Unlock`
  `CallSetLocked` and `SetLocked`, of `Process` `CallProcess`, `ReadQueue`,
  `RunNext` for each callback, and `Return`. The `sync.RWMutex` is `CanLock` and
  `CanRLock`: a waiting writer keeps new readers out. `AddTransform` writes the
  map under the read lock; when such accesses overlap (`raced`) the Go runtime
  may end the process (`fatal`). Callbacks and transforms are named and may stop
  the queue, fail, or register another one.
* **UDPThrottle**: the throttle, with a clock. An operation of `read` or `write`
  begins at `rstart` or `wstart` and sleeps until `WakeTime`.
* **KeyExchange**: the Crypto extension on a server and its clients, over a
  network `net` that keeps every datagram: it may be received late, repeatedly
  or never. A key pair is named by its owner and the number of the owner's start;
  a shared secret is the pair of the two keys; sealed data opens under the secret
  that sealed it. `Restart` and `RestartServer` end a process, with its keys and
  the requests in process, and start it again. `heap` holds the server's
  keyStore objects, since a `processOutgoing` goroutine may work on one that a
  further exchange has replaced; its three steps are `getKeyStore`, `getKeySent`
  and `setKeySent`.
  `cpc` is where a client is in `ConfigureClient` or in an exchange. `recycled`
  holds the public keys that error packets may carry, as `server_stale` shows.
* **MCUDPClient**, **MCSession**, **MCUDPServer**, **MCPipelines**,
  **MCKeyExchange**: values for TLC.
* **UDPClientProofs** (UDPClient and Session), **UDPThrottleProofs**,
  **PipelinesProofs**, **KeyExchangeProofs**: the theorems about the module each
  is named after. Those about the server are in four modules, each of which
  extends the one before: **UDPServerProofs** (where the packets are),
  **UDPServerTaskProofs** and **UDPServerStepProofs** (what is in them: the steps
  of `processIncoming`, of `processOutgoing`, and both) and
  **UDPServerReplyProofs** (the theorems that follow).

## Runs

| Run | Question | Result |
|---|---|---|
| `client_safety` | With two calls, refs that collide or not, packets in any order and number, and `Cleanup`: does the client implement RequestReply, does a caller get only its own answer when refs differ, how can a registration be lost? | holds |
| `client_lost` | Does a response that the client has read reach its caller? | **violated** |
| `session` | With the server and the network composed: does the client meet only what UDPClient assumes, is an answer a reply to the caller's own request and a reported write error a request the server never saw, does `Send` return, and is a caller that was found answered? | holds |
| `server_safety` | Is every packet object in one place, is what is written what the request and its callbacks call for, is no request answered twice, does the server implement Responder? | holds |
| `server_liveness` | Does processing end and is the reply written? | holds |
| `server_panic` | Can the process go on when `Serve` returns? | **violated** |
| `server_stale` | Are error packets empty? | **violated** |
| `throttle` | Order, loss, status, rate and progress with full channels | holds |
| `pipelines` | With registration, processing and locking at once: do the locks exclude, is a registration lost or out of order, does `Process` run what it should, does every call return? | holds |
| `kex_safety` | With repeated, late and lost datagrams and a client or a server that restarts: do client and server have the same key, does a client send nothing in the clear, does the server run only what was sealed for it, is what decrypts end to end from its stated sender? | holds |
| `kex_plain` | Does the server encrypt everything after a key exchange? | **violated** |
| `kex_stale` | Is the key stored for another client that client's? | **violated** |

The violations are disagreements between the code and its own comments:

* `Send` registers a request after it handed the datagram over
  (`udp_client.go:148-157`). A response processed in between finds no
  registration and goes to `Misc`; the caller waits for ever. `client.go:13`
  promises a response or an error packet. `ForgottenOnlyThroughMisc` shows that,
  with distinct refs, this is the only way a waiting call loses its registration.
* `Serve` closes its channels while goroutines still send on them
  (`udp_server.go:76-79`).
* `NewPkt` does not reset `jsonPkt.Data` and `NewErrPkt` is sent without `Close`:
  an error packet carries data of the recycled packet's last user.
* The response to a key exchange is exempt from encryption and does not set
  `keySent`; the next packet does, and leaves in the clear (`crypto.go:155`).
* `ProcessKeyExResp` takes any public key in the data of the response. The error
  packet "client non-existent" may carry one of a recycled packet: the server's
  or the asking client's own. `E2EAuthentic` shows that nothing forged is
  accepted on that account: the two clients merely cannot read each other, but
  what is sealed under the server's key is readable there.

`Agreement` has one exception, which the code does not prevent: a late key
exchange request of an earlier run of a client replaces the key of the running
one, after which neither can read the other: the client's further exchanges are
sealed under the key that was replaced. Likewise, after a restart of the server a
client that was configured before does not come back by itself, and as the
server's error bears no ref `ServerKEx` waits for ever.
`RunsOnlySealed` shows the other side: nothing that was sealed for the server's
earlier run is taken for a request.

Smaller disagreements are visible in the model and have no run:
`PacketPipeline.Process` goes on after `CodeRelay`, where `extension.go:67` says
that a non-zero code will surely stop the queue; each read error
ends one of five readers, where `udp_server.go:73` says the first ends `Serve`;
a request with an unknown target is answered, where `server.go:22` says it is
ignored; errors about malformed packets bear no ref, where `udp_client.go:123`
says that errors of the server do; the client writes to the server's address
whatever the packet's destination, where `udp_client.go:117` says otherwise;
`Shutdown` of the throttle sends on a channel that is never made and blocks for
ever, so that `Cleanup` of the client never closes its socket, where
`throttle.go:37` says that it "purges the Throttle's resources" (reads and writes
go on meanwhile, as `throttle` shows); and `AddTransform` does not look at
`locked`, where `extension.go:50` says that nothing is done once the processor is
locked, and appends to the map under the read lock, so that two of them at once
may lose a transform or end the process.

### Bounds

* Client: two calls and two `processIncoming` goroutines reach every pairwise
  race: two registrations, a response against a duplicate, a response against a
  write error, a lookup against a registration or a deletion. `client_safety`
  lets refs collide and unasked packets bear any ref. `session`, which checks
  liveness, uses distinct refs, the peer's another one, a call with and one
  without a response channel, and two datagrams read by the server: a
  request twice, two requests, or a request and a relayed packet. A packet that
  answers a caller whose write error is being reported would hold up the write
  routine for good; with distinct refs there is none.
* Server: two requests at a time, each at most three packets; four packet
  objects force recycling between them (six in `server_liveness`, so that no
  request waits for an object: the code's pool never runs out). A task sends at
  most one packet, so two workers suffice. `MaxOutErrors` bounds the failures of
  the outgoing data pipeline, which repeats on its own error packets without
  limit in the code. `MaxReadErrors` is 0 where Serve's end is not of interest
  and five, with the code's five readers, in `server_panic`. Datagrams whose
  metadata is not a map are not among the inputs.
* Pipelines: two goroutines make five calls in all, with three callbacks: one
  that registers another, one that stops the queue and one that fails. Two
  goroutines reach every overlap of two critical sections, and five calls a
  registration before, during and after another goroutine's `Process`.
* Throttle: channels of capacity 1 (100 in the code) with two writers and two
  datagrams fill up; two ticks per second give times per operation of 2 and 1.
  The clock moves only while somebody sleeps, which also lets it pass during the
  other routine's operation.
* Key exchange: two clients, two requests in process at a time, three packets
  from one client and two from the other, and five datagrams received by the
  server: as many as it takes for both clients to exchange keys with the server
  and with each other and one to send the other a message, or for a restart, a
  repetition and a late request in their stead. One client or the server restarts,
  once (`Epochs`), a restart taking the place of a datagram; the
  client's second key pair has a secret that AES refuses. Requests are as the
  clients write them: data that is no public key is not among the inputs.

Deadlock is not checked: every run ends when its calls, datagrams or packets
are used up.

### Fairness

Weak fairness for every goroutine that can take a step, since the Go scheduler
starves none, and strong fairness for goroutines that compete for a channel,
since Go queues blocked senders first in, first out. Nothing obliges the
application to call `Send`, `Cleanup` or `Misc`, or the network to deliver.
For the pipelines it is enough that some goroutine goes on as long as one can:
their calls are bounded in number.
For the throttle, time passes and somebody calls `ReadFrom` again and again, as
the loops of client and server do.

## Proofs

Every proof follows one argument: the property is seldom inductive as it stands,
so the component's module defines a strengthening that is, TLC checks that as an
invariant of the component's run, and the proof shows that `Init` establishes it
and that each action keeps it, one step per action. The results follow from it.
The constants are arbitrary but for the named assumption of each module, which
says that special values differ from ordinary ones and that bounds are naturals;
the bounds of the runs (numbers of goroutines, packets, calls, refs, capacities)
are no hypotheses of any theorem.

`UDPClientProofs`, from `ClientAssumption`:

* `ClientInvariant`: `Spec => []ClientInv`. `OwnAnswer` is not inductive: whether
  an answer is one's own depends on what `requests` held when a handler looked it
  up. `ClientInv` therefore says who may be registered (`RegistrationInv`: a call
  that bears the ref and has left `Send`), who holds which datagram (`WriterInv`),
  what a handler knows between its lookup and its delivery (`HandlerInv`: the
  caller it found bears the packet's ref, and still waits or was answered), where
  answers come from (`AnswerInv`) and which handler deletes a registration
  (`FinishInv`: one that found a caller has answered it by then).
* `AnswersAreOwn`: `Spec => []OwnAnswer`, from the invariant.
* `RegistrationsForgotten`: `Spec => []ForgottenOnlyThroughMisc`. With distinct
  refs only a handler that found nobody can delete a waiting call's registration.
* `ClientImplementsRequestReply`: every step of the client is a step of
  RequestReply or changes none of its variables.

On Session, in the same module, from `SessionAssumption` and `ClientAssumption`:

* `SessionInvariant`: `SessionSpec => []SessionInv`, which is `ClientInv` with
  what the server has read and written (`ServerInv`) and where the packets come
  from that are under way to the client, being processed there or returned
  (`DeliveryInv`).
* `AssumptionMet`: every step of the session is one that UDPClient allows, because
  what the client reads in the session satisfies `Arrived`. The theorems about
  the client carry over; `SessionKeepsPromise` cites the refinement.
* `EndToEndHolds`: `SessionSpec => []EndToEnd`.

`UDPServerProofs`, from `ServerAssumption`:

* `ServerInvariant`: `Spec => []ServerInv`. `Ownership` alone is not inductive:
  that `NewPkt` does not overwrite the only reference to a packet, and that a
  goroutine does not put back what it does not have, depends on which of its
  variables refer to a packet at each place in the code (`SlotInv`). The four
  lemmas `ObtainExclusive`, `PutBackExclusive`, `HandToExclusive` and
  `MoveExclusive` say that the ways in which the code moves packets keep each in
  one place; the proof of the step has one case per action and cites them.
* `PacketsOwned`: `Spec => []Ownership`, from the invariant.

`UDPServerReplyProofs`, with the lemmas of `UDPServerTaskProofs` and
`UDPServerStepProofs`, from `ServerAssumption` and `DatagramAssumption` (text
that base64 decodes, decodes to a sequence of bytes, and `NoDatagram` is none):

* `ReplyInvariant`: `Spec => []ReplyInv`. `RepliesFaithful` compares what was
  written with what `Processed` makes of the whole callback queue of a datagram;
  in between are two goroutines, three packet objects that others used before, and
  the callbacks, which run one at a time. `ReplyInv` follows the contents on that
  way: the decoded request is what the datagram says until it is put back
  (`RequestInv`); after `k` callbacks `ctx.Stat` and the response are what the
  first `k` of the queue make of them, and none but the last ended it (`RunInv`);
  what is about to be sent is due (`SendInv`), and so is what a worker holds, has
  marshalled, or puts in its place (`OutInv`). That there is one reply is
  `SentInv`: at most one worker has a packet of a task, none once it is written,
  and a task that has sent is over or stopped by `relayCallback`.
* Each step lemma says two things, what the step makes of the goroutine that takes
  it and that it leaves the others as they are (`Alone`, `WorkerAlone`). The second
  needs `ServerInv`: the packets of two goroutines differ. `NextReplyInv` combines
  them, one case per action.
* The callbacks run so far are compared with `Processed` by `QueueOver`, and what
  they wrote is counted by `WrittenNone` and `WrittenOne`, with the library's
  facts on cardinalities. The step lemmas take the two as the hypothesis
  `WriteLaw`, which `WritesAddUp` proves, so that only the last module needs that
  library.
* `RepliesAreFaithful` (`RepliesFaithful`) and `NoSecondReply` (`AtMostOneReply`)
  follow.
* `ServerResponds`: `Spec => ImplementsResponder`. Every step of the server is a
  `Read` or an `Answer` of Responder or changes none of its variables: a datagram
  is read by a fresh task, and what `writePkts` sends is due, hence allowed by
  `MayAnswer`, and the first for its datagram. Session, which composes the client
  with Responder, thereby rests on the server's code.

`UDPThrottleProofs`, from `ThrottleAssumption`:

* `ThrottleInvariant`: `Spec => []ThrottleInv`. The order of reads and of writes
  needs that no writer is accepted twice (`AcceptedInv`); `OwnStatus` needs whose
  status is under way (`StatusInv`); `RateLimit` needs how far the operations
  done are ahead of the clock at each place of the loop (`PaceInv`: at a select
  they are all paid for, from the operation to the sleep all but the last, and
  the sleep pays for that one at the fastest rate that was ever set).
* `ReadsKeepOrder` (`ReadsInOrder`), `WritesKeepOrder` (`WritesInOrder`),
  `StatusesOwn` (`OwnStatus`) and `RateLimited` (`RateLimit`) follow.

`PipelinesProofs`, from `PipelinesAssumption`:

* `PipelinesInvariant`: `Spec => []PipelinesInv`. A registration reads a queue
  and writes it back in two steps; that nothing is lost needs that the queue is
  still what was read (`AppendInv`: the write lock for `AddCallback`, the absence
  of overlapping accesses for `AddTransform`), that nobody registers the same
  callback meanwhile (`AddingInv`), what the queue holds (`QueueInv`), and that
  what a `Process` copied is the start of the queue (`RunInv`).
* `RegistrationsAreKept` and `ProcessIsFaithful` follow.

`KeyExchangeProofs`, from `KeyExchangeAssumption`:

* `KeyExchangeInvariant`: `Spec => []KeyExchangeInv`. `Agreement` depends on what
  the client is told of the server's key, hence on every datagram that is or may
  come under way: what clients have sent (`RequestInv`: one packet per ref), what
  the server works on and has sent (`AnswerInv`: every answer belongs to a request
  with its ref, and to an exchange with the server it is a key of the server),
  what a client waits for (`AwaitInv`) and how stored secrets relate to stored
  keys (`StoreInv`). `E2EAuthentic` is one of its conjuncts: it needs the others,
  which do not need it. The same lemmas serve restarts, late and repeated
  datagrams, since `net` only grows.
* `KeysAgree` (`Agreement`), `E2EIsAuthentic` (`E2EAuthentic`), and two action
  properties, `ClientSealed` (`ClientTrafficSealed`) and `ServerRunsSealed`
  (`RunsOnlySealed`).

Only model-checked: liveness (`SendReturns`, `FoundCallerAnswered`, `TaskEnds`,
`ReplyWritten`, `WriteToReturns`, `ReadsDelivered`, `CallsReturn`), which is out
of the prover's reach, and the five violations, which are behaviours.

## Not modelled

* The TCP server. `Serve` accepts connections and drops them: the code that would
  serve one (`tcp_server.go:69-77`) stands inside the branch for errors, after
  its `continue` and its `return`, so that no execution reaches it or anything
  it calls. What remains is a back-off delay, doubled up to a second and never
  reset, that no other part reads.
* Rates above 10^9 operations a second, at which the time per operation is 0, and
  the overflow of repeated scaling.
* Key exchange requests whose data is no public key or address.
* The wording of error messages, JSON syntax, address syntax, logging.
* The examples: their callbacks are instances of the callback kinds of UDPServer.
