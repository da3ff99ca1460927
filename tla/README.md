# Verification of ipmb

ipmb is a message bus between the processes of one machine. Processes join a
bus by its identifier. One of them becomes the *bus controller*: a thread of its
process receives every message and routes it by labels. There is no daemon;
when the controller dies, the others elect a new one. This directory holds TLA+
models of that system, the TLC configurations that check them on small
instances, and proofs about them for the TLA+ proof system.

1. [The system](#1-the-system)
2. [Modules](#2-modules)
3. [From code to model](#3-from-code-to-model)
4. [Runs and bounds](#4-runs-and-bounds)
5. [Fairness](#5-fairness)
6. [Theorems](#6-theorems)
7. [Disagreements found](#7-disagreements-found)
8. [Not modelled](#8-not-modelled)
9. [Plan](#9-plan)

Paths are relative to `ipmb/src/` unless they begin with another directory.

## 1. The system

| part | source | state | operations |
| --- | --- | --- | --- |
| bus controller | `bus_controller.rs` | table of endpoints, buffer of messages nobody accepted yet and its swap buffer, time of the last probe | receive a message, route it, register an endpoint, drain the buffer, probe endpoints, expire messages |
| endpoint rule | `lib.rs` | `Arc<RwLock<Rule>>`: client or server, hub, epoch, `reader_closed` | `send`, `recv`, drop of the receiver, joining again |
| join and election | `lib.rs`, `platform/*` | who has the identifier; per call the counters of timeouts and refusals | `look_up`, `register`, `Rule::join` |
| Linux transport | `platform/linux.rs`, `platform/linux/*` | epoll's ready list, eventfd, accepted sockets, `bus_rx`, `in_buffer` | `IoHub::recv`, `wake`, `EncodedMessage::send`, `from_local` |
| macOS, Windows transport | `platform/macos`, `platform/windows` | port sets; named pipes with a status each, a completion port | the same interface |
| memory regions | `platform/mod.rs` | a counter at the start of each shared region | clone, drop, send, receive |
| memory registry | `memory_registry.rs` | entries by size, each with an age and a free callback | `alloc`, `alloc_with_free`, `maintain` |
| labels, selectors, messages | `label.rs`, `message.rs` | none | `validate`, encoding |
| JavaScript binding | `ipmb-js` | promises and messages that wait, the queue of actions, the polling thread, a closing flag | `recv`, `close`, delegation of items, timeouts |
| other bindings | `ipmb-ffi`, `ipmb-derive` | none | conversions |

How they interact:

* `join` calls `Rule::join`, which calls `look_up`. `look_up` connects to the
  identifier, makes a private channel and sends its writing end in a
  `ConnectMessage`. The controller answers on it with a `ConnectMessageAck` and
  keeps it as the endpoint's `Remote`.
* When nobody has the identifier and the process has `controller_affinity`,
  `register` takes it and `BusController::run` starts the controller's thread.
* A client's `send` writes on its connection, the controller's `IoHub::recv`
  reads it, `handle_message` writes it on the channels of those that match.
* The controller's own process puts its messages into a channel and writes to
  the waker; it receives through another channel.
* When a direction of the connection breaks, the first thread that notices takes
  the write lock and calls `Rule::join` again.
* A memory region travels as an object of a message. Its counter is shared memory
  and changes at the sender, at the receiver and, through `send`, in the
  controller.

What is hard:

* *Concurrency*: threads of one endpoint that notice the same break, and that
  wait for each other over a full connection; processes that race for the
  identifier; senders that overtake the sleep of the controller; the counter of
  a region, changed by every process; completions of pipes that are gone; the
  polling thread of a JavaScript receiver and the thread that closes it.
* *Failure*: a process may die at any step, a direction of a connection may break
  alone, a send to one of many endpoints may fail, and the system may refuse a message
  on a connection that works.
* *Ordering*: messages that waited in the buffer against messages that did not;
  the answer to a connect against traffic; a close against the last messages.
* *Time*: ttl of messages, two seconds for an answer, thirty between probes, five
  for an entry of the registry.

What makes each part correct:

* controller: a unicast is consumed once, a multicast by all that match and are not
  refused it, messages of one sender stay in order, nothing is forgotten while somebody
  accepts it, nothing leaves the buffer but by delivery or age, every connect is answered;
* endpoint: a working connection that refused nothing is never given up, the read half
  lives as long as the receiver, `send` and drop come back, and the controller is held up only
  by a receiver that does not receive;
* join: one bus at a time, no member of a dead controller, joins return, all
  processes end up together, a mismatch is reported;
* hub: no lost wake, no lost or mistaken event, messages whole and in order,
  everybody is heard, what was sent before a close too;
* JavaScript receiver: items and promises meet in order, every promise that can be
  is settled, `close` returns;
* regions: exact counters, no region with two tenants, each callback called once
  and in time.

`PROJECT.json` lists the hazards at their lines, and for each the properties that
speak about it or the reason why none does.

## 2. Modules

| module | about | checked by | proved in |
| --- | --- | --- | --- |
| `MessageBus` | abstract: what the bus promises | through `ImplementsBus` | |
| `BusController` | the controller's thread | `MCBusController` | `BusControllerProofs` |
| `Endpoint` | senders and receiver of one process over the `RwLock` and a connection that can be full | `MCEndpoint` | `EndpointProofs` |
| `Membership` | abstract: elections and membership | through `ImplementsMembership` | |
| `Join` | `Rule::join` of several processes | `MCJoin` | `JoinProofs` |
| `IoHub` | how the controller's thread waits on Linux | `MCIoHub` | `IoHubProofs` |
| `NamedPipes` | how a thread waits on Windows, in the controller and in an endpoint | `MCNamedPipes` | `NamedPipesProofs` |
| `MemoryRegistry` | regions and the registry | `MCMemoryRegistry` | `MemoryRegistryProofs` |
| `PromiseQueue` | abstract: items and promises of a JavaScript receiver | through `ImplementsPromiseQueue` | |
| `JsReceiver` | the JavaScript receiver and its polling thread | `MCJsReceiver` | `JsReceiverProofs` |
| `Subsequences` | what a filter leaves of a list; `IoHub`, `NamedPipes`, `PromiseQueue` and `JsReceiver` use it | with them | `SubsequencesProofs` |

The modules cut the system at its channels. What one module leaves to its
environment another one models: `BusController` has readers that close at any
time, `Endpoint` has a connection that breaks at any time and a `Rule::join` that
succeeds or fails, and `Join` models this call; `IoHub` and `NamedPipes` show that
messages get out of the sockets and pipes, and `BusController` takes them from an
inbox per sender; `JsReceiver` has an endpoint that gives items or nothing.

The three abstract specifications say what users may rely on without sockets,
buffers, locks or threads. `BusController` implements `MessageBus` with what is in
inboxes and buffers as `waiting`; `Join` implements `Membership` with the processes
whose connection works as `members`; `JsReceiver` implements `PromiseQueue` with
`messages` and the items still on their way to JavaScript as one queue.

## 3. From code to model

**BusController.** The table is a set of records with a `seat`, the place in the
`Vec`; buffers are sets of entries with a `ticket` for their order. `run` is an
iteration in up to three steps: receive (`ReceiveMessage`, `ReceiveConnect`,
`ReceiveError`), drain one entry after the other (`FlushOne`, `FlushDone`), and
`Tidy` (`detect_reachable`, then `maintain`). `handle_message` is `Deliver`: for
every endpoint that matches an outcome of `send` is chosen among those the platform
can produce, and `Tried`, `Offline`, `Reached` say what `retain` does with them. A
`LabelOp` is the set of labels it accepts. A *peer* is one call of `look_up`; a
process that joins again is another peer. A send to a reader that is there may fail too:
`sendmsg` reports any error as `Disconnect`, Windows a handle that cannot be duplicated
and whatever `WriteFile` fails of; on macOS a failure on a port that is not dead is
reported as `Ok` (`"Lost"`). `Refusals` allows these failures on Linux and Windows; it is
FALSE only in `bus_bare`, where what fails is the forwarding of a message without
attachments, with 32 bytes nobody wrote (section 7). The answer to a connect goes the same
way (`AckOutcomes`). `own_log`, `log` and `ack` are histories of what was put on each
channel, `refused` of the peers to whom a send failed although they read.

**Endpoint.** One process, threads with a program counter each. Every lock operation is
a step and so is what happens between two of them. `out` and `inn` are the directions
of the connection. On Linux and Windows the receiver notices that `inn` broke, on
macOS that `out` did. `SendRefused` is a message the system refuses on a connection that
works: on macOS it is lost and counts as sent, on the others it is taken for a break
(`spoilt`). `RecvCut` is a message that arrives cut off, which Linux takes for a break.
`Rule::join` under the write lock is `StartJoin` followed by
`JoinOk` or `JoinErr`. The lock prefers writers: readers stay behind a writer that
waits, as the standard library's implementation does. Each direction has room for one
message: a `send` with `outbox` full waits with the read lock taken, and the
controller, at a full `queued`, waits (`stuck`) and takes nothing from anybody until the
receiver reads or the read half is gone.

**Join.** A process is at one of the places where others can overtake it: before
`look_up`, connected, waiting for the answer, before `register`, between `bind` and
`listen` (Linux only), in `wait!`. `Verdict[c][p]` is what controller `c` makes of the
request of `p`; *unreadable* stands for a header of another version, which is thrown
away without an answer. `Unanswered` says when the two seconds can pass:
on macOS a dead controller is noticed while waiting, on the others it is not.

**IoHub.** `ready` is the list epoll keeps. `Wait` takes up to `in_buffer`'s capacity
from its front and puts what it took at the end, as level-triggered epoll does; a
descriptor that is not ready any more is left out when the list is walked.
`ReadMessage` and `ReadError` return and drop what is left of `in_buffer`. A message
is `"msg"` or `"bad"`; the second stands for all `from_local` rejects. `said` and `heard`
are histories: what each sender sent, and how much of it `recv` returned.

**NamedPipes.** Every instance of a pipe has at most one overlapped operation. The kernel's
part is `op` (the operation not ended), `data` (what was written and not read) and `port`, the
queue of completion packets. A packet names its pipe by the handle value, and values are
given again after a pipe was dropped. `Listen`, `TryRecv`, `Read`, `Take` and their variants are the
places of one call of `recv`; `at` is the index into `pipes`, from which `swap_remove` takes
one out while the loop goes on. A message is its size; a buffer starts at `Capacity` and
doubles, so a message of size 3 and a capacity of 1 arrives in parts.

**MemoryRegistry.** Whatever keeps a region alive is a *hold* with a step: held, lent to a
message being sent, counted for it, in flight, claimed by a receiver, or lost. Sending
is the three steps of `send` (count, system call, take off on failure), receiving the
two of `from_object`. `gen` and `tenant` are histories that say which call of `alloc` a
hold goes back to. `info` has size, tag, age and the number of the callback.

**JsReceiver.** JavaScript is one thread: `Recv` (`Refused`, `Answered`, `PutOff`), `Close` and
`Delegate`, which handles one action of the threadsafe function's queue `tsfn`. `close` is
blocked in the two sends of a channel without capacity, `js = "signal"` and `"wait"`.
The polling thread is at `poll`, `timeout`, `destroy` or `drop`. Items are numbered as they
come, so that the abstract queue can say which promise got which.

## 4. Runs and bounds

| run | question | instance | answer |
| --- | --- | --- | --- |
| `bus_linux` | routing, order, at most once, refinement of `MessageBus` | 2 peers and the own process, 2 messages, any send may be refused, clock 0..2, probes every 2 ticks | holds |
| `bus_connect` | an answer is always sent, and precedes traffic unless it is an Ok that was lost | macOS, 2 peers, every verdict, a message that waits, any send may be lost | holds |
| `bus_bare` | does a multicast reach everybody on Linux? | 2 peers, 1 message without attachments, no other refusals | violated |
| `endpoint` | working connections kept, reader follows receiver, no circle of waiting, `send`, drop and the controller come back | Linux, 2 senders, 3 failures (breaks of any direction, refused messages, messages cut off), room for one message each way, epochs mod 4 | holds |
| `endpoint_drop` | does dropping the receiver close the read half? | the same, 1 break | violated |
| `join` | one bus, refinement of `Membership`, joins with a timeout return | Linux, 3 processes with mixed versions and tokens, 2 that may be refused, 2 faults, controllers that may be late | holds |
| `join_converges` | all end up on one bus; a stranger learns that it is one | Linux, 3 processes that go together, 2 of them candidates, a fourth that nobody can read, 2 faults | holds |
| `iohub` | no lost wake or event; everything before a message that cannot be read is read | 2 connections, 1 own thread; a connection and the thread send 2 messages, the other connection 1 | holds |
| `pipes` | no mistaken packet, no lost wake or message, messages whole; everything is read | both hubs, 3 handle values, 2 connections with 2 and 1 messages of size 0 or 3, room for 2, buffers from 1, 1 own thread | holds |
| `memory` | counters, tenants, callbacks | 2 regions, 3 holds, 2 processes, 2 allocs of the sizes 2 and 3 | holds |
| `memory_free` | is a callback called only when the region is free? | the same, size 2 | violated |
| `js` | items meet promises, promises are settled, `close` returns | 3 promises, 2 of them with a timeout, 3 items | holds |

Why the bounds are enough:

* Two peers and the own process are all the kinds of receiver, and enough for a send that
  fails on one and succeeds on another. Two messages are enough for one that waits and
  one that overtakes it. A clock of three instants has a ttl that ends before, at and
  after the iteration that looks at it.
* Two senders and the receiver are three threads that notice one break: one joins, one finds
  the epoch changed, one queues for the lock meanwhile. Three failures allow a break of
  each direction and of a connection made since. The epoch wraps around after
  more breaks than a run has, as 2^32 is after more than a program sees
  (`EpochAssumption`). Room for one message is enough for a full and an empty channel.
* Three processes are a controller, a successor and a member of both. Two faults are
  the death of the controller and of its successor. One retry instead of five is
  enough for a call that goes on after a timeout and one that gives up.
* Two connections fill `in_buffer`, whose capacity is 2, and leave the
  waker or the listener for the next call. Two messages of one connection are one behind
  another, or behind one that cannot be read, with a close before both are read.
* Three handle values are a listening pipe and two that were accepted, so that a value
  is given again as soon as one is dropped, and `swap_remove` has a pipe to move. A
  size of 3 over a buffer of 1 needs it doubled twice; size 0 is a probe of `is_dead`.
* Three holds are the sender's, the message's and the receiver's of a region, or two of one
  and one of another. Of the sizes 2 and 3 the larger region serves the smaller request and
  not the other way round. Two allocs are one that makes a region and one that gets it
  again, or two that make one each. A lifetime of one tick separates young entries from
  old ones. The proofs are for all sizes, 0 among them.
* Three promises and three items are enough for one that waits behind another, with and
  without a timeout, and for items that come before, between and after them. One
  `CleanTimeout` at a time bounds what an idle thread would add without end.

Each property has a *mutant* in `PROJECT.json`: a definition changed as a bug would
change it, on which TLC finds the property violated. The mutated definitions are
written before the originals, with a comment each.

The type invariants are proved (section 6) and not run.

Deadlock is not checked where a system may stop: when the bounded messages were
sent, when everybody has closed, and in `Endpoint` when the controller waits for a
receiver that nobody calls.

## 5. Fairness

* *Controller*: weak fairness of `Run`. Its thread loops for ever; whether a send of it blocks
  is the question of `Endpoint`.
* *Endpoint*: strong fairness of every thread's own steps (`Step`), for the lock is queued and a
  thread that waits gets it although others take it between, and room on the connection goes to
  who waits for it; `Rule::join` comes back. The controller takes what is sent to it
  (`SF(Take)`: it hears everybody, which `IoHub` and `NamedPipes` show for senders that pause)
  and goes on when there is room (`WF(Proceed)`). Nobody has to call anything, the
  controller need not send, and `RecvTimeout` has no fairness, since a call of `recv`
  need not have a timeout. `SendRefused` and `RecvCut` have none either: the system need not
  refuse anything, and it refuses `MaxBreaks` messages at most. Three situations are excepted by
  name where the code does not get out of them: `HalfBroken`, a receiver in `recv(None)` while
  the direction to the controller alone is broken or has refused a message, which gives up the
  lock only at a message or a break it can notice; `Deaf`, a controller that waits for a receiver
  nobody calls; and `Jammed`, section 7.
* *Join*: system calls come back, time passes, the controller's thread answers, and a process
  whose connection broke notices, which it does when it uses its endpoint. Dying,
  breaking and being refused have no fairness. `join_converges` assumes that a living
  controller answers within two seconds; `join` does not.
* *IoHub*, *NamedPipes*: the thread calls `recv` again and again, and a thread that has put a message
  into the channel goes on to `wake`. Peers need not do anything. The timeout of `recv` on Windows
  has no fairness, and only an endpoint's hub has one: the controller calls `recv(None)`, so no
  timeout rescues a hub that sleeps on a pipe it did not arm.
* *Memory*: the owner calls `maintain` from time to time and the clock goes on. The
  registry has no thread of its own: without a call of `alloc` or `maintain` nothing is freed.
* *JavaScript*: time passes, the event loop runs, the polling thread runs. Nobody has to call
  `recv` or `close`. That the endpoint falls silent after `MaxItems` is what `CloseEnds` needs: the
  thread looks for `close` only when nothing came for 200 ms.

## 6. Theorems

All hold for every value of the constants the modules' assumptions allow.

| theorem | module | says | rests on |
| --- | --- | --- | --- |
| `TypeCorrect` | every proof module but `SubsequencesProofs` | types | `TypeOK`, in `Join` with `Patience`, in `NamedPipes` with the rest of its invariant; in `IoHub` and `JsReceiver` the lemmas on `Filter` |
| `BufferedUnmatchedAlways` | `BusControllerProofs` | nothing waits while somebody accepts it | the two buffers related to the phase of `run` |
| `AckFirstAlways` | `BusControllerProofs` | the Ok comes first on every channel; on macOS it may have been lost instead | a peer asks once |
| `AckedIsRegisteredAlways` | `BusControllerProofs` | who was told Ok and reads is registered, unless it was refused a message | the same, and who leaves the table though it reads was refused a message |
| `UnicastAtMostOnceAlways` | `BusControllerProofs` | a unicast is handed out once | `Numbered`, `Past`, `Placed`, `Ticketed`, `Seats`: see below |
| `SourceOrderAlways` | `BusControllerProofs` | messages of one sender stay in order | the same and `Overtaken` |
| `ImplementsBusAlways` | `BusControllerProofs` | `BusController` implements `MessageBus` | the same |
| `HeldUntilRoutedOrExpiredAlways` | `BusControllerProofs` | a message leaves the buffers into a channel or by age | the same; assumption that the platform is not macOS |
| `MulticastReachesAllAlways` | `BusControllerProofs` | a multicast reaches all that match and read, but for those it is refused to, which leave the table | the same and `Unrefused`: a peer has one endpoint, and none once it was refused a message; assumption that the platform is not macOS |
| `ReaderFollowsReceiverAlways` | `EndpointProofs` | the read half lives as long as the receiver | who holds the lock, when the hub is taken |
| `HealthyKeptAlways` | `EndpointProofs` | a connection that works and refused nothing is not given up | a remembered epoch is not newer than the rule's, and equal only while that connection failed |
| `ServerForGoodAlways` | `EndpointProofs` | a server stays one | only a client's connection breaks, and who joins has seen it broken |
| `NoCircleAlways` | `EndpointProofs` | threads, channels and controller never wait in a circle, except in `HalfBroken`, `Deaf` and `Jammed` | `Locked` (who is where has the lock) and `Waits` (who waits to join saw the connection of those that hold the lock fail) |
| `OneBusAlways` | `JoinProofs` | one bus | `Naming` (who has the identifier is where in `register`) and `Linked` (every working connection leads to the owner) |
| `ImplementsMembershipAlways` | `JoinProofs` | `Join` implements `Membership` | `OneBus` and `Answers`: an Ok comes from the host, while the connection works |
| `ReportsAlways` | `JoinProofs` | `join` fails for the reason it gives; a version mismatch may be a guess from timeouts | `Grounded`: what an attempt remembers comes from a controller other than itself, the caller or the system |
| `StrangersStayOutAlways` | `JoinProofs` | whom nobody can read is not let in | `Grounded`, `Reports` |
| `NoLostWakeAlways` | `IoHubProofs` | no sleep on an unseen message | itself: after events the channel is read before the next sleep |
| `EventsKeptAlways` | `IoHubProofs` | what is thrown away of `in_buffer` is reported again | what `Wait` does to epoll's list: `Filter` keeps what is ready, and what is taken goes to the end |
| `OneOutstandingAlways` | `NamedPipesProofs` | no packet is taken for another pipe's | every status says what is under way, and a pipe is dropped only when nothing is |
| `InBufferAlways` | `NamedPipesProofs` | a read never writes behind its buffer | `OneOutstanding`, and what a packet reports fits |
| `AllArmedAlways` | `NamedPipesProofs` | no sleep while a pipe has nothing under way | the pipes before `at` are armed, whatever `swap_remove` moved |
| `NoLostWakeAlways` | `NamedPipesProofs` | no sleep on an unseen message | the same as in `IoHub` |
| `WholeAlways` | `NamedPipesProofs` | messages arrive whole, once and in order | `OneOutstanding`, `InBuffer` and `WholeInv`: see below |
| `NothingLostAlways` | `NamedPipesProofs` | a pipe is given up when nothing is left in it | `WholeInv` |
| `RefCountExactAlways` | `MemoryRegistryProofs` | a counter is its holds and the registry's own | lemmas on the cardinality of `HoldsOf` |
| `OneTenantAlways` | `MemoryRegistryProofs` | no region has two tenants | `RefCountExact`: a counter of 1 means that nobody has it |
| `FreeWhenDoneAlways` | `MemoryRegistryProofs` | callbacks of remembered regions are not early | `RefCountExact`, `OneTenant`, and that calls are numbered upwards |
| `FreeAccountedAlways` | `MemoryRegistryProofs` | each callback was called or belongs to one entry | entries followed through reuse, sweep and drop |
| `OneListEmptyAlways` | `JsReceiverProofs` | the assertion of `recv` and `delegate_receiver` | itself |
| `SomebodyAnswersAlways` | `JsReceiverProofs` | no promise waits for a thread that is gone | `Settling`: after the thread's last Close nothing is put off |
| `ImplementsPromiseQueueAlways` | `JsReceiverProofs` | `JsReceiver` implements `PromiseQueue` | `OneListEmpty`: an item that comes answers the first promise, with none waiting before it; and what `Filter` does to the actions of `tsfn` when one is added at the end or taken from the front |

The runs are instances of one platform each; the theorems cover all three.

The argument in each case: the invariant alone does not survive a step, because a step
depends on something it does not mention. `OneBus` needs to know that a process
between `bind` and `listen` has the identifier and that nobody is connected to it; the
inductive invariants above supply that.

`UnicastAtMostOnce` to `MulticastReachesAll` rest on one invariant, by which a message is in one
place at a time. Messages of one sender are numbered in the order of its inbox (`Numbered`), and what left the inbox is older than
all that is in it (`Past`), so the message `run` receives is new everywhere. What waits in
the buffers was never put on a channel, and a unicast is on one at most (`Placed`); tickets are
given upwards and follow the numbers (`Ticketed`); seats are never shared (`Seats`), so a
unicast has one first endpoint. With these each step of `run` is one message consumed or given
up. For the order one more thing is needed: during a drain the only endpoint that
accepts what is still to be drained is the one that has just come, and its channel holds
only older messages (`Overtaken`, from `BufferedUnmatched` and `AckFirst`).

`NamedPipes` needs an account of every message. A writer's messages are in the kernel, in the
pipe's buffer, in a completion packet or already returned, and every step of `recv` moves one
of them or a part of one. `Told` says for each pipe that what was written into it is what
`recv` returned of it followed by what is still to come: `Coming` puts together the bytes in
the buffer, those a packet reports and the rest of the first message in the kernel. It needs
more: that a packet reports what was read for this pipe (`OneOutstanding`), that a part goes
behind the parts before it (`InBuffer`), that a status of `Offline` means nothing is left
(`Ends`), that a pipe which was never accepted or is free again has nothing of anybody (`Blank`,
`Outside`), and that a writer has one pipe (`OneConn`). Messages of size 0 are never
returned, which is why the account is of `Filter(written, Sizes \ {0})`.

`Filter` was written for the proofs. `SelectSeq` takes an operator, and no theorem can
be about it; `Filter` takes a set, and is a recursive function on the length of the list.
`SubsequencesProofs` shows that it returns what a definition without recursion does: the list
of the elements of the set, each at the place that the number of elements before it gives
(`Counted`). The proof takes the least length at which the two differ. From there follow the
lemmas the others use: the type, what `Filter` does to an `Append` or a `Tail`, when it
changes nothing and when it returns nothing.

`NoCircle` is the safety half of `SendReturns`, `DropReturns` and `BusGoesOn`. `Moves(t)` is the guard
of thread `t`'s next step, written out because `ENABLED` is out of the prover's reach. Suppose nothing
moves. Then nobody has the lock for writing and somebody has it for reading. If this is a
sender, the channel to the controller is full and the controller is stuck on a full channel to
the receiver; so the receiver does not read, and it is not behind a thread that waits for the
lock because the way out broke (`Waits`), since then the sender would go on. What is left is
`Deaf`, or that the thread in front of it had a message refused, which is `Jammed`. If it is the
receiver that has the lock, whoever waits behind it saw the way out broken or had a message
refused, the receiver cannot notice that, and this is `HalfBroken`.

Every safety invariant and every action property of a passing run is the statement of a
theorem, and so are the three refinements. What is only model-checked are the liveness
properties `SendReturns`, `DropReturns`, `BusGoesOn`, `JoinReturns`, `Converges`,
`MismatchReported`, `ConnectAnswered`, `FreeCalled`, `Settled`, `CloseEnds` and the two of the
name `Heard`, since the prover has no rule for the fairness of actions.

The two theorems that assume a platform say where the property is false: on macOS a failed send on
a port that is not dead is reported as Ok.

## 7. Disagreements found

* **A live endpoint is removed** (`bus_bare`, `platform/linux/encoded_message.rs:159`).
  `from_local` reserves 32 bytes of control data; when the message has no
  descriptors nobody writes to them, and `send` passes them on as control data. The
  system refuses the message unless they look like a control message, and the
  controller takes the refusal for a disconnect.
* **Dropping the receiver closes nothing** (`endpoint_drop`, `lib.rs:384`). `Drop` waits for the write
  lock before it closes the read half. When the receiver's channel is full, the controller
  waits for room in it; a sender of the same endpoint waits for the controller with the
  read lock taken; `Drop` waits for the sender. `lib.rs:197` says "dropping receiver will close
  underly receving kernel buffer".
* **A callback is early** (`memory_free`, `memory_registry.rs:70`). An entry goes five seconds
  after the last `alloc`, and its callback is called, although somebody may have the
  region. `CHANGELOG.md:70` says "free function will be called when region became free".

More facts the models take from the code:

* A message can outlive its ttl: when an endpoint connects, the buffer is drained without looking
  at the age of its entries (`bus_controller.rs:81`), and old entries are removed only after
  something was received.
* Of two connections that always have something to read, one is never read on Linux:
  `IoHub::recv` asks for two events and returns at the first message (`platform/linux.rs:352`), and
  the second event has been moved to the end of epoll's list like the first. `bus_rx`, looked
  at first every time (`:298`), passes over all of them. `Heard` is about senders that pause. The
  completion port of Windows is a queue and has no such order.
* `send` takes every error for the end of the connection (`platform/linux/encoded_message.rs:167`,
  `platform/windows/mod.rs:406`). A message the system refuses, because it is larger than the
  socket takes, makes the controller evict endpoints that read (`refused`), and makes an endpoint
  throw away a connection that works, join again and try the same message (`lib.rs:143`), for ever
  if it is refused every time: `SendReturns` is about messages that are refused finitely often.
* So a sender can wait for the write lock although the connection works. When another sender has
  the read lock and waits for the controller, which waits for the receiver, and the receiver waits
  behind the first sender, nobody goes on (`Jammed`).
* On macOS the answer to a connect can be lost and counted as sent (`platform/macos/mod.rs:405`);
  the endpoint is registered, and what the buffer has for it comes first on its channel
  (`OkLost`).
* What is behind a message that was cut off is lost with its connection
  (`platform/linux/encoded_message.rs:73`); `Heard` of `IoHub` counts what is before it.
* A receiver that nobody calls `recv` of stops the whole bus once its channel is full (`Deaf`).
* The controller's branch for `VersionMismatch(_, Some(remote))` (`bus_controller.rs:56`) cannot be
  reached, since `from_local` never returns a remote, so an incompatible process learns of it by
  six timeouts (`MismatchReported`).
* Linux notices a reader that went away with nothing unread only at the next send (`LinuxDead`).
* On Windows an endpoint that connects, writes and closes before `ConnectNamedPipe` is called
  loses what it wrote (`Heard` of `NamedPipes` excepts it).
* `close` of a JavaScript receiver blocks the JavaScript thread while messages keep coming
  (`ipmb-js/src/lib.rs:286`), and items that nobody asked for before it are never handed out.

## 8. Not modelled

* Payloads, encodings and the tree of a `LabelOp`: a message is its sender, its number and what
  routing looks at. `validate` is a case distinction that restates the meaning of the tree.
* The receive loop of macOS with its port set, and the layout of Mach messages.
* Windows: handles duplicated between processes, the exchange of process handles, security
  attributes, and two hubs on one completion port, which an endpoint that joins again has
  for a moment.
* `IoHub` of a Linux endpoint that is not the controller: one connection and no channel.
* `accept` that fails, descriptors that run out.
* The sizes of time: the models order instants, they do not measure how long a call takes.
* Overflow of `now + ttl` and of `min_size * 2`.
* The mapping of windows of a region into memory, which no other process sees.
* What napi does while a runtime shuts down. The C binding passes ownership of Rust values through
  pointers and keeps no state; the derive macro is compile-time code; the examples use the library.
* `platform/macos/mach_sys.rs`, generated declarations of the system's interface, which is two thirds
  of the repository's Rust code: a share of mapped lines taken over all files stays small
  whatever is modelled.

## 9. Plan

Done: `BusController` with `MessageBus` and all its safety properties proved, `Endpoint` with full
connections, `MemoryRegistry`, `Join` with `Membership`, `IoHub`, `NamedPipes`, `JsReceiver` with
`PromiseQueue`. Left, in this order:

1. The receive loop of macOS: the port set, the waker and the dead-name notification of a port,
   and two hubs on one completion port of Windows.
2. A composition of controller and several endpoints with bounded channels. `Endpoint` has one
   endpoint with the controller as its environment: with two the controller can wait for
   one of them because of the other.
3. `LabelOps`: the merging of the selector of a message; `Codec`: offsets and alignment of the three
   layouts.
4. More safety halves of liveness properties as theorems: for `JoinReturns` and `Converges` that
   a joining process can always take a step or waits for one that can, for `Settled` and `CloseEnds`
   the same of the JavaScript receiver.
