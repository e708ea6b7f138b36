# veecle-pxros: TLA+ models, model checks and proofs

`veecle-pxros` is an async runtime and a safe Rust layer on the PXROS real-time
kernel (Infineon AURIX TC37x), with the C code of the board it runs on: an init
task, an Ethernet driver task, start-up code. This directory holds models of its
protocols, the TLC configurations that check them on small instances, and proofs
that TLAPS checks for every instance. Paths below are relative to the
repository; `src/` is the Rust library, `app-tc37x/` the C side, `examples/` the
applications (PROJECT.json prefixes them with one more `src/`).

## 1. The system

The PXROS kernel (a binary library) schedules *PXROS tasks* by priority on one
core each. A task owns a 32-bit event mask and a mailbox, a FIFO of message
handles. An async executor runs inside *one* PXROS task and multiplexes async
tasks over that one mask and that one mailbox.

| component | state | operations | talks to |
|---|---|---|---|
| generic executor `src/executor/` | task vector, results, one ready flag per task | `add`, `run` | task bodies (poll), the strategy (`wait`) |
| wakers `src/executor/waker/` | the ready flag | `wake`, `wake_by_ref`, `clear_ready` | any holder of a waker, on any PXROS task |
| PXROS strategy `src/pxros/executor/` | `PxrosData` of each task: awaited and triggered bits, message flag and slot | `poll_event`, `poll_message`, `trigger_event`, `trigger_message`, `wait` | kernel mask and mailbox |
| events `src/pxros/events.rs` | none (the kernel's mask) | `receive`, `receive_messages`, `reset`, `await_events` | kernel |
| messages `src/pxros/messages.rs` | handle and ownership of `RawMessage` | request, send, receive, release, await-release | kernel |
| tickers `ticker.rs`, `time.rs` | a periodic event object | `every`, `after`, `wait`, drop | kernel, event mask |
| name server client `name_server.rs` | none | `query`, `register` | kernel, ticker |
| logger `defmt_rtt.rs` | lock word, encoder flag, RTT write and read cursors | acquire, write, flush, release | all PXROS tasks, the debug host |
| task creation `task.rs`, `auto_deploy.rs` | static task table | create, spawn | kernel |
| Ethernet driver `PxEthDriver.c`, `GETHAurix.c` | transmit status, current frame, retries, transmit queue, receive pool, timer | main loop, interrupt handler | DMA, network stack |
| network stack device `examples/example-udp/src/network/` | mailboxes, smoltcp sockets | `receive`, `transmit`, tokens, `run_network_stack` | driver, mirror task |
| UDP mirror task `examples/example-udp/src/udp_mirror.rs` | the datagram in its hands | receive, echo, release | network stack |
| C tasks `InitTask`, `taskDeployment.c`, `px_utils.c` | per-core init states | start-up | kernel |
| board support, start-up, simulator, build tool | registers, none | | |

### What is hard, and what makes each part correct

* **Executor and wakers.** Flags are set concurrently with the traversal that
  reads them, and `wait` decides to block from an earlier reading. Correct means:
  it blocks only if no task is ready; a woken task is polled, a returned one
  never again; a task's failure ends the run after the traversal under way.
* **PXROS strategy.** Two masks per task move bits between executor and body;
  a future can be dropped (a `select`) with its registration left behind; one
  message slot per task is filled by someone else. Correct means: nobody sleeps
  on something the executor will not deliver; the assertion of `trigger_events`
  never fails; messages are neither lost, nor duplicated, nor reordered; it
  panics only for the documented misuse; what was signalled is delivered.
* **Tickers and queries.** A tick can be pending when its owner is gone; a
  query races the registration it waits for. Correct means: while the cores boot no
  further apart than the tries allow, nobody gives up, and every task comes up.
* **Messages.** Handles are moved by hand between owners, without `Drop`.
* **Logger.** A lock taken by tasks of all priorities that waits on an event of
  the caller's own mask; a ring whose read cursor the host moves. Correct means: one
  task at a time, whole frames, no byte lost or seen twice by a host, and whoever
  waits gets its turn.
* **Network stack and mirror.** Receive buffers and datagrams pass through mailboxes, each
  of which may be full; both tasks block on pools the other refills; one event
  announces frames, ticks and nothing else. Correct means: no buffer is lost, no
  frame waits unannounced, the tasks never wait for each other, echoes keep order.
* **Ethernet driver.** A transmit interrupt races a timeout and a retry; the
  link goes down with a frame in flight; the receive pool runs empty. Correct
  means: every frame buffer returns to the stack exactly once, frames are
  sent in order, the asserts hold, queued frames do not wait for ever.

PROJECT.json lists the components with their status and each hazard at its line.

## 2. Modules

| module | models |
|---|---|
| `PxrosData` | `local_data.rs`: the operators on one task's data, a mask being the set of its bits |
| `PxrosExecutor` | `Executor::run`, wakers, `PxrosExecutor::wait`, task bodies, the kernel's mask and mailbox |
| `PxrosExecutorProperties` | invariants, action and liveness properties, the refinement mapping |
| `WakeContract` | what any executor promises its tasks, independent of the strategy (the contract of `RawExecutor::wait`) |
| `PxrosExecutorProofs`, `PxrosExecutorMessageProofs` | theorems about the executor: types, wake-ups and the contract; messages, results and failures |
| `PxEthDriver` | `PxEthDriver.c` and `GETHAurix.c`: main loop, interrupt handler, transmit timeout and retries, receive pool, with the DMA, the mailbox and the senders around them |
| `PxEthDriverProperties` | its invariants and liveness property, the refinement mapping |
| `FrameService` | what a sender is promised: every frame comes back, once, in order (the frames that have not are a set, of which the oldest is next) |
| `PxEthDriverProofs`, `PxEthDriverFrameProofs`, `PxEthDriverServiceProofs` | theorems about the driver: types and asserts; where frames and buffers are; the service |
| `RttLogger`, `RttLoggerProperties`, `RttLoggerProofs` | `defmt_rtt.rs` with the ticker it waits on and the panic handler that logs: lock, ring, debug host |
| `NetStack`, `NetStackProperties`, `NetStackProofs` | the UDP example: device and tokens, `run_network_stack`, UDP mailbox, mirror task |
| `Startup`, `StartupProperties`, `StartupProofs` | init tasks, deployment per core, name server queries and registrations of the UDP example, on a clock |
| `MCPxrosExecutor`, `MCPxEthDriver`, `MCRttLogger` | instances for TLC |

`PxrosExecutor` uses `PxrosData` for every access to a task's data. `NetStack` is composed with
the driver through `FrameService`: `PxEthDriver` is checked to implement it (frames sent,
and the buffers lent to it), and `NetStack` takes the steps `Lend`, `Deliver`, `Accept` and
`GiveBack` of the service as the driver's. The UDP example has
no async executor; the logger serves whatever task logs, and is a part of its own.

### State and actions of `PxrosExecutor`

`pc` is where `run` is: `retain` (in `retain_mut` at `cursor`), `poll` (a flag was
cleared, the body is about to be resumed), `body` (inside a poll), `wait`, `try`
(between resetting the events and fetching a message), `distribute` (the loop
over the tasks), `done`, `panic`. `live` is the vector of unfinished tasks,
`results` the array `run` fills, `ready` the flags, `data` the `PxrosData` of
each task; `mayBlock`, `events` and `message` are `wait`'s argument and locals.
`await` is the suspension point of each body. `pending`, `sent` and `received`
are the kernel's. Three variables are history: `got` (the bits delivered for the
current await), `taken` and `leaked` (where messages ended).

| actions | code |
|---|---|
| `SkipTask`, `StartPoll` | `clear_ready` and the closure of `retain_mut` |
| `Resume`, `StartAwait`, `Yield`, `LocalWake`, `Complete` | one poll of a body: `wait_for_event`, `wait_for_message`, a `select` of both, `yield_once`, wakers it holds, its return |
| `EndRound` | the early return and the readiness check of `run` |
| `BlockingReceive`, `BlockingError` | `Receiver::receive` with its error path |
| `ResetEvents`, `TryMessageReceive` | the two kernel calls of the non-blocking branch; an error of the second is taken for an empty mailbox |
| `Distribute`, `Panic` | the loop over the tasks and its three panics |
| `Signal`, `Send`, `ForeignWake` | other PXROS tasks and interrupts |

A step ends where someone else can be observed to intervene: at a kernel call
and at an access to a ready flag. Code between two such points touches only what
the executor owns. What a body awaits is a constant, `Awaits[t]`: the examples'
bodies are loops of such awaits, and a body that may perform any sequence of them
covers them all.

The kernel is not in the repository and is modelled from its use: a mailbox is a
FIFO; `PxMsgReceive_EvWait` returns when a requested event or a message is
there, with all requested events, cleared, and the first message; signalling a
pending event changes nothing. Ready flags are atomics with sequentially
consistent behaviour (one core).

### State and actions of `PxEthDriver`

`pc` is where the driver task is in `PxEthDriverFunction` or in what it calls: `setup`,
`link` (until the link is up), `receive` (in `PxMsgReceive_EvWait`), `read`, `transmit` and
`timeout` (the three events, in the code's order), `write`, `clear` and `start`
(`PxEthWrite` before, inside and after `EthWrite`), `poll` and `polled` (around the
reading of the status register), `message`; `halt` and `abort` are the waits for ever
after a failed start-up and a failed assert. `retTo` is where `PxEthWrite` returns to.
`txStatus`, `txMsg`, `txMbx`, `txRetries`, `rxBufMbx` and `timer` are the fields of
`PxEthData`; a mailbox of buffers that are all alike is a number. `answered`,
`delivered`, `wired` and `mishaps` are history; the last says whether a frame has met a
*mishap* so far: the timer expired before the DMA had sent it, or its completion
was read (`slow`), the link was down when it was to be written (`link`), or its data was
not accessible (`data`).

| actions | code |
|---|---|
| `Setup`, `LinkUp` | start-up up to the main loop |
| `Receive` | `PxMsgReceive_EvWait` |
| `ReadFrame`, `NothingToRead` | the loop over `PxEthRead`, a missing buffer and inaccessible data included |
| `TransmitEvent`, `NoTransmitEvent`, `Timeout` | `ETH_EV_TRANSMIT` with `PxEthTxFinish` and the next frame of the queue; the write timeout |
| `GiveUp`, `HandToDma`, `ClearTransmitFlag`, `CountTry`, `WriteWithoutData` | the paths of `PxEthWrite` and `EthWrite` |
| `PollRead`, `PollSignal`, `Interrupt` | `PxEthPoll` in the task and in the interrupt handler |
| `NoMessage`, `ReturnBuffer`, `SendNow`, `SendLater` | the command message |
| `TransmitAssertFails`, `WriteAssertFails`, `SendAssertFails` | the asserts |
| `DmaTransmit`, `DmaReceive`, `Expire` | MAC, DMA and timer, from the code's use of them |
| `SubmitFrame`, `SubmitBuffer` | the tasks that send frames and return buffers |

The interrupt handler preempts the task between any two of its steps, so a step of
the task ends where it touches the status register or the event mask. The kernel,
the DMA and the wire are not in the repository: a ring is a FIFO of `TxRing` or
`RxRing` descriptors, RI or TI is set when a frame has been received or
transmitted, RBU or TBU when a ring is full or has run empty, and only RI and TI
interrupt. `PXETH_TX_STOPPING` is compared with but never assigned, and
`ETH_EV_LINK` is never signalled because the periodic event that would is never
started: neither has an action, and a link once up is seen to be down only by
`PxEthWrite`.

What may go wrong is a constant, `Faults`: `slow` (a frame may need longer than the
timeout; otherwise the timer expires only after the DMA has sent everything and the
flag has been taken), `race` (a transmission may complete before `EthWrite` clears
its flag, which then is lost), `link`, `data` (`PxMsgGetData` fails), `init` (an
object or the hardware is missing at start-up).

### State and actions of `RttLogger`

`pc` is where each task is: `acquire` (at the compare-exchange), `sleep` and `drop` (in the
`Ticker` of `after`), `load`, `copy` and `publish` (the three steps of one write of the channel:
cursors read, bytes copied, write cursor stored), `flush`, `release`, `aborted` (a reentrant
call) and `idle`. `ring`, `rd` and `wr` are the channel, `cursor` and `len` locals of
`write_impl`, `done` the bytes of its frame a task has written; `tick` is the kernel's pending
delay event of each task, `dying` the tasks whose panic handler is still to log, and `panicked`
the endless loop of `PxAbort` at its end, in which a task keeps its core.
`written` and `read` are history.

| actions | code |
|---|---|
| `Call`, `Acquire`, `Backoff`, `Reenter` | `acquire` and its compare-exchange; the abort on reentrancy |
| `Wait`, `Drop`, `Tick`, `TickerFails` | `Ticker::after`, its periodic event and the tick it may leave; `unwrap` of its failure |
| `Load`, `Copy`, `Publish` | `write_all`: `blocking_write` with a host, `nonblocking_write` without |
| `Flush`, `Release` | `flush`; the store that frees the lock |
| `HostRead` | the debug host takes a byte |

A task runs only if no more urgent task of its core can: a task that spun instead of
waiting would keep the holder from running. The cores and the host run in parallel.
Flush waits for a host even if it is slow; without one it returns at once.

### State and actions of `NetStack`

`pc` follows `run_network_stack`: `init` (lending the buffers), `poll` (inside `iface.poll`), `give`
(the buffer of a consumed frame goes back), `transmit` and `await` (a `TxToken`), `socket`,
`forward` (one datagram to the mirror), `wait` (`receive_with_events`), `panic`. `mirror` follows
the mirror's loop. `held` and `rxMbx` are the receive buffers outside the driver, `sockRx`
and `sockTx` the socket's queues, `toMirror` and `toStack` the mailboxes between the
tasks. A request of a message blocks while its pool is full (`StackHasRoom`,
`MirrorHasRoom`), as `PxMsgRequest` without a timeout does.

| actions | code |
|---|---|
| `ReleaseBuffer`, `ReleaseBufferFails`, `DeviceReady` | `PxDevice::init`, `release_message`: a buffer that cannot be sent is released and, by its release mailbox, comes back |
| `Consume`, `Egress`, `PollDone` | `iface.poll`: `receive` and the tokens, answers of the stack itself, a full socket |
| `Transmit`, `AwaitRelease`, `DevicePanics` | `TxToken::consume` and its `expect`s |
| `Recv`, `SendTo`, `SendToFails` | the socket is read once a loop; `UdpMailbox` sends, or fails before it has requested a message (no mailbox, no message), with one it releases, or with one it leaks |
| `ReceiveMessage`, `ReceiveEvent`, `ReceiveFails`, `ReceivePanics` | the end of the loop |
| `MirrorReceive`, `MirrorSend`, `MirrorRelease`, `MirrorFails` | the mirror task; any error ends it, a failing receive with nothing in its hands included |
| `Deliver`, `GiveBack`, `Tick` | driver, with `mbx_handler`'s signal; ticker |

A kernel call may fail `MaxFailures` times, anywhere. A receive that fails although there is
something to receive (`missed`) is logged and forgotten by the code: an event it consumed
is gone, and an echo it did not take may leave both tasks waiting for messages
when the pools hold only one or two. The invariants about announced
frames and mutual waiting exclude that case by name.

### State and actions of `Startup`

Time is discrete. `at` is where each task is (`off`, `begin`, then the query's `try`, `wait`,
`drop`, and `up`, `gaveup` or `panicked`), `left` the time to its ticker's next tick, `pending` the
tick that waits in its mask, `due` the time to its core's start and `slack` how long it may still
be held up. `Deploy` is `InitTask_Func` and `auto_deploy`, `Begin` and `RegisterFails` the
registration, `Found`, `Missing`, `Wait` and `Drop` the loop of `query`. The two queries of the
network stack follow each other on the same event, so a tick left over from the first
costs the second a try. A task whose registration fails panics, and the panic handler stops its
core in an endless loop (`PxAbort` in `px_bsp.c`); each of the three tasks has a core to
itself, so the others go on. `RttLogger` treats panics alike: a panicked task keeps its core, and
less urgent tasks of that core do not run again.

### Given up frames

After a frame is given up nothing takes the next one from the queue: it waits for
the next frame that is sent, which goes out first. `FrameService` promises
order and progress, so it is checked without faults, where no frame is given up.

## 3. Runs

| run | bounds | shows |
|---|---|---|
| `exec_live` | 3 tasks, 1 event, 1 message, one reader | `EventAwaitReturns` and `MessageAwaitReturns` though other tasks yield for ever; the executor blocks only when nothing is ready (`IdleOnlyWhenNothingReady`); `ImplementsContract`, fairness included |
| `exec_safe` | 2 tasks, 3 events of which one is unsupported, 2 messages, composite masks, selects, foreign wakes, kernel errors | `TypeOK`, `NeverAwaitedAndTriggered`, `SleepersCanBeWoken`, `NoSleepOnAnsweredBit`, `MessagesConserved`, `TakenInOrder`, `DroppedOnlyUnawaited`, `FailureEndsTheRun`, `ReturnedIsFinal` |
| `eth_prompt` | 3 frames out, 2 in, 1 receive buffer, no faults, fair | `ImplementsFrameService`: frames come back once, in order, all of them; `FramesAreRead` |
| `eth_faults` | 2 out, 2 in, 2 buffers, 2 descriptors, 2 tries, all faults | `TypeOK`, `BuffersConserved`, `FramesConserved`: nothing is lost or released twice; and before the first mishap `NoAssertFails`, `AnsweredAfterTransmitted`, `SendingIsTimed`, lost transmit flags, retries and give-ups included |
| `rtt` | 3 tasks on 2 cores, ring of 4, frames of 5, 1 call each, failing ticker, reentrant calls, with and without host | `OneLogger`, `FramesWhole`, `NothingLost`, `UnreadIsLatest`, `FlushIsComplete`, `CallsReturn`: a caller returns whatever the priorities |
| `net_stack` | 4 frames in, 2 buffers, socket queues of 2, pools of 2 and 1, 1 failing call | `StackBuffersConserved`, `NeverBothHeldUp`, `FramesAreAnnounced`, `EchoedInOrder`, `DatagramsAreEchoed` |
| `startup` | 5 tries, period 2, cores up to 5 apart, each task held up for 2 units, any registration may fail | `NobodyGivesUp`, `GivesUpLate`, `EverybodyComesUp` |

Five runs end in a violation, each of a statement the repository makes:

| run | statement | what happens |
|---|---|---|
| `select` | `awaiting_message` is "cleared by the executor"; it panics when *two* tasks wait | a message future dropped by a select still counts as waiting: the executor panics with one task waiting |
| `foreign` | the waker "adheres to the rules of RawWaker" | a wake from another PXROS task stores the flag but ends no blocked wait |
| `composite` | `poll_event` is ready "if all [Event] have been triggered" | the two bits of one await arrive one after the other: the poll that sees the first consumes it, the next one registers it again, and the task sleeps on; with bits that alternate it never returns |
| `eth_late` | assert: a transmit interrupt arrives only while sending | a frame slower than the timeout is queued twice; the second completion finds the driver idle |
| `eth_link` | assert: only a frame being sent is finished | a frame sent from idle without a link is dropped through `PxEthTxFinish` |

`composite` is a small instance (2 tasks, 2 bits). What the code does keep is stated beside
it: every await of one bit returns once its bit was delivered (`NoSleepOnAnsweredBit`, in the
presence of composite awaits, selects and failing calls), and a sleeping task can be *woken*
(`SleepersCanBeWoken`, which says no more). `exec_live` awaits single bits only:
`EventAwaitReturns` and `ImplementsContract` say nothing of composite awaits.

One statement of the documentation is not what the code does, and no run shows it:
`src/pxros/defmt_rtt.rs:144` says of the mode without a host "Truncate data to output as much as
fits". `nonblocking_write` (line 236) does not look at the read cursor: it writes every byte, the
newest over the oldest, and nothing is truncated, whether it was read or not. The model
does as the code does. What is left to a host that attaches later is `UnreadIsLatest`:
between the cursors lies the end of what was logged, possibly little or nothing, if the
write cursor has just passed the read cursor, but never old and new bytes mixed.

Two more facts of the code are part of the models and excluded by name from the
properties. A message that nobody awaits is dropped and not released, so its pool misses
it (`DroppedOnlyUnawaited`, `leaked`). The driver's read loop ends at a frame without a buffer, and
the ones behind it wait for the next interrupt (`FramesAreRead`).

**Bounds.** Two tasks are enough for every pairwise conflict (two readers, a
reader and a yielder, a waker and its target); three let a traversal skip a
finished task between two others. Two events tell a partial from a complete
trigger. Two messages are the least for an order and for an overwritten slot. For
the driver, three frames (`eth_prompt`) are one being sent and two whose order in the queue shows,
two (`eth_faults`) one that is repeated or given up and one that waits for it meanwhile;
two frames received with one buffer make the pool run empty between them; two
tries are a first one and a repetition before the frame is given up; in a ring of two
descriptors a frame and its copy meet, and the next frame finds the ring full
(`ERR_INPROGRESS`). In the logger a frame is longer than the ring, so that every write
wraps at each place, is interrupted, and (without a host) overwrites itself; of the
three tasks two share a core, one being more urgent, and the third runs in parallel.
In `net_stack` four datagrams can fill a socket queue, a mailbox and a pool at once, and
a message can leak from a pool of two. `startup` scales ten tries of 100 ms to five of 2
units; they satisfy the hypothesis of the theorem below (`BootsInTime`), whose first half,
`Skew + Slack < (Tries - 1) * Period`, is tight: with a skew of 6 TLC finds a
query that gives up, so the second of service.rs is 900 ms if a tick is left over. With a
skew of 4 and a slack of 3 only the second half fails, and TLC finds another.
`MaxMessages`, `MaxSent`, `MaxArrived`, `MaxCalls` and `MaxFailures` are the only bounds the
code does not have. Mutants of the code's operators stand beside the definitions
they replace and are used by no specification.

`CHECK_DEADLOCK` is off, but for `startup`, where time always passes: the executor returns,
panics, or blocks with nothing to receive; the driver waits for ever after a failed
assert or without traffic; all logging may be done, aborted or behind a panicked task; a
network stack that has panicked does nothing; and each of these may last.

**Fairness.** Executor: `WF(Run) /\ WF(Wait)`. Its PXROS task is scheduled; a
poll returns (bodies are cooperative: each `LocalWake` needs a clear flag, and
each await ends the poll or moves the body on); the kernel's wait returns once
there is something to receive. Nothing is assumed of other tasks: no signal or
message need ever come. The contract needs strong fairness of `Dispatch`, which the
round-robin traversal provides; `ImplementsContract` checks that. Driver: `WF(Driver)`
(its task is scheduled and the link comes up), `WF(Interrupt)`, `WF(DmaTransmit)` and
`WF(Expire)` (hardware and kernel timer do their work). No task need send, consume
or return anything, and no frame need arrive. Logger: `SF` of a task's steps, since
a lock holder or waiter gets the processor again and again and its ticker's 5 ms are
far longer than one step; `WF` of the ticker and of a connected host. A caller that
logs without end could starve another, so the number of calls is bounded. Network stack:
`WF` of both tasks, of the ticker, and of `GiveBack`, which `FrameService` promises.
`Startup`: `WF` of time and of every task's steps, `Slack` bounding what time passes between.

## 4. Proofs

Every theorem holds for all values of the constants that the named assumptions
in the modules allow; the hypotheses some theorems add are named here. Each
inductive invariant was first checked by TLC on the component's instance.

### Executor

`PxrosExecutorProofs`, for any number of tasks, any event type, any
message bound and any choice of awaits:

* `TypeCorrect`: `Spec => []TypeOK`.
* `AssertionNeverFails`: no bit of a task is awaited and triggered at once, so the
  assertion in `trigger_events` holds. Inductive by itself with `TypeOK`; one
  lemma per call of `local_data.rs`, and `DataStep`, which says that data changes
  only in a poll and in the distribution.
* `NoLostWakeup`: `IdleOnlyWhenNothingReady`, assuming `~ForeignWakes`. The invariant
  must also speak of `distribute`, because `wait` goes back to blocking after it has
  received something nobody awaits (`IdleInv`): the permission to block, given
  long before, is still right because such a distribution wakes nobody. The
  assumption is needed: `foreign` shows what happens without it.
* `NobodySleepsUnregistered`: `SleepersCanBeWoken`. The property only speaks of
  `wait`, the invariant (`SleepInv`) of every step: a live task neither ready nor
  polled is registered, and triggered bits of an event await were delivered to
  that await (`TriggeredWasGot`), without which a resumed poll could not be shown
  to register all it lacks.
* `AnsweredBitsReturn`: `NoSleepOnAnsweredBit`, without a hypothesis on the awaits. The
  invariant (`AnsweredInv`) is that a task on an await of one bit that was delivered to it
  has that bit triggered and does not await it, whatever the other tasks await: what is
  registered is what was not delivered, so no later delivery touches it, and only
  the poll it answers consumes it. For an await of two bits this fails, as `composite`
  shows: the poll that sees the first consumes it and waits for both again.
* `KeepsWakeContract`: `Spec => Contract!SafeSpec`, the safety half of the refinement,
  assuming `~ForeignWakes`: each step maps to a step of the contract or to none, and
  `IdleInv` is what lets a blocking receive map to the contract's blocking.

`PxrosExecutorMessageProofs`, under the same generality and without hypotheses:

* `ResultsAreFinal` (`ReturnedIsFinal`): a task that has returned is not in the vector,
  and only a task in the vector is polled (`LiveInv`).
* `FailureStopsTheRun` (`FailureEndsTheRun`), inductive by itself.
* `MessagesNeverLost` (`MessagesConserved`): needs that `wait` holds a message only from its
  receipt to its distribution (`HeldInv`), or the next receipt would overwrite one.
* `MessagesTakenInOrder` (`TakenInOrder`): what was taken is older than what `wait` or a slot
  holds (`OrderInv`). This needs that there is one unread message at most, and
  that follows from the flag its holder keeps: a second holder would be one of two tasks
  awaiting messages, and `wait` panics before it stores a second message.
* `OnlyUnawaitedDropped` (`DroppedOnlyUnawaited`): a task that waits for a message has no
  message in its slot, unless the traversal has yet to reach it (`ReaderInv`).

### Ethernet driver

`PxEthDriverProofs`, for any traffic, ring sizes, buffers and retry limit:

* `TypeCorrect`: `Spec => []TypeOK`, under every fault. `TypeOK` bounds the rings and the
  retries, so the invariant (`TypeInv`) adds that between `PxEthWrite`'s check and the
  start of the timeout a try is left and a frame is held.
* `NoAssertEverFails`: `NoAssertFails`, under every fault: until a frame meets a mishap no
  assert fails. `eth_late` and `eth_link` show why a late frame and a missing link are mishaps, and
  without the data of a frame nothing would finish it. The invariant (`AssertInv`, which holds while
  `mishaps` is empty) follows the completion
  of a transmission as one token: frame in the ring, flag, pending event, event in
  hand. There is at most one, only while sending, and none where a frame is
  written, because an expired timeout says that the DMA is done and the flag taken. The retry counter is zero unless
  sending, so a frame is given up only in the state its assert allows.
* `SendingAlwaysTimed`: `SendingIsTimed`, under every fault, late frames and lost links
  included; only inaccessible data ends it. The property speaks of the waiting driver; the invariant (`TimedInv`) of every step, in which an
  expired timeout in hand or a write under way counts too.

`PxEthDriverFrameProofs`:

* `BuffersNeverLost` (`BuffersConserved`) and `FramesNeverLost` (`FramesConserved`), under every
  fault. Both count places: the times a message stands in a mailbox (`Count`) plus one for each
  hand it may be in, so that a step which moves it from one place to the next keeps the sum.
  `HandInv` says when the hand is empty: a message still in it would be overwritten.
* `AnswersFollowTransmission` (`AnsweredAfterTransmitted`), under every fault, before the first mishap.
  The frame being sent was transmitted or heads the ring (`WiredInv`), so a frame that is given
  up after `EthWrite` cleared its flag was transmitted too. With a slow DMA or a lost link
  a frame is given up that never was.

`PxEthDriverServiceProofs`:

* `KeepsFrameService`: `Spec => Service!SafeSpec`, the safety half of the refinement, assuming
  `Faults \subseteq {"init"}`. The completion of the frame being sent is always somewhere
  (`CompletionInv`), so no timeout is handled and nothing is given up. Then the frames
  stand in the order sent, from the one being sent over the queue and the hand to
  the mailbox, and nothing is queued unless something is being sent (`OrderInv`): the frame
  that comes back is the oldest. A given up frame breaks the latter, as said above.

### Network stack and mirror

`NetStackProofs`, for any number of buffers, socket queues, pools of at least
one message, arrivals and failing calls:

* `TypeCorrect` and `BuffersNeverLost` (`StackBuffersConserved`): proved together, because the
  conservation is what bounds the buffers in hand. `InHand` adds what each program
  point knows of the message it handles.
* `NoSilentFrame`: `FramesAreAnnounced`. The property speaks of the waiting task, the
  invariant (`AnnouncedInv`) also of the points behind the last look into the mailbox.
* `NoMutualWait`: `NeverBothHeldUp`. The argument is a count (`Circulating`): messages on their
  way from the stack to the mirror, in its hands, echoed or leaked. A loop adds at
  most one and takes one echo if there is any, so the count exceeds the
  stack's pool only while the task waits (`PoolsInv`). Were both held up, the
  stack's pool would be full and an echo waiting besides: one more than the count allows.
* `NoneOvertakes`: `EchoedInOrder`. `Stages` lists the ten places a datagram passes, from the
  network to the network; each queue is sorted and each place holds only older ones
  than the places behind it (`OrderInv`). One lemma, `MoveKeepsOrder`, covers every step: the first
  of a place moves to the end of the next. A datagram dropped anywhere leaves the order alone.

### Logger

`RttLoggerProofs`, for any tasks, cores, priorities, ring size and frame length:

* `MutualExclusion`: `OneLogger`, inductive by itself.
* `NoByteLost`: `NothingLost`. The invariant (`HostInv`) says what the host has read is a prefix of
  what was written (`ReadPrefix`), the ring holds the rest from the read cursor on
  (`RestInRing`), a writer has room for its copy although its cursors are stale
  (`WriterHasRoom`), and the copy is there before it is published (`CopyInRing`). A few lemmas
  on `%` hold all the arithmetic of wrapping cursors.
* `FlushCompletes`: `FlushIsComplete`, from the same invariant.
* `TypeCorrect`: that what the host reads are bytes of frames is a consequence of the
  above, so it comes last.
* `FramesStayWhole`: `FramesWhole`. While a task writes, the last byte in the channel is its own or,
  before its first, ends a frame (`FrameInv`). This also holds after an abort for
  reentrancy, since the aborted task keeps the lock and nobody writes again.
* `LatestBetweenCursors`: `UnreadIsLatest`, with a host and without. Behind the write cursor
  the ring holds the latest bytes (`Holds(n)` for the `n` latest); between a copy and its
  publication the cells copied to are no longer among them (`LatestInv`), and the
  writer's cursor is not stale, because it alone moves it. With a host what lies between the
  cursors is what `NoByteLost` says; without one the read cursor stays at the start, and
  the write cursor has not gone further than bytes were written (`AbsentInv`).

### Start-up

`StartupProofs`, for any period, number of tries, skew and hold-up:

* `TypeCorrect`: with where each task can be and what that says of the services registered.
* `NoneGivesUpEarly`: `GivesUpLate`. A query has spent (`Spent`) a period for each wait that is over,
  one for a pending tick, and the part that is running; it is as old as that but
  for one period (`LateInv`), which a tick left over from the query before accounts for.
* `NobodyMissesAGoal`: `NobodyGivesUp`, assuming `BootsInTime`: `Skew + Slack` and `2 * Slack + Period`
  are less than `(Tries - 1) * Period` (900 ms). For each goal there is a bound on the time until it is
  offered (`ToStart`, `ToOffer`), computed from the state; time takes from it what it adds
  to `Spent`, so their sum stays below the skew and hold-ups allowed (`InTimeInv`), and the last try
  would need more. A left-over tick needs no case of its own: it was paid for by
  the first query, and `MirrorInTime` carries it over. The second bound is that of the
  mirror, which may have to wait for the network stack's next tick.

### Only model-checked

The liveness properties (`EventAwaitReturns`, `MessageAwaitReturns`, `FramesAreRead`, `CallsReturn`,
`DatagramsAreEchoed`, `EverybodyComesUp`) and the fairness halves of the two refinements
(`ImplementsContract`, `ImplementsFrameService`): liveness under fairness and `ENABLED` are out of the
prover's reach. `NoSleepOnAnsweredAwait` and the contract with foreign wakes do not hold: the
five runs that end in a violation show it, and what the hypotheses
above exclude. Every other property of a passing run is a theorem.

## 5. Not modelled, and the plan

Not modelled for good:

* Board support, register headers, linker scripts, start-up code (no protocol, though most
  of the repository's lines: the register headers alone are more than 250,000), the
  simulator (one register write), the build tool.
* Type erasure, pinning and pointer validity in the executor: Rust's concern. `pxros_run!`
  builds the executor and calls `run`. `E::from_bits(..).expect(..)` in `local_data.rs`
  cannot fail on a subset of a valid mask.
* The encoder's bytes and frame delimiters: a frame is the bytes of one call. `defmt_rtt.rs` is
  right whatever they are.
* smoltcp beyond what the example asks of it: no neighbour cache, no checksum, a full queue
  refuses a datagram. The frames that fill the cache are the `Arp` frames the
  stack answers itself.
* A failing `PxMsgSend` of an unused receive buffer back into its pool: `PxEthRead` does not look at
  the result, and whether such a message is gone is for the kernel to say. A `Ticker::every` that
  fails in a query: it ends the task as a failed registration does.
* That the mirror panics on a datagram which is no text (`unwrap` in a log statement).
* The data given to the kernel when a task is created (stack, memory regions, rights),
  and the panic if that fails. `HtcPxNameQuery` and `HtcSleep` of `px_utils.c` have no caller.
* Message protection, sizes and metadata of `messages.rs`: `set_metadata` fails only for a
  message not owned, which the type excludes. A failing `data_mut` is in `NetStack` (the
  message leaks).

Left out of the models as said above: the pools of `NetStack` count messages, not
the buffers of `PxDevice::init`, which come from the same pool once and stay; a failing send
repeats without bound in the ingress loop, where `MaxFailures` bounds it.

What is left, in this order:

1. What the driver still promises when a frame is repeated or given up: each frame comes back
   once, in an order that only given up frames disturb; as a weaker service and its proof.
2. The executor's panics: that it panics only for an unsupported event or a second reader, as a
   theorem, and that a message future dropped by a select is the only way to a panic without
   two waiting tasks.
3. A tighter second half of `BootsInTime`: it is needed, but not for every skew (none
   and a slack of 3 break it, and TLC finds no query that gives up).
