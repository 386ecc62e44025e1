# Verification of linux-sdk

TLA+ models of the Ingenic linux SDK (`src/`), the TLC runs that check them on
small instances, and TLAPS proofs of the properties that matter most, for every
value of the constants.

The SDK is a set of *managers*, one per kind of device or service. Each is a C
file with static state, a struct of function pointers and a `get_..._manager`
function; some own a service thread that calls back into the client. What is
hard in this code is in those threads (what they share with the callers, how
they are woken, stopped and joined, what is left over for the next session) and
in the tables and counts that several clients share. That is where the models
are.

To check one model: `tlc -config MCTimerStuck.cfg MCTimer`. To check the proofs:
`tlapm ThreadsProofs.tla`.

## 1. Inventory

### Modelled, in whole or in part

| component | state | operations | hard because |
|---|---|---|---|
| thread pool (`utils/thread_pool`) | work list, `queue_size`, `stop`, `exit`, the threads | `init`, `destroy`, `start`, `stop`, `add_work`; the worker loop | condition variable, `stop` and `exit` change under sleeping workers, works that call the API, `pthread_create` failing |
| alarm manager (`alarm`) | sorted `alarm_list`, `trigger_list`, the instant `/dev/alarm` is armed for, init and start counts | `set`, `cancel`, `start`, `stop`, `init`, `deinit`; the service thread | the list is cut from under the device, the thread is woken for its end by an alarm of `stop` itself, state survives a restart |
| timer manager (`timer`) | `timer_list`, timerfds, the epoll set, the service thread | `alloc`, `start`, `stop`, `free`, `free_all`, `init`, `deinit`; the thread, which frees one-shot timers | the thread is cancelled and joined under `list_lock`, which it takes itself; the list changes between `epoll_wait` and the use of its result |
| input manager (`input`) | the device list, the listener list and their locks, init and start counts, the select thread | `init`, `deinit`, `start`, `stop`, `register`, `unregister`; the thread | callbacks under two locks; a thread cancelled inside them; start counted apart from init |
| camera v4l2 (`camera_v4l2`) | `init_count`, `start_count`, the buffers, the driver's queue, the capture thread | `init`, `start`, `stop`, `deinit`; the capture loop | the stream goes off while the thread holds a buffer in the client's callback |
| zigbee manager (`zigbee/zigbee`) | `send_buf`, `send_len`, `send_result`, `send_mutex` and `send_cond`, the poll thread | `ctrl`, `get_info` and the set calls, `init`, `deinit`; poll thread, `send_timeout_cb`, SIGIO handler | four threads of control and a device that answers late, twice or never |
| uart protocol (`zigbee/protocol`) | receive ring with its cursors, parser state, sequence number | `send`, `receive`, `handle` | escaping, packets cut at any byte by the serial port, stale bytes behind the end of the ring |
| fingerprint (`fingerprint/fpc`) | request pipe, `enroll_status` and `auth_status`, `template_num`, the id list file, the image buffer | `init`, `destroy`, `enroll`, `authenticate`, `delete`, `cancel`, `get_template_info`; the thread, two timeouts | status flags set by callers, by the thread and by the alarm; a file whose offset two threads move |
| ring buffer (`ring_buffer`) | cells, `head`, `tail`, `available_size` | `set_capacity`, `push`, `pop`, delete | wrap of both cursors, pushes as large as the buffer |
| flash (`flash`, with `block/blocks/mtd`) | the mtd devices opened, bad blocks, pages | `init`, `deinit`, `erase`, `write`, `read` | bad blocks shift all later pages; a block goes bad in the middle of a write |
| uart manager (`uart`) | the channel table, a lock per channel | `init`, `deinit`, `is_init`, `flow_control`, `write`, `read` | a channel is looked up without a lock and used later |
| netlink (`netlink`), with battery and vibrator manager | sockets, counts, the handler list and its lock, the thread; the handlers and the counts of their owners | `init`, `deinit`, `start`, `stop`, `register_handler`, `unregister_handler`, dispatch | both list functions walk with the list's head itself |
| gpio manager (`gpio`, `lib/gpio/libgpio.c`) | per pin: valid, direction, irq mode, descriptor; the kernel's export state; the epoll set | `open`, `close`, direction and value calls, `set_irq_func`, `enable_irq`, `disable_irq`, `init`, `deinit` | three tables of the same pins in three places |
| thread (`thread`) | | `cancel` and `join` of one thread | modelled where `Alarm`, `Timer`, `Input` and `Camera` stop theirs |

How they interact: zigbee calls alarm (`set` with its timeout, `cancel` when
the answer has come), uart protocol and uart manager; fingerprint calls alarm
and thread; timer, alarm, input, netlink, camera and fingerprint run their loop
in a thread object; battery and vibrator register a handler with netlink;
the audio example shares a ring buffer under a lock of its own. All of it
happens through calls and callbacks; nothing is persisted except the
fingerprint id list and the contents of the flash.

### Not modelled, and why

| component | why |
|---|---|
| usb device manager | a channel table searched and filled as the uart manager's is; what it does with the gadget modules is the kernel's |
| mount manager | re-reads `/proc/mounts` before each call: text parsing, one caller |
| i2c, spi, pwm | one descriptor and one flag per device round single ioctls |
| camera, rtc, power, watchdog, security, efuse, cypress, 74hc595 | open, one ioctl, close |
| audio, frame buffer and graphics, utilities | arithmetic on samples, pixels and files, or the state of a library |
| flash system information | compiled out (`BM_SYSINFO_SUPPORT`) |
| signal handler | installs and removes one handler |
| `src/lib`, `src/include/lib` (but `lib/gpio`, `lib/mtd`), examples | third-party code, which is nearly all of `src/` by size, and clients; the examples were read for how the managers are used |

Left out of the modelled components: allocation failures everywhere; zigbee's
hard reset, second session and failing initialisation; corrupted uart packets
and `deinit` of the protocol; flash's chip erase, other file systems and ubi;
libserialport calls that fail in `deinit`; the text of a uevent; the battery's
and the vibrator's device files; camera's read method, image conversions and
a `deinit` without a `stop`; listeners that call the timer, input or alarm
manager's `start` and `stop`; a thread object with several threads.

## 2. The modules

Every module names the file it models in its head comment and is written the
same way: constants with one named assumption, the variables, one action per
critical section (a section under a lock is atomic, what lies between two
sections is not), the properties at the end. A definition called *Mutant* above
a definition of the model is that definition with a plausible bug; no run uses
it, it shows that the property is able to fail.

| module | what it is |
|---|---|
| `ThreadPool` | the pool. A worker is at `lock`, `wait`, `run` or `async`; the owner thread's `init` and `destroy` are step by step (`created` and `joinIdx` are their loop indices); `start`, `stop` and `add_work` come from any thread and from the works themselves |
| `WorkQueue` | what a pool promises: a FIFO queue of works, each begun at most once. `ThreadPool` implements it with `pending <- queue`, `executing <- worker` |
| `Alarm` | the manager with its clock and device: `armed` is what the ioctl set, `pending` that it went off. Counts of several clients; the last `stop` in its three steps |
| `Timer` | the manager and its service thread: `ready` is the kernel's list of edges, `batch` the `events[]` the thread works through, `dangling` the entries of it that were freed |
| `Input` | the two lists with their locks; the thread's position is `thread`, the position of a `stop` or `deinit` under way is `api`. A lock is `"dead"` once its holder was cancelled or returned without giving it back |
| `Camera` | clients with their state (`use`), the thread, and the driver's queue: a buffer is with the user, queued or done |
| `Zigbee` | client, poll thread, alarm thread, signal handler and device, with the messages between them. It uses what `Alarm` shows of the alarm manager (one alarm per listener; a `cancel` may come too late) and what `UartProtocol` shows of the frames (whole and in order) |
| `UartProtocol` | packing and escaping on one side, ring and parser on the other, one parser turn per step |
| `Fingerprint` | caller, thread, alarm thread and restart; the id list file with its offset beside the library's templates. Each system call on the file is a step, so that `get_template_info` and a restart fall between any two of them |
| `RingBuffer` | the buffer, byte by byte; the ghost `lag` says by how much `head` is behind |
| `BoundedFifo` | what a ring buffer promises; `RingBuffer` implements it as long as `lag = 0` |
| `Flash` | partitions of erase blocks; a call is a cursor (`off`, `rest`) that takes one block or page at a step. A page holds the place its content has in the buffer of the last write |
| `UartPorts` | threads that look a channel up entry by entry and then use what they found |
| `Netlink` | the manager, the listener, the list as `first` and `next`, and the two owners with the handlers they make and free; `fault` is the use of freed memory |
| `Gpio` | a record per pin; each function of `libgpio.c` is an operator on such a record, each call of the manager an action |
| `Threads`, `Services`, `Devices` | components side by side, see below |
| `Lists` | the walk with `list_for_each_safe` that takes entries out of a list; used by `Alarm` and `Timer` |
| `ThreadsProofs`, `ServicesProofs`, `DevicesProofs` | the theorems about `ThreadPool`; about `Zigbee`, `Input`, `Camera` and `Fingerprint`; about `Netlink`, `Gpio` and `UartPorts`; and about the modules that put components side by side |
| `AlarmProofs`, `TimerProofs`, `UartProofs` | the theorems about `Alarm`, `Timer` and `UartProtocol` |
| `DataProofs` | the theorems about `RingBuffer` and `Flash` |
| `ListsProofs` | what `Lists` leaves of a list, and the lemmas that other proofs use: induction over numbers, recursive functions, arithmetic round a buffer |

**Side by side.** `Threads` (thread pool, timer), `Services` (input, camera,
zigbee, fingerprint) and `Devices` (ring buffer, uart protocol, flash, uart manager,
netlink, gpio) put components into one specification that share no variable,
as the managers share no C state. The initial state chooses one of them (`user`,
`service`, `subject`) and only that one takes steps, so each behaviour of a
component, under the component's own fairness, is a behaviour of the union, and
the other way round (`ThreadsImplementsParts`, `ServicesImplementsParts` and
`DevicesImplementsParts` in section 4): no interleaving is lost and none is added. One run then
answers for all of them. An unused part starts in one fixed state where its own
`Init` has a choice.

`MC...` modules extend a model for TLC; all numbers are in the `.cfg`, and the
sets that a `.cfg` cannot write are definitions of the MC module.

Abstractions common to all: data that no property looks at is gone (payloads
are numbers, priorities and names model values, except in `RingBuffer` and
`UartProtocol`, whose subject it is); allocation never fails; a call that
asserts (`assert_die_if`) on its arguments is called with good ones; mutexes
are correct; `pthread_cancel` takes effect at the cancellation points of the
code that runs. Every bound is a constant whose comment says *bound*.

## 3. The runs

| run | bounds | what it shows |
|---|---|---|
| `threads` | pool: 3 workers, 4 works, 2 rounds of init and destroy, creation may fail. Timer: 2 timers, periodic and one-shot, paired use | `WorkAccounted`, `WorkConserving` (no lost wake-up), `NoUseAfterFree`, `DestroyReturns`, `QueuedWorkRuns`, `ImplementsWorkQueue`; `Served`, `JoinedStopIsFinal`; `LockLostByLastOneShot`, `CallsReturnOrDeadlock` and `TimersFireOrDeadlock`: the two ways in which `list_lock` is lost are the only ones |
| `alarm` | 2 listeners, 2 clients, 2 sets, 4 instants, 2 sessions | `NoAlarmForgotten`: the device is armed for the first entry or about to be; `ThreadHasDevice`; `AlarmDelivered` and `FirstStopReturns` for the first session |
| `alarm_restart` | 1 client, 1 set, 2 sessions | **violated** `StopReturns` |
| `timer_unpaired` | 2 periodic timers | **violated** `TimersFire` |
| `timer_stuck` | 1 one-shot timer | **violated** `CallsReturn` |
| `services` | input: 2 devices, 2 listeners, 2 starts. Camera: 2 clients, 2 buffers. Zigbee: 2 sends, 1 report or spurious wake-up. Fingerprint: 2 ids, up to 2 of them enrolled before, 2 requests or calls of `get_template_info`, 1 image of low quality | `ReadsLiveDevice`, `StartedRuns`, `DeinitReturns`; `StartFailsOnlyAfter`, `CamStopReturns`; `ExactlyOnce` until something goes wrong, `SuccessIsPaid`, `WaiterIsWoken`, `SendsReturn`; `ListMatches`, `ImageBufferLives`, `RequestsAnswered` |
| `input_unregister` | 2 devices, 2 listeners | **violated** `UnregisterTakesItsOwn` |
| `zigbee_answer` | 2 sends | **violated** `AnswerIsOwn` |
| `devices` | ring: capacity up to 3, pushes up to 4. Uart protocol: 2 packets from 5 payloads, 4 sequence numbers, stray bytes, ring of 32, chunks up to 16. Flash: partitions of 1 and 3 blocks of 2 pages, 3 ranges, 2 bad blocks. Uart manager: 2 threads, 2 ports, 2 channels. Netlink: 2 owners, a handler each, counts and sockets up to 2. Gpio: 2 pins | `ImplementsFifo` until a push of at least the capacity, `CursorsAgree` always; `HandledInOrder`, `AllHandled`; `ReadsBack`, `ErasesExactly`; `PortsStayOpen`, `IoReachesItsPort`, both until inits or deinits race; `UnregisteredIsOut`; `PinsAgree`; `DevicesTypeOK`, the types and ranges of all six |
| `uart_split` | 1 packet | **violated** `AllHandled` |
| `flash_lost` | as in `devices` | **violated** `WritesAsReported` |
| `netlink_register` | 2 owners, a handler each | **violated** `RegisteredListens` |

Why the bounds are enough. *Pool*: three workers are the least with one asleep,
one at the lock and one busy, and the fourth work is queued behind all of them;
the proofs remove the bound. It bounds `add_work`, and with it a routine that
adds its own work for ever: `DestroyReturns` names that case in its formula,
and what it claims does not rest on the bound. *Input*: two listeners of two
devices are the least for an unregister to touch what is not its own; a second
start is the one a deinit leaves over; the proofs remove both bounds for the
thread. *Camera*: one buffer may be in the callback while the other is queued,
and one or two may be granted; the proof removes both bounds. *Alarm*: two
listeners make an order, a replacement and a cancel of the first entry; two
sessions make a restart; the instants leave room for an alarm before, at and
after the wake-up of `stop`. *Timer*: two timers are the least for which one
expires while the other is stopped; the number of calls is not bounded at all.
*Zigbee*: two sends are the least for a late answer to meet a second send; a
report and a spurious wake-up share a bound (`MaxDisturbances`), as either of
them alone shows what it can disturb. *Fingerprint*: of two ids one can be
deleted from before or behind the other; the fingers enrolled before let a
deletion come first, and two requests are then the deletion and the enrolment
or the `get_template_info` that meets it; cancels, timeouts and restarts are
not bounded. *Ring*: a buffer of three wraps each cursor at each offset, a push
of four is larger than every buffer. *Uart protocol*: the payloads need every
escape (0xFE last, 0xFE before 0x5A, two 0xFE), the sequence numbers put 0xFE
there and, with 190, in the checksum; the packets start at cell 0 and at cell
24, so that one lies across the end of the ring. The ring never fills within
these bounds: `zb_poll` empties it after every chunk. *Flash*: the ranges begin
and end inside blocks, fill one, and reach the end of the flash; with two bad
blocks of three, two in a row are passed; the number of calls is not bounded.
*Uart manager*: two threads and two ports are the least for one call's channel
to become the other's, and for two inits to race for a channel or a name;
behaviours are not followed beyond such a race (`UntilRaced`), after which the
two properties claim nothing. *Netlink*: one handler per owner can be
registered, dropped and freed; calls are not bounded. *Gpio*: pins
do not influence each other but through the interrupt thread, which two share.

Fairness. A thread that can go on goes on (weak fairness of a thread's steps as
a whole, since a thread is one program); clocks, timerfds and the alarm device
go off; nothing is assumed of clients, except that a call that was begun is
continued; of the zigbee device nothing is assumed, nor of the camera's driver,
nor that a finger ever touches the sensor, nor that an input event wakes
`select`. Strong fairness is used in `Input` only: a deinit gets a mutex that
is free again and again (the thread takes `device_list_lock` in every turn, and
the kernel does not starve a waiter for ever), and a cancelled thread dies at a
cancellation point that it keeps coming by. In `alarm`, `FirstStopReturns`
excludes a `stop` that is delayed for longer than the 100 ms of its own wake-up
alarm (`prompt`): the code cannot survive that, and the ghost says so.
`CHECK_DEADLOCK FALSE` stands where the clients may stop calling.

Conditions inside properties. Several properties hold up to a named event,
which is a ghost of the model and can be seen in it. Such a property delimits
what the event stands for and does not catch it; where the event is a hazard of
the code, the hazard's note in `PROJECT.json` says so:

| property | ends with | which is |
|---|---|---|
| `CursorsAgree`, `ImplementsFifo` | `lag` | a push of the whole buffer (`ring_buffer.c:74`) |
| `ListMatches` | `misplaced` | an id written or read at a stale offset (`fpc_fingerprint.c:159`), or a restart between the library and the file |
| `FirstStopReturns` | `prompt` no longer true | a stop delayed past its own wake-up (`alarm_manager.c:381`) |
| `JoinedStopIsFinal` | is about stops that joined only | a stop that does not end the thread leaves its entry in `events[]` (`timer_manager.c:118`) |
| `DeinitReturns` | a lock that is `"dead"` | no device at init, with the lock kept (`input_manager.c:731`), or a thread that died with it |
| `StartedRuns` | `leftOver` | a deinit that left a start over (`input_manager.c:943`) |
| `StartFailsOnlyAfter` | `requeued`, or a second init | a buffer put back behind a stop (`capture.c:237`) |
| `SendsReturn` | `lost` | the poll thread cancelled with a lock (`zigbee_manager.c:215`) |
| `HandledInOrder`, `AllHandled` | `SplitAfterFE` (a constant) | a chunk that ends in 0xFE (`uart_protocol.c:178`; the run `uart_split`) |
| `PortsStayOpen`, `IoReachesItsPort` | `raced`; for io also `changing` | calls that no lock keeps apart (`uart_manager.c:56`, `:264`) |
| `PinsAgree` | `closed`, for one conjunct | an open after a close that exports nothing (`libgpio.c:71`) |

## 4. The proofs

`ThreadsProofs`. The thread pool, for every number of threads, works and rounds:

- `TypeCorrect`, `WorkAccountedAlways`, `BegunInOrderAlways`, `DestroySafe`,
  from the inductive invariant `IInv` (`PoolInvariant`): `TypeOK`,
  `WorkAccounted`, `BegunInOrder`, `ExitLeavesNoWaiter`, `NoUseAfterFree`, and
  `Shape`. The properties alone are not inductive: `Shape` adds that a thread
  holds a work exactly while it executes one, that threads not yet created do
  nothing, that the join loop leaves only joined threads behind it and that a
  freed pool has an empty list.
- `WorkConservingAlways`: no lost wake-up, on top of that invariant. It counts
  sleeping against awake threads, so it rests on lemmas about the cardinality
  of the sets a step moves one thread between.
- `PoolImplementsWorkQueue`: initial states map to initial states and every
  step to a step of `WorkQueue` or a stutter.

`AlarmProofs`, for any number of clients, sets and sessions:

- `ThreadAlwaysHasDevice`, from `DevIInv`: the thread exists exactly from the
  first start to the end of the last stop, no client is started that is not
  initialised, and while the last stop is under way nobody starts and the device
  stays open.
- `NoAlarmEverForgotten`, from `ListInv`, which adds that the list is sorted: an
  alarm that is not the first is served because the first one is. `Insert` keeps
  a list sorted (`InsertKeepsSorted`, the code's search for a place), taking a
  listener's alarms out of it keeps it sorted and its first entry no earlier
  (`RemoveKeepsSorted`).
- `AlarmTypesAlways`: the types of all variables.

`ListsProofs`: `WithoutPicks` says that `Without(s, T)` picks the entries of `s`
outside `T`, each once and in their order. `Lists` defines it by recursion over
the list's length, where the library's `SelectSeq` would do for TLC, because the
provers cannot expand that. Its proof is an induction over the numbers for which
the claim holds: `NatSetInduction` states induction for a *set* of numbers, which
the provers can instantiate, and follows from the least element of what is not
in the set. `RecDef` shows with it once for all that a function defined by
recursion over the numbers exists and obeys its equation; `LeftDef` is the case
of `Lists`, others are `EndsDef` in `DataProofs` and those of the folds of
`UartProtocol`. Arithmetic modulo a constant that is not a numeral is hard for
the prover, so lemmas (`ModTurn`, `TurnRange`, `Advance`, `Distance`, `TwoSteps`,
`Between`) say once what a turn round a buffer is; both ring buffers use them.

`TimerProofs`, for any timers and any number of calls. `TimerInv` says who may
hold `list_lock` at which step of whose call, and holds without conditions:

- `JoinedStopIsFinalAlways`: a timer whose stop joined the thread is not armed,
  not ready and not in the batch (`JoinedInv`).
- `LockLostByLastOneShotAlways`: the service thread holds the lock at its join
  only with a one-shot timer as the last of the list.
- `ServedAlways`, for clients that pair their calls (`Paired`), as the property
  does. The code starts and joins the thread by the *length* of the list, so the
  invariant `PairedInv` has to say that the list holds every started timer and
  besides those only timers between their calls (`ListHolds`). That is lost when
  the lock is, or when the thread went on with a timer freed under it (`stale`),
  and `PairedInv` says so: both cases are runs of section 3.
- `TimerTypesAlways`: the types; what `TimerInv` lacks of them is that freed entries
  and `ninfo` are timers and that the inits stay within their bound.

`ServicesProofs`, for any number of sends, reports, spurious wake-ups, devices,
listeners, clients, buffers, ids and requests:

- `SuccessIsPaidAlways`. `SuccessIsPaid` alone is not inductive: between the
  wake-up and the return of a send `send_result` may already say success. The
  invariant `PaidIInv` counts that success (`Owed`) as reported; a confirmation
  and a spurious wake-up each pay for one, a timeout takes it back.
- `WaiterWokenAlways`: `WakeIInv` adds that a client that has cancelled the poll
  thread never waits again, since that thread may die with a confirmation in
  its hands.
- `ExactlyOnceAlways`: `FlowInv` follows a token. Each send has one, which the
  wake line, a request frame, the poll thread, a data frame, a confirmation frame
  and the waking of the sender hand on, and `FlowAt(w)` says what holds while it
  is at `w`: no second place has it, what carries the payload carries the
  client's, and the device has received the sends before it. The property and the
  invariant end with `upset` (a failed send, a spurious wake-up, or two threads
  in `send` at once).
- Input, for any devices, listeners and calls: `ReadsLiveDeviceAlways` (the thread
  holds `device_list_lock` exactly while it reads, and a deinit frees the devices
  only under it) and `StartedRunsAlways` (`StartCounts` follows the start count
  through the steps of a stop and of a deinit).
- Camera, for any finite set of clients, any number of buffers and any number
  granted: `StartFailsOnlyAfterAlways`. The counts are cardinalities of the sets
  of clients inside and started, the one in `stop` excepted; the stream is on
  exactly while a start counts; and when it is off the driver's queue is empty
  unless one of the two excuses holds. `CameraAssumption` says that there are
  finitely many clients.
- `InputTypesAlways`, `CameraTypesAlways`: the types, from the same invariants.
- `ListAlwaysMatches` and `ImageBufferAlwaysLives`, from `FpInv`. `Listed` says
  that the first ids of the file are those of the library, each once; what makes
  it inductive is that the id being enrolled is nobody's until the library has it,
  and the file's from the write on (`EnrollInv`, `ListInv`). A deletion is a row of
  system calls: until the list has been read the file still lists the finger that
  the library has lost; while the rest is written, the front of the file that has
  been written and the ids still in `idList` together list what the library has
  (`Mixed`, `Rewriting`), and the count follows last.
- `ZigbeeTypesAlways` and `FingerprintTypesAlways`: the types. For `Zigbee` they hold
  after a failed send as well, where the token of `FlowInv` is lost.

`DevicesProofs`:

- Netlink, for any owners, handlers and counts: `UnregisteredAlwaysOut`. Since a
  registration drops whatever the list held, the list never has a second handler
  (`Single`), and what `UnregisterFinds` puts at its head is nothing: that is what
  the invariant `NetInv` adds.
- Gpio, for any set of pins: `PinsAlwaysAgree`, pin by pin (`Sound`): each
  function of libgpio keeps a sound pin sound. What `PinsAgree` lacks is that a
  watched pin is exported and has its descriptor.
- UartPorts, for any threads, ports and channels: `PortsAlwaysStayOpen` and
  `IoAlwaysReachesItsPort`, for calls in any order. `PortsInv` is, until a race
  (`raced`), what each thread may rely on between look-up and use: one changer of a
  port at a time (`OneChanger`), names in use only once (`TableInv`), what the changer
  knows of its channel at each step (`ChangerKnows`), and that of an io call until
  somebody changes its port (`IoKnows`).
- `NetlinkTypesAlways` and `PortsTypesAlways`: the types. For `UartPorts` they hold
  after a race as well: callers that race may reach the wrong channel, but never
  one outside the table.
- `DevicesTypesAlways`: `DevicesTypeOK`, the types of all six parts, from the types of
  each and `DevicesImplementsParts`.

`DataProofs`:

- RingBuffer, for every capacity and push size: `CursorsAlwaysAgree`, from the
  invariant `RingInvariant` (cursors in range, `head` where the available bytes
  end or one cell behind it, and no lag in a buffer of one cell, which is what
  makes it inductive); and `RingImplementsFifo`: as long as `lag = 0`, a push
  appends to `Content` and a pop takes its front, cell by cell across the wrap, so
  each step is one of `BoundedFifo` or a stutter.
- Flash, for every layout of partitions, block and page size, and every set of bad
  blocks: `FlashInvariant`, and from it `ErasesExactlyAlways` and
  `ReadsBackAlways`. An erase stands at a block with some count still to go; it has
  erased the good blocks passed, and the two counts add up to what was asked
  (`EraseCursor`). A write lays the n-th page of the buffer into the n-th good page
  of its range (`WriteCursor`, and `Written` when it is over), and a read counts
  the same good pages (`ReadCursor`): that the three loops pass the same blocks is
  what the invariant says. It rests on lemmas on whole blocks (`Blocks`, `Times`,
  `BlockOrder`), on the partitions covering the flash without gap or overlap
  (`EndsDef`, `Covered`, by `NatSetInduction`) and on counting one page further
  (`CountRow`, `CountSkip`).

`UartProofs`, for any payloads, stray bytes, chunks, sequence numbers and size of
the ring:

- `HandledAlwaysInOrder` and `AllAlwaysHandled`, under the hypothesis `UartFits`:
  no chunk is cut behind a 0xFE (where it is, `AllHandled` fails: `uart_split`, so
  the hypothesis is needed); a 0xFE among the stray bytes has another byte behind
  it; a packet with its escapes and one more chunk fit into the ring, which in the
  code has 1024 bytes, for packets of at most 256 and chunks of at most 128. TLC
  evaluates `UartFits` for the values of the run `devices` (`MCUartFits`).
  The invariant (`UartInv`) is about what has been written to the line since the
  beginning, `S`, and the places `R`, `W` and `P` in it up to which the parser
  has given back, the ring was filled and the parser has looked: the ring holds
  `S` from `R` to `W` and the line what follows `W` (`Ring`); `S` is the images of
  the packets sent, at the places `at`, and two 0xFE stand together in it only where
  a packet begins (`Line`);
  the packets handled are the ones that end before `R` (`Done`); and a parser that
  is not at a `SYNC1` has before it a packet that begins at `R`, with the state,
  the length and the count that so many bytes of it give (`Sees`). A parser that
  waits has seen all there is (`Waits`). The steps rest on what `pack_build` and the
  escaping produce (`PacketShape`, `ImageShape`), on what the taking of bytes gives
  back (what was escaped: `TakeByte`, `ReadOuts`), and on what filling the ring
  leaves, all three folds over bytes.
- `UartTypesAlways`: the types, which need no hypothesis: whatever the bytes, the
  cursors stay inside the ring and the lengths within 16 bits.

**Side by side.** `ThreadsImplementsParts`, `ServicesImplementsParts` and
`DevicesImplementsParts`: a behaviour of a union is one of each of its parts, with
the fairness the part states, so that every theorem about a part holds in the
union, which is what the runs check.

The assumptions are the `...Assumption` of each module, which TLC evaluates in
the runs, and the hypotheses named with the theorems: `Paired` and
`UartFits`, each of which the passing runs fulfil.

All invariants and all action properties that the passing runs check are
theorems. Only model-checked is liveness (`DestroyReturns`, `QueuedWorkRuns`,
`DeinitReturns`, `CamStopReturns`, `AlarmDelivered`, `FirstStopReturns`,
`CallsReturnOrDeadlock`, `TimersFireOrDeadlock`, `SendsReturn`,
`RequestsAnswered`): fairness and ENABLED are out of the prover's reach. The
converse of the composition theorems, that a union adds nothing but also loses
nothing, is by construction (section 2). `BegunInOrder`, `FlashInvariant` and the
types of the modules outside `Devices` are proved and are no property of a run.

## 5. What was found

With a run of its own, which shows the counterexample:

| run | where | what |
|---|---|---|
| `alarm_restart` | `alarm_manager.c:253` | `set_repeat` arms the device only for a new first entry; a stale entry of an earlier session stays first for ever, and the next `stop` hangs |
| `timer_unpaired` | `timer_manager.c:166` | the thread is started when the list has one entry, not when one timer is started |
| `timer_stuck` | `timer_manager.c:128` | the service thread joins itself with `list_lock` held when the last one-shot timer expires |
| `zigbee_answer` | `zigbee_manager.c:182` | an answer carries no number and is taken for the answer of the send under way |
| `uart_split` | `uart_protocol.c:178` | a 0xFE is judged by the byte behind it before that byte has arrived |
| `input_unregister` | `input_manager.c:1037` | unregistering a listener's last callback frees the whole list of listeners |
| `netlink_register` | `netlink_listener.c:173` | a register walks with `head` itself and drops the handlers that were there |
| `flash_lost` | `base.c:353` | a write that meets a block gone bad loses the pages already in it and returns the whole length |

Seen while modelling, and part of the models:

- `thread_pool.c:233`: `pthread_create(...) < 0` never sees an error, which is a
  positive number: `init` returns 0 with threads missing.
- `input_manager.c:731`: `scan_devices` returns with `device_list_lock` held
  when there is no device; `:943`: a deinit stops once whatever was started.
- `netlink_listener.c:191`: an unregister that finds its handler returns with
  the lock held; battery and vibrator manager free handlers that are registered.
- `uart_manager.c:56`: two inits can take one channel, or open one port twice.
- `libgpio.c:71`: `unexport` leaves `valid` set, so that the open after a close
  returns 0 without exporting the pin.
- `capture.c:237`: a stop during a client's callback makes every later start
  fail, until the device is opened anew; `camera_v4l2_manager.c:95`: a second
  `init` overwrites `nbuf`.
- `fpc_fingerprint.c`: the first enrolment after a restart, or one that meets a
  `get_template_info`, writes its id at a stale file offset.

Hazards the models leave out, beside those listed in `PROJECT.json`:

| where | what | why |
|---|---|---|
| `thread_pool.c:100` | destroy tests `exit` before it takes the lock: two destroys at once | the owner is one thread in every use |
| `timer_manager.c:58` | the id of a freed timer finds the list head cast to a timer | clients use ids they own |
| `timer_manager.c:125` | a listener that calls the manager meets a stop that waits for it | no listener in the repository does |
| `timer_manager.c:250` | an id is 16 bits of an address | needs a model of the allocator |
| `alarm_manager.c:350`, `:383` | a cancelled alarm may still fire; a listener that calls `stop` joins itself | the first is part of `Zigbee`; no listener does the second |
| `zigbee_manager.c:499`, `:144` | several senders share one buffer and alarm; SIGIO delivered to the poll thread | the manual forbids the first; the kernel prefers the main thread |
| `uart_protocol.c:282`, `:506`, `:94` | lengths from corrupted packets; a full ring; the wrap of `sn` | packets arrive intact in the runs; the ring is emptied after every chunk; the wrap is in `MCFirstSn` |
| `uart_manager.c:168` | the clean-up of a failed init dereferences a missing channel | there are as many channels as ports |
| `fpc_fingerprint.c:644` | destroy frees the image buffer and keeps the pointer: every later init of the program fails | the model does it; no property is about a second session |
| `mtd.c:319` | `mtd_block_lock` is given back by exit only: an init during a session loses the manager, and the init of the next session waits for ever | the model does it; no property is about it |
| `ring_buffer.c:56` | a `realloc` that fails loses the buffer | allocation never fails in the models |

## 6. What could come next

`Timer` with listeners that call the API and a second client; `Zigbee` with a
second session; corrupted packets in `UartProtocol`; the usb device manager on
the pattern of `UartPorts`. Of proofs: the stop of `Alarm` after a restart,
where the property fails, with the condition under which it holds; and leads-to
properties, once a prover for them is at hand.
