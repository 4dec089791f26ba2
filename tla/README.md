# Verification of the Unikraft kernel core

TLA+ specifications, TLC configurations and TLAPS proofs for the Unikraft kernel
that this repository carries under
`src/experiments/tab_04_kvs_compare/aux/unikraft` (written `U/` below).

## 1. The system

The repository is the artifact of a paper on Unikraft.  Most directories
(`experiments/fig_*`, `plots`, `support`, `tools`) hold scripts that build images
and measure them.  The program is the kernel used for the key-value-store
experiment: a library operating system, one address space, one CPU per image,
threads that give up the CPU only by calling the scheduler, and interrupt
handlers that may run wherever interrupts are not disabled.

| part | source | modules |
|---|---|---|
| cooperative scheduler | `U/lib/ukschedcoop`, `U/lib/uksched`, `U/plat/kvm` | `SchedCoop`, `TailQueue` |
| wait queues, locks | `U/lib/uksched/include/uk/wait.h`, `U/lib/uklock` | `WaitQueue`, `Semaphore` and `SemaphoreAbs`, `Mutex` and `MutexAbs` |
| threads | `U/lib/uksched/thread.c`, `sched.c` | `Threads` |
| mailboxes | `U/lib/ukmpi` | `Mbox`, `BoundedFifo` |
| buddy allocator | `U/lib/ukallocbbuddy` | `Buddy`, `PageAlloc` |
| lock-free ring | `U/include/uk/ring.h` | `RingBulk`, `RingFifo` |
| virtio rings | `U/plat/drivers/virtio/virtio_ring.c` | `VirtQueue`, `VirtQueueAbs` |
| network driver | `U/plat/drivers/virtio/virtio_net.c`, `U/lib/uknetdev` | `VirtioNetRx`, `VirtioNetTx` |
| block driver | `U/plat/drivers/virtio/virtio_blk.c`, `U/lib/ukblkdev` | `VirtioBlk` |
| 9P client and its transports | `U/lib/uk9p`, `virtio_9p.c`, `U/plat/xen/drivers/9p` | `Uk9p`, `Virtio9p`, `P9Front` |
| Xen platform | `U/plat/xen` | `XsComms`, `Xenbus`, `Gnttab` |
| files | `U/lib/vfscore` | `FdTable`, `Pipe`, `ByteStream` |

The proofs are in eight modules of their own, see section 6.

How the parts lean on each other: a mailbox is two semaphores and a ring; a
semaphore or mutex is a count and a wait queue; a wait queue blocks and wakes
threads; the scheduler keeps them on its lists; interrupt handlers call `up`,
`post_try` and `wake_up` from the other side.  The three virtio drivers share the
virtqueue, the two 9P transports share the 9P client; the Xen front ends connect
through the Xenstore, whose messages `XsComms` carries, and give pages to their
back ends through the grant table.

Composition goes upward.  The clients of the scheduler (`WaitQueue` and what
extends it) call its operators and are checked to implement its specification.
`Mbox` uses the abstract semaphore that `Semaphore` is shown to implement, and
`Virtio9p` the abstract virtqueue that `VirtQueue` is shown to implement.
`VirtioNetRx`, `VirtioNetTx` and `VirtioBlk` extend the detailed virtqueue,
because their questions are about its interrupt suppression.

What is hard: interrupts between any two instructions of thread code, in
particular between the test of a condition and the switch to another thread;
deadlines that race wakes; one list link shared by three lists; memory freed by
whoever runs next; wake-ups of all waiters for one token; indices that wrap;
devices, back ends and the store, which act at any time and in any order.

## 2. Conventions

A section with interrupts disabled is one action; so is code of one thread between
two points where another thread or a handler could see a difference.  Threads are
cooperative: in the modules above the scheduler another thread runs only where the
running one waits, yields or returns.  What is not code of this repository (virtio
devices, Xen back ends, the store, other domains) is modelled by what the drivers
rely on and marked external in `PROJECT.json`.

Definitions named `Bad...` are wrong variants of the definition that follows
them.  No specification uses them: they serve to confirm that each property fails
when the code is changed.

Each bundle of invariants of a component has one name (`IInv`, `SemInv`,
`BuddyInv`, ...); its conjuncts are separate definitions with a comment each.

## 3. Modules

### TailQueue, SchedCoop

`TailQueue` has the lists of `compat_list.h` that scheduler and 9P client use, as
sequences.  `SchedCoop` models `schedcoop.c` with the parts of `thread.c` and `sched.c` that share its
state.  `cur`, `next` and `mode` say where the CPU is; `runq`, `sleeping` and
`exited` are the three lists; `runnable`, `queueable`, `isExited` and `detached`
are the flags, as sets of threads; `wakeup` is `wakeup_time`; `alive` is the set
of threads whose memory is allocated; `pending` is `sched_have_pending_events`.

Loops over a list (waking expired sleepers, reaping) take one action per
iteration, and `schedcoop_thread_remove` is split around the wake-up loop it
contains; no interrupt is enabled in between (`IrqsEnabled`).  Reaping runs with
interrupts on.

| code | actions |
|---|---|
| `schedcoop_schedule` | `WakeExpired`, `PickNext`, `PickPrev`, `Halt`, `HaltPending`, `HaltTimeout`, `Switch`, `Reap`, `ReapDone` |
| `idle_thread_fn`, `schedcoop_yield` | `IdleLoop`, `Yield` |
| `uk_sched_thread_create` + `schedcoop_thread_add` | `Create` |
| `uk_thread_block_until` + `schedcoop_thread_blocked` | `Block` |
| `uk_thread_wake` + `schedcoop_thread_woken` | `Wake`, `IrqWake`, `RemoveWake`, `WakeExpired` |
| `schedcoop_thread_remove` + `uk_thread_exit` | `RemoveBegin`, `RemoveWake`, `RemoveEnd`, `ExitSchedule` |
| `uk_thread_detach`, end of `uk_thread_wait` | `Detach`, `Destroy` |
| `_ukplat_irq_handle`, clock | `IrqWake`, `IrqOther`, `Tick` |

`SchedSpec` is the most general legal client.  The rules it imposes, none of
which the code checks, are: a thread blocks only itself; only threads that exist
and have not exited are woken; a thread that is killed is on the run queue
(`schedcoop_thread_remove` unlinks it from there unconditionally); only exited
threads are destroyed.  `IrqCurrent` allows for both answers `uk_thread_current`
can give in a handler during a switch.

The halt is that of KVM on x86.  An interrupt that arrives between enabling
interrupts and the halt instruction is remembered in the pending-event bit, which
is tested after the next timer interrupt; the model's `HaltPending` covers both.
`HaltTimeout` may happen at any time, since the ten-second limit may.

### WaitQueue, Semaphore, Mutex, Threads

`WaitQueue` splits `__wq_wait_event_deadline` at the points where interrupts are
on: first test, link and block, second test, yield, wake oneself and unlink
(`pc`).  `wake_up` takes one action per waiter while `waking` is not empty and
nothing else happens.  `Semaphore` adds `count`, `Mutex` adds `lock_count` and
`owner`, `Threads` adds the queues of joiners and an event signalled by a handler
(after the bottom half of the Xen 9P front end).

`Threads` states what the scheduler expects of its callers as guards: one joiner
per thread, no detach of a thread that is being joined, and no kill of a thread
that is inside `wait_event`; `KillWaiters` drops the last one.

`SemaphoreAbs` and `MutexAbs` are the promises: a call takes effect in one step.

### Mbox, Buddy, RingBulk

`Mbox`: two instances of `SemaphoreAbs`, and the ring with its two positions.  The
position update, which the code does with interrupts off, is one step; handlers
post and receive in one step.  `BoundedFifo` is the promise.

`Buddy`: `addmem` with its arithmetic in bytes (bitmap size, alignment, the skipped
allocator structure), `palloc` with splitting and `pfree` with merging.  Free lists
are sequences in the order of the code.  The `level` of a free chunk lies in
the chunk itself, so whatever a client writes into its pages (`Data`) may be read as
the level of a chunk that is in use; the code must look at the bitmap first.
`PageAlloc` is the promise: disjoint ranges of pages.

`RingBulk`: each access to a shared index is a step; the result of
`ukarch_compare_exchange_sync` is modelled as the macro computes it (the new value
or the old one, tested for zero), see Disagreements.  `RingFifo` is the promise: a
bulk call takes effect in one step.  An exchange that stores 0 counts as a failure,
and is tried again; the model goes on from there, and `zeroed`, which no action reads,
remembers it for `FifoRing`.

### VirtQueue and the virtio drivers

`VirtQueue` keeps descriptors with links and flags, the free list threaded through
them, both rings and all four indices modulo `IdxMod` (2^16).  The device takes
chains, returns them in any order (`DevReturn`) and decides separately, from the
flag it then reads, whether to interrupt (`DevAnnounce`).

`VirtioNetRx` follows `virtio_netdev_recv`, `rx_fillup` and
`virtqueue_intr_enable` line by line where the device or the handler can interfere,
with lwIP's dispatcher and poll as the users.  `VirtioNetTx` follows
`virtio_netdev_xmit` in both header layouts: it puts as many packets into the ring as
there are descriptors, whether a packet takes one or two.  Packets of a burst that are
not sent although the caller is told so go into `lost`, which no action reads; a burst
that takes more descriptors than there are fails the assertion of
`_virtnet_buffer_enqueue`, and the model ends (`XmitOverrun`).

`VirtioBlk` follows
`uk_blkdev_sync_io`, the enqueue, the completion loop and the re-enabling of interrupts,
with and without dispatcher threads.  Where the handler completes requests itself it
changes the ring under a thread, so the accesses to the ring are split: the enqueue
between the reading and the writing of the free list's head (`Submit`, `Enqueue`), the
dequeue between the test for a response, the taking of the entry and the writing of the
free list's head (`Found`, `Take`, `Complete`).  A thread goes on with what it has read,
whatever the ring has become; `stale` says that this was no longer so when it wrote, and
the model ends with the step that sets it, since links and counts no longer fit.  The error
paths of `virtio_blkdev_queue_enqueue`, which return without freeing the request, are
not modelled.  A response of a wrong length ends the loop before the callback, and
its caller waits on; nothing is claimed of that caller.

### Uk9p, Virtio9p, P9Front

`Uk9p` has the requests (state, tag, reference count), the tag bitmap, both lists
and the steps of a caller: create, send, wait for room, wait for the reply, remove.
`wait_event` is split where a handler can come in between (`pc` of a call: test,
link and block, test again, unlink); a caller that has blocked and given up the CPU
is in `blocked` until a wake-up.  The transports add the queue or the rings, the
interrupt handler, and for Xen the bottom-half thread.

`Virtio9p`: `recv` says where `virtio_9p_recv` is; each round of its loop is a step,
and the device may answer between two rounds, but no thread runs.  `P9Front`: the
bottom half waits for `data_avail`, looks a reply's tag up in the list of requests
(`Lookup`, the first match) and wakes that request's caller.  Messages are tags; a
message also remembers, for the properties only, which request it is about (`for`).
Servers answer every request once and well-formed: `uk_9preq_receive_cb` drops a
reply of a wrong size and its waiter sleeps on.  `Uk9pAssumption` says that there are
no more callers than tags, which holds of 65535 tags; beyond that see section 5.

### XsComms, Xenbus, Gnttab

`XsComms`: the pool (`bm`, `num_live`, `last_probed`), the queue of requests, the
xenstore thread, the shared page with its four free-running indices, replies, watch
events and the store's own sleep, which only a notification ends.  Of a message the
ring keeps identifier, length and the index of its first byte (`at`), so that the
bytes of two messages can be told apart, and for the properties whose it is (`from`).
A message may come in pieces.  `UK_ASSERT` failures do not stop the model.  A wait on a wait queue
is one step; that the wait queue loses no wake-up is what `Semaphore` and `Mutex`
check of it.  A failed `malloc` for a message changes nothing and is no step.
`IdxMod > 2 * Ring` holds of 2^32 and 1024; with equality the differences of the
indices would be ambiguous.

`Xenbus`: the store's three nodes of a device (both states and the rings), the
watch with its queued events, and the two drivers' protocols, `driver` being 9p or
blk.  A request to the store is one step; its `EAGAIN` retry is no step.  The back
end follows the states a back end may take, may close at any time, come back, or
have its directory removed.

`Gnttab`: the free list as the array it is, the semaphore, the flags that the other
domain changes, and the calls split between semaphore and list, and between the
reading of the flags and their exchange.  The other domain may act between these two as
at any other time.  The code takes a failed exchange for a successful one; `missed`,
which no action reads, remembers the entries to which that happened.

### FdTable, Pipe

`FdTable`: bitmap, table and reference counts, with `open`, use of a file across a
blocking call, `dup`, `dup3`, `close`, and the reservation, installation and
cancellation by `pipe` and `socket`.  The descriptors are those after the standard
ones.  `MaxCount` bounds counts.

`Pipe`: the buffer with its free-running indices, iovecs, waiting in both
directions, non-blocking calls and closing.  The vnode lock leaves one call per
end.  `ByteStream` is the promise.  `pipe_buf_read` computes the size of the first of two
copies from an index that is not reduced, as an `int` (`FirstCopy`): what the copies
leave in the caller's buffer is `CopiedOut`, where bytes from behind the pipe's buffer
may be any, and a negative size, which `memcpy` takes for a huge one, ends the model
(`ReadFault`).  Closing wakes nobody and gives no end of file to
a sleeping reader, as in the code.

## 4. Runs

| run | checks | bounds | states |
|---|---|---|---|
| sched | `IInv` (lists, flags, freed memory, halt), `ScheduleAsserts`, `RunQueueFifo` | 3 threads, clock 0..2 | 151 k |
| sched_live | `ReadyRuns`, `SleeperWakes` | 2 threads, clock 0..2 | |
| semaphore | `SemInv`, `NoLostWakeup`, `SchedSpec`, `AtomicSemaphore` | 3 threads, count 0..2, clock 0..2 | 370 k |
| semaphore_live | `LiveSemaphore` | 2 threads, count 0..1, clock 0..2 | |
| mutex | `MutexInv`, `MutexNoLostWakeup`, `LiveMutex` | 3 threads, depth 2 | 5 k |
| threads | `ThreadsInv`, `JoinNoLostWakeup`, `SchedSpec` | 3 threads | 165 k |
| threads_live | `JoinReturns`, `DetachedFreed` | 2 threads | |
| threads_kill | `ScheduleAsserts`, expected to fail | 3 threads | |
| libs | `MboxInv`, `FifoMailbox`, `BuddyInv`, `PagesNotShared`, `FifoRing` | below | 576 k |
| virtio | `DescPartition`, `BuffersComeBack`, `RxInv`, `TxInv`, `BlkInv` | below | 1.60 M |
| io | `XsInv`, `OwnReply`, `XsRing`, `BitmapInv`, `V9pInv` | below | 1.51 M |
| waiting | `PInv`, `StreamOfBytes`, `WaitersServed`, `BusInv`, `WaitsEnd`, `P9fInv`, `GntInv` | below | 301 k |

Components that do not interact share a run: each behaviour is that of one of them
and the others rest (`part` in `MCVirtio`, `MCIo` and `MCWaiting`; in `MCLibs` a
component moves while the other two are in their initial state), so every component
goes through all its behaviours and the numbers of states add up.

**Scheduler and locks.**  Two threads and the idle thread are enough for a wake in
the window of a switch; the third thread gives two waiters that compete for one
token while another runs, and a thread that is killed while others are queued on both
sides of it.  A clock of three values gives two different deadlines, one of which
has passed.  Memory of a thread is reused by `Create` as soon as it is freed.
`SchedSpec` is a PROPERTY of the semaphore and thread runs: those modules' steps on
the scheduler's state are steps of the general client, so what is proved of
`SchedSpec` holds of them.  `LiveMutex` is the refinement of the fair abstract
mutex: safety and liveness in one.

**libs.**  Mailbox: three threads and handlers, two slots, two messages; the ring of
three wraps, fills and empties, and a wrong order shows.  Allocator: a range that is
not aligned and leaves five pages of data, one that leaves two and one that is too
small; requests of up to three pages; junk in memory that looks like levels 0 and
1.  Ring: four slots, one producer, one consumer, calls of up to two elements, indices
that wrap after three laps, at 0 exactly or past it.

**virtio.**  Queue: four descriptors, chains of up to three, bursts of two, indices
that wrap after two laps.  Reception: two descriptors, calls for one packet with an
allocator that always delivers, or for two with one that may be short; packets of a
legal size.  Transmission in both layouts: four descriptors and one packet per call, or
two descriptors and bursts of two.  Block I/O: two callers, with a dispatcher thread and
requests of two and three descriptors, or with callbacks in the handler, requests of two
and responses that may lack a status; the device may be stopped.

**io.**  Xenstore: three callers for two requests, so that one waits; a ring of two
bytes, which a message fills, so that both sides wait for room; indices that wrap
after three laps; one watch event.  Descriptor table: two threads, three descriptors,
two files.  9P: three callers on a virtqueue with room for two requests.

**waiting.**  Pipe: a buffer of two bytes, indices and sizes modulo eight, reads that go
around its end and writes longer than it, blocking or not, ends that close.
Xenbus: both drivers, a back end that closes twice and may vanish.  9P on Xen: three
callers, two request structures, rings with room for one message.  Grant table: two
threads, three entries, handlers that give entries back, and another domain that acts at
any time.  The two transports are in different runs because they share the state of `Uk9p`.

`VIEW` in `libs` and `virtio` leaves out slots of rings that are written again before
they are read, heads that are read again before they are used, and flags of free
descriptors; neither the guards nor the properties look at these, except that the step
that ends the model of block I/O (`stale`) may read an old entry of the used ring.  Symmetry is used
for threads, buffers and messages where no definition chooses among them, and not in
runs with liveness.  `virtio`, `io` and `waiting` run with `CHECK_DEADLOCK FALSE`:
models stop where an assertion of the code fails, memory is overrun or memory that was
freed would be used, a descriptor table can be full of descriptors that nobody closes, a pipe or front
end ends when both sides are closed, and 9P callers on Xen may wait for a reply that was
lost (section 5).

**Fairness.**  The scheduler's own code is executed (weak).  A running thread calls
the scheduler after finitely many steps, which is what cooperative scheduling
asks of it; as handlers and its own calls may interrupt it again and again, this is
strong fairness of `Yield`.  The clock advances; it is strong because the model's
clock stands still while interrupts are off.  A halt ends once a deadline has
passed.  Above the scheduler, fairness is strong where a handler's `up` suspends
the interrupted code: handlers do not use up the whole CPU.  Nothing is assumed of
unlocks, ups, exits or interrupts.  For semaphores liveness needs `IrqTakes =
FALSE`: a handler that takes each token just after the waiter has seen it can keep
the waiter looping in `down` without end.  A particular waiter may be overtaken
forever; what is claimed is that some waiter succeeds.  `DetachedFreed` supposes
that threads resume in the scheduler over and over, since only a thread that
resumes there frees others.  In `waiting` the calls in progress, the driver's thread
and the xenstore thread are run by the scheduler while they are runnable (this is
`ReadyRuns`), and the back end answers; nothing is assumed of new calls, closes or
a vanishing back end.

## 5. Disagreements between the code and what is said of it

**threads_kill** (checked by a run).  A waiter that an interrupt has woken is on the
run queue, but its entry stays linked on the wait queue until it runs.  If it is
killed then, as `p9front_free_dev_ring` does with the bottom half before it unbinds
the event channel (`U/plat/xen/drivers/9p/9pfront.c:188`), the entry remains; the
next interrupt's `wake_up` appends the exited thread to the run queue, and
`schedcoop_schedule` fails its own assertion `UK_ASSERT(!is_exited(next))`
(`schedcoop.c:97`).  `ThreadsInv` in run `threads` shows the rule under which it
cannot happen.

No listed run checks the following.  TLC reports each of them when the run's
configuration checks the named invariant alone, with the constants changed as given
(constants of an INSTANCE are set in the MC module).  The passing runs keep to the
values for which the code does what it should, or do not state the invariant, or state
it up to the step where the code departs from it.

| where | what | how to see it |
|---|---|---|
| `bbuddy.c:411` | with 32450 pages for bitmap and data `addmem` links in one page more than the region's bitmap covers, and its allocation fails `map_alloc`'s assertion (:155) | `libs`, `SmallRanges` with `<<Page(1), Page(32452)>>`, of which two pages are skipped: `MapAsserts` |
| `ring.h:137` | the result of the compare-and-exchange is taken for a truth value: a producer that lost it goes on with the slots of the winner | `libs`, `Producer = {p1, p2}`: `BulkNotShared` |
| `ring.h:137,198` | the same, for an exchange that moves a head to 0: it is tried again, and slots are reserved or taken that nobody fills or reads | `libs`: `FifoAlways` |
| `virtio_net.c:1413`, `virtio_blk.c:447` | the bit that says interrupts are on is set after they are on; an interrupt in between makes the next receive fail "Queue interrupts have to be off when calling receive" | `virtio`: `Rx!RecvAssert`, `Blk!CompleteAssert` |
| `virtio_net.c:903` | a receive call that finds only packets of an illegal size returns before it refills the ring and enables interrupts | `virtio`, `Lens` of `RxFull` with "bad": `RxFull!Rearmed` |
| `virtio_net.c:600,652` | a burst is sent in part and reported as sent ("`pkt` was successfully put to the transmit queue", `netdev.h:499`); without `any_layout` it overruns the ring | `virtio`: `TxBurst!NoneLost`; `TxBurst!TxAssert` |
| `virtio_ring.c:302,368` | without dispatcher threads a completion in the handler comes between the reading and the writing of the free list's head, and descriptors are lost; or between the test for a response and its taking, and a request that is under way is completed or an assertion fails ("must be called in queue interrupt context or another thread context", `blkdev.h:427`) | `virtio`: `BlkIrq!NothingStale`; `BlkIrq!BlkPartition`, `BlkIrq!RequestsLive` |
| `virtio_blk.c:692` | stop succeeds while the device works on a request ("will return -EBUSY", `blkdev.h:477`) | `virtio`: `Blk!StoppedEmpty` |
| `9pdev.c:370` | when all tags are in use a request gets tag 0, which is in use ("no available tags" is promised as an error, `9pdev.h:120`) | `io`, `NumTags` 2, without `ASSUME Uk9pAssumption`: `TagsExact` |
| `9pfront.c:104` | a reply announced between the bottom half's last look at the ring and its reset of `data_avail` stays in the ring | `waiting`: `NoReplyLost` |
| `gnttab.c:142` | a page mapped between the reading of the flags and their exchange leaves the flags in place, and the entry becomes free | `waiting`: `FreeNotInUse` |
| `main.c:1466` | `dup3` drops the reference that the table has taken over | `io`: `RefsCovered` |
| `fd.c:193` | `fdalloc` keeps its reference when the table is full | `io`, `Calls` without "dup3": `CountBalanced` |
| `fd.c:160` | a call on a descriptor that is reserved and not yet installed uses a null pointer | `io`: `NoNullFile` |
| `pipe.c:553` | `pipe` with a full table fails the assertion of its error path | `io`: `PipeAssertHolds` |
| `pipe.c:199` | after the first lap a read around the end of the buffer computes its first part from an index that has not been reduced | `waiting`: `StreamAlways`, `NoFault` |
| `xs_comms.c:325` | the assertion on the producer index compares wrapping indices by size | `io`, `Ring` 3, `IdxMod` 9, `ReqLen` {0}: `WriteAssert` |
| `xs_comms.c:390,553` | a request or reply larger than the ring is never sent or read | `io`, `ReqLen` {3} or `RepLen` {3}: no caller ever reaches "replied" |
| `9pfront_xs.c:308` | the 9P front end reports success when the back end has gone past Connected | `waiting`: `P9UpMeansConnected` |

A receive ring that has run empty while no buffer could be allocated stays empty if
its user only waits for interrupts; `RxInv` claims refilling only where allocation
succeeds (`ShortFill` FALSE).

## 6. Proofs

All theorems hold for every value of the constants that satisfies the named
assumptions of the modules (`ThreadAssumption`, `XsAssumption`, ...), which ask for
no more than that sizes are positive, sets of threads finite where they are counted,
NULL is not a thread, and index ranges suit the buffer.  Other assumptions are in
the statement and in the last column.  The invariants in the table are
invariants of a run, or conjuncts of one, so that TLC has seen them hold on a small
instance; the exception is `RefsCovered`, which is false with the `dup3` of the run
(section 5).  The modules of these runs EXTEND the component's module: what TLC checks
is the definition that the theorem names.  The unlisted theorems take a single conjunct
out of one of these.

| module | theorem | assumption |
|---|---|---|
| `SchedProofs` | `Invariance`: `IInv`; `AssertsHold`: `ScheduleAsserts`; `RunQueueIsFifo`: the action property `RunQueueFifo` | |
| `SyncProofs` | `SemInvariance`: `SemInv`; `SemNoLostWakeup`; `SemImplementsSched`; `SemImplementsAbs`: refinement of `SemaphoreAbs` | |
| | `MutexInvariance`: `MutexInv`; `MutexNoWakeupLost`; `MutexImplementsSched`; `MutexImplementsAbs`: refinement of `MutexAbs` without its fairness | |
| | `ThreadsInvariance`: `ThreadsInv`; `ThreadsNoLostWakeup`; `ThreadsImplementSched` | no waiting thread is killed (`~KillWaiters`) |
| `LibProofs` | `PipeInvariance`: `PInv`; `PipeImplementsStream`: `StreamOfBytes`, refinement of `ByteStream` but for what late reads around the end return | |
| | `MboxInvariance`: `MboxInv`; `MboxImplementsFifo`: refinement of `BoundedFifo` | |
| `RingProofs` | `RingImplementsFifo`: `FifoRing`, refinement of `RingFifo` up to an exchange that moves a head to 0 | one producer and one consumer |
| `XsCommsProofs` | `XsInvariance`: `XsInv`; `PoolIsExact`; `WakeupsArrive`; `RepliesAreOwn`: `OwnReply`; `RingsAreWhole`: `XsRing` | |
| `TableProofs` | `BitmapIsExact`: `BitmapInv`, with every call | |
| | `FilesStayReferenced`: `RefsCovered` | no `dup3` |
| | `EntriesInvariance`: `EntriesInv`; `ClaimsAreMet`: `GetAssert` | |
| | `GntInvariance`: `GntInv` | |
| | `BusInvariance`: `BusInv` | |
| `P9Proofs` | `V9pInvariance`: `V9pInv` | `Uk9pAssumption`; the virtqueue has room for a request |
| | `P9fInvariance`: `P9fInv` | `Uk9pAssumption`; a ring has room for a message |

`QueueLemmas` holds lemmas only, on sequences (what inserting at either end, taking the
head and unlinking do to the members of a list and to its being free of duplicates)
and on remainders.  Where a module needs cardinalities, `INSTANCE FiniteSetTheorems`
stands in front of the lemmas that use it and not at the top: each fact in scope costs
the provers time.  For the same reason the descriptor table, the grant table and Xenbus,
which share nothing, have a module of proofs of their own (`TableProofs`).

*Scheduler.*  No one of the properties is inductive.  That the run queue stays free
of duplicates when a thread is woken needs that a thread which is not runnable is not
on it (`RunQueueExact`); that needs the flags of a thread that is being switched away
from (`queueable`); that a wake removes the thread from the sleeping list exactly
when it is there needs `SleepingExact`; that an exited thread is never queued
again needs that the exited list holds exactly the exited threads that are not
freed (`ExitedExact`).  `IInv` is the conjunction of all of these with
`FlagsConsistent`.  The proof has one lemma per kind of step: waking (`WakeInv`, used
for threads, handlers, expired sleepers and joiners), blocking, destroying, moving
between places of the scheduler's code (`ModeInv`), choosing the next thread,
switching, creating, and the two halves of removal.  `RunQueueFifo` follows from
lemmas that these operations keep the order of the members.

*Wait queues and their users.*  `WaitInv` adds to `IInv` that an entry is linked
exactly while its thread is inside `wait_event` (`WaitqExact`), that such a thread
exists (`WaiterSound`), and what the loop of `wake_up` may rely on (`WakeUpSound`).
The second half of `SchedProofs` shows that each step of `WaitQueue` keeps it and is
a step of `SchedSpec`'s client; semaphores, mutexes and threads then only add their
own fields.  That no wake-up is lost is not inductive for threads that sleep: the
invariants say it already of those whose second test has failed and which are about
to yield (`Dozes`).  The refinements map a call to what the caller is inside of
(`callBar`, `wants`).  `ThreadsInv` also says that a joiner's thread is neither
detached nor freed before the joiner has seen it exit (`JoinSound`).

*Mailbox.*  The assertions on the positions follow from `TokensExact`: each slot is
covered by a token or by a call that has taken one.  Since calls keep the CPU from one
token to the next (`CallsExact`), these calls are at most one, and the cardinalities
are 0 or 1.  The refinement maps the ring, read from `readpos`, to a sequence;
`PutAppends` and `GetTakesHead` say what the two position updates do to it.

*Pipe.*  `PInv` says that the buffer holds at most its capacity, as the difference of
two wrapping indices, and that a sleeper has nothing to do.  For the refinement,
`WriteAppends` and `ReadTakes` say that the bytes between the indices grow at their
end and shrink at their front, across the end of the buffer and of the indices.  A read
that is not late returns the bytes it takes, because the size of the first part is then
that of the bytes up to the end of the buffer.

*Descriptor table.*  `BitmapInv` is inductive with the types.  `RefsCovered` counts
the table entries and calls that refer to a file; it is inductive together with
`BitmapInv` (`CoverInv`), because an entry whose bit is clear must be empty.  Lemmas
say what setting and clearing an entry does to the count.

*Ring.*  The invariant `BulkInv` says what is known at each place of the two calls
(`Enqueues`, `Dequeues`) and that the distances between successive indices, as differences
of numbers that wrap, add up to at most the size (`Taken`, `Ready`, `Filling`; `InOrder`).
What moving an index does to the distances is said once (`Distances`, `Moved`, `AddUp`).
A slot that is being filled is never one that is still to be read,
because indices less than the size apart have different slots (`SlotsDiffer`).  An
enqueue takes effect when it publishes its slots, a dequeue when it moves the
consumer's head; `FromGrows` and `FromSplits` say what this does to the elements
between the indices, and `CopiedOne` that what a consumer has copied and what it will
copy together stay the same.  From an exchange that moves a head to 0 on nothing is
claimed (`RingInv`).  With two producers the statement is false, see section 5.

*Xenstore.*  `XsInv` joins three arguments.  The pool: count, bitmap and callers
agree, which needs that no two callers hold the same entry (`OneCaller`).  The
requests: an identifier is on its way once, in the queue, in a ring or with the store,
and its caller waits (`InFlight`); so the reply that arrives is the caller's
(`OwnReply`), although `xs_request_put` frees the identifier at once.  The rings:
messages lie one after the other, also where the indices wrap (`InARow`), which rests
on the arithmetic of `Back` (`BackFacts`, `BackMoves`).  The last part of
`XsCommsProofs` puts the three together, one step of the proof per action.

*Grant table.*  That the list goes through all free entries once is said with a depth
for each entry (`Linked`) and not with a recursive walk: taking the first entry drops
the deepest (`PopKeeps`) and giving one back adds one (`PushKeeps`).  `EntriesInv`
holds whatever the other domain does to the flags.  That a free entry is not in use
unless it is in `missed` is proved together with what combinations of flags there are
(`FlagsInv`): only an entry that was granted and not mapped passes the test of the call,
and only a change after that makes its exchange fail.

*Xenbus.*  `BusInv` adds to the three properties that a waiting driver has its watch
set (`Watched`), what a stage of the disconnection tells of the states of both ends
(`StageTells`), and that the block front end has announced itself as connected before
it decides (`Announced`).

*9P.*  `Uk9pInv` is what both transports keep: tags of listed requests are different
and exactly those of the bitmap, a listed request belongs to one caller, its state
fits the place where the caller is (`Fits`), and who is blocked is linked on the queue
it waits on.  Each is needed for the others: a new request may be taken from the free
list only because nobody waits on it, and this because its last caller had left its
wait queue.  A new tag is free because each tag in use belongs to a caller and the
creating one has none, so that fewer are in use than there are callers (`TagLeft`); it
is the least (`LeastOf`, by the well-foundedness of the numbers).  The virtio
transport adds that the virtqueue has exactly the requests that are SENT, from which
the reference counts follow; the Xen transport that each message in flight bears the
tag of its request, from which follows that the lookup finds that request
(`LookupFinds`).  The lemmas on `Uk9p`'s steps are shared by both.

Only model-checked:

- liveness, which is outside what the prover handles: `ReadyRuns`, `SleeperWakes`,
  `LiveSemaphore`, the fairness in `LiveMutex`, `JoinReturns`, `DetachedFreed`,
  `WaitersServed`, `WaitsEnd`;
- what is about recursive data or sums, and would need induction over data: free lists
  and bitmap of the buddy allocator (`BuddyInv`, `PagesNotShared`), chains of
  descriptors (`DescPartition`, `BuffersComeBack`) and the drivers on top of them
  (`RxInv`, `TxInv`, `BlkInv`).

## 7. Not modelled

The components list of `PROJECT.json` names each part and the reason.  In short:

- single-object operations, `peek`, `advance` and `putback` of `ring.h`, and the
  instructions inside `refcount.h`: the bulk operations show the same protocol, and
  the counters' users are modelled with the counts;
- the list of schedulers (`uk_sched_register`, `uk_sched_set_default`): boot registers
  the only one;
- the request ring of the Xen block front end, event channel dispatch, virtio PCI
  registers, feature negotiation and device registries: set-up code, or the same shape
  as a modelled driver;
- liveness of the network and block drivers, of 9P calls and of Xenstore requests: the
  invariants (`RxInv`, `BlkInv`, `V9pInv`, `XsInv`) say that whoever sleeps will be
  woken by something that is on its way, which is the part that the code decides;
- path lookup, vnodes, dentries, mounts and file systems: long sequential code under
  the vnode's mutex;
- sequential code without shared state (C library, parsing, formatting), clock
  arithmetic, failures of memory allocation while a thread is created, scripts, plots
  and build files.
