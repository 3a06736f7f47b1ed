# Dynamic library call separation: TLA+ models and proofs

The repository moves a vendor's audio effect library out of the audio HAL into a
daemon, *effectd*, so that a crash of the library cannot take the HAL down. The
HAL links a client library; audio travels through two lock-free queues in shared
memory, and two eventfds wake the reader of each. This directory holds TLA+
modules of that data path, of the life cycles around it and of the programs on
either side, TLC configurations, and TLAPS proofs. Source paths below are relative to the repository.

## Inventory

| Part | State | Operations | Touches |
|---|---|---|---|
| Ring buffer, `common/src/effect_ringbuffer.c` | two 64-bit atomic indices, capacity, bytes | init, write, read, available_to_write, available_to_read, reset | shared by the two processes, one producer, one consumer |
| Queue wrapper, `common/src/effect_fmq.cpp` | Android: a `MessageQueue`; elsewhere: a ring buffer | create, destroy, write, read, available_to_*, stubs (open, descriptor, event flag), unused blocking variants | ring buffer |
| Shared memory and eventfd, `common/src/effect_shared_memory.c` | fds, mappings, eventfd counters | create, map, unmap; eventfd create, signal, wait | kernel |
| Client library, `client/src/effect_client.c` | its own `EffectSession` struct: session id, isConnected, isStarted, queues or rings, eventfds, statistics and statsMutex | Open, Start, Process, Stop, SetParam, QueryStats, Close | queues, eventfds |
| effectd session, `effectd/src/effectd_session.c` | `EffectSession`: state, threadRunning, processing thread, queues, eventfds, statistics | create, open, start, stop, destroy, set_param, get_stats, get_state; the thread's loop | queues, eventfds |
| effectd daemon, `effectd/src/main.c`, `effectd.rc` | keep_running | signal handler, main loop, restart by init | sessions |
| HAL integration, `examples/hal_integration.c` | effectEnabled, passthroughMode, timeoutCount | init, process, set_param, print_stats, cleanup | client library |
| HIDL service, `hidl/1.0`, `examples/hidl_service_fmq_example.cpp` | session table | open, start, stop, close, ... | sessions |

**Interaction.** `EffectClient_Process`, on the HAL's real-time thread, writes a
block to the input queue, signals the input eventfd, waits up to 20 ms on the
output eventfd, and reads a block from the output queue. The session's thread
polls the input eventfd for up to 100 ms at a time, reads one buffer, runs the
effect, writes the output queue, signals. There is no other link: no block
carries a sequence number, and the eventfds are counters that a wait clears.

**Hard behaviour.** Two processes share memory without locks. A decision made
from an index is used after the other side has moved on. Signals merge. A call
gives up while its block is still under way. A queue fills while a writer that
fails signals nobody. The daemon, a malloc or a thread creation fails at any
point. stop and destroy join a thread that is somewhere in its loop.
`hazards` in `PROJECT.json` lists these with their lines.

**What makes each part correct.** Ring buffer: it is a bounded FIFO, without data
races, and availability answers can be relied on. Pipeline: blocks come back in
order and whole, a woken reader finds what it was woken for, no queue gets stuck,
a call always returns and leaves something sensible in the output buffer, and the
answer is for the input it was given. Session: the thread is gone before its
memory, and stop returns. Open and Close: every failure releases exactly what was
acquired, and the shared name has one owner. Statistics: the average is an average.
HAL: no call reaches a closed handle, every callback leaves audio (in the builds that
copy on an overrun), a dead effectd is given up. HIDL service: no thread outlives its session or is lost, state queries tell
the truth, calls return. Daemon: it stops when asked and not otherwise.

## Modules

| Module | Models | State and actions |
|---|---|---|
| `ByteQueue` | what the ring promises | a sequence; Offer / Accept a prefix, Ask / Take a prefix, Clear |
| `RingBuffer` | `effect_ringbuffer.c` | the two indices modulo `IndexMod`, the bytes, the two calls in progress. `WriteLoad` is `effect_ringbuffer_write` up to the copy (the early return for nothing to move is a step that changes nothing), `WriteCopy` one byte of the memcpy, `WritePublish` the release store; the read side alike. `QueryRoom`, `QueryReady` are the availability functions: their answers are kept until the asker's next call. `ResetWrite`, `ResetRead` are the two stores of reset |
| `Transport` | `effect_fmq.cpp` write/read/availability, eventfd signal/wait | the two queues as sequences, the two counters; operators only |
| `EffectClient` | `effect_client.c` Start, Stop, Process, QueryStats | Process is cut at every access to a queue, an eventfd or the mutex: enter (load) → write → signal, or overrun → wait → load → read → one of four endings |
| `EffectSession` | `effectd_session.c` | the life cycle, `StopRequest` and `StopJoined` around `pthread_join`; the thread cut like the client. `Wire` (the service hands over the queues) and `Crash` are external |
| `EffectPipeline` | the composition | interleaving of client and session over one transport; all pipeline properties |
| `ClientContract` | what `effect_client.c` promises its caller | a queue of whole blocks with loss: Call, Offer, Take, Return; Answer (or drop) and Crash on the other side |
| `ClientHandle` | `EffectClient_Open` and `_Close`, `effect_fmq_create`/`_destroy`, `effect_shared_memory_create`/`_map`, `effect_eventfd_create` | per process: the next acquisition and what it holds; the name given to `shm_open`. One action per acquisition, its failure beside it; `Die` is external |
| `LatencyStats` | the rolling average, maximum and p95 that client and session compute with the same code | three figures modulo `Width`; `Record` |
| `HalIntegration` | `examples/hal_integration.c` | AudioHalContext over `ClientContract`, which it extends: `hal_effect_init` and its failure, `hal_effect_process` (bypass, or call and return), `hal_effect_cleanup` |
| `HidlService` | `examples/hidl_service_fmq_example.cpp` | the session table, per session the running flag, the `std::thread` and its program counter, the fill of the queues; handlers cut where they join |
| `Daemon` | `effectd/src/main.c`, `effectd.rc` | main's position, keep_running, the signals handled and pending, the handlers that are running; signals, the lock of syslog, crash and init are external |
| `RingBufferProofs`, `PipelineProofs`, `BlockProofs`, `ClientHandleProofs`, `LatencyStatsProofs`, `HidlServiceProofs`, `HalProofs`, `DaemonProofs` | | theorems |
| `MC*` | | the modules TLC is run on |

Two pairs of modules are an abstract specification and its implementation.
`RingBuffer` is shown to implement `ByteQueue` (by TLC and by proof); that is why `Transport` may treat a
transfer as two steps, deciding how much to move and moving it at once.
`EffectPipeline` is shown to implement `ClientContract`, likewise (`Contract`, `KeepsContract`;
a block is pending from the client's write until the session writes or drops its
answer); that is why `HalIntegration` may put the HAL on the contract and leave bytes,
eventfds and threads to the pipeline. The constant `OverrunCopies` of the contract
tells the builds apart: in the shared-memory build an overrun leaves a separate output
buffer alone.

### Abstractions

* *Memory order.* Each side stores its own index with release and loads the
  other's with acquire, so a byte copy cannot pass the index store that publishes
  it: interleaving the steps is enough. A side's own index is not stored by the
  other, so both loads are one step.
* *Index wrap.* A position is `index % capacity`, which jumps when the index wraps
  at 2^64 unless the capacity divides it. The client's rings are `MAX_BUFFER_SIZE`
  = 1 MiB, which does. For other capacities `WithinHorizon` stops the run before
  the wrap (2^64 bytes is out of reach), so both cases are covered. The run uses
  three laps of a capacity of 3 and a width at which the index does wrap.
* *Units.* A unit of audio is `<<call, i>>`; the effect keeps its identity, so a
  unit that comes back tells which input it answers. `output.kind` tells processed
  from raw.
* *Reset* is called only while nothing else runs, as `effect_ringbuffer.h` asks.
* *Control calls* of one session are serialised (`ctl`): the service makes them
  one at a time. The client's Start and Stop run concurrently with Process.
* *Session statistics mutex.* No action holds it across another shared access, so
  it is left out; a failed `pthread_create` undoes what start did and is a
  stuttering step.
* `threadRunning` is a plain `bool`, but the loop calls opaque functions on every
  round, so the compiler reloads it.
* SetParam (it only logs or returns) and argument checks for NULL are left out.
* *In place.* With `InPlace` the caller passes one buffer as input and output, as
  some HALs do; then a short read has overwritten input before it is copied.
* *Open.* The statistics mutex lies inside the session; the failing paths do not
  destroy it, which releases nothing on Linux. In the shared-memory and fallback
  builds the ring indices live in the client's own process. The session id is
  `getpid()`, the same for all handles of a process; nothing looks it up.
* *Blocking variants* of `effect_fmq` do not wait, and nothing calls them.
* *HAL.* init, process and cleanup follow each other on one thread, as in `main`.
  EffectClient_Start of a handle just opened cannot fail.
* *HIDL service.* One binder thread serves the calls: `mSessions` has no lock, and
  with more threads the table itself would be a data race. Nobody watches for the
  death of a client, so its session stays. Session ids are modulo `Width`, and no
  session stays open for `Width` opens (2^32 in the code). The mapping stays valid
  for the client when the service erases a session, but nothing reads it any more, so
  the queues are emptied.
* *Daemon.* `syslog` and `closelog` take a lock that is not recursive, as in glibc.
  There is one thread, so whoever holds the lock was interrupted by whoever wants it:
  the lock needs no variable (`Stuck`). A handler is one step from entry to the lock
  (`Deliver`) and one from there to its return (`signal_handler`); what interrupts it
  before or after the lock could as well have come before or after the handler. The
  first `syslog` of `main` runs before any handler is set. Registering the service is a
  TODO in `main`.

### Builds

| Build | `AllOrNothing` | `UseFmq` |
|---|---|---|
| Android, `MessageQueue` | TRUE: a transfer moves the whole block or nothing | TRUE |
| elsewhere, `effect_fmq` over the ring | FALSE: it moves what fits | TRUE |
| `USE_SHARED_MEMORY`, ring used directly | FALSE | FALSE: an overrun skips the passthrough copy |

## Runs

Passing:

* **ring_buffer** (`Capacity` 3, indices modulo 9, lengths modulo 5, two byte
  values, blocks up to 4). Capacity 3 is not a power of two, a block can exceed
  the ring, and every split of a copy across the end of the buffer occurs.
  `RingInv`: the reservations of the two calls fit side by side. `NoDataRace`:
  they never touch the same byte. `CopiesIntact`: what one side has copied half-way is
  not disturbed by the other. `AvailabilityIsPromise`: an answer stays true for
  the side that asked. `ImplementsByteQueue`: the ring refines the FIFO.
* **android_queue** (`BufferSize` 2, queues of 5, five calls; with fairness). Two and
  a half buffers leave room that no block fits; five calls are enough for a full input
  queue, a full output queue, drops, and recovery; the session may crash, stay unwired,
  fail to allocate, be stopped or destroyed, and a statistics reader may never let go.
  `PipeInv` (below), `BacklogLaw`, `InOrder`, `WholeBlocks`, `PassthroughOnTimeout`
  (input and output are separate buffers here, so a forgotten copy shows),
  `ThreadGoneFirst`, `KeepsContract`, and the liveness of `ProcessReturns` and
  `StopReturns`.
* **fallback_queue** (as above with partial transfers, an eventfd counter that
  saturates at 1, and processing in place). `NoWedge`, `NoShortReads` (in place, a short
  read destroys the input), `InOrder`, `KeepsContract`.
* **odd_sizes** (calls of half and of one and a half buffers, shared-memory build).
  `GrantsHold` and `InOrder` hold although blocks no longer match buffers. The other
  guarantees need `ClientFrames = {BufferSize}`: with odd sizes a session can be
  woken in vain, and a queue can fill up with no reader coming.
* **latency** (1024 values for a `uint32_t`, latencies from 0 to 100). `AverageInRange`:
  the average lies between the smallest and the largest sample, although it rounds down
  and starts over whenever it is zero. `Settles`: under constant latency it comes within
  ten microseconds and stays, from wherever it was. `NoOverflow`, which the module
  assumes, is 429 seconds per call in the code.
* **open_close** (three processes, all three builds, every acquisition may fail, any
  process may die anywhere). `NoLeak`, `NoDoubleFree`; `NameOwned`: the fixed name used
  without `memfd_create` belongs to one process at a time, which unlinks its own, and is
  left behind only by a process that died in between; from then on nobody opens that way.
* **hal** (queues of two blocks, a limit of two timeouts, an FMQ build; with fairness).
  Answers left behind by timeouts lower the counter more than once. `HandleOwned`,
  `DeadServiceLatches`, and `CallbackFillsOutput`, which the shared-memory build does
  not keep: see shm_overrun.
* **hidl_service** (two sessions, queues of one and a half buffers; with fairness).
  `ThreadsOwned`, `NoTerminate`, `StateIsTruthful`, `TransfersSucceed`, `CallsReturn`.
* **daemon** (signals, crashes and restarts anywhere, also inside the handler; with
  fairness). `ShutsDown`: a request to stop ends the process, also when it falls between
  the test of the flag and sleep, unless the handler gets stuck in `syslog` (below);
  `NoSignalKills`.

Violated, each contradicting a sentence of the repository (see `findings`):

* **late_answer**: the block of a call that timed out is handed to the next call,
  which reports `EFFECT_OK`. `BacklogLaw` adds that the shift stays: each timeout costs
  one buffer of delay until a block is dropped.
* **shm_overrun**: in the shared-memory build an overrun returns
  `EFFECT_ERROR_TIMEOUT` with output untouched. `hal_integration.c` has separate buffers
  and does not copy after a timeout, and the `Makefile` builds this variant, so there a
  callback can leave old audio (`CallbackFillsOutput` with `OverrunCopies` FALSE).
* **torn_buffer**: over the ring an overrun leaves part of a block in the stream, and
  the session processes buffers made of two calls' input.

### Disagreements that have no run of their own

They are visible in a definition or follow from a property that does hold.

* `isConnected` is set by Open and never cleared (`effect_client.c:148`), so no crash of
  effectd is noticed; `DESIGN.md:53` says the client detects it. What holds is
  `ProcessReturns`, and in the HAL `DeadServiceLatches`.
* Open sets it without contacting effectd; `INTEGRATION_GUIDE.md:268` says Open fails
  when it cannot connect.
* Every way out of Process locks `statsMutex` (`effect_client.c:276`), which QueryStats
  holds; `IMPLEMENTATION.md:72-73` says the call takes no lock. Hence the condition in
  `ProcessReturns`.
* `p95LatencyUs` is raised like `maxLatencyUs` (`Raised`), so it is the maximum.
* Over the ring `new` throws instead of returning null (`effect_fmq.cpp:251`); the
  exception leaves through C code (`NewFails`, "aborted").
* All clients use one name for `shm_open` (`effect_client.c:110`), so two opens at once,
  or a death before `shm_unlink`, make others fail (`ShmOpenFails`, `NameOwned`).
* With input and output in one buffer a short read destroys the input before it is
  "restored" (`Overwritten`); for whole buffers `NoShortReads` excludes it.
* A success lowers the HAL's timeout counter by one (`hal_integration.c:104`); the
  comment above says reset. Timeouts that outnumber successes disable the effect
  although none of their rows is long (`TimeoutsAfter`).
* `signal_handler` calls `syslog` (`main.c:11`), and says "shutting down". If it interrupts
  `main` in a `syslog` of its own (`main.c:35`, `44`), or the handler of the other signal,
  it waits for a lock that nobody can release, and effectd does not end: `Stuck`, the
  exception in `ShutsDown`. Without the exception TLC finds the property violated.
* After `stop` the HIDL service reports `OPENED` (`hidl_service_fmq_example.cpp:177`),
  although `types.hal:31` has `STOPPED`; `StateIsTruthful` is about `STARTED` only.
* `effectd.rc:10` restarts audioserver with effectd; `DESIGN.md:197` expects audio to
  continue.

**Bounds.** `MaxCalls` bounds the calls of Process (and with it every counter),
`MaxSize` the size of a ring transfer, `EventMax` the eventfd counter (2^64 - 2 in
the kernel; a small value only makes saturation happen). `Width` and
`Duration` bound latencies, `Depth` and `TimeoutLimit` (100 in the code) the HAL's
counters. Deadlock checking is on, except for hidl_service, where a destroyed service
has nothing left to do.

**Fairness.** `FairSpec` assumes that a thread that can run eventually does: weak
fairness of the steps of a Process call in progress, of the processing thread while
the process is alive, and of the return of `pthread_join` after the thread has ended.
Poll's timeout is one of these steps. Nobody is obliged to make a call, to start or
stop, to release the mutex, or to crash. `ProcessReturns` is therefore conditional on
the mutex being free for good from some time on. The HAL's fairness is that the audio
callback comes again and that Process returns, which the pipeline shows; the service's
that the binder thread and each processing thread run; the daemon's that the kernel
delivers signals, that a handler that can go on does, and that signals do not come so
fast that main never runs between two of them (strong fairness of main, which handlers
interrupt); that of `LatencyStats` that calls go on.

## Proofs

TLAPS checks the theorems for every value of the constants that meets the named
assumptions: `RingAssumption` (positive capacity below the length modulus, length
modulus at most the index modulus), `TransportAssumption`, `ClientAssumption` and
`SessionAssumption` (positive sizes, a buffer fits a queue), `LatencyAssumption`,
`ServiceAssumption`, `DepthAssumption`, `OverrunAssumption` and `LimitAssumption`. TLC evaluates them in
each run. A client allocates 1 MiB per queue, far more than any buffer.

**Ring buffer** (`RingBufferProofs`). The inductive invariant is `TypeOK /\ RingInv`.
The two load steps compute availability modulo 2^32 from a difference modulo 2^64;
`Used + toWrite <= Capacity` and `toRead <= Used` survive the other side's steps
because each store only gives room, or bytes, to the other. `NoDataRace` alone is not
inductive: it needs these, and that the two positions are exactly `Used` apart
(`ModStep`, `PositionStep`, which is where the wrap of the indices is dealt with).
`AvailabilityIsPromise` is inductive on top of it (`PromiseStep`): the asker's own index
stays where it is.
Theorems: `TypeCorrect`, `Reservations`, `AnswersHold`, `RaceFree`.

Contents need one more invariant. `CopiesIntact` says where the bytes of a copy in
progress are: those already written lie in the slots after the stored ones, those
already taken are still stored. It is inductive together with `RingInv`, because the
slots of the `Capacity` positions from the read index on are distinct (`SlotsDistinct`,
`FreeSlot`) and a step of one side writes only a slot the other has not been granted
(`CopyDisturbsNothing`). `RingImplementsQueue` then goes through the steps: the copies
change nothing of the queue (`CopyHidden`), the release store of a write appends
exactly the prefix that was copied (`PublishAppends`), that of a read removes exactly
what was taken and hands it over (`ReleaseTakes`), and both hold across the wrap of an
index (`ShiftedSlot`).

**Pipeline** (`PipelineProofs`). For all clients: `PipelineTypeCorrect`,
`GrantsAreKept` (proved together: type correctness of the queues needs that a grant
still fits when it is used) and `NoThreadAfterFree` (from `LifecycleInv`). For
clients that pass whole buffers, as `effect_client.h` intends with framesPerBuffer:

* `PipelineInvariant` proves `PipeInv`. Its core is `SignalsCovered`: a pending
  eventfd, a writer about to signal and a woken reader each have a whole buffer of
  their own in the queue. Merging keeps it, since a counter of any value stands for
  one buffer only; saturation keeps it too. A failed write may put a partial block in
  the queue, and `FailingWritesHarmless` says it cannot use up the room of the last
  buffer unless a reader is coming. `NeverShort` and `NeverWedged` follow.
* `BacklogIsForGood` proves `BacklogLaw` from `BacklogInv`, the same law during a call:
  between calls of the Android build, what is in the pipeline plus what the session
  dropped is exactly one buffer per timeout.
* `TimeoutLeavesInput` proves `PassthroughOnTimeout` in the FMQ builds, and in place in
  the shared-memory build: a call has no
  result until it returns, and `PipeInv` excludes the short read that would spoil an
  input processed in place.

**Order** (also `PipelineProofs`), for calls of any size and all builds. `InOrder` alone is
not inductive: it does not say that what is under way is older than the call about to
write. `OrderInv` bounds every unit by the newest call that has written; and since units
that were not neighbours become so when the session drops its buffer, it compares all
pairs, part by part (the last unit heard, the output queue, the session's buffer, the
input queue), where `InOrder` compares neighbours and leaves the rest to transitivity. `ReadsInOrder`.

**Blocks** (`BlockProofs`), for clients that pass whole buffers.

* `PipelineKeepsContract`: the composition implements `ClientContract`, in every build.
  The contract counts blocks, the code counts bytes, and over the ring a failed
  write may leave part of a block behind. `AlignInv` is what makes the counting agree:
  a queue's length leaves the remainder 0 modulo `BufferSize`, or that of
  `QueueCapacity`; so a grant is a whole block, nothing, or the one rest, and the rest
  never completes a block. With it every write, read and drop changes the number of
  whole blocks by one or not at all. What the
  shared-memory build does on an overrun is part of the contract (`OverrunCopies`).
* `QueuesHoldWholeBlocks` proves `WholeBlocks` for the all-or-nothing queue, where
  the remainder is always 0. Over the ring it is false (run torn_buffer).

**Open and Close** (`ClientHandleProofs`). `HandleInv` says that a process holds exactly
what the steps before its present one acquire (`Needs`), except that one or both
eventfds may be missing once they were tried; `NoLeak` alone says nothing about the
middle of a call. `NothingLeaks` and `NothingFreedTwice` follow for any number of
processes. `NameHasOneOwner` proves `NameOwned`, which is inductive given the types.

**Latency** (`LatencyStatsProofs`). `AverageStaysInRange`, for every width and every set
of durations that cannot overflow it: a rounded average of two numbers in a range is in
that range, and before the first sample all figures are zero.

**HIDL service** (`HidlServiceProofs`). The handlers look at `running` and never at the
thread. `Own` says why that is enough: `running` tells whether the session has a thread,
except while a call for that very session is in progress, and then the position of the
call tells. From it follow `ThreadsNeverOutlive`, `NeverTerminates` and
`StateQueriesTruthful`; `TransfersNeverFail` needs it for `Erase`, which empties the
queues when no thread is left to have been granted anything.

**HAL** (`HalProofs`). `CallInv` adds to `HandleOwned` that the HAL is inside Process
exactly while a call is, and what output holds when it has returned. `HandleIsOwned`,
`HalTypeCorrect` and the action property `OutputAlwaysFilled`, the last for builds with
`OverrunCopies`.

**Daemon** (`DaemonProofs`). `SignalsNeverKill`, an action property, needs to know that
all three signals are handled once main is past its set-up, and that a process that
ended took its handlers with it, so that the next one does not start half-way
(`HandledInv`).

**Only model-checked**: the liveness properties (`ProcessReturns`, `StopReturns`,
`Settles`, `DeadServiceLatches`, `CallsReturn`, `ShutsDown`), which are out of the
prover's reach, as fairness and ENABLED are. Every safety property that a passing run
checks is also a theorem.

## Not modelled, and the plan

Every component with state of its own is modelled, and every safety property proved
under the hypotheses above. What is left is to weaken hypotheses where the code allows
it: what of the contract survives calls of other sizes than a buffer, of which `InOrder`
and `GrantsHold` are known.

Left out for good: HIDL transport and generated code, Android's `MessageQueue` itself
(external, modelled by its all-or-nothing contract), the ashmem path of
`effect_shared_memory.c` (Android builds use FMQ), the effect's arithmetic
(`mock_process_audio` copies its input after a delay), SELinux policy, build files, and
the unit tests, whose expectations are instances of `ByteQueue`. The race on `mSessions`
between several binder threads, and the sessions a dead client leaves behind, are listed
as hazards and have no property: the code neither prevents nor handles them.
