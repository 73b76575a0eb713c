# Verification of the Eroiko Blue operating-system projects

The repository holds five course projects of one team: a pthread
producer/consumer pipeline (`src/Pthread`) and four projects on NachOS 4.0
(`src/MP1` ... `src/MP4`). Each `MPx` is a complete copy of NachOS in which
the team rewrote one part: system calls on files (MP1), page tables and frame
allocation (MP2), a three-level scheduler with aging (MP3) and a file system
with larger files and directories (MP4). This directory holds TLA+ models of
the team's parts and of the NachOS code they depend on, the TLC runs that check
them on small instances, and TLAPS proofs of the main results.
`PROJECT.json` lists components, runs, hazards, findings and theorems, and gives
for each definition the source lines it models.

## 1. The system's parts

| Part | State | Operations | Modules |
|---|---|---|---|
| `TSQueue` (`ts_queue.hpp`) | ring buffer, `size`, `head`, `tail`, mutex, two condition variables | `enqueue`, `dequeue`, `get_size` | `TSQueue`, `BoundedFifo`, `TSQueueProofs` |
| Pipeline (`main.cpp`, `reader`, `producer`, `consumer`, `consumer_controller`, `writer`) | three queues, each thread's item in hand, the controller's vector of consumers, `global_ctr` | the threads' loops, the SIGALRM handler, `one_run` | `Pipeline`, `PipelineProofs` |
| MP3 scheduler (`scheduler.cc`, `thread.cc`, `alarm.cc`, `interrupt.cc`, `timer.cc`) | status, priority and burst times of each thread, ready queues L1-L3, clock | fork, wake, yield, sleep, finish, ticks, timer and device interrupts | `MlfqScheduler`, `MlfqProofs` |
| MP2/MP3 user memory (`addrspace.cc`, `exception.cc`, `translate.cc`) | frame list, page tables, main memory, `Machine::pageTable` | `Load`, `Execute`, switch, user stores, `SC_Read`, `SC_Exit` | `AddrSpace`, `AddrSpaceProofs` |
| MP4 bitmap (`bitmap.cc`, `pbitmap.cc`) | bits, cached count of clear bits, search position | `Mark`, `Clear`, `FindAndSet`, load, store | `Bitmap` |
| MP4 file headers (`filehdr.cc`) | tree of headers, in memory and on disk | `Allocate`, `WriteBack`, `FetchFrom`, `Deallocate`, `ByteToSector` | `FileHeader`, `FileHeaderLife` |
| MP4 file system (`filesys.cc`, `directory.cc`, `openfile.cc`) | disk sectors, `opTable` | `Create`, `Mkdir`, `Remove`, `RecursiveRemove`, `Open`, `Write`, `Close`, format | `FileSystem`, `Namespace` |
| Semaphore, Lock, Condition, `SynchList` (`synch.cc`, `synchlist.cc`) | values, holders, waiters; the list and its waiters | `P`, `V`, `Acquire`, `Release`, `Wait`, `Signal`, `Append`, `RemoveFront`, `Apply` | `Synch`, `SynchList`, `KernelIO`, `KernelIOProofs` |
| `Disk`, `SynchDisk` (`disk.cc`, `synchdisk.cc`) | sectors, the request in progress, arm, track buffer, clock; lock and semaphore | `ReadSector`, `WriteSector`, completion interrupt | `SynchDisk`, `AtomicStore`, `KernelIO`, `KernelIOProofs` |
| Console, `SynchConsole` (`console.cc`, `synchconsole.cc`) | input and output file, one-character buffer, `putBusy`; locks and semaphores | `GetChar`, `PutChar`, MP1's `PutInt`, the interrupts of both devices | `SynchConsole`, `KernelIO`, `KernelIOProofs` |
| Network, post office (`network.cc`, `post.cc`) | sockets, one-packet buffer, mailboxes, locks and semaphores, per machine | `Send`, `Receive`, the postal worker, interrupts, start and halt of a machine | `PostOffice`, `PostOfficeProofs` |
| MIPS simulator (`mipssim.cc`, `machine.cc`, `translate.cc`) | registers, the load in progress, both program counters, memory; saved registers of each thread | decoding and execution of an instruction, traps, interrupts, register save and restore | `Word`, `MipsDecode`, `MipsEncoding`, `MipsCpu`, `Mips`, `MipsCpuProofs` |
| MP1 stub file system (`filesys.h`, `openfile.h`) | `OpenFileTable[20]`, each entry's descriptor and offset; the host's files | create, open, read, write, close | `StubFileSystem`, `UnixFiles`, `KernelIO`, `KernelIOProofs` |
| Hash table, statistics, host wrappers, test programs | - | - | not modelled |

How they interact:

- Pipeline threads share nothing but the three queues, `is_cancel` flags and
  the controller. The controller runs as a signal handler on whatever thread
  takes SIGALRM; it creates and cancels consumers while they run. `one_run`
  joins the reader and the writer only, then deletes the controller and the
  queues under the remaining threads.
- In NachOS kernel code is a critical section because interrupts are off. A
  clock tick (`Interrupt::OneTick`) calls the due handlers, one of which is the
  timer's (`Alarm::CallBack`): it ages the ready queues and asks for a yield on
  return. Everything that blocks a thread or wakes one ends in
  `Scheduler::ReadyToRun` and `Thread::Sleep`.
- A user thread runs under `Machine::pageTable`, set by `RestoreState` on each
  switch; system calls enter `ExceptionHandler` with user addresses.
- An MP4 operation fetches headers, directories and the free map from the disk
  into memory objects, changes them and writes them back sector by sector.
  Destructors do part of the writing (`TraversePath` stores the parent
  directory), so the order of writes is the order of scopes. `OpenFile`
  objects keep their header in memory across operations.
- Each of those sector accesses is a call of `SynchDisk`, which holds a lock,
  hands the request to the device and sleeps on a semaphore that the completion
  interrupt signals. The console and the network are used the same way. All
  locks and conditions are made of semaphores, and these of disabled interrupts.
- Machines that run NachOS exchange packets through host sockets. An interrupt
  brings a packet into the buffer of its machine, a thread of the kernel (the
  postal worker) takes it to a mailbox, which is a `SynchList`.
- A user program is executed one instruction at a time, and `OneTick` follows
  each: interrupts, traps and switches of threads fall between the halves of a
  delayed load or of a branch.

What makes each part hard, and what makes it correct:

- **TSQueue**: races between the test and the wait, a woken thread that finds
  its condition false again, one signal per call, indices that disagree with
  `size` inside the critical section. Correct: it is a bounded FIFO, and no
  thread stays blocked when there is something for it.
- **Pipeline**: the unlocked `get_size()`, a consumer that is cancelled with an
  item in hand or deletes itself while the handler still uses it, teardown
  under running threads, SIGALRM handlers that overlap. Correct: every line goes
  through exactly once, the vector is the consumers that run, and the run ends but
  in states that can be named.
- **Scheduler**: priorities that change while a thread is queued, a timer not
  aligned with the aging period, preemption decided in a handler and carried
  out later, truncated comparisons. Correct: every ready thread is queued once
  and where its priority says, aging and burst times are exact, L1 preempts.
- **User memory**: a thread that is switched before it is loaded, chunks that
  cross pages, frames that never return, untranslated addresses. Correct:
  frames belong to one program, and each program finds what it stored.
- **File system**: partial failure and crashes between sector writes, headers
  of every shape, the free map's cached count, full directories, files removed
  while open; a table and the map of several sectors, entries that lie across two.
  Correct: after every sector write all but what the operation under way is about is
  sound on the disk, names appear and disappear atomically unless the program is
  killed with half of an entry written, sectors are not shared, and lost in known
  cases only.

- **Synchronisation and devices**: `V` wakes a thread and another takes the
  value before it runs, a condition is released before the sleep, a completion
  interrupt that comes before its caller waits, an input that ends. Correct: the
  list is a FIFO queue and the disk an atomic store for their callers, strings
  stay whole, no assertion of a device fails, every call returns unless what it
  waits for never comes.
- **MP1's files**: one table for all programs, entries and host descriptors that
  are used again, transfers that the host refuses. Correct: as `UnixFiles`, whoever
  opens, closes or truncates, but for four departures that are named.
- **Post office**: one buffer per machine, packets lost, machines that stop with
  mail in every stage and start again. Correct: mail is lost or delivered once
  and in order, and a sender is woken whatever became of its packet.
- **MIPS simulator**: delayed loads and branches across interrupts and switches,
  arithmetic of a 32-bit machine in the integers of a host. Correct: each
  thread runs as on a MIPS of its own.

The hazards that follow are listed one by one, with their lines and the
properties that cover them, in `PROJECT.json`.

## 2. The modules and the code

**`BoundedFifo`** is the abstract queue: a call is made, takes effect at one
instant, returns. `Room` is the set of lengths at which there is room for one more:
those below the capacity for `TSQueue`, all for `SynchList`, which has no bound.

**`TSQueue`** has one action per statement of `enqueue` and `dequeue` that
touches shared memory (`ts_queue.hpp` 77-130): lock, loop test, wait, wake and
re-test, write or read of the slot, index, `size`, signal, unlock. The pthread
calls are external: `Signal` wakes one waiter or none, `SpuriousWakeup` any.
`buffer_size` is symbolic. Its refinement mapping (`Abstract`) reads the FIFO
off the ring, with the index of the statement in progress taken into account;
a call takes effect when `size` changes.

**`Pipeline`** takes a queue call for one step, which is what `TSQueueProofs`
justifies. Each thread has its program counter and item (`ppc`/`pitem`,
`cpc`/`citem`); a consumer's thread also the object it runs (`self`), because objects
come and go (`alive`) and `back()->start()` may start one that already runs. `main` is
`one_run`, `run` its parameters. The transformer's arithmetic is the
name of the transform appended to the item. `HoistedRead` allows what `g++ -O3`
makes of the producer's empty loop: `get_size()` is read once, and a producer
that saw 0 spins for ever.
`sa_mask` and `sa_flags` are not initialised (`consumer_controller.hpp` 135) and a
SIGALRM is the process's, so several handlers (`Signal`) may be under way, in several
threads or one inside the other; each has its own program counter `hpc`. Their steps
are the reads and the writes of the vector: `push_back` and `pop_back` read its end
and write it back, `cancel` sets `is_cancel` and then reads `t`. If `SA_RESETHAND` is
among the flags, the first signal resets the handler and the second one kills the
process (`AlarmKills`). What is undefined (use of a deleted or absent object, two
changes of the vector at once) goes well or ends the process
(`crashed' \in {FALSE, TRUE}`, `MayCrash`).
Left out: the numbers that the controller records for the experiments
(`consumer_controller.hpp` 112, 120), output, and what else a handler may do to the
thread it interrupts by calling `new` and `cout`, which are not async-signal-safe.

**`MlfqScheduler`** has one action per kernel operation, which is atomic because
interrupts are off. A tick is a sequence: `Enable`, `UserStep` or `Idle` enters the
handlers, `TimerInterrupt` and `DeviceInterrupt` may run in either order,
`ReturnFromInterrupt` or `ReturnToSleep` leaves them and yields if asked. Burst times
are integers in `Unit`ths of a tick; a halving that does not come out even in that
unit is not explored (`ResolvesUnit`). `Sweep` is the loop of `Aging` over a queue
that it changes as it goes, written as a fold over the threads of the queue. Assembly,
stacks, `-rs` random slices and debug output are left out.

**`AddrSpace`** has memory cells named by the program and virtual address they
are meant for, so that a cell in the wrong place or of the wrong program can be
told. `Load` is `LoadBegin`, one `LoadChunk` per turn of its loops, `Execute`;
it is not preempted between chunks. Switching is `Run`. A user program stores
only to its own variables, which is the most a correct compiler emits. `SysRead`
is one cell of an `SC_Read`. The exceptions that end the simulator are
`Aborts`. There is no TLB, as in the build.

**`Bitmap`** and **`FileHeader`** are pure operators. A header is a record with
one kid per used entry; on disk it is one sector, without `startSector` and the
children, as `WriteBack` leaves it. `floor(log n / log N)` is computed with
integers; `N_SECTORS` is a constant (29 in the code, 2 or 3 in the runs).
**`OpenFile`** adds the bytes: `ReadAt` and `WriteAt` as the sectors they read
and write, with the cases for aligned and partly modified ends.
**`FileHeaderLife`** drives them: a header is allocated, stored, fetched by a
later `OpenFile`, seeked and written sector by sector, closed (or the program
killed between two sectors) and fetched again, and deallocated. `possible` holds
what each byte of the file may be after the writes that were cut short.

**`FileSystem`** puts them on a disk. An operation computes its writes
(`writes`, in the order in which the code issues them, destructors included) and
`WriteSector` performs one; `Crash` may fall between any two, after which
`FileSystem(FALSE)` starts on what is there. `Abort` is a failed `ASSERT_MSG`.
The data of a directory and of the free map takes several sectors, and
`OpenFile::WriteAt` writes one after another: `FieldSector` says which sector has which
field of which entry, so that an entry may lie across two sectors, as the entries of
20 bytes do in sectors of 128. `tree` is what can be reached on the disk from the
root, after each sector; an object in it is `whole`, `half` (its entry is neither what
it was nor what it will be) or `removed` (it is below, or is, what the operation under
way removes).
`TraversePath`'s quirks are kept: it goes on after a missing directory, and
`Open` of a missing file enters an uninitialised `OpenFile` in `opTable`.
Abstractions: a write is of one sector of the file (bytes and the seek position are
in `FileHeaderLife`), one operation runs at a time (`filesys.cc` states the
assumption), and a field of an entry is not itself cut by a sector's edge.

**`Namespace`** is what `FileSystem` promises of its names: a tree in which each
name appears, or disappears with what is below it, in one step. The code makes no
promise for crashes (`filesys.cc` 38-40, "no attempt to make the system robust to
failures", and `disk.h` 7-9); the one that breaks this, a kill between the two sectors
of a new entry, is named beside it (`HalfAdded`): the entry that the next program
finds may have any name and any header then.

**`Synch`** has the semaphore and the lock as operators on `sem` (value and
waiters) and `holder`; a call that would sleep leaves the thread among the
waiters, and `V` makes the first one ready to test again, as the `while` of
`Semaphore::P` does. A thread's place in the code is `pc`, its call `cur`, its
result `got`. **`SynchList`** is one action per statement of `Append`,
`RemoveFront`, `Apply` and of `Condition::Wait` and `Signal` under them;
`Broadcast` has no caller. **`SynchDisk`** is `SynchDisk::ReadSector` and
`WriteSector` over the device: a request moves the data at once and schedules
the interrupt for the time that seek, rotation and track buffer give (`ComputeLatency`);
`Pauses` lets time pass before a request. **`SynchConsole`** is the keyboard,
polled until a character comes and never again after an EOF, and the display,
one character and one interrupt at a time. **`StubFileSystem`** is MP1's system
calls on files, one step each, since nothing in them enables interrupts: the table
that all programs share, with an offset in each entry, over descriptors and files
of the host. The host may refuse to create a file, may refuse a read or a write (it
does if the size is negative, and may for a buffer that the program made up), and may
write a part. `aborted` is an `ASSERT` of `sysdep.cc` that fails then and ends NachOS;
the `-1` of a refused `read` is instead added to the offset (`openfile.h` 46), and if
that makes it negative, the next transfer of the entry aborts. **`KernelIO`** composes the four:
each thread has a list of calls (`todo`, from `Workload`, whose arguments
`WorkloadAssumption` says to be of the right kinds, with sizes of any sign), devices interrupt
between any two statements. Statements are finer than what NachOS can interleave, which switches
threads only where interrupts are enabled or a thread sleeps; every behaviour of
the code is among the modelled ones. **`AtomicStore`** is what a disk promises:
a call is made, takes effect at one instant, returns. **`UnixFiles`** is what the
calls on files promise, from `syscall.h` 96-139 and not from the code: a descriptor
stands for a file and a position from `Open` to `Close`, a transfer of nothing is no
failure, a call that fails changes nothing, and descriptors 0 and 1 are the console's.
The code departs from it in four ways, each an operator of `KernelIO`: `NothingFails`,
`Slips`, `ConsoleIsFile` and `CutShort`. `ImplementsUnixButDeparts` says that every step
of the code is one of `UnixFiles`, one of these, or none.

**`PostOffice`** uses the same semaphores for the machines of a network, each
with its device, worker and mailboxes (a mailbox is a queue, which `KernelIO`
shows of `SynchList`). The device's handlers are one action each, because
interrupts come only when they are enabled. `SendPacket` chooses whether the
packet is lost; `network.h` 50-51 calls `reliability` the chance that a packet is
lost, but the code uses it as the chance that it is not, so no probability is
modelled. `Stop` loses everything a machine holds and may fall anywhere. Mail carries
a number from its sender that no code looks at, so that the order of delivery can be
compared with the order of sending; `Route` is where mail for a machine may be, from
the mail read there back to the datagrams in its socket.

**`Word`** is the arithmetic of words of four bytes, for any width of a byte.
**`MipsDecode`** is `Instruction::Decode` with its two tables, **`MipsEncoding`**
the encodings of the MIPS manual, which is where the code of a program comes
from. **`MipsCpu`** has `OneInstruction` as operators for the value written,
the branch taken, the load begun and the exception raised, put together by
`Instruction`; `Trap`, `Abort`, `SystemReturn`, `Exit`, `Interrupt` and `Yield`
are what may happen between instructions, the last two with `Scheduler::Run`'s
saving and restoring of registers. **`Mips`** is the reference: no delayed loads,
no kernel, a processor for each thread. A program in it is instructions, in
`MipsCpu` it is words, so the refinement covers decoding. Left out: the debugger,
and `PrevPC` and `BadVAddr`, which nothing reads. `J` takes its region from
`NextPC + 4`, not from its delay slot; the two differ only at the end of a region
of 2^28 bytes, which 128 pages do not reach. `ProgramsObey` is a condition on
programs and not part of the machine: the refinement is proved under it. `DIV` of
the least int by -1 traps on the host, and is an outcome of its own.

The MC modules only give constants their values. `Mutant:` definitions are
plausible bugs, each placed before the definition it would replace; no action
uses them.

## 3. What the runs check

| Run | Instance | Shows |
|---|---|---|
| `tsqueue` | 3 threads, 2 items, 2 slots, spurious wakeups | mutual exclusion, the ring's consistency at every statement, `NoLostWakeup`, refinement of `BoundedFifo` |
| `pipeline` | 2 lines, 2 producers, 2 consumers, 2 handlers of which one may be entered inside the other, 3 sets of parameters | `ExactlyOnce`, `VectorOwnsLive`, `TeardownLosesNothing`; under fairness `RunEnds` |
| `mlfq` | 3 threads at 45, 95, 145, timer 3, aging 2, 8 ticks | `QueuesHoldReady`, `AgingIsExact`, `TicksCharged`, `ShortestFirst`, `PreemptsForL1` |
| `header_tree` | 84 sectors of 3 bytes, 3 entries per header, every size to 90 bytes, 5 disks; 7 sizes are written twice | `SectorsInOrder`, `ReadsBack`, `FileHolds`, `RemovalFrees`, `AllocatesUpToHalf` |
| `fs` | 16 sectors, a map on 2 and tables of 2 entries on 2, paths `/a`, `/d`, `/d/a`, 1 open file, 4 creations and removals, crashes | `DiskIsSound`, `OpenHeadersCurrent`, `LosesOnlyAsKnown`, refinement of `Namespace` |
| `fs_leak` | no crashes, files with a child header | violated: removal leaves the sectors of child headers marked |
| `addrspace` | 4 programs, 7 frames of 2 cells | `FramesAreExclusive`, `FramesAreContiguous`, `MemoryHolds`, `RunsUnderOwnTable` |
| `addrspace_read` | same | violated: `SC_Read` uses a virtual address as a physical one |
| `kernel_io` | 3 threads, 9 workloads of 3 to 10 calls, 6 sectors on 2 tracks, 2 inputs, a table of 3 open files | `AssertionsHold`, `NoLostSignal`, `ConsoleStreams`, `LatencyIsMechanical`, refinement of `BoundedFifo` and `AtomicStore`, and of `UnixFiles` but for the departures (`ImplementsUnixButDeparts`); under fairness `CallsReturn` |
| `post_office` | 2 machines, 3 user threads, 2 boxes, 3 starts in all, 2 workloads | `InOrderOrLost`, `SignalsMatch`; under fairness `MailArrives` |
| `cpu` | bytes of 2 bits, 5 registers, 8 bytes of memory per thread; single instructions, loads and stores, 2 pairs of programs | `KernelSeesLoads`, refinement of `Mips` |
| `cpu_srl` | `SRL` of 9 values by 0 to 7 | violated: `SRL` of a negative word fills with its sign |

`TypeOK` of `TSQueue`, `Pipeline`, `MlfqScheduler` and `AddrSpace` is stated in its module
and holds in these instances too, but is not among the properties of the runs.

Why the bounds are enough:

- `tsqueue`: the smallest ring with distinct head and tail that can be full,
  empty and partly filled; three threads let two compete for the signal of the
  third. The theorems hold for every capacity and any number of threads.
- `pipeline`: two producers race for one item and all queues but the largest fill
  up; two consumers are enough for every arm of the handler. `Consumer` also bounds
  how many may be alive at once (`NoMoreConsumers`). Worker queues of one, two and four
  slots have the thresholds 0, 1 and 3 for adding a consumer: any line exceeds the
  first, the last line alone does not exceed the second, and two lines never exceed
  the third, so that runs with and without a consumer for the last line are among
  them. `MaxOverlaps`, one, bounds how often a handler is entered inside another: one
  is enough for a lost change of the vector and for no consumer to be left.
- `mlfq`: `MaxTicks` leaves room for two timer interrupts and three aging
  periods that they do not divide; the three priorities start one aging step
  below L2 and L1 and inside L1, so each level is entered and left. It does not
  leave room for starvation, which needs a longer clock (section 6).
- `header_tree`: with three entries, 30 data sectors need four levels, and every
  case of the split (exact power, last entry, single sector) occurs among the 90
  sizes; the largest need half of the disk. A sector of three bytes has a
  first, a middle and a last one, so a write can begin, end or do both inside it;
  the positions and lengths reach both sides of a sector's edge, span whole sectors
  and pass the end of the file. Two writes let one overwrite part of the other.
- `fs`: one level of nesting is what recursion needs to have a second case, a
  table of two can be full, a file of three sectors has a child header, four
  operations allow create, remove and reuse of sectors with a crash among them. The
  first entry of a table is in one sector and the second across both, so a kill finds
  whole and half entries, and half of the map in either order.
  A disk left by a crash with half of an entry written, or within a removal, is not
  used further (`torn`): its map may say that sectors of a reachable object are free,
  and what later operations do with them is not explored. The properties do hold of
  it as it was left.
- `addrspace`: four, two and two frames of seven; segments start and end within
  pages, so chunks cross frames; one program does not fit and one is missing.
- `kernel_io`: one workload for each object, one that mixes them, and a second for
  the list in which a thread both appends and removes; three threads are a
  holder, a waiter and one that comes in between. Six sectors of two tracks,
  three ticks to seek and two to rotate by a sector: neither divides the other, so
  rounding to a sector's edge happens. The inputs end with and without an EOF.
  Three workloads are of programs that use the file system: the table fills up, a file
  is truncated under an offset, a descriptor is closed and given out again, and sizes
  of -1 and -2 are refused. Each of the four departures from `UnixFiles` occurs: without
  any one of them TLC finds the refinement violated.
- `post_office`: two machines that send to each other (the test of `kernel.cc`), and
  two senders on one machine with two boxes on the other; three starts are both
  machines and one restart.
- `cpu`: words of eight bits keep zero, the least and greatest int and word, all shift
  counts and all offsets in a word. Loads and stores are at every address and past
  the end. The programs leave a register alone in the slot after its load (`LWL` and
  `LWR` apart), and put no system call or branch in the slot of a branch: MIPS
  compilers must do the same, and the simulator does otherwise than a MIPS when
  they do not. `SRL` and `SRLV` are given non-negative words here, for `cpu_srl`
  shows what they do with the others.

Fairness:

- `RunEnds` (`pipeline`): weak fairness of each thread, of the main thread, of arming
  the timer and of the handler. The host's scheduler runs every thread, and
  `setitimer` is periodic. The property excepts what the code cannot promise: that
  the process does not die of a dangling pointer, that lines do not wait for producers
  all of which are caught in the hoisted loop (`Spun`: with an empty input queue it is
  no excuse), and that they do not wait for a consumer when none runs and they are too
  few to exceed the threshold for starting one (`Starved`).
- `CallsReturn` (`kernel_io`): weak fairness of each thread and of each device
  interrupt. Ready threads are in a first-in-first-out list, or are preempted by the
  timer, and the simulated clock moves on while anybody runs or the machine is idle. The
  property excepts removals from an empty list, keystrokes that never come and the end
  of NachOS by an `ASSERT` in a call on files.
- `MailArrives` (`post_office`): weak fairness of the polling and sending interrupts,
  the worker and the user threads of a machine. Nobody need start a machine, and a
  stopped one owes nothing.

`CHECK_DEADLOCK FALSE` appears where the system may really stop; each configuration
says why.

### What the violated runs mean

Each is a place where a comment says one thing and the code does another;
`PROJECT.json` quotes both (`findings`). Also seen while modelling, and kept in the
models as far as their inputs reach, but not checked by a run of their own:

- `one_run` passes its thresholds in the other order than the controller takes them
  (`main.cpp` 63, `consumer_controller.hpp` 49): consumers are added above the low
  one and cancelled below the high one.
- An input with no more lines than the low threshold starts no consumer, and the
  writer waits for ever. Two handlers that overlap can leave no consumer too; the
  handler's test `cm_sz > 1` keeps the last one only against a single handler.
- Aging changes the priority of a thread inside L2 without moving it, so L2 is not
  always in order of priority (`scheduler.cc` 291).
- `FindAndSet` lowers the cached count of clear bits twice (`bitmap.cc` 126):
  a file that needs half of the disk is refused although it fits.
  `AllocatesUpToHalf` says that it is not worse than that.
- Creation in a full directory returns TRUE and has lost the sectors (`filesys.cc`
  225); `LosesOnlyAsKnown` counts them. Lack of space is an abort where a comment
  documents a return of FALSE.
- `Open` of a missing file enters an uninitialised pointer in `opTable`, and an open
  file can be removed.
- `SC_Read`'s untranslated address reaches into other programs, and read-only pages
  are counted from the size of the segment, wherever it starts.
- MP1 reports a transfer of no bytes, the end of a file included, as -1
  (`filesys.h` 98, 111), where `syscall.h` 130-139 says "return whatever is available".
  `OpenFileId` 0 and 1 are the first files opened, where `syscall.h` 107-114 says that
  they are the console. Both are departures of `ImplementsUnixButDeparts`.
- A read that the host refuses moves the offset back by one (`openfile.h` 46), and so
  does a write of -1 bytes, for which the `ASSERT` of `WriteFile` holds; at the
  beginning of a file the next transfer fails the `ASSERT` of `Lseek` (`sysdep.cc` 380).
  A refused or short write and a file that the host cannot create fail theirs
  (`sysdep.cc` 368, 312), so a user program can end NachOS; the tests for -1 that follow
  (`filesys.h` 56) are never reached. `AssertionsHold` says that these are all.
- Nothing closes the files of a program that exits, so the table of 20 may fill up for
  good.
- The network's `reliability` means the opposite of what its comment says.
- The write of a delayed load comes after that of the instruction in its slot, and a
  system call in the slot of a branch goes on behind it (`exception.cc` 115).

## 4. What is proved

The modules named `...Proofs` hold machine-checked proofs for every value of the
constants, from the named assumptions in the modules only. `PROJECT.json` lists the
theorems and the properties that they state; each of those properties is also
checked by a run, on a small instance, before (and beside) the proof. The pattern is
the same everywhere: an inductive invariant, one lemma for the initial states, one for
each action or kind of action, and the properties as its consequences.

**TSQueue** (from `BufferAssumption`: the capacity is positive, `ValueAssumption`:
the null values are not values).
`TypeOK`, `MutualExclusion` and `RingConsistent` are not inductive one by one: that
`size` stays below the capacity when `e_size` increments it follows from the loop's
test having held when the thread left the loop, and from nobody else having changed
`size` since, which is mutual exclusion. `LoopConditions` says the first, and
`QueueInv` is the conjunction of the four. `InitInv` and one lemma for each conjunct
(`TypeStep`, `MutexStep`, `LoopStep`, `RingStep`, each by cases on the actions) give
`QueueCorrect`, hence `TypeCorrect`, `MutexCorrect` and `RingCorrect`. The modular
arithmetic of the ring is in `ModCases`, `SlotCases`, `SlotStep` and
`SlotInjective`. `QueueRefines` states that the statement-level queue implements
`BoundedFifo`: every step maps to a step or a stutter (`StepRefines`); the ones that
change `size` append or remove (`SizeAppends`, `SizeRemoves`), the writes of a slot
and of an index leave the FIFO as it was (`PutFifo`, `TakeFifo`, `SilentSteps`).
`WakeupsCorrect` proves `NoLostWakeup`, which counts threads. It holds only while the
mutex is free; `WakeupInv` says what is so at every statement: if anybody is blocked
for an item, the threads woken up are enough for the items, but for one while the
holder of the mutex has yet to signal or to take (and likewise for room). A step
changes the counts by one at most (`CoveredStep`), so the number of threads need not
be finite.

**Pipeline** (from `ThreadAssumption`: finitely many producers and consumers,
`SizeAssumption`, `SignalAssumption`, `NullAssumption`). `PipeInv` is `TypeOK` and
`ExactlyOnce` with what they rest on: `InHand` (what each program counter says of the
item a thread holds), `Joined` (what is read and written when `one_run` gets past a
join), `Pointers` (who has a consumer in hand) and `Serial`. `ExactlyOnce` counts the
copies of each line in queues and hands; `MoveCopies` says that an item taken from one
place and put into another is counted as before, and each action is an instance of it.
It needs nothing of the handlers, however they overlap. `Serial` speaks of the time
before the first overlap (`overlaps = 0`): then at most one handler is under way
(`Alone`), each thread runs the object it was started with (`OwnObject`), the vector is
the consumers that run (`Owns`), and what the handler has read is still true
(`Knows`). Lemmas named `...Serial` take it through each step; `VectorCorrect` follows.
The teardown (`TeardownCorrect`) follows by counting: the writer has left its loop, so
all lines are written, so none is in a queue or in a hand.

**MlfqScheduler** (from `ThreadAssumption`, `TickAssumption`). `SchedInv` is `TypeOK`,
`Times` (the clock, the histories and the burst times agree), `TicksCharged`,
`AgingInv`, `QueuesInv` and `PreemptInv`. The properties speak of the time outside
interrupt handlers; the invariant says what holds inside, where a queue may be half
aged and a preemption decided but not carried out. `QueuesInv` states that the three
queues are a placement of the ready threads by level and that L1 is in order. `Aging`
is a fold in which each turn may move its thread to another queue; it is proved by
induction over the turns, as a set of numbers that holds 0 and `n + 1` with `n`
(`AllUpTo` of `NatLemmas`, from the least element of a set of numbers), because the
provers cannot use induction over a formula. The aging periods are quotients of times,
compared in `Mono`, `Periods` and `PeriodsLeft`.

**AddrSpace** (from `ThreadAssumption`, `MemoryAssumption`, `ProgramAssumption`).
`FramesAreExclusive` alone is not inductive: nothing in it says that the frames at
the front of the list are new to everybody. `FramesInv` does: the free list is
always the tail of `0 .. NumPhysPages - 1`, in order, every page table is a row of
frames below that tail, and the rows are disjoint. `AllocateInOrder` says what
`FrameTable::Allocate` returns of such a list, `HandOutInOrder` that the invariant
survives it; no other action touches frames. `RunInv` adds that only threads with a
table are loading or running, so that `RestoreState` always installs the thread's
own. `AddrInvHolds` puts them together, and `FramesExclusive`, `FramesContiguous` and
`OwnTable` follow. The proof of contiguity shows what it rests on: no frame is ever
released.
`MemoryIsKept` proves `MemoryHolds` with `MemInv` on top, which adds the sizes of
tables and memory (`Layout`) and that `Load` is inside the segment it is reading
(`LoadInOrder`). Because the frames of a program follow
one another, its cell `v` is at a base plus `v` (`Mapped`, `Places`); because the
frames of two programs are disjoint, no store reaches another's cells (`Apart`,
`Once`). `Load` copies a chunk by its physical address across pages, and is right for
the first reason only.

**KernelIO** (from `ThreadAssumption`, `WorkloadAssumption`, `InputAssumption`,
`FileAssumption`). `KernelInv` joins an invariant for each object: for each of the
four locks, its semaphore is 0 or 1, and 0 while a thread is between `Acquire` and
`Release`, of which there is one at most; for each device, it works on behalf of the
thread that waits for it, with one interrupt pending or one signal posted, so that it
is idle when it is asked for the next thing (the `ASSERT`s); for the condition, the
waiters are asleep or on their way; for the files, each entry of the table has a host
file of its own and an offset of -1 at least. `AssertionsAlwaysHold` is for any sizes
and any choice of the host, so it includes the aborts: `AbortNext` shows that NachOS ends
in the three named kinds of calls only. An object's steps keep its invariant; that the steps of all others
keep it too is shown once for each (`DiskSideApart`, `OutSideApart`, ...).
`NoLostSignal` counts the threads that are on their way to an item, which are finitely
many because each is in a call. `DiskRefines` and `ListRefines` are the refinements of
`AtomicStore` and `BoundedFifo`; `FilesRefine` is that of `UnixFiles` but for the four
departures, and shows that there is no fifth: what each thread shows
the abstract specification is a function of its own `pc`, `cur` and `got`, so a step
of one thread changes one view. `StreamsInOrder` adds an invariant of its own,
`StreamInv`: only the thread with the display's lock may have a string unfinished, up
to the character it has reached, and the input is what was received, what is buffered
and what is still to come, in that order.
`DiskIsMechanical` proves `LatencyIsMechanical`, from `DiskAssumption` as well, for
every geometry, speeds, requests and pauses. The invariant behind it, `ClockInv`, says
that the times are numbers, that the arm is at a sector of the disk and that the track
buffer began at a boundary of sectors. `NextMultiple` and `NextSlot` are the arithmetic
of the code's remainders: the first boundary from a time on, and the first slot of a
sector from a boundary on. With them `LatencyIs` shows that `ComputeLatency` is
`Mechanical`, the least slot in which the sector passes. By `KernelInv` the device is
idle when a request comes (`RequestDoes`), so that the request's is the only interrupt
due.

**PostOffice** (from `PostAssumption`, `WorkloadAssumption`). `PostInv` is `TypeInv`,
`CallInv` (the mail that a thread is about to send has a higher number than all it has
sent), `SignalInv` and `InOrderOrLost`. `SignalInv` says of each machine that one
thread at most is inside the send lock, that while the device has a packet the worker
is called for it, once, and that an interrupt is
due, or its signal posted, exactly while a thread waits for it; `SignalsCorrect` is
this in terms of cardinalities. It rests on the lock: without it two interrupts could
be due. `MailInOrder` follows mail along `Route`, stage by stage: each of `Polled`,
`Fetched`, `PutInBox`, `ReadFromBox`, `Dispatched` and `Destroyed` is one move on the
route, stated without the program, and each action is one of them on its machine and
leaves the routes of the others alone (`RouteKept`). `WorkerReceive` would put its last
packet into a box twice if it found the device empty; that it does not is
`SignalInv`. A worker runs on machines that are up only, without which `Start` would
break that.

**MipsCpu** (from `ScenarioAssumption`). `LoadInv` is `KernelSeesLoads` with the shape
of the registers: a load in progress is written before the kernel is entered, so
saved registers never hold one (`KernelNeverMeetsLoad`). `SwitchesAreInvisible`: no
step changes what a thread that does not run sees of its registers and
memory. `RegisterZero`: register 0 stays 0, delayed loads into it included.

`MipsImplemented` is `Spec /\ []ProgramsObey => ImplementsMips`: for every width of a
byte, any threads, programs, initial words and interleaving, each thread sees a MIPS
of its own. From `WordAssumption`, `CpuAssumption` (regions of jumps divide the
words, results of system calls are words) and `ScenarioAssumption` (instructions
have encodings, registers hold words, memories are whole words). `ProgramsObey` is
what the MIPS asks of compilers, `Demands`: the slot of a load leaves its register
alone, the slot of a branch holds no branch or system call, a branch that links does
not test its link register. The simulator needs two things more: `SRL` of words that
are not negative (the finding of `cpu_srl`), and no `J` whose slot is the last word of
a region, since the simulator takes the region of the word behind the slot where the
MIPS takes that of the slot. In the instances of the run
`cpu` the programs obey at every step: TLC finds `ProgramsObey` invariant when it is
added to `MCMipsCpu.cfg`. The argument goes bottom up:

- *words*: `2 ^ n` by counting subsets (`TwoTo`, `TwoToSum` of `NatLemmas`), quotients
  and remainders, `Signed` against `ToWord`, sums and differences and their overflow,
  bits (`AddsWord`: a sum of bits is a word), the four bytes of a word;
- *memory*: what `ReadMem` reads is made of four bytes and what `WriteMem` writes are
  bytes (`ReadMemIs`, `WriteMemWhole`), since words are aligned and memories whole;
- *instructions*: each class against the reference: computed values, loads and stores
  with `LWL`, `LWR`, `SWL` and `SWR` (`Cuts`: a word is its low and its high bytes),
  branches and links, division, and `Mult`. `MultIs` follows the loop with a function
  by recursion (`Recursion` of `NatLemmas`): after n steps the sum is the product
  with the low n bits of the factor, and a step after the last bit adds nothing,
  where the loop stops early. `ExceptionsAgree` and `InstructionsAgree` put the
  classes together, for registers in which a load is in progress;
- *decoding*: `DecodesBack`, field by field, from the two tables;
- *the machine*: `ObeyInv` is `LoadInv`, that registers hold words and memories
  bytes, that the code is the encodings of the program, and that a thread in the kernel
  is at a system call outside the slot of a branch. The last is why a return may
  advance the program counters without looking (`ReturnDoes`): it holds because traps
  do not move them. `ObeyNext` needs `InstructionsAgree` to say that results are
  words. `RefinesNext` maps instructions, address errors on fetching, returns and
  exits to steps of the processor of their thread, and by `SwitchesAreInvisible`
  everything else to none.

Only model-checked:

- liveness (`RunEnds`, `CallsReturn`, `MailArrives`), which the prover does not do;
- the file system (`FileHeaderLife`, `FileSystem`, refinement of `Namespace`), whose
  modules declare recursive operators over trees of headers and so are out of the
  provers' reach;
- that `SrlIsLogical` fails, and that the programs of `cpu` obey: both are about
  instances.

## 5. What is not modelled, and why

- The assembly of `SWITCH` and `ThreadRoot`, stacks, host wrappers, statistics, the
  debugger and debug output: data, or I/O on which no property depends.
- The hash table, which only its own test uses, and the self-tests.
- What a transfer of MP1 does to memory outside the program's buffer.
- The parts that a project has only as a copy (the FIFO scheduler of MP1 and MP4,
  MP1's linear address space, the flat file system of MP1 to MP3, which is compiled
  out; the devices, the synchronisation objects and the simulator, which MP1 to MP3
  share but for layout): each part is modelled once, the ones a project rewrote in
  that project. This is why the map names a small part of the lines of the
  repository, which holds four copies of NachOS.
- Concurrent file operations, writes through a file that was removed, reuse of a disk
  on which a crash left half of an entry or of a removal, what a signal handler does to the allocator it interrupts.
- Programs that read a register in the slot after its load, or branch or trap in the
  slot of a branch; address translation of the simulated instructions (it is in
  `AddrSpace`, for the loader and for system calls).
- The experiments in `main()`, scripts, test drivers and reports, which were read for
  what they claim.

## 6. Plan

Done: `BoundedFifo`, `TSQueue` and proofs; `Pipeline` and proofs; `MlfqScheduler` and
proofs; `Bitmap`, `FileHeader`, `OpenFile`, `FileHeaderLife`; `Namespace`, `FileSystem`;
`AddrSpace` and proofs; `Synch`, `SynchList`, `SynchDisk`, `SynchConsole`,
`StubFileSystem`, `KernelIO` and proofs; `PostOffice` and proofs; `Word`, `MipsDecode`,
`MipsCpu` and `Mips`, with proofs of what switches and traps keep and of the
refinement.

Next, in this order:

1. Proofs: `Bitmap`'s operators (`FindAndSet` gives a clear bit, the cached count is
   below the true one).
2. Two callers of MP4's file system, with a switch at each sector access.
3. Scheduler: starvation and liveness within L1 on a longer clock with fewer threads.
