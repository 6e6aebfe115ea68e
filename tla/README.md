# A verification project for the xv6 kernel of this repository

The repository holds the work of an operating-systems boot camp. Its one substantial program is an
x86 kernel, `src/week1/xv86/xv6-public` (xv6 with changes); the directories `week2` to `week5` hold
single files of that kernel as they were handed in. Below, a file without a directory is one of
`src/week1/xv86/xv6-public`.

This directory holds TLA+ modules that model the kernel, TLC configurations that check them on small
instances, and proofs that TLAPS checks. `PROJECT.json` says which definition models which lines.

## 1. The system

### Parts

| part | files | state | operations |
|---|---|---|---|
| spin locks | spinlock.c | `locked`, `cpu` of each lock; `ncli`, `intena`, FL_IF of each CPU | acquire, release, holding, pushcli, popcli |
| process table, scheduler | proc.c, trap.c, sysproc.c, init.c | the slots of `ptable`, `nextpid`, each CPU's `proc` | fork, exit, wait, sleep, wakeup, kill, yield, sched, scheduler |
| adoption and signals | proc.c (weeks 3, 4) | `parent` again, `PAUSE` | the changed exit, the changed scheduler, signalProcess |
| mylocks, shared counters | spinlock.c, proc.c, sysproc.c (week 5) | `exists`, `status`, the word of `ptable.lock`, three counters | init, acquire, holding, release of mylocks; init, update, display of counters |
| redo log | log.c | header in memory and on disk, `outstanding`, `committing` | begin_op, log_write, end_op, commit, recovery |
| buffer cache | bio.c | list of buffers, reference counts, flags | bread, bwrite, brelse |
| sleep locks | sleeplock.c | `locked`, `pid` | acquiresleep, releasesleep |
| disk driver | ide.c, memide.c | request queue | iderw, ideintr |
| pipes | pipe.c | ring buffer, two counters, two open flags | read, write, close |
| file table | file.c | reference counts, offsets | alloc, dup, close, read, write |
| inodes, directories | fs.c | inode cache, bitmap, link counts, directory entries | iget, ilock, iput, balloc, dirlink, namex |
| file system calls | sysfile.c | descriptors, current directory | open, link, unlink, mkdir, mknod, chdir, pipe |
| memory | kalloc.c, vm.c, exec.c | free list, page tables | kalloc, kfree, allocuvm, copyuvm, exec |
| image builder | mkfs.c | the image | run once, before the boot |
| user programs | init.c, sh.c, cat.c, ls.c, the course's programs | none beyond the process | system calls |
| regression tests | usertests.c | files and processes of their own | system calls |
| user allocator | umalloc.c | circular free list | malloc, free |
| console | console.c, kbd.c, uart.c | input ring | consoleintr, consoleread |
| the rest | main.c, mp.c, lapic.c, boot*, syscall.c | hardware registers, or none | |

### How they interact

Everything that is shared is protected by spin locks, and these by turning interrupts off. Code that
has to wait sleeps: `sleep(chan, lk)` gives up `lk` and the CPU, `wakeup(chan)` makes every process on
the channel RUNNABLE. The switch between a process and its CPU's scheduler happens with `ptable.lock`
held: whoever runs next releases it. Interrupts call `wakeup` (disk, timer, console) and make the
process that runs `yield`. Sleep locks, pipes, the log and the disk driver are built on sleep and
wakeup; the file system calls run between `begin_op` and `end_op`, so the log decides which of their
block writes survive a crash. The mylocks of week 5 use the word of `ptable.lock` itself, so user
processes and the scheduler interfere.

### What is hard here

Interleavings of CPUs and interrupt handlers; the hand-over of `ptable.lock` across a context switch;
a wakeup between a test and the sleep; chains of exits; slots that go back with stale contents; a
crash at any block write, a second crash in the recovery, buffers that are recycled while their
contents are only in the log; reservations of log space; and the places where the changes of the boot
camp cross assumptions of the original kernel; counts kept in two places (in the inode cache and on the
disk, in the file table and in descriptors) by calls that stop in the middle; sleep locks of inodes that
several calls take in different orders; pages that must go back when an allocation fails halfway.
`PROJECT.json`, under `hazards`, lists them by line. Those without a property have a note that says why.

### What makes each part correct

Spin locks: mutual exclusion, no panic, no self-deadlock with a handler, interrupts back as they were.
Process table: one CPU per process, no lost process, no lost wakeup, round robin starves nobody.
Adoption and signals: what the comments promise. mylocks: mutual exclusion, no lost update, progress.
Log: atomicity and durability of groups of calls, and progress. Buffer cache: one buffer per block;
sleep locks: exclusion and no lost wakeup; disk: every request is answered once, in order; pipes: a
FIFO of bytes in which nobody sleeps for ever; files and inodes: counts equal the references there
are; memory: a page has one owner.

## 2. Modules

| module | what it is |
|---|---|
| `SpinLock` | spinlock.c on several CPUs that take interrupts |
| `SpinLockProofs` | theorems about `SpinLock` |
| `Proc` | process table, scheduler, sleep and wakeup, as in `src/week3/findingPPID/proc.c` |
| `Adoption` | the loop of the final exit that gives children away, as operators on parent arrays |
| `ProcAdopt` | extends `Proc`: exit, scheduler and signals of the final proc.c |
| `ProcProofs` | theorems about `Proc` |
| `MyLock` | week 5's mylocks and one of the three equal counters |
| `MyLockProofs` | theorems about `MyLock` |
| `Transactions` | abstract: group transactions that are atomic and durable |
| `Log` | log.c with the buffers it relies on, crashes, recovery; implements `Transactions` |
| `LogProofs` | theorems about `Log` |
| `Sleep` | sleep and wakeup one lock operation at a time, for the two modules below |
| `Counters` | abstract: a disk as one register for each block, which a failed command may spoil |
| `Buffers` | bio.c, sleeplock.c, ide.c and memide.c; implements `Counters` |
| `BuffersProofs` | theorems about `Buffers` |
| `Channel` | abstract: bounded queues of bytes with two ends |
| `Pipe` | pipe.c with the file table, descriptors, fork, exit and kill; implements `Channel` |
| `PipeProofs` | theorems about `Pipe` |
| `Memory` | kalloc.c, vm.c, exec.c and growproc: who owns each page |
| `MemoryProofs` | theorems about `Memory` |
| `FileSystem` | fs.c, the calls of sysfile.c on names, and mkfs.c, as operators on a file system |
| `Inodes` | extends `FileSystem`: the same calls by several processes, between sleep locks |
| `InodesProofs` | theorems about `Inodes` |
| `System` | extends `FileSystem`: all system calls, by processes that run programs |
| `UserTests` | extends `System`: usertests.c and init.c as programs |
| `UserPrograms` | extends `UserTests`: the shell and the other programs |
| `MC*` | instances for TLC, one module for each module with runs |

An operator whose comment calls it a *fault* or a *slip* is not part of the specification. It is a
plausible mistake in the code, next to the operator that it would replace, and shows that a property can
fail: `PROJECT.json` names the pairs under `mutants`.

How they compose: `Proc` justifies taking a critical section of `ptable.lock` as a step (with `SpinLock`),
and `Sleep` uses that for sleep and wakeup; `Buffers` and `Pipe` build on `Sleep`. `Log` uses buffers as
`Buffers` provides them, a register per block with a pin. `FileSystem` sees the disk that `Log` promises:
a call is atomic towards a crash. `Inodes` and `System` are two views of `FileSystem`: the first cuts the
calls at the sleep locks and has two processes in them, the second has whole calls and the rest of the
system around them, with pipes as in `Channel` and memory as a count of the pages of `Memory`.

### SpinLock

State: `locked` and `lkcpu` are the fields of the locks; `IF_`, `ncli`, `intena` those of the CPUs;
`mode` says whether a CPU runs its thread or a handler on top of it; `pc`, `arg`, `eflags` are where
each is inside acquire or release, and with which locals. `held` is a history variable: the locks
whose word a context has set and not cleared.

A step is one access to a shared word: the exchange of `acquire` (`xchg`), the store of `lk->cpu`
(`RecordCpu`), the reads of `holding` (`HoldingReadsLocked`, `HoldingReadsCpu`), the two stores of
`release` in their order (`ClearCpu`, `Unlock`). `pushcli` is two steps, since an interrupt may come
between its read of eflags and its `cli`. The pushcli and popcli inside `holding` cancel and are left
out. A panic is the place "panic", from which there is no step.

Assumptions about callers: a thread or handler takes a lock only after those that come before it in
some fixed order (so never one it holds), releases what it holds in any order, and a handler returns
with nothing held. The kernel's locks do have such an order, with `ptable.lock` after the condition
lock, which is why `sleep` and `wakeup` work.

### Proc

State: the fields of the slots, and `kpc`, the place each process has reached in its kernel code;
`cpuproc` is `cpu->proc`, `scan` the loop variable of each scheduler, and `ptlock` is the CPU that
keeps `ptable.lock` across a context switch. A critical section of `ptable.lock` that does not switch
is one action: `SpinLock` justifies that. Writes that the code makes without the lock (the failure path
of fork, the parent of a new process) are actions of their own and do not need it.

Correspondence: `allocproc`, `ForkFails`, `ForkCopies`, `ForkDone` are fork; `exit`; `InWait` is the
entry of the loop of wait and `WaitReaps`, `WaitFails`, `WaitSleeps` its three ways on; `sleep`,
`wakeup`, `kill`, `yield`; `Dispatch` and `PassEnds` are the scheduler. `SyscallEnter`, `ExitKilled`
and `Fault` are the decisions of `trap`. Files, memory and registers of a process are left out.
init forks and waits and is never killed; fork's two failures (no page, no page table) are one.

### ProcAdopt

It replaces `exit` by `exitA` and `scheduler` by `schedulerA` and adds `signalProcess`, which writes into
the first slot with the pid it is given, whatever its state, init's included. The loop that
looks for a living ancestor is in `Adoption`, a recursive operator that returns every parent array the loop
may leave. When it goes through a null pointer, or below the table, it reads unrelated memory, and the model
chooses what it finds: the test of `killed` may go either way, and a parent read there is `Wild`, a pointer
to no process. (Address 0 is mapped, in the memory of the process that exits, so a null pointer does not
fault. That a wild one may is left out, and so is the word that `nproc--` may write below the table.)
Because of the recursive operators nothing is proved about this module.

### MyLock

Every shared access is a step, since the code takes no lock where it should. `mem` is the memory from
`exists` on: the loop in `init_mylockLC` reads past the end of it. A process is in user mode, in one of
the mylock calls, in `update_cnt`, or in a trap whose kernel code acquires `ptable.lock`, which is the
same word. Processes acquire only ids that they got and release what they acquired.

### Transactions and Log

`Transactions` has the disk as a crash leaves it (`stable`), what calls see (`cur`) and the active
calls. A commit happens only when none is active and makes all of `cur` stable; a crash restores.

`Log` has the home blocks, the log's data blocks and its header on the disk (`disk`, `logd`, `hd`);
buffers and the B_DIRTY flag (`cache`, `dirty`), the header in memory (`lh`), `outstanding`,
`committing`; and for each process where it is. A write of a block is one step and atomic; `Crash`
may happen before or after any step, loses all memory and leads to `read_head`. `Recycle` is bget
giving the buffer of a clean block to another one. The refinement mapping: `stable` is the disk that a
recovery would produce (`Recovered`), `cur` is what bread returns, a call is active from begin_op to
end_op. So `write_head` implements `Commit`, `install_trans` and `EraseHead` change nothing that can be
seen, and the commit of an empty log is a stutter.

`NLOG` is the length of the log in the super block: LOGSIZE, as mkfs.c:25 makes it, header included. So the
disk has LOGSIZE - 1 data blocks, while begin_op hands out LOGSIZE. log_write panics if the log in memory has
reached NLOG - 1 (`TooBig`), which it tests before it takes log.lock. A call logs at most `OpBlocks` blocks and
reserves MAXOPBLOCKS. With `Slack`, `OpBlocks < MAXOPBLOCKS`, the missing block is never needed; without it, it
is (`MCLogRace.cfg`). The calls of sysfile.c have slack: filewrite cuts a write into pieces of
`((MAXOPBLOCKS-1-1-2) / 2) * 512` bytes, 1536, which log at most four blocks of data, an indirect block, a
bitmap block and the inode, 7 of 10; mkdir, create, unlink and link log no more than 6. The exception is a
call whose path walk is the last user of several directories that others have removed meanwhile, each of
which it frees in its own transaction: then nothing bounds what it logs.

### Sleep, Counters and Buffers

`Sleep` has `spin`, who holds a lock across two steps, and `nap`, how far a process is in `sleep`. A
critical section that does not sleep is one step, guarded by `Open(lk)`; one that does ends in
`SleepAfter`, which keeps the lock, and `FallsAsleep` is the section of `ptable.lock` in which `sleep`
gives it back. So the order of the two acquires matters: the slip `SleepAfterOpen` lets go first.

`Buffers` has the buffers (`buf`: block, reference count, flags, data, owner of the sleep lock), the
queue of the driver, the command that the controller works on, and the disk. bget is one step of
bcache.lock, acquiresleep and releasesleep one each of the lock's spin lock, `iderw` appends, starts the
disk and sleeps, `DiskFinishes` is the controller, `ideintr` the interrupt. `medium` chooses between ide.c
and memide.c when the system starts. The client reads a block, may change it and then writes it or leaves
it B_DIRTY for the log, and releases it; the changed data is a count, so that a lost update shows.
A member of `Procs` is one such access. A process of the kernel has one under way, or two while bmap, itrunc,
write_log or install_trans hold a second buffer, and then it is two members. The log may pin `MaxPinned`
blocks at once, which may be all the buffers, since LOGSIZE is NBUF (param.h:11-12).
bget takes any buffer that it may recycle, where the code takes the least recently used. If there is none it
panics, and the kernel stops (`panic`, `Panicked`): the runs reach that.

`DiskFails` is the controller ending a command with IDE_DF or IDE_ERR. A failed read gives no data and a
failed write leaves anything in the block. ideintr does as the code does (ide.c:118): it skips insl, and
sets B_VALID, clears B_DIRTY and wakes the process as ever. So the buffer is valid with the data it had, perhaps
of another block. `bad` is a history variable: the blocks whose last command failed.

`Counters` promises one register for each block: one process at a time owns it from its read to its write
(`at`, which `Held` gives of the buffers), and what it writes is based on the last value. A block that is `bad`
may come to hold something else while nobody owns it, and only such a block.

### Channel and Pipe

A step of `Pipe` is a section of ftable.lock or of the pipe's lock; the copy loop of a read or write, up
to where it sleeps or returns, is one. `file` is ftable, `ofile` the descriptors, `pipe` the page of each
pipe; `call` is where a process is in read, write or the two parts of fileclose, between which the
entry may be given away. `nread` and `nwrite` wrap at `Wrap`. `sys_pipe` has its two ways to fail as well:
`PipeallocFails` (a file or the page is missing, and what was taken goes back) and `FdallocFails` (no two
descriptors: both files are closed). Two fields are not in the code: `sent`
numbers the bytes, and `silent` tells that a killed writer put bytes in without a wakeup (section 6), until the
next call that wakes the readers.
`Channel` is a queue for each pipe, with Put, Take and Close.

### Memory

An address space has its directory and kernel tables (`kernel`), user page tables (`table`), user pages
(`pte`), which of them the user may touch, and its size. allocuvm, deallocuvm, copyuvm, setupkvm and
freevm are functions of a page table under construction, with the free pages and whether every kalloc so
far succeeded; exec, growproc, fork, exit and wait are the steps. Sizes are numbers modulo twice KERNBASE.
Any number of pages may be with the rest of the kernel from the start, so kalloc fails at every point.

### FileSystem and Inodes

A file system is a record: the inodes on the disk (`disk`), the cache (`inode`, `ref`, `valid`), the
blocks and which are in use, and whether a panic was reached. Each function of fs.c is an operator from a
file system to a file system and a result. A block has `BSIZE` cells; a cell of a directory is an
entry, of an indirect block a number, of a file what its writer put there. `Consistent` is what a check of
the disk would look at: links equal names, blocks have one owner, the bitmap is that of the blocks
(`BlocksApart`). `InOrder` in `Inodes` says of a disk what fs.c relies on to read and write it at all.

`Inodes` gives each process a list of the steps left of its call (`todo`), each with the inodes it holds
references to; `owner` is the sleep lock of each inode. A step runs from one acquiresleep or icache.lock
section to the next: `namex1` is one element of a path; iput is `IputLooks`, `IputFrees` and `IputDrops`;
link is `LinkCounts`, `LinkEnters` and `LinkFails`; unlink `UnlinkLooks`, `UnlinkErases` and
`UnlinkCounts`; create `CreateLooks`, `CreateEnters` and `CreateFinds`. The calls have one transaction
each, so a commit happens when none is under way.

### System, UserTests and UserPrograms

A process has descriptors, a current directory, a number of pages, and the rest of its program: a sequence
of calls with what its author expects of the result, and the calls to make if it is positive or negative.
The programs in `UserTests` are the tests of usertests.c with their calls, tests and loops, whose numbers
are scaled to the constants; `UserPrograms` has the other programs, and the shell with its parser, on lines
of tokens. A call is one step; a write of more than `MaxWrite` cells, or to a pipe that is full, is
several, as in filewrite and pipewrite. A pid is the number of the slot. What a program prints is
written to the console device, one write for a printf. `choose` leaves open what a test takes from its
random numbers. `failed` says that a result was not what the program expects.

`exit` gives children away by the loop of `Adoption`, over the slots as they are. In the session that types
"zombie &" and then "nothing" this matters: the second step of the loop looks at the slot below that of the
child, which may be free, so the orphan's parent becomes Wild and nobody ever reaps it. `wait` gives the
first zombie in the order of the table. A process in wait that is given a zombie but not woken may be asleep
already, and then sleeps on (`deaf`); in the instance whoever is given a zombie child is also woken.
getppid of a process whose parent is no process gives 0 or -1.

## 3. Runs

| run | instance | checks | result |
|---|---|---|---|
| `spinlock` | 2 CPUs with handlers, 2 locks | MutualExclusion, NoPanic, InterruptsOffWhileHeld, InterruptFlagRestored, HeldLockIsFreed; no deadlock | hold |
| `proc` | 2 CPUs, 4 slots, pids to 4, 1 channel | TypeOK, OnOneCpu, ParentCanReap, WaiterNotForgotten, PidsUnique, ZombieUntilWait; no deadlock | hold |
| `adopt` | 1 CPU, 3 slots, no channels, PAUSE and CONTINUE to anybody | UnpausedRuns, OrphanReapedUnlessPaused | hold |
| `adopt_exit` | 1 CPU, 4 slots | AdoptedByAncestor | violated |
| `mylock` | 3 CPUs, 2 ids, 2 updates each | OneOwner, NoLostUpdate | hold |
| `log` | 2 processes that reserve 2 blocks and log 1, 3 blocks, 2 values, log of 3 data blocks and a header, 2 crashes | QuietIsDurable, NoPanic, Atomic, SleeperWakes | hold |
| `buffers` | 3 accesses, 3 blocks, 2 buffers that the log may both pin, both drivers, 1 bad block at a time | PanicOnlyWhenFull, SleeperHasWaker, ImplementsStore; no deadlock | hold |
| `pipe` | 2 processes with 2 descriptors, 3 files, 1 page, pipes of 2 bytes, counters modulo 6 | EndsMatchDescriptors, SleepersHaveReason, ImplementsChannel, OtherEndClosedEndsCall | hold |
| `memory` | 2 processes, 15 pages, 7 programs, 12 amounts for sbrk | PageHasOneOwner, SizeIsMapped, NoPanic; no deadlock | hold |
| `system` | 5 slots, 6 files, 7 cached inodes, 40 blocks of 4 cells; 51 programs for init to start | AsExpected, NoPanic, ReferencesCounted, DiskConsistent, WriteThrough, AllReturned; no deadlock | hold |
| `inodes` | 2 processes with 2 calls each out of 12, 8 inodes, 8 blocks | NoPanic, ReferencesHeld, LocksHeld, QuietConsistent, CacheIsDisk | hold |
| `inode_deadlock` | the same with 1 call each | NoCircularWait | violated |

**What the passing runs show.** `spinlock`: two CPUs and two nested locks have every pair of contexts
compete, also a handler with the CPU it interrupts and with the other CPU; a third lock or CPU adds
only longer queues, and the safety part is proved for any number of them. `proc`: four slots make init, a
child, a grandchild and a fork under way possible, which is what exit, wait and adoption distinguish;
two CPUs run two of them at once, and the hand-over of the lock between two schedulers happens. Pids
go to 4, so a slot is freed and reused. `adopt` is smaller because liveness is checked on the whole
graph; three slots have init, a child and a grandchild that init adopts. `mylock`: two processes can share
an id while a third uses another, and the kernel competes with all. `log`: two processes overlap, wait for
space (2 * MAXOPBLOCKS is LOGSIZE, so one block left by a finished call makes begin_op sleep), absorb each other's
blocks, commit in groups, and log_write's test of the size runs against the other's; the second crash can
hit the recovery from the first.

`buffers`: with two buffers for three blocks every read may recycle, a pinned buffer must be passed by, both may
be pinned or held so that bget panics, two accesses wait for one lock while the third has it, and the queue
holds two requests behind each other. Any command may fail while no other block is bad, the retry too.
`pipe`: a pipe of two bytes is full, empty and in between, writes of three have to sleep, and the counters
wrap after six; each process may have both ends, fork, close or be killed at any point. The third file
lets an entry be given away while its last user is still between the two parts of fileclose, and pipe fail
for want of the page, of a file or of descriptors. That more
than two processes sleep on one channel is left to `buffers`. `memory`: every number of free pages
from none on occurs at the start, so each kalloc of each operation is the one that fails, and the programs
have headers that exec must refuse. `system`: every test of usertests.c but two, nine sessions at the
shell, and the programs of the course, each from boot until init has waited for the last process. All
orders of the steps of processes that run at the same time occur. The constants are just large enough: the
cache of inodes has 7 entries so that `iref` fills it if a reference is lost, a file may have 28 cells
so that the indirect block is used, forks fail at the fifth process and memory ends at 30 pages. AllReturned allows for the orphans with a Wild
parent, which the zombie sessions reach: they keep their slots and pages, and nothing else is lost.
`inodes`: two calls of each process let a file be removed, made again and opened between two steps of the
other; the paths go through ".." and into a directory that is removed meanwhile.

**What the violated runs show.**

- `adopt_exit`: the comment at proc.c:278 promises the first living parent of the dead parent.
  The loop steps through the table with `nproc--` instead of going up the tree, so from its second
  step on it looks at and changes the parent of another slot.
- `inode_deadlock`: create has locked its new inode when it calls iunlockput(dp), and unlink the inode it
  removes. iput (fs.c:334) takes the lock of dp again. In between, another process in unlink or create can
  take dp, find the inode in it and wait for its lock, with dp locked. Both wait for ever.
  usertests.c:855-856 has a "link/unlink/create test, to look for deadlocks", which `system` does not
  violate, because its calls are whole; with the calls cut at their locks the deadlock takes ten steps.

**More configurations** are kept beside the runs, to be run by hand
(`tlc -config <file> <module>`):

| configuration | module | property | result |
|---|---|---|---|
| `MCProcReap.cfg` | MCProc | RunnableRuns, OrphanReaped, in the kernel of week 3 | hold |
| `MCProcAdoptBorn.cfg` | MCProcAdopt | BornClean | violated: PAUSE and killed survive in a free slot |
| `MCProcAdoptZombie.cfg` | MCProcAdopt | ZombieUntilWait, with KILL | violated: a zombie runs on |
| `MCProcAdoptWait.cfg` | MCProcAdopt | WaiterNotForgotten, with KILL | violated: no parent is woken |
| `MCMyLockLive.cfg` | MCMyLock | UpdatesDone | violated: the kernel spins for a word that a process holds |
| `MCLogRace.cfg` | MCLog | Atomic, with calls that log all they reserve | violated: three calls overfill the log |
| `MCInodesLeak.cfg` | MCInodes | NothingLeaks | violated: two iputs leave the freeing to each other |
| `MCRootHole.cfg` | MCUserTests | WriteThrough, with an image whose root directory fills its blocks | violated: a read allocates a block |
| `MCDiskFull.cfg` | MCUserTests | DiskConsistent, with files that do not fit | violated: mkfs stops before it writes the bitmap |

Section 6 says more of each of these.

**Bounds.** `MaxPid` (Proc: fork fails to start beyond it), `MaxInits` and `MaxUpdates` (MyLock: calls
of a process), `MaxCrashes` (Log), `MaxCalls` (Inodes), `MaxBad` (Buffers: blocks
that are bad at once), `MaxPinned` (Buffers), `Values` (Buffers, Pipe: data counts modulo it),
`Wrap` (Pipe: in place of 2^32). Tests and programs in `system` are finite. All other state is bounded by
the code itself.

**Deadlock** is checked where the system goes on for ever, or ends in a state that says so (`Ends` in
`System`, so a test that hangs is an error). `mylock` turns the check off, since a panic stops the kernel
there; `pipe`, since a process may read an empty pipe that only itself could write; the two runs of
`MCInodes`, since the code can deadlock, which is what `inode_deadlock` is about.

**What the instances leave out.** The calls of `inodes` never create in a directory that is being removed,
never remove one with a directory in it, and never name "." or ".." last: each of these reaches a defect
that section 6 describes, and would hide the rest. The tests `bsstest` (memory that is zero at the start)
and `fsfull` (which fills the disk, until balloc panics) are not programs of `system`.

## 4. Fairness

- `SpinLock!Fairness`: a CPU executes the code it is in (weak). `SF(xchg)`: the exchange of a spinning
  CPU succeeds if the word is free again and again: the x86 bus is fair in that sense, the code has no
  tickets. `SF(ReleaseCall)`: a critical section, with the sections nested in it, ends; WF(Iret):
  handlers return. No fairness is asked of `AcquireCall` and `Interrupt`.
- `Proc!KernelFairness`: each CPU's scheduler gets to run (strong, since it spins for `ptable.lock`),
  the timer makes a process that runs in user mode or outside of locks yield, and a process that owns
  the lock in wait goes on. `InitWaits`: init.c loops in wait, its forks and sleeps come to an end.
  Nothing is assumed of other processes: they may never exit or call wait.
- `ProcAdopt!LiveSpecA`: as in Proc. signalProcess takes any pid, so a process may pause init, and then nothing
  runs it; OrphanReapedUnlessPaused therefore promises that an orphaned zombie is freed or init is found paused.
- `Pipe!Spec`: a process in the kernel is scheduled again and again (weak). Nothing is asked of user code.
- `Buffers`, `Memory`, `Inodes` and `System` state safety only. That every program of `system` ends is the
  absence of deadlock in a graph without cycles but those of programs that spin until they are killed.
- `MyLock!FairSpec`: every CPU executes its code and each spin loop is as in SpinLock, and a process
  between two traps gets on. The counterexample needs no unfairness.
- `Log!FairSpec`: the disk answers, and a call that began comes to its end_op. begin_op itself is not
  fair: SleeperWakes is about being woken, since a process that loses the race for the space again may
  sleep again, and log.c gives no promise beyond that.

## 5. Proofs

The proofs hold for every value of the constants under the assumptions that the modules name. Each
module has an inductive invariant `IndInv`, which TLC checked on the instance of the module's run
before it was proved, and a lemma for each action or group of actions that keeps it.

### SpinLockProofs

Assumption: `SpinAssumption` (a finite nonempty set of locks, which are natural numbers whose order is
the lock order; `NoCpu` is no CPU). The number of CPUs is arbitrary.

| theorem | statement |
|---|---|
| SpinInvariant | `Spec => []IndInv` |
| SpinTypeCorrect | `Spec => []TypeOK` |
| SpinMutualExclusion | `Spec => []MutualExclusion` |
| SpinNoPanic | `Spec => []NoPanic` |
| SpinInterruptsOff | `Spec => []InterruptsOffWhileHeld` |
| SpinFlagRestored | `Spec => []InterruptFlagRestored` |

None of the properties is inductive. That acquire does not panic needs that `lk->cpu` is this CPU only
if one of its contexts holds the lock (`HolderRecorded`, with the two gaps between the word and its
recorded owner), and that the other context does not hold it: a handler runs only over a thread that
holds nothing, which is so because interrupts are off when ncli is positive (`FlagInv`), which counts
the locks held and the calls under way (`NcliCounts`). That popcli does not panic needs the same count.
`LockWord` ties the word to the history and gives mutual exclusion; `HoldsArg` is the lock order.
Frame lemmas say what an action leaves alone.

### ProcProofs

Assumption: `ProcAssumption` (at least one slot, at least pid 1, channels are natural numbers other
than slots, `NoCpu` is no CPU).

| theorem | statement |
|---|---|
| ProcInvariant | `Spec => []IndInv` |
| ProcTypeCorrect | `Spec => []TypeOK` |
| ProcOnOneCpu | `Spec => []OnOneCpu` |
| ProcParentCanReap | `Spec => []ParentCanReap` |
| ProcWaiterNotForgotten | `Spec => []WaiterNotForgotten` |
| ProcPidsUnique | `Spec => []PidsUnique` |
| ProcZombieUntilWait | `Spec => ZombieUntilWait` |

What has to be added concerns fork, which writes its new slot without the lock. `ForkInv`: a fork under
way owns an EMBRYO slot, alone, which has no parent before the parent is recorded. So a failing fork
takes nothing from anybody, and the parent that appears makes no sleeping process a parent.
`FreeHasNoParent`: allocproc never hands out a slot that somebody counts among its children, because
wait clears the parent and fork fails only before it sets it. `SleepsOnSelf`: the wakeup in exit
reaches the parent. `NotOwnParent` and `InitAlive`: init, which adopts, is not the one that exits, and
a process that exits is not among the children that wake init. `PidsBelow` gives uniqueness of pids.
The action property follows because only WaitReaps changes a ZOMBIE: the other actions change the
process that runs (RUNNING by OnOneCpu), a slot of a fork (EMBRYO by ForkInv), or sleepers.

### MyLockProofs

Assumption: `MyLockAssumption` (at least one mylock; the bounds are natural numbers).

| theorem | statement |
|---|---|
| MyLockInvariant | `Spec => []IndInv` |
| MyLockTypeCorrect | `Spec => []TypeOK` |
| MyLockOneOwner | `Spec => []OneOwner` |
| MyLockNoLostUpdate | `Spec => []NoLostUpdate` |

`WordOwned`: owners are one process at most, and there is none while the word is 0. `KernelOwns`: the
kernel is in its section only on behalf of a process without a mylock, so the release at its end frees
no process's lock. `ScanInRange` and `NcliCounts` bound the ids and ncli. The theorems say what is
right about mylocks, for processes that use them as the model assumes; `MCMyLockLive.cfg` says what is not.

### BuffersProofs

Assumption: `BuffersAssumption` (finite sets of accesses and buffers, at least one value, `None` is no member
of the other sets). The set of blocks is arbitrary, and so are the number of buffers, of blocks that the log
pins and of blocks the disk fails on.

| theorem | statement |
|---|---|
| BuffersInvariant | `Spec => []IndInv` |
| BuffersTypeOK | `Spec => []TypeOK` |
| BuffersPanicOnlyWhenFull | `Spec => []PanicOnlyWhenFull` |
| BuffersSleeperHasWaker | `Spec => []SleeperHasWaker` |
| BuffersImplementStore | `Spec => ImplementsStore` |

`IndInv` is in `Buffers`. `RefInv`: a reference count is the number of processes on the buffer, so one
without any may be recycled and none in use is. PanicOnlyWhenFull follows: a buffer that bget passes by is
dirty or has an access, and once the kernel has stopped nothing changes. `OwnInv`: the owner of a sleep lock is the one process
between acquiresleep and releasesleep of its buffer; so the client, the driver and B_VALID, which the code
tests under the sleep lock alone, never disturb each other (`PlaceInv`). `QueueInv` and `CommandInv` tie
the request queue to the processes in iderw and the controller to the head of the queue; `NapInv` says what
each sleeper waits for, and that who falls asleep still holds the spin lock of its condition, without
which a wakeup could come between. `DataInv`: a block has one buffer, and a clean one agrees with the disk
unless the block is bad. `CommandInv` says the same of a command that is done: it is on a bad block, or it has
what the disk has. For the refinement, `ContentsKept` says when a change of one buffer leaves what the blocks
contain; only `Modifies` changes that, and on a bad block ideintr and a recycling, which are Spoils. DiskFails
is Fails, and a command that succeeds on a bad block is Recovers.

### LogProofs

Assumption: `LogAssumption` (a finite set of processes, MAXOPBLOCKS less than LOGSIZE, OpBlocks at most
MAXOPBLOCKS, `Boot` is no process). The log is that of mkfs, LOGSIZE blocks with its header.
Blocks, contents, sizes and the number of crashes are arbitrary. `Fits` says that the log in memory has a
data block on the disk for each of its entries; `Slack`, that a call logs fewer blocks than it reserves.

| theorem | statement |
|---|---|
| LogControl | `Spec => []ControlInv` |
| LogTypeCorrect | `Spec => []TypeOK` |
| LogNoPanic | `Slack => (Spec => []NoPanic)` |
| LogInvariant | `Spec /\ []Fits => []IndInv` |
| LogFits | `Slack => (Spec => []Fits)` |
| LogAtomicWhileItFits | `Spec /\ []Fits => Atomic` |
| LogAtomic | `Slack => (Spec => Atomic)` |
| LogQuietIsDurable | `Spec /\ []Fits => []QuietIsDurable` |

There are two invariants. `ControlInv` holds of a log of any length. `CallInv` says that calls, a commit and
a recovery exclude each other, and that `outstanding` counts the calls. `SpaceInv` is the argument of begin_op:
`Room` is the set of blocks that active calls may still log, and with what is in the log it is at most LOGSIZE; a call that is absorbed, or ends early, only gives room back. With `Slack` two blocks stay
free (`Spare`): of two calls in progress each leaves one, and a call alone starts with an empty log, which is
longer than one reservation. So the log in memory stays below its LOGSIZE - 1 data blocks, and the test of
log_write, made without the lock and before absorption, never fails (LogNoPanic).

`IndInv` adds what the disk says, and needs `Fits`. `StageInv` follows the steps of a commit or a recovery:
the header on the disk is empty until the data blocks are all written (`Copying`), equal to the one in
memory until they are all installed (`Installing`), and it is erased when the home blocks have what the log
has (`Clearing`). `CleanInv`: a buffer that may be recycled agrees with the disk, unless its change is about
to be logged. A crash forgets `lh`, so the steps of recovery re-establish the same with what the disk has.
For the refinement each step is compared in `Recovered` (what a recovery from here would leave) and in what
bread returns.

`Fits` is a hypothesis, since it does not follow from the code of log.c alone: mkfs gives the log LOGSIZE blocks,
its header included, and `MCLogRace.cfg` shows what happens when calls log all they reserve. With `Slack` it is a
theorem (LogFits), and LogAtomic has no hypothesis but that; section 2 says which calls have it.

### PipeProofs

Assumption: `PipeAssumption` (finite sets of processes, descriptors and files; Wrap is a multiple of
PIPESIZE and greater; `First` is a process; `None` is no member of the other sets). The set of
pages and the sizes are arbitrary.

| theorem | statement |
|---|---|
| PipeInvariant | `Spec => []IndInv` |
| PipeTypeCorrect | `Spec => []TypeOK` |
| PipeEndsMatchDescriptors | `Spec => []EndsMatchDescriptors` |
| PipeSleepersHaveReason | `Spec => []SleepersHaveReason` |
| PipeImplementsChannel | `Spec => ImplementsChannel` |

`CountInv`: an entry of ftable counts its descriptors, as the cardinality of the set of them; fork adds the
descriptors of the child, a set as large as that of the parent's. `EndInv`: an end that is open has one
holder, an entry with references or a process between fileclose and the end of pipeclose, and one
that is closed has none. `CallInv` gives a process in read or write a descriptor of the end that it uses,
so nobody closes that end under it and the page stays (`PageInv`). For the wakeups, `NapInv` says that who
falls asleep has kept the lock of its pipe since its test, so no wakeup comes in between, and `ReasonInv`
that a sleeper's condition is still the one it found: whoever changes it holds the lock and wakes all.

For the refinement the queue of a page is `Ring`: its bytes from nread on. `ModShift` is where it matters that
Wrap is a multiple of PIPESIZE: the place of a byte in the ring does not change when a counter wraps. `PutRing`
and `TakeRing` say that the loops of pipewrite and piperead append to this sequence and drop its first
elements; they are about all places at once, so no induction is needed. A write that finds the pipe full
and a read that finds it empty are stutters. A page that pipealloc takes is unused and empty (EmptyHasRoom),
and the failures of sys_pipe give back all they took, so they are stutters too.

### MemoryProofs

Assumption: `MemoryAssumption` (physical pages are natural numbers, finitely many; pages and page tables have
some size and divide KERNBASE, which is more than two pages; header fields are words; `None` is no page).
Which pages, programs, arguments and amounts there are, and how many processes, is arbitrary.

| theorem | statement |
|---|---|
| MemoryInvariant | `Spec => []IndInv` |
| MemoryTypeCorrect | `Spec => []TypeOK` |
| MemoryPageHasOneOwner | `Spec => []PageHasOneOwner` |
| MemorySizeIsMapped | `Spec => []SizeIsMapped` |
| MemoryNoPanic | `Spec => []NoPanic` |

Everything rests on two facts about a page table under construction, which each function of vm.c is shown to
keep. `Has(m, F)`: the pages F there were at the start are free or in m, each in one place; this makes each
failure path give back what it took. `Upto(m, n)`: the first n pages are mapped, with their page tables, and no
others. MapsPageIs is one round of the loop of allocuvm or copyuvm, with its three outcomes; MapsAll the
whole loop; Allocs and Unmaps are allocuvm, with deallocuvm in its failure, and deallocuvm; SegmentIs is a
program header. The sums that exec guards (`ph.vaddr + ph.memsz`) and the one that it does not (`sz +
2*PGSIZE`) are taken modulo the word: WrapIs says when they wrap, and that KERNBASE is more than two pages is
what the second one needs. `Trades` is the step of the invariant: one process exchanges
pages with the free list, and nobody else is touched.

`SizeInv` allows for no page at all whatever the size is: sbrk that takes all memory leaves the size as it
was (section 6), and such a process can only fault, which is why RunsIs can exclude it.

### InodesProofs

Assumption of all: `InodesAssumption` (finitely many processes, calls of the six kinds, a disk that nobody
uses yet). The paths are arbitrary, and for the first three theorems so is what the file system has in it: a
name may lead to any inode, free or not, and a bitmap may have nothing to do with the inodes. Such a disk leads
to the panics of fs.c, and the theorems are about everything before one.

The others use `DiskAssumption` too: the cache is empty, as at boot, and the disk is in order (`InOrder`).
A block is in one place of one inode, and those blocks are the ones in use; a free inode has none; a file has a
block wherever it has cells; what an indirect block lists are blocks, and an entry of a directory names an
inode number that there is. Nothing is asked of links, of names or of what kind of inode a name leads to. The
images of mkfs are such disks but for the two defects of section 6: a root directory that fills its blocks
(`MCRootHole.cfg`) and files that do not fit (`MCDiskFull.cfg`). TLC evaluates both assumptions on the
disk of the runs of `MCInodes`, which mkfs and create have made.

| theorem | statement |
|---|---|
| InodesInvariant | `Spec => []IndInv` |
| InodesReferencesHeld | `Spec => []ReferencesHeld` |
| InodesLocksHeld | `Spec => []LocksHeld` |
| InodesSound | `Spec => []AllInv`, which is `IndInv /\ LockInv /\ SoundInv` |
| InodesInOrder | `Spec => [](~fs.panic => InOrder(fs.disk, fs.block, fs.used))` |
| InodesBlocksApart | `Spec => [](~fs.panic => BlocksApart(OnDisk(fs)))` |
| InodesCacheIsDisk | `Spec => []CacheIsDisk` |
| InodesLetGo | `Spec => [][...]_vars`: iunlock and the freeing in iput never panic |

Each operator of `FileSystem` is shown to keep the counts of references (`Keeps`) or to change one by what
its name says (`Moves`), if it does not panic: bmap, balloc, itrunc, readi, writei and dirlink keep them, iget,
ialloc and dirlookup add one, Drops takes one. The other side is the list of steps left of a call. `Planned`
says in what order they come: steps that let something go, then a walk, then the step that waits for
it, which has no inode yet, or a last step; only a step of link, unlink or create has two
inodes; and a step that ends with a file open is there only if the process has none open. ReferencesHeld is
not inductive without it: a step could overwrite an inode it holds. `Count` is the number of references
that a list of steps holds; places are counted from the end, so that a step in front adds its own (CountCons)
and moves nobody's. Lemma Step is the shape of every step: one process replaces its list, and the counts
of `ref` change by the difference. Lemma Moved makes of that a statement about the union over all
processes, whatever the others hold.

For LocksHeld, `Lets` counts the steps that let go of a lock in the same way. A step takes a free lock and
leaves a step that lets it go, or lets it go as it said, or does nothing with locks (LockStep). So a
process that comes to iunlock has that lock, on every path of link, unlink, create and iput, the
failing ones included, and no path ends with one.

InodesInOrder says what `QuietConsistent` says of blocks, and says it between any two sections and not only
when no call is under way: BlocksApart is a conjunct of `Consistent`. `SoundInv` is its invariant. `Sound` is
about one file system: it is in order, and an inode that is `Live`, that is read and referenced, is in the
cache what it is on the disk and not free (`Fresh`). Inside a section the inode at work is ahead of its disk,
so the lemmas about bmap and writei carry `Ahead` instead: the disk *with that inode in it* is in order. bmap
gives it a block that nobody has (GetsBlock), into an address or into the list; a write fills cells of its
own blocks only; iupdate makes it `Sound` again. itrunc gives back what is its own, so bfree finds it in
use. `Carries` is the shape of these lemmas for the operators of a section one after another: if the file
system runs, it still runs, or has panicked, and what was live is live.

This is not inductive by itself, and not by the counts of references or the locks either. A section that
begins with a lock held from an earlier one (unlink's erasing in dp, create's `dirlink`, the count after the
erasing) is sound only if that inode is still live. So the three invariants are proved together: a
lock that is held is one that a step is to let go (LockInv); such a step, or the put behind it, has a
reference (`Aimed`, and `LetsHolds`); a reference keeps the inode in the cache (ReferencesHeld); and the inode was
read when it was locked (`OwnersIn`). That is lemma Owned. `Aimed` also says that each step is about an
inode that there is. Loops are recursive functions over the blocks that a read or a write spans, so
an induction over numbers (MapsAllIs) is enough for them.

### Only model-checked

`ProcAdopt` and `UserPrograms` have recursive operators, which are out of the prover's reach. `System` and
`UserTests` compute with folds over paths and programs; what those return for every argument is an induction over
data, which is out of its reach too. Of `Inodes`, the links of QuietConsistent: that each inode has as many as it
has names is false while a call is under way, and with the calls of section 6 (a name entered in a directory
that is being removed) false for good, so it holds for some sets of calls only; `MCCalls` is one. NoPanic depends on
it (an inode with a name is not freed), and on the sizes (no inode, block or cache entry left): of its panics
iunlock's and bfree's are proved unreachable. Every liveness property: the prover does not
do fairness or ENABLED. The loops of `Memory` are recursive functions, with one invariant each, so an
induction over a set of numbers (lemma Upward) is enough for them.
The type invariants that no run lists and no theorem states (`ProcAdopt!TypeOKA` and so on) were checked on the instances of the runs.

## 6. Behaviour met on the way

Where a configuration shows it, its name is given; the others were met while reading, and the model does the
same as the code.

### Processes

- `MCProcAdoptBorn.cfg`: signalProcess (proc.c:655) goes through all slots and so sets PAUSE of a slot that is
  free (a free slot has pid 0 and so has the argument), and a process that ends paused or killed leaves its
  marks. allocproc says it will "initialize state required to run in the kernel" (proc.c:72-73); it
  initializes neither `killed`, "If non-zero, have been killed" (proc.h:48), nor PAUSE, "if 0 then not paused
  and viceversa" (proc.h:52), so a process may be born paused.
- `MCProcAdoptZombie.cfg`: signalProcess(KILL) makes any process ZOMBIE (proc.c:676), also one that runs or
  is on a channel. "An exited process remains in the zombie state until its parent calls wait()"
  (proc.c:229-230); a running one goes on and becomes RUNNABLE again when it yields. While it runs it is not
  RUNNING, so trap never makes it yield.
- `MCProcAdoptWait.cfg`: the same line wakes nobody. A parent in wait sleeps on, although the comment in wait
  refers to the wakeup in exit (proc.c:349), and signal_test.c:36-37 waits and expects to go on.
- exit wakes init for an adopted zombie (proc.c:296) also when the child went to somebody else.
- The loop of exit (proc.c:289-293) may leave a child with a parent that is no process: its second step follows
  the parent of the slot below, which is null if that slot is free. Such an orphan is never reaped, and its slot,
  stack and memory are lost. AllReturned says that nothing else is; the zombie sessions of `system` reach it.
- Any process may pause init (signalProcess, proc.c:652-684): then no orphan is reaped until somebody continues it.
- getppid follows the parent of every slot without the lock and a freed slot has none (proc.c:588).
- The shell waits for its child with `wait()` and takes any answer for it. A grandchild that was adopted
  by the shell may be the one that is reaped.
- growproc returns -1 when deallocuvm returns 0 (proc.c:173): sbrk(-sz) has freed all pages, and neither `sz`
  nor the result tells.
- retNumpp (vm.c:399-428) walks from 0 to the end of the first entry of `kmap`, in user addresses:
  it counts the pages below 1 MB and leaves the loop before it looks at the last of them.

### Locks

- acquire_mylockLC calls pushcli (spinlock.c:148) and nothing undoes it, although the comment at
  spinlock.c:97-98 says of pushcli and popcli that "they are matched".
- `MCMyLockLive.cfg`: a process with a mylock has the word of `ptable.lock` (spinlock.c:156). If it enters the
  kernel and comes to an acquire of `ptable.lock`, it spins for its own word, so that the counters do not
  come "to be 20000", as test-multiprocess.c:20-21 has it.
- init_mylockLC tests `counter <= 10` (spinlock.c:125) of arrays of 10, so an eleventh call reads and
  writes the word behind `exists` and returns id 10.

### Log, disk, files

- `MCLogRace.cfg`: log_write refuses a block at one less than the log that mkfs makes (log.c:218), before it
  takes log.lock and before it looks whether the block is absorbed, while begin_op reserves up to LOGSIZE. So
  calls that log all they reserve can reach panic("too big a transaction"), or two pass the test at once and the
  log runs over the block behind it. No call of sysfile.c logs so much but in the case that section 2 names.
- LOGSIZE is NBUF (param.h:11-12), so a full log pins every buffer, and the next bread panics ("bget: no
  buffers"). begin_op lets calls reserve all of LOGSIZE, and only their slack keeps them from it. `Buffers` has
  that panic; PanicOnlyWhenFull says that nothing less leads to it.
- ideintr marks a buffer B_VALID when idewait has reported an error (ide.c:118-122), so bread returns what
  the buffer held before, if it was recycled the data of another block. `Buffers` has this: ImplementsStore
  holds for each block except after such an error, until the next command on the block succeeds.
- `MCInodesLeak.cfg`: "If that was the last reference and the inode has no links to it, free the inode"
  (fs.c:327-329). Two processes in iput both find `ref` 2, and then both only decrement: the inode keeps its
  blocks, with no name and no reference.
- `inode_deadlock` (section 3). link("x", "d/..") takes locks up and down the tree in the same way, and
  link(f, ".") in a removed directory comes to a lock that it has.
- create and link look a directory up, give its lock back and take it again later. If it is removed meanwhile,
  they enter a name into it, and the inode is lost when the directory is freed. So for a removed directory that
  is somebody's current directory.
- A removed directory keeps its "..". When the parent is removed and freed too, the path ".." leads to an
  inode of type 0 and panic("ilock: no type").
- `MCRootHole.cfg`: mkfs rounds the size of the root directory up to the *next* block (mkfs.c:161), so a root
  whose entries fill their blocks gets one with no block. readi of it goes through bmap (fs.c:470),
  which allocates, outside of a transaction and with no iupdate.
- `MCDiskFull.cfg`: mkfs writes the bitmap last; if the files do not fit its assertion stops it before that, and
  it leaves an image with an empty bitmap. The image `fs.img` in the repository is such a one.
- A writer that is killed while the pipe is full returns without wakeup (pipe.c:86-88), also when it has put
  bytes in since the reader went to sleep: the reader sleeps with bytes in the pipe until the next write
  or close. `Pipe` has the field `silent` for it.
- A kill between the test of `killed` and the sleep (pipe.c:107-111) finds the process running, and its
  process sleeps in spite of it until another wakeup.
- The shell opens the file of ">>" as that of ">" (sh.c:391): it writes from the start.
- The last loop of createdelete (usertests.c:646) puts the letter by `i` where it means `pi`, so that most of the
  files stay behind; nothing tests for that.

Assumed: nobody calls kill on init (it is not the target of `kill` in `Proc`, and `KILL` is a signal only in two
configurations of section 3); a write of one disk block is atomic towards a crash; calls stay within MAXOPBLOCKS
different blocks.

## 7. Not modelled

- `umalloc.c`: one list per process, sequential, with no interaction; nothing would depend on the rest.
- `console.c`, `kbd.c`, `uart.c`: the input ring works as a pipe with one writer and a line at a time.
  The shell's lines are given to it in `System`, and output is a write to the console device.
- Boot, multiprocessor start-up and interrupt controllers (main.c, mp.c, lapic.c, ioapic.c, boot*, entry*) run
  once and program hardware. Start-up of a CPU ends in its scheduler, where `Proc` and `SpinLock` begin.
- getcallerpcs, procdump, numvp and the printing calls only read. Of the process information calls,
  `System` has those whose result a program of the repository tests.
- Dispatch of system calls checks addresses; `System` has its results, where a test passes bad ones.
- The contents of memory and registers; so `bsstest` and the loader's copy loop. `fsfull` ends in
  panic("balloc: out of blocks"), as its comment expects it to do.
- The exercises of weeks 1 and 2 outside the kernel have nothing to check.

## 8. Plan

Done: `SpinLock`, `Proc`, `MyLock`, `Log` as `Transactions`, `Buffers` as `Counters`, `Pipe` as `Channel`,
`Memory` and `Inodes`, all with proofs; `Sleep`, `ProcAdopt`, `FileSystem`, `System`, `UserTests`, `UserPrograms`.

Left, in this order:

1. NoPanic of `Inodes` for calls that leave directories alone, which needs, at every step, the links that
   the calls under way still have to count.
2. The console's input ring as a `Channel` of lines; the free list of umalloc.c as a set of disjoint blocks.
3. System calls that are cut at their transactions and at their inode locks at once, on a smaller `System`.
