------------------------------ MODULE Buffers ------------------------------
(***************************************************************************)
(* The buffer cache (bio.c), the sleep lock of each buffer (sleeplock.c)   *)
(* and the disk driver under them (ide.c).  bcache.lock is never held      *)
(* across a sleep, so its sections are single steps; idelock and the spin  *)
(* lock of a sleep lock are, and sleep gives them back (module Sleep).     *)
(* A client reads one block, may modify it and write it or leave it dirty  *)
(* for the log (log_write), and releases it.  A member of Procs is one     *)
(* such access: a kernel process has one of them under way, or two while   *)
(* bmap, itrunc, write_log or install_trans hold a second buffer.  The     *)
(* disk may fail on a command.  The data of a block is a counter modulo    *)
(* Values.                                                                 *)
(***************************************************************************)
EXTENDS Naturals, Sequences, FiniteSets, Sleep

CONSTANTS Blocks,      \* block numbers of the disk
          Bufs,        \* the NBUF buffers
          Values,      \* the contents of a block are in 0..Values-1
          MaxPinned,   \* blocks the log has dirty at once (LOGSIZE, which is NBUF: param.h)
          MaxBad       \* bound: blocks whose last command failed, at once

ASSUME BuffersAssumption ==
    /\ Values \in Nat \ {0} /\ None \notin Procs \cup Blocks \cup Bufs \cup 0..Values-1
    /\ IsFiniteSet(Procs) /\ IsFiniteSet(Bufs)
    /\ MaxPinned \in Nat /\ MaxBad \in Nat

VARIABLES
    pc,       \* where each process is in bread, bwrite or brelse
    cur,      \* the buffer it works on
    got,      \* the contents it read
    buf,      \* blockno, refcnt, flags, data and owner (sleep lock) of each buffer
    queue,    \* idequeue
    command,  \* what the controller was told to do, and whether it is done
    disk,     \* the blocks of the disk
    bad,      \* history: the blocks whose last command failed
    medium,   \* which driver was linked: "ide" (ide.c) or "memory" (memide.c)
    panic     \* a panic of the code was reached

vars == <<spin, nap, pc, cur, got, buf, queue, command, disk, bad, medium, panic>>
driver == <<queue, command, disk, bad, medium>>
client == <<cur, got>>
sleeping == <<spin, nap>>

NoCommand == [block |-> None, write |-> FALSE, data |-> 0, done |-> FALSE, failed |-> FALSE]

FreshBuffer == [block |-> None, refcnt |-> 0, valid |-> FALSE,
                dirty |-> FALSE, data |-> 0, owner |-> None]

Init ==
    /\ spin = [l \in {"ide"} \cup Bufs |-> None]
    /\ nap = [p \in Procs |-> Awake]
    /\ pc = [p \in Procs |-> "idle"]
    /\ cur = [p \in Procs |-> None] /\ got = [p \in Procs |-> None]
    /\ buf = [b \in Bufs |-> FreshBuffer]
    /\ queue = <<>> /\ command = NoCommand
    /\ disk = [k \in Blocks |-> 0] /\ bad = {} /\ medium \in {"ide", "memory"}
    /\ panic = FALSE

Goto(p, l) == pc' = [pc EXCEPT ![p] = l]
Runs(p, l) == pc[p] = l /\ nap[p] = Awake /\ ~panic
-----------------------------------------------------------------------------
(* bio.c: bget *)

Cached(k) == {b \in Bufs : buf[b].block = k}

\* The next definition as a search that forgets that B_DIRTY pins a buffer.
UnusedDirtyToo == {b \in Bufs : buf[b].refcnt = 0}

\* The buffers bget may recycle.  The code takes the least recently used of them.
Unused == {b \in Bufs : buf[b].refcnt = 0 /\ ~buf[b].dirty}

bget(p, k) ==
    /\ Runs(p, "idle")
    /\ \/ \E b \in Cached(k) :
            /\ buf' = [buf EXCEPT ![b].refcnt = @ + 1]
            /\ cur' = [cur EXCEPT ![p] = b] /\ Goto(p, "lock") /\ UNCHANGED panic
       \/ \E b \in Unused :
            /\ Cached(k) = {}
            /\ buf' = [buf EXCEPT ![b] = [@ EXCEPT !.block = k, !.refcnt = 1, !.valid = FALSE]]
            /\ cur' = [cur EXCEPT ![p] = b] /\ Goto(p, "lock") /\ UNCHANGED panic
       \/ /\ Cached(k) = {} /\ Unused = {}
          /\ panic' = TRUE /\ UNCHANGED <<pc, cur, buf>>
    /\ UNCHANGED <<got, driver, sleeping>>

\* console.c: the end of panic, which loops for ever.
Panicked == panic /\ UNCHANGED vars
-----------------------------------------------------------------------------
(* sleeplock.c *)

acquiresleep(p) ==
    LET b == cur[p] IN
    /\ Runs(p, "lock") /\ Open(b)
    /\ \/ /\ buf[b].owner # None
          /\ CallsSleep(p, <<"lock", b>>, b)
          /\ UNCHANGED <<buf, pc>>
       \/ /\ buf[b].owner = None
          /\ buf' = [buf EXCEPT ![b].owner = p]
          /\ Goto(p, "own") /\ UNCHANGED sleeping
    /\ UNCHANGED <<client, driver, panic>>

\* bread's test of B_VALID; the flags are read under the sleep lock alone.
Reads(p) ==
    /\ Runs(p, "own")
    /\ \/ /\ buf[cur[p]].valid
          /\ got' = [got EXCEPT ![p] = buf[cur[p]].data]
          /\ Goto(p, "hold")
       \/ /\ ~buf[cur[p]].valid
          /\ Goto(p, "read") /\ UNCHANGED got
    /\ UNCHANGED <<cur, buf, driver, sleeping, panic>>

\* brelse, first part: releasesleep wakes every process that waits for the lock.
releasesleep(p) ==
    LET b == cur[p] IN
    /\ Runs(p, "hold") /\ Open(b)
    /\ buf' = [buf EXCEPT ![b].owner = None]
    /\ wakeup(<<"lock", b>>)
    /\ got' = [got EXCEPT ![p] = None]
    /\ Goto(p, "put")
    /\ UNCHANGED <<cur, driver, spin, panic>>

\* What brelse makes of the reference count; the next definition as a slip.
DroppedNever(b) == buf[b].refcnt
Dropped(b) == buf[b].refcnt - 1

\* brelse, second part: the reference count, under bcache.lock.
brelse(p) ==
    LET b == cur[p] IN
    /\ Runs(p, "put")
    /\ buf' = [buf EXCEPT ![b].refcnt = Dropped(b)]
    /\ cur' = [cur EXCEPT ![p] = None]
    /\ Goto(p, "idle")
    /\ UNCHANGED <<got, driver, sleeping, panic>>
-----------------------------------------------------------------------------
(* The client's change of a block it holds: bwrite, or log_write's B_DIRTY. *)

\* The buffers that are dirty: pinned by the log, or in bwrite.
Pinned == {b \in Bufs : buf[b].dirty}

Modifies(p) ==
    LET b == cur[p] IN
    /\ Runs(p, "hold") /\ got[p] # None
    /\ \/ Goto(p, "write")
       \/ Cardinality(Pinned \cup {b}) <= MaxPinned /\ UNCHANGED pc
    /\ buf' = [buf EXCEPT ![b] = [@ EXCEPT !.data = (got[p] + 1) % Values, !.dirty = TRUE]]
    /\ got' = [got EXCEPT ![p] = None]
    /\ UNCHANGED <<cur, driver, sleeping, panic>>
-----------------------------------------------------------------------------
(* ide.c *)

\* idestart: outb and, for a write, outsl hand the request to the controller.
idestart(b) ==
    command' = [block |-> buf[b].block, write |-> buf[b].dirty,
                data |-> IF buf[b].dirty THEN buf[b].data ELSE 0, done |-> FALSE, failed |-> FALSE]

\* iderw: append b to the queue, start the disk if it is first, and sleep.
iderw(p) ==
    LET b == cur[p] IN
    /\ medium = "ide"
    /\ Runs(p, "read") \/ Runs(p, "write")
    /\ Open("ide")
    /\ queue' = Append(queue, b)
    /\ IF queue = <<>> THEN idestart(b) ELSE UNCHANGED command
    /\ CallsSleep(p, <<"io", b>>, "ide")
    /\ Goto(p, IF pc[p] = "read" THEN "reading" ELSE "writing")
    /\ UNCHANGED <<client, buf, disk, bad, medium, panic>>

\* The loop of iderw, each time its process runs again.
iderwLoops(p) ==
    LET b == cur[p] IN
    /\ Runs(p, "reading") \/ Runs(p, "writing")
    /\ Open("ide")
    /\ \/ /\ buf[b].valid /\ ~buf[b].dirty
          /\ Goto(p, IF pc[p] = "reading" THEN "own" ELSE "hold") /\ UNCHANGED sleeping
       \/ /\ ~buf[b].valid \/ buf[b].dirty
          /\ CallsSleep(p, <<"io", b>>, "ide") /\ UNCHANGED pc
    /\ UNCHANGED <<client, buf, driver, panic>>

\* The controller carries out its command and raises an interrupt.
DiskFinishes ==
    /\ command.block # None /\ ~command.done /\ ~panic
    /\ bad' = bad \ {command.block}
    /\ IF command.write
       THEN disk' = [disk EXCEPT ![command.block] = command.data] /\ command' = [command EXCEPT !.done = TRUE]
       ELSE command' = [command EXCEPT !.done = TRUE, !.data = disk[command.block]] /\ UNCHANGED disk
    /\ UNCHANGED <<pc, client, buf, queue, medium, sleeping, panic>>

\* It fails (IDE_DF or IDE_ERR): a read gives no data, a write leaves anything in the block.
DiskFails ==
    LET k == command.block IN
    /\ k # None /\ ~command.done /\ ~panic
    /\ bad' = bad \cup {k} /\ Cardinality(bad') <= MaxBad
    /\ command' = [command EXCEPT !.done = TRUE, !.failed = TRUE]
    /\ IF command.write
       THEN \E v \in 0..Values-1 : disk' = [disk EXCEPT ![k] = v]
       ELSE UNCHANGED disk
    /\ UNCHANGED <<pc, client, buf, queue, medium, sleeping, panic>>

\* The interrupt handler: the first request is done, the next one starts.  insl reads the
\* data unless the buffer was written or idewait(1) finds an error.
ideintr ==
    LET b == Head(queue) IN
    /\ command.done /\ queue # <<>> /\ Open("ide") /\ ~panic
    /\ queue' = Tail(queue)
    /\ buf' = [buf EXCEPT ![b] = [@ EXCEPT !.data = IF buf[b].dirty \/ command.failed THEN buf[b].data ELSE command.data,
                                           !.valid = TRUE, !.dirty = FALSE]]
    /\ wakeup(<<"io", b>>)
    /\ IF queue' # <<>> THEN idestart(Head(queue')) ELSE command' = NoCommand
    /\ UNCHANGED <<pc, client, disk, bad, medium, spin, panic>>

\* memide.c: iderw copies the block and is done.
memiderw(p) ==
    LET b == cur[p] IN
    /\ medium = "memory"
    /\ \/ Runs(p, "read") /\ Goto(p, "own")
       \/ Runs(p, "write") /\ Goto(p, "hold")
    /\ disk' = IF buf[b].dirty THEN [disk EXCEPT ![buf[b].block] = buf[b].data] ELSE disk
    /\ buf' = [buf EXCEPT ![b] = [@ EXCEPT !.data = IF buf[b].dirty THEN buf[b].data ELSE disk[buf[b].block],
                                           !.valid = TRUE, !.dirty = FALSE]]
    /\ UNCHANGED <<client, queue, command, bad, medium, sleeping, panic>>
-----------------------------------------------------------------------------
Sleeps(p) == FallsAsleep(p) /\ UNCHANGED <<pc, client, buf, driver, panic>>

Works(p) ==
    \/ \E k \in Blocks : bget(p, k)
    \/ acquiresleep(p) \/ Reads(p) \/ iderw(p) \/ iderwLoops(p) \/ memiderw(p)
    \/ Modifies(p) \/ releasesleep(p) \/ brelse(p) \/ Sleeps(p)

Next == DiskFinishes \/ DiskFails \/ ideintr \/ Panicked \/ \E p \in Procs : Works(p)

Spec == Init /\ [][Next]_vars
-----------------------------------------------------------------------------
Buffer == [block : Blocks \cup {None}, refcnt : 0..Cardinality(Procs), valid : BOOLEAN,
           dirty : BOOLEAN, data : 0..Values-1, owner : Procs \cup {None}]

(* The types of the variables. *)
TypeOK ==
    /\ spin \in [{"ide"} \cup Bufs -> Procs \cup {None}]
    /\ nap \in [Procs -> [stage : {"runs", "falls", "sleeps"},
                          chan : {None} \cup ({"lock", "io"} \X Bufs), lk : {None, "ide"} \cup Bufs]]
    /\ pc \in [Procs -> {"idle", "lock", "own", "read", "reading", "write", "writing", "hold", "put"}]
    /\ cur \in [Procs -> Bufs \cup {None}]
    /\ got \in [Procs -> 0..Values-1 \cup {None}]
    /\ buf \in [Bufs -> Buffer]
    /\ queue \in Seq(Bufs)
    /\ command \in [block : Blocks \cup {None}, write : BOOLEAN, data : 0..Values-1, done : BOOLEAN,
                   failed : BOOLEAN]
    /\ disk \in [Blocks -> 0..Values-1] /\ bad \subseteq Blocks /\ medium \in {"ide", "memory"} /\ panic \in BOOLEAN

\* bget runs out of buffers (bio.c:92) only when each one is held by an access under way
\* or is dirty: none is lost, however the accesses go together and whatever fails.
PanicOnlyWhenFull ==
    panic => \A b \in Bufs : b \in Pinned \/ \E p \in Procs : cur[p] = b

\* What a block contains: the data of its buffer if that is valid, else the disk's.
Contents(k) ==
    IF \E b \in Bufs : buf[b].block = k /\ buf[b].valid
    THEN buf[CHOOSE b \in Bufs : buf[b].block = k /\ buf[b].valid].data ELSE disk[k]

Register == [k \in Blocks |-> Contents(k)]

\* The block a process has read and may still change.
Held == [p \in Procs |-> IF got[p] = None THEN None ELSE buf[cur[p]].block]

Store == INSTANCE Counters WITH store <- Register, at <- Held

\* The buffers, their locks and the driver implement one register per block: one process
\* has it at a time, reads see the last write whatever is recycled in between, and no
\* update is lost.  Where the last command of the disk failed, the block may instead come
\* to hold anything, and nobody is told: ideintr makes the buffer valid all the same.
ImplementsStore == Store!Spec

\* No wakeup is lost and no request forgotten: who sleeps for a sleep lock sees it
\* owned, who sleeps for the disk has its buffer in the queue, and the head of the
\* queue is what the disk works on.
SleeperHasWaker ==
    /\ \A b \in Bufs : Sleepers(<<"lock", b>>) # {} => buf[b].owner # None
    /\ \A b \in Bufs : Sleepers(<<"io", b>>) # {} => \E i \in DOMAIN queue : queue[i] = b
    /\ queue # <<>> => command.block = buf[Head(queue)].block
-----------------------------------------------------------------------------
(* The inductive invariant that BuffersProofs proves. *)
Owning == {"own", "read", "reading", "write", "writing", "hold"}
AtDisk == {p \in Procs : pc[p] \in {"reading", "writing"}}
Queued == {queue[i] : i \in DOMAIN queue}
Fresh(b) == buf[b].valid /\ ~buf[b].dirty

\* Reference counts, and what a buffer is while it has any.
RefInv ==
    /\ \A p \in Procs : pc[p] = "idle" <=> cur[p] = None
    /\ \A b \in Bufs : buf[b].refcnt = Cardinality({p \in Procs : cur[p] = b})
    /\ \A p \in Procs : cur[p] # None => buf[cur[p]].block # None

\* Who owns a sleep lock is at work on the buffer, and the other way round.
OwnInv ==
    /\ \A p \in Procs : pc[p] \in Owning => buf[cur[p]].owner = p
    /\ \A b \in Bufs : buf[b].owner # None => cur[buf[b].owner] = b /\ pc[buf[b].owner] \in Owning

\* Where a process may sleep, and what it waits for.
NapInv ==
    \A p \in Procs : nap[p].stage # "runs" =>
        /\ nap[p].stage = "falls" => spin[nap[p].lk] = p
        /\ \/ pc[p] = "lock" /\ nap[p].chan = <<"lock", cur[p]>> /\ nap[p].lk = cur[p] /\ buf[cur[p]].owner # None
           \/ p \in AtDisk /\ nap[p].chan = <<"io", cur[p]>> /\ nap[p].lk = "ide" /\ ~Fresh(cur[p])

\* The queue holds the buffers whose owners wait for the disk, each once.
QueueInv ==
    /\ \A i, j \in DOMAIN queue : queue[i] = queue[j] => i = j
    /\ \A b \in Bufs : b \in Queued <=> ~Fresh(b) /\ \E p \in AtDisk : cur[p] = b

\* What the controller does is the first request.
CommandInv ==
    /\ queue = <<>> => command.block = None
    /\ queue # <<>> =>
        /\ command.block = buf[Head(queue)].block /\ command.write = buf[Head(queue)].dirty
        /\ command.write => command.data = buf[Head(queue)].data
        /\ command.failed => command.done
        /\ command.done => \/ command.block \in bad
                           \/ ~command.failed /\ command.data = disk[command.block]

\* One buffer for each block, equal to the disk when it is valid and clean and the last
\* command on the block did not fail.
DataInv ==
    /\ \A b, c \in Bufs : buf[b].block # None /\ buf[b].block = buf[c].block => b = c
    /\ \A b \in Bufs : buf[b].valid => buf[b].block # None
    /\ \A b \in Bufs : buf[b].dirty => buf[b].valid
    /\ \A b \in Bufs : Fresh(b) => buf[b].block \in bad \/ buf[b].data = disk[buf[b].block]

\* What a process knows of its buffer at each place.
PlaceInv ==
    /\ \A p \in Procs : pc[p] \in {"write", "writing", "hold"} => buf[cur[p]].valid
    /\ \A p \in Procs : pc[p] = "read" => ~buf[cur[p]].valid
    /\ \A p \in Procs : pc[p] = "write" => buf[cur[p]].dirty
    /\ \A p \in Procs : got[p] # None => pc[p] = "hold" /\ got[p] = buf[cur[p]].data

IndInv == TypeOK /\ RefInv /\ OwnInv /\ NapInv /\ QueueInv /\ CommandInv /\ DataInv /\ PlaceInv
=============================================================================
