---------------------------------- MODULE Log ----------------------------------
(***************************************************************************)
(* The redo log of the file system (log.c) with the buffer cache as far as *)
(* the log depends on it (bio.c: a B_DIRTY buffer stays, others may be     *)
(* recycled), crashes, and recovery at boot.                               *)
(*                                                                         *)
(* A critical section of log.lock is one action; a write of a disk block   *)
(* is one action and atomic, as log.c assumes of the disk; a crash happens *)
(* between any two actions and loses all memory.                           *)
(***************************************************************************)
EXTENDS Naturals, Sequences, FiniteSets

CONSTANTS
  Procs,        \* processes that make file system calls
  Boot,         \* the first process, in forkret, when it runs initlog
  Blocks,       \* blocks of the file system outside the log
  Vals,         \* their contents
  Blank,        \* the contents that mkfs leaves
  MAXOPBLOCKS, LOGSIZE,   \* as in param.h
  OpBlocks,     \* the most blocks that one system call logs
  Behind,       \* the block on the disk after the log: the first inode block
  NotCached,    \* no buffer
  MaxCrashes    \* bound: crashes of a behaviour

ASSUME LogAssumption ==
  /\ IsFiniteSet(Procs) /\ Boot \notin Procs
  /\ Blank \in Vals /\ NotCached \notin Vals
  /\ Behind \in Blocks
  /\ MAXOPBLOCKS \in Nat \ {0} /\ LOGSIZE \in Nat /\ MAXOPBLOCKS < LOGSIZE
  /\ OpBlocks \in 1 .. MAXOPBLOCKS
  /\ MaxCrashes \in Nat

\* sb.nlog as mkfs writes it: the blocks of the log, header included.
NLOG == LOGSIZE

VARIABLES
  disk,         \* home blocks on the disk
  logd,         \* data blocks of the log on the disk
  hd,           \* block numbers of the header on the disk
  cache,        \* data of the buffer of each block
  dirty,        \* the blocks whose buffer is B_DIRTY
  lh,           \* log.lh in memory: block numbers, n of them
  outstanding, committing,
  pc, tail,     \* of each process
  blk,          \* the b of log_write, between its check and its update; else Behind
  wrote,        \* the blocks each system call has logged
  crashes

durable == <<disk, logd, hd>>
memory == <<cache, dirty, lh, outstanding, committing>>
local == <<pc, tail, blk, wrote>>
vars == <<durable, memory, local, crashes>>

Actors == Procs \cup {Boot}

\* "out": no file system call; "retry": in begin_op, woken; "op": in a call;
\* "logging": in log_write; "copy", "head", "install", "clear", "done": in commit;
\* "read": in recovery; "off": after it; "toobig", "panic": in a panic.
PCs == {"out", "asleep", "retry", "op", "logging", "copy", "head", "install",
        "clear", "done", "read", "off", "toobig", "panic"}

TypeOK ==
  /\ disk \in [Blocks -> Vals]
  /\ logd \in [1 .. LOGSIZE -> Vals]
  /\ hd \in Seq(Blocks) /\ Len(hd) <= LOGSIZE
  /\ cache \in [Blocks -> Vals \cup {NotCached}]
  /\ dirty \subseteq Blocks
  /\ lh \in Seq(Blocks) /\ Len(lh) <= LOGSIZE
  /\ outstanding \in 0 .. Cardinality(Procs)
  /\ committing \in BOOLEAN
  /\ pc \in [Actors -> PCs]
  /\ tail \in [Actors -> 1 .. LOGSIZE]
  /\ blk \in [Procs -> Blocks]
  /\ wrote \in [Procs -> SUBSET Blocks]
  /\ crashes \in 0 .. MaxCrashes

\* What a crash loses.
Reboot ==
  /\ cache' = [b \in Blocks |-> NotCached]
  /\ dirty' = {}
  /\ lh' = <<>>
  /\ outstanding' = 0
  /\ committing' = FALSE
  /\ pc' = [a \in Actors |-> IF a = Boot THEN "read" ELSE "out"]
  /\ tail' = [a \in Actors |-> 1]
  /\ blk' = [p \in Procs |-> Behind]
  /\ wrote' = [p \in Procs |-> {}]

\* The disk that mkfs makes, in a machine that starts.
Init ==
  /\ disk = [b \in Blocks |-> Blank]
  /\ logd = [i \in 1 .. LOGSIZE |-> Blank]
  /\ hd = <<>>
  /\ cache = [b \in Blocks |-> NotCached]
  /\ dirty = {}
  /\ lh = <<>>
  /\ outstanding = 0
  /\ committing = FALSE
  /\ pc = [a \in Actors |-> IF a = Boot THEN "read" ELSE "out"]
  /\ tail = [a \in Actors |-> 1]
  /\ blk = [p \in Procs |-> Behind]
  /\ wrote = [p \in Procs |-> {}]
  /\ crashes = 0

-----------------------------------------------------------------------------
(* The buffer cache *)

\* bread: a buffer holds what was written to it, or is read from the disk.
Contents(b) == IF cache[b] = NotCached THEN disk[b] ELSE cache[b]

\* bget recycles the buffer of a block that nobody uses and that is not B_DIRTY.
Recycle(b) ==
  /\ cache[b] # NotCached
  /\ b \notin dirty
  /\ \A p \in Procs : pc[p] = "logging" => blk[p] # b
  /\ cache' = [cache EXCEPT ![b] = NotCached]
  /\ UNCHANGED <<durable, dirty, lh, outstanding, committing, local, crashes>>

-----------------------------------------------------------------------------
(* begin_op *)

AtBegin(p) == pc[Boot] = "off" /\ pc[p] \in {"out", "retry"}

\* Each call reserves MAXOPBLOCKS; the fault counts only those that run already.
HasSpaceWithoutMe == Len(lh) + outstanding * MAXOPBLOCKS <= LOGSIZE
HasSpace == Len(lh) + (outstanding + 1) * MAXOPBLOCKS <= LOGSIZE

MayBegin == ~committing /\ HasSpace

begin_op(p) ==
  /\ AtBegin(p)
  /\ MayBegin
  /\ outstanding' = outstanding + 1
  /\ pc' = [pc EXCEPT ![p] = "op"]
  /\ UNCHANGED <<durable, cache, dirty, lh, committing, tail, blk, wrote, crashes>>

BeginSleeps(p) ==
  /\ AtBegin(p)
  /\ ~MayBegin
  /\ pc' = [pc EXCEPT ![p] = "asleep"]
  /\ UNCHANGED <<durable, memory, tail, blk, wrote, crashes>>

\* wakeup(&log), and a fault: nobody wakes up.
wakeupNobody(pcs) == pcs
wakeup(pcs) == [a \in Actors |-> IF pcs[a] = "asleep" THEN "retry" ELSE pcs[a]]

-----------------------------------------------------------------------------
(* log_write *)

TooBig == Len(lh) >= LOGSIZE \/ Len(lh) >= NLOG - 1

\* A call changes the buffer that it has locked, and log_write checks the size
\* of the log before it takes log.lock.  A call logs at most OpBlocks blocks.
LogWriteChecks(p, b, v) ==
  /\ pc[p] = "op"
  /\ Cardinality(wrote[p] \cup {b}) <= OpBlocks
  /\ \A q \in Procs : pc[q] = "logging" => blk[q] # b
  /\ cache' = [cache EXCEPT ![b] = v]
  /\ pc' = [pc EXCEPT ![p] = CASE TooBig          -> "toobig"
                                [] outstanding < 1 -> "panic"
                                [] OTHER           -> "logging"]
  /\ blk' = [blk EXCEPT ![p] = b]
  /\ UNCHANGED <<durable, dirty, lh, outstanding, committing, tail, wrote, crashes>>

\* log_write's loop: a block is in the log once.
Absorb(b) == IF \E i \in 1 .. Len(lh) : lh[i] = b THEN lh ELSE Append(lh, b)

\* B_DIRTY pins the buffer; the fault leaves it to be recycled.
NotPinned(b) == dirty
Pinned(b) == dirty \cup {b}

log_write(p) ==
  /\ pc[p] = "logging"
  /\ lh' = Absorb(blk[p])
  /\ dirty' = Pinned(blk[p])
  /\ wrote' = [wrote EXCEPT ![p] = @ \cup {blk[p]}]
  /\ pc' = [pc EXCEPT ![p] = "op"]
  /\ blk' = [blk EXCEPT ![p] = Behind]
  /\ UNCHANGED <<durable, cache, outstanding, committing, tail, crashes>>

-----------------------------------------------------------------------------
(* end_op: the last call to end commits *)

\* The first step of the commit, with its guard; the fault commits nothing.
CommitNever == "done"
CommitStarts == IF lh # <<>> THEN "copy" ELSE "done"

end_op(p) ==
  /\ pc[p] = "op"
  /\ outstanding' = outstanding - 1
  /\ wrote' = [wrote EXCEPT ![p] = {}]
  /\ committing' = (committing \/ outstanding = 1)
  /\ tail' = [tail EXCEPT ![p] = 1]
  /\ pc' = CASE committing      -> [pc EXCEPT ![p] = "panic"]
             [] outstanding = 1 -> [pc EXCEPT ![p] = CommitStarts]
             [] OTHER           -> [wakeup(pc) EXCEPT ![p] = "out"]
  /\ UNCHANGED <<durable, cache, dirty, lh, blk, crashes>>

-----------------------------------------------------------------------------
(* commit, and recovery *)

\* An actor at step "at" of a loop over the log goes on with the next block, or to "next".
Loops(a, at, next) ==
  /\ pc[a] = at
  /\ IF tail[a] < Len(lh)
       THEN tail' = [tail EXCEPT ![a] = @ + 1] /\ pc' = pc
       ELSE tail' = [tail EXCEPT ![a] = 1] /\ pc' = [pc EXCEPT ![a] = next]

\* write_log copies one block.  The log has NLOG - 1 data blocks; the next block
\* on the disk is a home block.
write_log(p) ==
  LET i == tail[p]  v == Contents(lh[i]) IN
  /\ Loops(p, "copy", "head")
  /\ IF i < NLOG
       THEN logd' = [logd EXCEPT ![i] = v] /\ UNCHANGED <<disk, cache, dirty>>
       ELSE /\ disk' = [disk EXCEPT ![Behind] = v]
            /\ cache' = [cache EXCEPT ![Behind] = v]
            /\ dirty' = dirty \ {Behind}
            /\ UNCHANGED logd
  /\ UNCHANGED <<hd, lh, outstanding, committing, blk, wrote, crashes>>

\* write_head: the commit point.
write_head(p) ==
  /\ pc[p] = "head"
  /\ hd' = lh
  /\ pc' = [pc EXCEPT ![p] = "install"]
  /\ UNCHANGED <<disk, logd, memory, tail, blk, wrote, crashes>>

\* install_trans copies one block to its home; log.lh.n = 0 after the last one.
install_trans(a) ==
  LET i == tail[a]
      b == lh[i]
      v == IF i < NLOG THEN logd[i] ELSE Contents(Behind)
  IN
  /\ Loops(a, "install", "clear")
  /\ disk' = [disk EXCEPT ![b] = v]
  /\ cache' = [cache EXCEPT ![b] = v]
  /\ dirty' = dirty \ {b}
  /\ lh' = IF i < Len(lh) THEN lh ELSE <<>>
  /\ UNCHANGED <<logd, hd, outstanding, committing, blk, wrote, crashes>>

\* write_head again erases the transaction.
EraseHead(a) ==
  /\ pc[a] = "clear"
  /\ hd' = <<>>
  /\ pc' = [pc EXCEPT ![a] = IF a = Boot THEN "off" ELSE "done"]
  /\ UNCHANGED <<disk, logd, memory, tail, blk, wrote, crashes>>

\* end_op after its commit.
CommitEnds(p) ==
  /\ pc[p] = "done"
  /\ committing' = FALSE
  /\ pc' = [wakeup(pc) EXCEPT ![p] = "out"]
  /\ UNCHANGED <<durable, cache, dirty, lh, outstanding, tail, blk, wrote, crashes>>

\* recover_from_log: read_head, then as in commit.
read_head ==
  /\ pc[Boot] = "read"
  /\ lh' = hd
  /\ pc' = [pc EXCEPT ![Boot] = IF hd = <<>> THEN "clear" ELSE "install"]
  /\ UNCHANGED <<durable, cache, dirty, outstanding, committing, tail, blk, wrote, crashes>>

\* Power fails, or somebody resets the machine.
Crash ==
  /\ crashes < MaxCrashes
  /\ crashes' = crashes + 1
  /\ Reboot
  /\ UNCHANGED durable

-----------------------------------------------------------------------------

Commits(p) ==
  write_log(p) \/ write_head(p) \/ install_trans(p) \/ EraseHead(p) \/ CommitEnds(p)

Recovers == read_head \/ install_trans(Boot) \/ EraseHead(Boot)

Next ==
  \/ \E p \in Procs :
       \/ begin_op(p) \/ BeginSleeps(p)
       \/ \E b \in Blocks, v \in Vals : LogWriteChecks(p, b, v)
       \/ log_write(p) \/ end_op(p) \/ Commits(p)
  \/ Recovers
  \/ \E b \in Blocks : Recycle(b)
  \/ Crash

Spec == Init /\ [][Next]_vars

\* The disk answers, every process gets to run, and every call comes to its end_op.
FairSpec ==
  /\ Spec
  /\ WF_vars(Recovers)
  /\ \A p \in Procs : WF_vars(log_write(p) \/ Commits(p)) /\ SF_vars(end_op(p))

-----------------------------------------------------------------------------
(* Properties *)

\* The disk after a recovery would have this: the transaction in the log, if
\* there is one, over the home blocks.
Recovered ==
  [b \in Blocks |->
     IF \E i \in 1 .. Len(hd) : hd[i] = b
       THEN logd[CHOOSE i \in 1 .. Len(hd) : hd[i] = b]
       ELSE disk[b]]

\* The calls between begin_op and end_op, and the one, if any, whose end_op commits.
Active == {p \in Procs : pc[p] \in {"op", "logging", "toobig", "panic"}}
Committers == {p \in Procs : pc[p] \in {"copy", "head", "install", "clear", "done"}}

\* What system calls read; before the recovery is over there are none.
Seen == IF pc[Boot] = "off" THEN [b \in Blocks |-> Contents(b)] ELSE Recovered

Tx == INSTANCE Transactions
        WITH stable <- Recovered, cur <- Seen,
             active <- Active

\* Whatever the interleaving and wherever it crashes, the log commits only when
\* no system call is active, and all of their writes or none.
Atomic == Tx!TxSpec

\* end_op of the last active call leaves nothing to lose.
QuietIsDurable ==
  pc[Boot] = "off" /\ outstanding = 0 /\ ~committing => Seen = Recovered

\* No call is active during a commit, and no commit starts during another: log_write never finds
\* itself outside of a transaction, and end_op never finds a commit.  And what begin_op reserves
\* is enough: log_write never finds "too big a transaction", also not in a block logged again.
NoPanic == \A p \in Procs : pc[p] \notin {"toobig", "panic"}

\* A call that sleeps in begin_op is woken to look again.
SleeperWakes == \A p \in Procs : pc[p] = "asleep" ~> pc[p] # "asleep"
-----------------------------------------------------------------------------
(* Why it holds: an inductive invariant *)

InLog == {lh[i] : i \in 1 .. Len(lh)}

Empty == lh = <<>>

\* No call logs all that it reserves.
Slack == OpBlocks < MAXOPBLOCKS

\* Who is in a system call, in a commit, and in a recovery: never two of them at a time.
CallInv ==
  /\ outstanding = Cardinality(Active)
  /\ committing => Active = {}
  /\ committing <=> Committers # {}
  /\ \A p, q \in Committers : p = q
  /\ \A p \in Procs : /\ pc[p] \notin {"read", "off", "panic"}
                      /\ pc[p] = "toobig" => ~Slack
  /\ pc[Boot] \in {"read", "install", "clear", "off"}
  /\ pc[Boot] # "off" => \A p \in Procs : pc[p] = "out"
  /\ pc[Boot] = "read" => tail[Boot] = 1
  /\ \A a \in Actors : pc[a] \in {"copy", "head", "install"} => tail[a] <= Len(lh)
  /\ pc[Boot] = "off" /\ Active = {} /\ Committers = {} => Empty
  /\ \A a \in Actors : pc[a] \in {"read", "clear", "done"} => Empty

\* The blocks of the log that the calls in progress may still take.
Room == {x \in Active \X (1 .. OpBlocks) : x[2] > Cardinality(wrote[x[1]])}

\* If no call does, two blocks always stay free: of two calls in progress each leaves one, and a
\* call alone starts with an empty log, which is longer than one reservation.
Spare == IF Slack THEN 2 ELSE 0

\* What calls may still log fits into the log, and a call has logged what it says.
SpaceInv ==
  /\ Len(lh) + Cardinality(Room) + Spare <= LOGSIZE
  /\ Len(hd) + Spare <= LOGSIZE
  /\ \A p \in Procs : /\ wrote[p] \subseteq InLog
                      /\ p \notin Active => wrote[p] = {}
                      /\ pc[p] = "logging" => Cardinality(wrote[p] \cup {blk[p]}) <= OpBlocks

ControlInv == TypeOK /\ CallInv /\ SpaceInv

\* All of the transaction is in the data blocks of the log on the disk.
Fits == Len(lh) < NLOG

\* No block is twice in the log.
DistinctInv ==
  /\ \A i, j \in 1 .. Len(lh) : lh[i] = lh[j] => i = j
  /\ \A i, j \in 1 .. Len(hd) : hd[i] = hd[j] => i = j

\* What the header, the log and the buffers say of each other while a step of a commit or of a
\* recovery is about to run: the header names a transaction only from write_head on, when the
\* data blocks are written, until all are installed; its blocks are pinned until then.
Quiet == hd = <<>> /\ dirty = InLog
Copying(p) ==
  /\ Quiet
  /\ pc[p] = "head" => tail[p] = 1
  /\ \A i \in 1 .. Len(lh) : pc[p] = "head" \/ i < tail[p] => logd[i] = Contents(lh[i])
Installing(a) ==
  /\ hd = lh
  /\ \A i \in 1 .. Len(lh) : i < tail[a] => disk[lh[i]] = logd[i] /\ lh[i] \notin dirty
  /\ a # Boot => dirty \subseteq InLog /\ \A i \in 1 .. Len(lh) : logd[i] = Contents(lh[i])
Clearing == lh = <<>> /\ dirty = {} /\ \A i \in 1 .. Len(hd) : disk[hd[i]] = logd[i]

StageInv ==
  /\ pc[Boot] = "off" /\ Committers = {} => Quiet /\ (Active = {} => lh = <<>>)
  /\ pc[Boot] # "off" => dirty = {}
  /\ pc[Boot] = "read" => lh = <<>>
  /\ \A p \in Procs : pc[p] \in {"copy", "head"} => Copying(p)
  /\ \A a \in Actors : pc[a] = "install" => Installing(a)
  /\ \A a \in Actors : pc[a] = "clear" => Clearing
  /\ \A p \in Procs : pc[p] = "done" => Quiet /\ lh = <<>>

\* A buffer that bget may recycle holds what is on the disk.
CleanInv ==
  \A b \in Blocks \ dirty :
    \/ cache[b] \in {NotCached, disk[b]}
    \/ \E p \in Procs : pc[p] \in {"logging", "toobig"} /\ blk[p] = b

IndInv == ControlInv /\ DistinctInv /\ StageInv /\ CleanInv
===============================================================================
