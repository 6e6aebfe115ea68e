------------------------------- MODULE SpinLock -------------------------------
(***************************************************************************)
(* The spin locks of the kernel (spinlock.c): acquire, release, holding,   *)
(* pushcli and popcli, on a multiprocessor whose CPUs take interrupts.     *)
(*                                                                         *)
(* Every CPU runs kernel code in one of two contexts: the thread that was  *)
(* running, and the interrupt handler that interrupted it (an interrupt    *)
(* gate clears FL_IF, so handlers do not nest).  Both contexts take locks. *)
(* Each step of a context is one access to a shared word (lk->locked,      *)
(* lk->cpu) or one manipulation of the CPU's interrupt flag; ncli and      *)
(* intena are private to a CPU that has interrupts off when it uses them.  *)
(***************************************************************************)
EXTENDS Integers, FiniteSets

CONSTANTS
  CPUs,    \* the processors
  Locks,   \* the spin locks, numbered in the order in which code nests them
  NoCpu    \* the null struct cpu pointer

ASSUME SpinAssumption ==
  /\ Locks \subseteq Nat
  /\ IsFiniteSet(Locks)
  /\ Locks # {}
  /\ NoCpu \notin CPUs

\* The two contexts a CPU can run kernel code in.
Modes == {"thread", "intr"}
Contexts == CPUs \X Modes

VARIABLES
  locked,  \* lk->locked: the word xchg works on
  lkcpu,   \* lk->cpu: the holder recorded in the lock
  IF_,     \* FL_IF of each CPU's eflags
  ncli,    \* cpu->ncli: depth of pushcli nesting
  intena,  \* cpu->intena: were interrupts enabled before pushcli?
  mode,    \* the context each CPU is running
  pc,      \* where each context is inside acquire or release
  arg,     \* the lock that acquire or release was called with
  eflags,  \* the local variable of pushcli
  held     \* history: the locks whose word this context set and has not cleared

vars == <<locked, lkcpu, IF_, ncli, intena, mode, pc, arg, eflags, held>>

\* "run" is code outside spinlock.c; "panic" is where panic() loops for ever.
PCs == {"run", "push", "hold1", "hold2", "spin", "own",
        "rel1", "rel2", "clear", "unlock", "pop", "panic"}

TypeOK ==
  /\ locked \in [Locks -> {0, 1}]
  /\ lkcpu \in [Locks -> CPUs \cup {NoCpu}]
  /\ IF_ \in [CPUs -> BOOLEAN]
  /\ ncli \in [CPUs -> Nat]
  /\ intena \in [CPUs -> BOOLEAN]
  /\ mode \in [CPUs -> Modes]
  /\ pc \in [Contexts -> PCs]
  /\ arg \in [Contexts -> Locks]
  /\ eflags \in [Contexts -> BOOLEAN]
  /\ held \in [Contexts -> SUBSET Locks]

\* The value of an argument that no call has set yet.
AnyLock == CHOOSE l \in Locks : TRUE

\* initlock: every lock is free and has no holder.
initlock ==
  /\ locked = [l \in Locks |-> 0]
  /\ lkcpu = [l \in Locks |-> NoCpu]

Init ==
  /\ initlock
  /\ IF_ = [c \in CPUs |-> TRUE]
  /\ ncli = [c \in CPUs |-> 0]
  /\ intena = [c \in CPUs |-> FALSE]
  /\ mode = [c \in CPUs |-> "thread"]
  /\ pc = [x \in Contexts |-> "run"]
  /\ arg = [x \in Contexts |-> AnyLock]
  /\ eflags = [x \in Contexts |-> FALSE]
  /\ held = [x \in Contexts |-> {}]

\* The context that CPU c is executing.
Cur(c) == <<c, mode[c]>>

\* The running context of c moves from one place in spinlock.c to another.
Goto(c, from, to) ==
  /\ pc[Cur(c)] = from
  /\ pc' = [pc EXCEPT ![Cur(c)] = to]

-----------------------------------------------------------------------------
(* acquire *)

\* Entry of acquire(l): pushcli reads eflags.  Code takes a lock it does not
\* hold, and only after the locks that come before it in the lock order.
AcquireCall(c, l) ==
  /\ \A h \in held[Cur(c)] : h < l
  /\ Goto(c, "run", "push")
  /\ arg' = [arg EXCEPT ![Cur(c)] = l]
  /\ eflags' = [eflags EXCEPT ![Cur(c)] = IF_[c]]
  /\ UNCHANGED <<locked, lkcpu, IF_, ncli, intena, mode, held>>

\* Faults of pushcli: the count is forgotten; interrupts stay on; every level
\* saves the flag, not just the outermost.
pushcliNoCount(c) ==
  /\ Goto(c, "push", "hold1")
  /\ IF_' = [IF_ EXCEPT ![c] = FALSE]
  /\ intena' = IF ncli[c] = 0 THEN [intena EXCEPT ![c] = eflags[Cur(c)]] ELSE intena
  /\ UNCHANGED <<locked, lkcpu, ncli, mode, arg, eflags, held>>

pushcliNoCli(c) ==
  /\ Goto(c, "push", "hold1")
  /\ intena' = IF ncli[c] = 0 THEN [intena EXCEPT ![c] = eflags[Cur(c)]] ELSE intena
  /\ ncli' = [ncli EXCEPT ![c] = @ + 1]
  /\ UNCHANGED <<locked, lkcpu, IF_, mode, arg, eflags, held>>

pushcliSavesAlways(c) ==
  /\ Goto(c, "push", "hold1")
  /\ IF_' = [IF_ EXCEPT ![c] = FALSE]
  /\ intena' = [intena EXCEPT ![c] = eflags[Cur(c)]]
  /\ ncli' = [ncli EXCEPT ![c] = @ + 1]
  /\ UNCHANGED <<locked, lkcpu, mode, arg, eflags, held>>

\* The rest of pushcli: cli, then the outermost call saves what it read.
pushcli(c) ==
  /\ Goto(c, "push", "hold1")
  /\ IF_' = [IF_ EXCEPT ![c] = FALSE]
  /\ intena' = IF ncli[c] = 0 THEN [intena EXCEPT ![c] = eflags[Cur(c)]] ELSE intena
  /\ ncli' = [ncli EXCEPT ![c] = @ + 1]
  /\ UNCHANGED <<locked, lkcpu, mode, arg, eflags, held>>

\* holding() reads lk->locked, and reads lk->cpu only if that was set.  Its own
\* pushcli and popcli cancel out, since ncli is positive at both calls.
HoldingReadsLocked(c, from, ifSet, ifClear) ==
  /\ Goto(c, from, IF locked[arg[Cur(c)]] = 1 THEN ifSet ELSE ifClear)
  /\ UNCHANGED <<locked, lkcpu, IF_, ncli, intena, mode, arg, eflags, held>>

HoldingReadsCpu(c, from, ifMine, ifOther) ==
  /\ Goto(c, from, IF lkcpu[arg[Cur(c)]] = c THEN ifMine ELSE ifOther)
  /\ UNCHANGED <<locked, lkcpu, IF_, ncli, intena, mode, arg, eflags, held>>

\* if(holding(lk)) panic("acquire");
AcquireCheck(c) ==
  \/ HoldingReadsLocked(c, "hold1", "hold2", "spin")
  \/ HoldingReadsCpu(c, "hold2", "panic", "spin")

\* Fault of acquire: one exchange, whatever it reads.
xchgOnce(c) ==
  LET l == arg[Cur(c)] IN
  /\ Goto(c, "spin", "own")
  /\ locked' = [locked EXCEPT ![l] = 1]
  /\ held' = [held EXCEPT ![Cur(c)] = @ \cup {l}]
  /\ UNCHANGED <<lkcpu, IF_, ncli, intena, mode, arg, eflags>>

\* while(xchg(&lk->locked, 1) != 0): the exchange that reads 0 ends the loop;
\* one that reads 1 leaves the word as it is and the CPU where it is.
xchg(c) ==
  LET l == arg[Cur(c)] IN
  /\ locked[l] = 0
  /\ Goto(c, "spin", "own")
  /\ locked' = [locked EXCEPT ![l] = 1]
  /\ held' = [held EXCEPT ![Cur(c)] = @ \cup {l}]
  /\ UNCHANGED <<lkcpu, IF_, ncli, intena, mode, arg, eflags>>

\* lk->cpu = mycpu(); acquire returns.
RecordCpu(c) ==
  /\ Goto(c, "own", "run")
  /\ lkcpu' = [lkcpu EXCEPT ![arg[Cur(c)]] = c]
  /\ UNCHANGED <<locked, IF_, ncli, intena, mode, arg, eflags, held>>

-----------------------------------------------------------------------------
(* release *)

\* Entry of release(l): code releases a lock it holds, not always the last one
\* it took (sleep() takes ptable.lock and then releases the caller's lock).
ReleaseCall(c, l) ==
  /\ l \in held[Cur(c)]
  /\ Goto(c, "run", "rel1")
  /\ arg' = [arg EXCEPT ![Cur(c)] = l]
  /\ UNCHANGED <<locked, lkcpu, IF_, ncli, intena, mode, eflags, held>>

\* Fault of release: if(holding(lk)) return;
ReleaseCheckInverted(c) == HoldingReadsLocked(c, "rel1", "run", "panic")

\* if(!holding(lk)) panic("release");
ReleaseCheck(c) ==
  \/ HoldingReadsLocked(c, "rel1", "rel2", "panic")
  \/ HoldingReadsCpu(c, "rel2", "clear", "panic")

\* lk->cpu = 0 comes first ...
ClearCpu(c) ==
  /\ Goto(c, "clear", "unlock")
  /\ lkcpu' = [lkcpu EXCEPT ![arg[Cur(c)]] = NoCpu]
  /\ UNCHANGED <<locked, IF_, ncli, intena, mode, arg, eflags, held>>

\* ... and the store that frees the lock second.
Unlock(c) ==
  LET l == arg[Cur(c)] IN
  /\ Goto(c, "unlock", "pop")
  /\ locked' = [locked EXCEPT ![l] = 0]
  /\ held' = [held EXCEPT ![Cur(c)] = @ \ {l}]
  /\ UNCHANGED <<lkcpu, IF_, ncli, intena, mode, arg, eflags>>

\* Fault of popcli: interrupts come back at every level.
popcliEveryLevel(c) ==
  /\ Goto(c, "pop", IF IF_[c] \/ ncli[c] = 0 THEN "panic" ELSE "run")
  /\ ncli' = IF IF_[c] THEN ncli ELSE [ncli EXCEPT ![c] = @ - 1]
  /\ IF_' = [IF_ EXCEPT ![c] = @ \/ intena[c]]
  /\ UNCHANGED <<locked, lkcpu, intena, mode, arg, eflags, held>>

\* popcli panics if interrupts are on or the calls do not match; the outermost
\* call turns interrupts back on if they were on before its pushcli.
popcli(c) ==
  /\ Goto(c, "pop", IF IF_[c] \/ ncli[c] = 0 THEN "panic" ELSE "run")
  /\ ncli' = IF IF_[c] THEN ncli ELSE [ncli EXCEPT ![c] = @ - 1]
  /\ IF_' = [IF_ EXCEPT ![c] = @ \/ (ncli[c] = 1 /\ intena[c])]
  /\ UNCHANGED <<locked, lkcpu, intena, mode, arg, eflags, held>>

-----------------------------------------------------------------------------
(* interrupts *)

\* An interrupt gate clears FL_IF and runs the handler on the thread's stack.
Interrupt(c) ==
  /\ IF_[c]
  /\ mode[c] = "thread"
  /\ IF_' = [IF_ EXCEPT ![c] = FALSE]
  /\ mode' = [mode EXCEPT ![c] = "intr"]
  /\ UNCHANGED <<locked, lkcpu, ncli, intena, pc, arg, eflags, held>>

\* iret: a handler that has released its locks returns, and the saved eflags
\* (FL_IF was set, or there would have been no interrupt) come back.
Iret(c) ==
  /\ mode[c] = "intr"
  /\ pc[Cur(c)] = "run"
  /\ held[Cur(c)] = {}
  /\ IF_' = [IF_ EXCEPT ![c] = TRUE]
  /\ mode' = [mode EXCEPT ![c] = "thread"]
  /\ UNCHANGED <<locked, lkcpu, ncli, intena, pc, arg, eflags, held>>

\* The steps a context inside acquire or release takes by itself.
Inside(c) ==
  \/ pushcli(c)
  \/ AcquireCheck(c)
  \/ xchg(c)
  \/ RecordCpu(c)
  \/ ReleaseCheck(c)
  \/ ClearCpu(c)
  \/ Unlock(c)
  \/ popcli(c)

Step(c) ==
  \/ \E l \in Locks : AcquireCall(c, l) \/ ReleaseCall(c, l)
  \/ Inside(c)
  \/ Interrupt(c)
  \/ Iret(c)

Next == \E c \in CPUs : Step(c)

Spec == Init /\ [][Next]_vars

\* A CPU executes the code it is in, every critical section ends (those nested in
\* it are not repeated for ever), handlers return; the hardware lets every CPU
\* that spins for a lock win an exchange sometimes.
Fairness ==
  \A c \in CPUs :
    /\ WF_vars(Inside(c))
    /\ SF_vars(xchg(c))
    /\ \A l \in Locks : SF_vars(ReleaseCall(c, l))
    /\ WF_vars(Iret(c))

FairSpec == Spec /\ Fairness

-----------------------------------------------------------------------------
(* Properties *)

\* A lock's word is owned by at most one context of one CPU: critical sections
\* of the same lock never overlap, whatever handlers run.
MutualExclusion ==
  \A x, y \in Contexts : held[x] \cap held[y] # {} => x = y

\* No CPU ever runs into the panics of acquire, release and popcli: a handler
\* never finds its own CPU holding the lock it wants, a releaser always finds
\* itself recorded as the holder, and pushcli and popcli match.
NoPanic == \A x \in Contexts : pc[x] # "panic"

\* Interrupts stay off on a CPU from the exchange that takes its first lock to
\* the store that frees its last, also when releases are not in LIFO order.
InterruptsOffWhileHeld ==
  \A c \in CPUs : (\E m \in Modes : held[<<c, m>>] # {}) => ~IF_[c]

\* When code outside spinlock.c runs without locks, the interrupt flag is what
\* it was before: on in a thread, off in a handler.
InterruptFlagRestored ==
  \A c \in CPUs :
    pc[Cur(c)] = "run" /\ held[Cur(c)] = {} =>
      /\ IF_[c] <=> mode[c] = "thread"
      /\ ncli[c] = 0

\* The invariant behind these properties.  A lock's word is 1 exactly while a
\* context holds it ...
LockWord ==
  \A l \in Locks : locked[l] = 1 <=> \E x \in Contexts : l \in held[x]

\* ... code past the exchange of acquire, or before the store of release, holds
\* the lock; code before the exchange takes it in lock order ...
HoldsArg ==
  \A x \in Contexts :
    /\ pc[x] \in {"own", "rel1", "rel2", "clear", "unlock"} => arg[x] \in held[x]
    /\ pc[x] \in {"push", "hold1", "hold2", "spin"} => \A h \in held[x] : h < arg[x]

\* ... lk->cpu names the holder, except between the exchange and its recording
\* and between its erasing and the store ...
Recorded(x, l) == l \in held[x] /\ ~(arg[x] = l /\ pc[x] \in {"own", "unlock"})

HolderRecorded ==
  \A c \in CPUs, l \in Locks :
    lkcpu[l] = c <=> Recorded(<<c, "thread">>, l) \/ Recorded(<<c, "intr">>, l)

\* ... ncli counts the locks held and the acquire or release under way ...
Nesting(x) ==
  Cardinality(held[x]) + IF pc[x] \in {"hold1", "hold2", "spin", "pop"} THEN 1 ELSE 0

NcliCounts ==
  \A c \in CPUs : ncli[c] = Nesting(<<c, "thread">>) + Nesting(<<c, "intr">>)

\* ... a handler runs only over a thread that holds nothing, and the flag and
\* its saved copy agree with the mode.
FlagOK(c) ==
  /\ mode[c] = "thread" => pc[<<c, "intr">>] = "run" /\ held[<<c, "intr">>] = {}
  /\ mode[c] = "intr" =>
       /\ ~IF_[c]
       /\ held[<<c, "thread">>] = {}
       /\ pc[<<c, "thread">>] \in {"run", "push"}
       /\ pc[<<c, "thread">>] = "push" => eflags[<<c, "thread">>]
  /\ IF_[c] => ncli[c] = 0
  /\ mode[c] = "thread" /\ ncli[c] = 0 => IF_[c]
  /\ ncli[c] # 0 => (intena[c] <=> mode[c] = "thread")
  /\ pc[Cur(c)] = "push" => (eflags[Cur(c)] <=> IF_[c])

FlagInv == \A c \in CPUs : FlagOK(c)

IndInv ==
  /\ TypeOK
  /\ MutualExclusion
  /\ NoPanic
  /\ LockWord
  /\ HoldsArg
  /\ HolderRecorded
  /\ NcliCounts
  /\ FlagInv

\* A CPU that spins on a taken lock sees it free again: no lock is kept for
\* ever by a CPU that cannot get back to its release.
HeldLockIsFreed == \A l \in Locks : locked[l] = 1 ~> locked[l] = 0
===============================================================================
