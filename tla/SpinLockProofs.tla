---------------------------- MODULE SpinLockProofs ----------------------------
(* Proofs about SpinLock for any set of CPUs and any finite set of locks.     *)
EXTENDS SpinLock, FiniteSetTheorems, TLAPS

\* Facts about the locks a context holds: the set is finite, and taking or
\* giving back a lock changes its size by one.
LEMMA HeldSize ==
  ASSUME TypeOK, NEW x \in Contexts, NEW l \in Locks
  PROVE  /\ Cardinality(held[x]) \in Nat
         /\ Cardinality(held[x]) = 0 <=> held[x] = {}
         /\ l \notin held[x] => Cardinality(held[x] \cup {l}) = Cardinality(held[x]) + 1
         /\ l \in held[x] => Cardinality(held[x] \ {l}) = Cardinality(held[x]) - 1
<1>1. held[x] \subseteq Locks
  BY DEF TypeOK
<1>2. IsFiniteSet(held[x])
  BY <1>1, SpinAssumption, FS_Subset
<1> QED
  BY <1>2, FS_CardinalityType, FS_EmptySet, FS_AddElement, FS_RemoveElement

\* The context a CPU runs is one of its two contexts.
LEMMA CurContext ==
  ASSUME TypeOK, NEW c \in CPUs
  PROVE  /\ Cur(c) \in Contexts
         /\ Cur(c) = <<c, "thread">> \/ Cur(c) = <<c, "intr">>
BY DEF TypeOK, Cur, Contexts, Modes

\* Both contexts of a CPU are contexts.
LEMMA BothContexts ==
  ASSUME NEW c \in CPUs
  PROVE  <<c, "thread">> \in Contexts /\ <<c, "intr">> \in Contexts
BY DEF Contexts, Modes

\* A context counts for nothing in ncli only if it holds nothing and is not
\* inside acquire or release with interrupts off.
LEMMA NestingSize ==
  ASSUME TypeOK, NEW x \in Contexts
  PROVE  /\ Nesting(x) \in Nat
         /\ Nesting(x) = 0 <=> /\ held[x] = {}
                               /\ pc[x] \notin {"hold1", "hold2", "spin", "pop"}
<1>1. PICK l \in Locks : TRUE
  BY SpinAssumption
<1>2. Cardinality(held[x]) \in Nat /\ (Cardinality(held[x]) = 0 <=> held[x] = {})
  BY <1>1, HeldSize
<1> QED
  BY <1>2 DEF Nesting

\* What each step leaves well typed.
LEMMA TypeStep ==
  ASSUME TypeOK, NEW c \in CPUs, Step(c), NcliCounts
  PROVE  TypeOK'
<1> USE DEF TypeOK, Goto, PCs
<1>1. Cur(c) \in Contexts /\ arg[Cur(c)] \in Locks
  BY CurContext
<1>2. ASSUME NEW l \in Locks, AcquireCall(c, l) PROVE TypeOK'
  BY <1>1, <1>2 DEF AcquireCall
<1>3. ASSUME NEW l \in Locks, ReleaseCall(c, l) PROVE TypeOK'
  BY <1>1, <1>3 DEF ReleaseCall
<1>4. CASE pushcli(c)
  BY <1>1, <1>4 DEF pushcli
<1>5. CASE AcquireCheck(c)
  BY <1>1, <1>5 DEF AcquireCheck, HoldingReadsLocked, HoldingReadsCpu
<1>6. CASE xchg(c)
  BY <1>1, <1>6 DEF xchg
<1>7. CASE RecordCpu(c)
  BY <1>1, <1>7 DEF RecordCpu
<1>8. CASE ReleaseCheck(c)
  BY <1>1, <1>8 DEF ReleaseCheck, HoldingReadsLocked, HoldingReadsCpu
<1>9. CASE ClearCpu(c)
  BY <1>1, <1>9 DEF ClearCpu
<1>10. CASE Unlock(c)
  BY <1>1, <1>10 DEF Unlock
<1>11. CASE popcli(c)
  <2>1. ncli[c] - 1 \in Nat
    <3>1. Nesting(<<c, "thread">>) \in Nat /\ Nesting(<<c, "intr">>) \in Nat
      BY BothContexts, NestingSize
    <3>2. pc[<<c, "thread">>] = "pop" \/ pc[<<c, "intr">>] = "pop"
      BY <1>11, CurContext DEF popcli
    <3>3. Nesting(<<c, "thread">>) # 0 \/ Nesting(<<c, "intr">>) # 0
      BY <3>2, BothContexts, NestingSize
    <3>4. ncli[c] = Nesting(<<c, "thread">>) + Nesting(<<c, "intr">>)
      BY DEF NcliCounts
    <3> QED
      BY <3>1, <3>3, <3>4
  <2> QED
    BY <1>1, <1>11, <2>1 DEF popcli
<1>12. CASE Interrupt(c)
  BY <1>1, <1>12 DEF Interrupt, Modes
<1>13. CASE Iret(c)
  BY <1>1, <1>13 DEF Iret, Modes
<1> QED
  BY <1>2, <1>3, <1>4, <1>5, <1>6, <1>7, <1>8, <1>9, <1>10, <1>11, <1>12, <1>13
     DEF Step, Inside

-----------------------------------------------------------------------------
(* What a step must do to keep the parts of the invariant that relate several *)
(* contexts.                                                                  *)

\* ncli moves by as much as the nesting of the context that took the step.
LEMMA NcliFrame ==
  ASSUME TypeOK, NcliCounts, NEW c \in CPUs, NEW k \in {-1, 0, 1},
         ncli' = [ncli EXCEPT ![c] = @ + k],
         \A x \in Contexts : Nesting(x)' = Nesting(x) + IF x = Cur(c) THEN k ELSE 0
  PROVE  NcliCounts'
<1> SUFFICES ASSUME NEW d \in CPUs
             PROVE  ncli'[d] = Nesting(<<d, "thread">>)' + Nesting(<<d, "intr">>)'
  BY DEF NcliCounts
<1>1. ncli[d] = Nesting(<<d, "thread">>) + Nesting(<<d, "intr">>)
  BY DEF NcliCounts
<1>2. /\ <<d, "thread">> \in Contexts /\ <<d, "intr">> \in Contexts
      /\ Nesting(<<d, "thread">>) \in Nat /\ Nesting(<<d, "intr">>) \in Nat
  BY BothContexts, NestingSize
<1>3. ncli \in [CPUs -> Nat]
  BY DEF TypeOK
<1>4. CASE d # c
  <2>1. <<d, "thread">> # Cur(c) /\ <<d, "intr">> # Cur(c)
    BY <1>4 DEF Cur
  <2>2. /\ Nesting(<<d, "thread">>)' = Nesting(<<d, "thread">>)
        /\ Nesting(<<d, "intr">>)' = Nesting(<<d, "intr">>)
    BY <1>2, <2>1
  <2> QED
    BY <1>1, <1>3, <1>4, <2>2
<1>5. CASE d = c
  <2>1. \/ Cur(c) = <<c, "thread">> /\ Cur(c) # <<c, "intr">>
        \/ Cur(c) = <<c, "intr">> /\ Cur(c) # <<c, "thread">>
    BY CurContext
  <2>2. \/ /\ Nesting(<<c, "thread">>)' = Nesting(<<c, "thread">>) + k
           /\ Nesting(<<c, "intr">>)' = Nesting(<<c, "intr">>)
        \/ /\ Nesting(<<c, "thread">>)' = Nesting(<<c, "thread">>)
           /\ Nesting(<<c, "intr">>)' = Nesting(<<c, "intr">>) + k
    BY <1>2, <1>5, <2>1
  <2> QED
    BY <1>1, <1>2, <1>3, <1>5, <2>2
<1> QED
  BY <1>4, <1>5

\* A step that writes no lock, and does not pass the places where lk->cpu lags
\* behind, keeps what the invariant says of lk->locked and lk->cpu.
LEMMA LockFrame ==
  ASSUME TypeOK, MutualExclusion, LockWord, HolderRecorded,
         UNCHANGED <<locked, lkcpu, held>>,
         \A x \in Contexts :
           \/ pc'[x] = pc[x] /\ arg'[x] = arg[x]
           \/ pc[x] \notin {"own", "unlock"} /\ pc'[x] \notin {"own", "unlock"}
  PROVE  MutualExclusion' /\ LockWord' /\ HolderRecorded'
<1>1. \A x \in Contexts, l \in Locks : Recorded(x, l)' <=> Recorded(x, l)
  BY DEF Recorded
<1>2. HolderRecorded'
  BY <1>1, BothContexts DEF HolderRecorded
<1> QED
  BY <1>2 DEF MutualExclusion, LockWord

\* A step of CPU c does not touch the flags and contexts of another CPU.
LEMMA FlagFrame ==
  ASSUME TypeOK, FlagInv, NEW c \in CPUs, FlagOK(c)',
         \A d \in CPUs \ {c} :
           /\ mode'[d] = mode[d] /\ IF_'[d] = IF_[d]
           /\ ncli'[d] = ncli[d] /\ intena'[d] = intena[d],
         \A x \in Contexts : x # Cur(c) =>
           pc'[x] = pc[x] /\ held'[x] = held[x] /\ eflags'[x] = eflags[x]
  PROVE  FlagInv'
<1> SUFFICES ASSUME NEW d \in CPUs, d # c
             PROVE  FlagOK(d)'
  BY DEF FlagInv
<1>1. \A m \in Modes : <<d, m>> \in Contexts /\ <<d, m>> # Cur(c)
  BY DEF Contexts, Cur
<1>2. \A m \in Modes : /\ pc'[<<d, m>>] = pc[<<d, m>>]
                       /\ held'[<<d, m>>] = held[<<d, m>>]
                       /\ eflags'[<<d, m>>] = eflags[<<d, m>>]
  BY <1>1
<1>3. FlagOK(d) /\ mode[d] \in Modes
  BY DEF FlagInv, TypeOK
<1> QED
  BY <1>2, <1>3 DEF FlagOK, Cur, Modes

\* Moving to a place outside pushcli keeps what the invariant says of a CPU's
\* flags, if nothing else about the CPU changes.
LEMMA FlagKeep ==
  ASSUME TypeOK, NEW c \in CPUs, FlagOK(c), NEW q \in PCs \ {"push"},
         pc' = [pc EXCEPT ![Cur(c)] = q],
         UNCHANGED <<mode, IF_, ncli, intena, eflags, held>>
  PROVE  FlagOK(c)'
<1>1. mode[c] \in {"thread", "intr"} /\ pc \in [Contexts -> PCs]
  BY DEF TypeOK, Modes
<1>2. CASE mode[c] = "thread"
  <2>1. pc'[<<c, "intr">>] = pc[<<c, "intr">>] /\ pc'[<<c, "thread">>] = q
    BY <1>1, <1>2, BothContexts DEF Cur
  <2> QED
    BY <1>2, <2>1 DEF FlagOK, Cur
<1>3. CASE mode[c] = "intr"
  <2>1. pc'[<<c, "thread">>] = pc[<<c, "thread">>] /\ pc'[<<c, "intr">>] = q
    BY <1>1, <1>3, BothContexts DEF Cur
  <2> QED
    BY <1>3, <2>1 DEF FlagOK, Cur
<1> QED
  BY <1>1, <1>2, <1>3

\* ncli is zero exactly when no context of the CPU holds a lock or is inside
\* acquire or release with interrupts off.
LEMMA NcliZero ==
  ASSUME TypeOK, NcliCounts, NEW c \in CPUs
  PROVE  ncli[c] = 0 <=>
           /\ held[<<c, "thread">>] = {} /\ held[<<c, "intr">>] = {}
           /\ pc[<<c, "thread">>] \notin {"hold1", "hold2", "spin", "pop"}
           /\ pc[<<c, "intr">>] \notin {"hold1", "hold2", "spin", "pop"}
<1>1. ncli[c] = Nesting(<<c, "thread">>) + Nesting(<<c, "intr">>)
  BY DEF NcliCounts
<1>2. Nesting(<<c, "thread">>) \in Nat /\ Nesting(<<c, "intr">>) \in Nat
  BY BothContexts, NestingSize
<1>3. ncli[c] = 0 <=> Nesting(<<c, "thread">>) = 0 /\ Nesting(<<c, "intr">>) = 0
  BY <1>1, <1>2
<1> QED
  BY <1>3, BothContexts, NestingSize

\* The lock order: a lock that is being acquired is not held already.
LEMMA WantedNotHeld ==
  ASSUME HoldsArg, NEW x \in Contexts, arg[x] \in Locks,
         pc[x] \in {"push", "hold1", "hold2", "spin"}
  PROVE  arg[x] \notin held[x]
<1>1. arg[x] \in Nat
  BY SpinAssumption
<1>2. ~(arg[x] < arg[x])
  BY <1>1
<1> QED
  BY <1>2 DEF HoldsArg

\* A context other than the one its CPU runs holds no lock.
LEMMA OtherHoldsNothing ==
  ASSUME TypeOK, FlagInv, NEW c \in CPUs,
         NEW x \in {<<c, "thread">>, <<c, "intr">>}, x # Cur(c)
  PROVE  held[x] = {}
<1>1. mode[c] \in {"thread", "intr"}
  BY DEF TypeOK, Modes
<1> QED
  BY <1>1 DEF FlagInv, FlagOK, Cur

\* Entering acquire keeps the invariant: the lock order makes the lock a new one.
LEMMA AcquireCallStep ==
  ASSUME IndInv, NEW c \in CPUs, NEW l \in Locks, AcquireCall(c, l)
  PROVE  IndInv'
<1>1. TypeOK /\ TypeOK'
  BY TypeStep DEF IndInv, Step, Inside
<1>2. /\ Cur(c) \in Contexts
      /\ Cur(c) = <<c, mode[c]>>
      /\ mode[c] \in {"thread", "intr"}
      /\ arg[Cur(c)] \in Locks
  BY <1>1, CurContext DEF Cur, TypeOK, Modes
<1>3. MutualExclusion' /\ LockWord' /\ HolderRecorded'
  BY <1>1, <1>2, LockFrame DEF IndInv, TypeOK, Goto, AcquireCall
<1>4. NoPanic'
  BY <1>1, <1>2 DEF IndInv, TypeOK, NoPanic, Goto, AcquireCall
<1>5. HoldsArg'
  BY <1>1, <1>2, SpinAssumption DEF IndInv, TypeOK, HoldsArg, Goto, AcquireCall
<1>6. \A x \in Contexts : Nesting(x)' = Nesting(x)
  BY <1>1, <1>2 DEF Nesting, TypeOK, Goto, AcquireCall
<1>7. NcliCounts'
  BY <1>1, <1>6, NestingSize, NcliFrame DEF IndInv, TypeOK, AcquireCall
<1>8. FlagOK(c)'
  BY <1>1, <1>2, BothContexts, NestingSize DEF IndInv, TypeOK, Goto, Cur, FlagInv, FlagOK, HoldsArg, NoPanic, NcliCounts, AcquireCall
<1>9. FlagInv'
  BY <1>1, <1>2, <1>8, FlagFrame DEF IndInv, TypeOK, Goto, AcquireCall
<1> QED
  BY <1>1, <1>3, <1>4, <1>5, <1>7, <1>9 DEF IndInv

\* Entering release keeps it: the lock is held.
LEMMA ReleaseCallStep ==
  ASSUME IndInv, NEW c \in CPUs, NEW l \in Locks, ReleaseCall(c, l)
  PROVE  IndInv'
<1>1. TypeOK /\ TypeOK'
  BY TypeStep DEF IndInv, Step, Inside
<1>2. /\ Cur(c) \in Contexts
      /\ Cur(c) = <<c, mode[c]>>
      /\ mode[c] \in {"thread", "intr"}
      /\ arg[Cur(c)] \in Locks
  BY <1>1, CurContext DEF Cur, TypeOK, Modes
<1>3. MutualExclusion' /\ LockWord' /\ HolderRecorded'
  BY <1>1, <1>2, LockFrame DEF IndInv, TypeOK, Goto, ReleaseCall
<1>4. NoPanic'
  BY <1>1, <1>2 DEF IndInv, TypeOK, NoPanic, Goto, ReleaseCall
<1>5. HoldsArg'
  BY <1>1, <1>2, SpinAssumption DEF IndInv, TypeOK, HoldsArg, Goto, ReleaseCall
<1>6. \A x \in Contexts : Nesting(x)' = Nesting(x)
  BY <1>1, <1>2 DEF Nesting, TypeOK, Goto, ReleaseCall
<1>7. NcliCounts'
  BY <1>1, <1>6, NestingSize, NcliFrame DEF IndInv, TypeOK, ReleaseCall
<1>8. FlagOK(c)'
  BY <1>1, <1>2, BothContexts, NestingSize DEF IndInv, TypeOK, Goto, Cur, FlagInv, FlagOK, HoldsArg, NoPanic, NcliCounts, ReleaseCall
<1>9. FlagInv'
  BY <1>1, <1>2, <1>8, FlagFrame DEF IndInv, TypeOK, Goto, ReleaseCall
<1> QED
  BY <1>1, <1>3, <1>4, <1>5, <1>7, <1>9 DEF IndInv

\* pushcli keeps it: it adds one to ncli, and the outermost call saves the flag.
LEMMA pushcliStep ==
  ASSUME IndInv, NEW c \in CPUs, pushcli(c)
  PROVE  IndInv'
<1>1. TypeOK /\ TypeOK'
  BY TypeStep DEF IndInv, Step, Inside
<1>2. /\ Cur(c) \in Contexts
      /\ Cur(c) = <<c, mode[c]>>
      /\ mode[c] \in {"thread", "intr"}
      /\ arg[Cur(c)] \in Locks
  BY <1>1, CurContext DEF Cur, TypeOK, Modes
<1>3. MutualExclusion' /\ LockWord' /\ HolderRecorded'
  BY <1>1, <1>2, LockFrame DEF IndInv, TypeOK, Goto, pushcli
<1>4. NoPanic'
  BY <1>1, <1>2 DEF IndInv, TypeOK, NoPanic, Goto, pushcli
<1>5. HoldsArg'
  BY <1>1, <1>2, SpinAssumption DEF IndInv, TypeOK, HoldsArg, Goto, pushcli
<1>6. \A x \in Contexts : Nesting(x)' = Nesting(x) + IF x = Cur(c) THEN 1 ELSE 0
  <2>1. ASSUME NEW x \in Contexts, x # Cur(c) PROVE Nesting(x)' = Nesting(x)
    BY <1>1, <1>2, <2>1 DEF Nesting, TypeOK, Goto, pushcli
  <2>2. \A x \in Contexts : Cardinality(held[x]) \in Nat /\ Nesting(x) \in Nat
    BY <1>1, <1>2, HeldSize, NestingSize
  <2>3. ASSUME NEW x \in Contexts, x = Cur(c) PROVE Nesting(x)' = Nesting(x) + (1)
    <3>1. pc[x] = "push" /\ pc'[x] = "hold1" /\ held'[x] = held[x]
      BY <1>1, <2>3 DEF TypeOK, Goto, pushcli
    <3> QED
      BY <2>2, <2>3, <3>1 DEF Nesting
  <2> QED
    BY <2>1, <2>2, <2>3
<1>7. NcliCounts'
  BY <1>1, <1>6, NestingSize, NcliFrame DEF IndInv, TypeOK, pushcli
<1>8. FlagOK(c)'
  <2>1. ~IF_'[c] /\ UNCHANGED <<mode, eflags, held>>
    BY <1>1 DEF TypeOK, pushcli
  <2>2. FlagOK(c) /\ (eflags[Cur(c)] <=> IF_[c])
    BY DEF IndInv, FlagInv, FlagOK, pushcli, Goto
  <2>3. ncli'[c] # 0
    BY <1>1 DEF TypeOK, pushcli
  <2>4. intena'[c] <=> mode[c] = "thread"
    <3>1. CASE ncli[c] = 0
      <4>1. intena'[c] = eflags[Cur(c)]
        BY <1>1, <3>1 DEF TypeOK, pushcli
      <4> QED
        BY <1>2, <2>2, <3>1, <4>1 DEF FlagOK
    <3>2. CASE ncli[c] # 0
      <4>1. intena' = intena
        BY <3>2 DEF pushcli
      <4> QED
        BY <2>2, <3>2, <4>1 DEF FlagOK
    <3> QED
      BY <3>1, <3>2
  <2>5. \A x \in Contexts : pc'[x] = IF x = Cur(c) THEN "hold1" ELSE pc[x]
    BY <1>1 DEF TypeOK, pushcli, Goto
  <2>6. CASE mode[c] = "thread"
    <3>1. pc'[<<c, "intr">>] = pc[<<c, "intr">>] /\ pc'[<<c, "thread">>] = "hold1"
      BY <2>5, <2>6, BothContexts DEF Cur
    <3> QED
      BY <2>1, <2>2, <2>3, <2>4, <2>6, <3>1 DEF FlagOK, Cur
  <2>7. CASE mode[c] = "intr"
    <3>1. pc'[<<c, "thread">>] = pc[<<c, "thread">>] /\ pc'[<<c, "intr">>] = "hold1"
      BY <2>5, <2>7, BothContexts DEF Cur
    <3> QED
      BY <2>1, <2>2, <2>3, <2>4, <2>7, <3>1 DEF FlagOK, Cur
  <2> QED
    BY <1>2, <2>6, <2>7
<1>9. FlagInv'
  BY <1>1, <1>2, <1>8, FlagFrame DEF IndInv, TypeOK, Goto, pushcli
<1> QED
  BY <1>1, <1>3, <1>4, <1>5, <1>7, <1>9 DEF IndInv

\* acquire's check keeps it: the lock is neither this context's nor, by
\* FlagInv, its CPU's other context's.
LEMMA AcquireCheckStep ==
  ASSUME IndInv, NEW c \in CPUs, AcquireCheck(c)
  PROVE  IndInv'
<1>1. TypeOK /\ TypeOK'
  BY TypeStep DEF IndInv, Step, Inside
<1>2. /\ Cur(c) \in Contexts
      /\ Cur(c) = <<c, mode[c]>>
      /\ mode[c] \in {"thread", "intr"}
      /\ arg[Cur(c)] \in Locks
  BY <1>1, CurContext DEF Cur, TypeOK, Modes
<1>3. MutualExclusion' /\ LockWord' /\ HolderRecorded'
  BY <1>1, <1>2, LockFrame DEF IndInv, TypeOK, Goto, AcquireCheck, HoldingReadsLocked, HoldingReadsCpu
<1>4. NoPanic'
  <2>1. CASE HoldingReadsLocked(c, "hold1", "hold2", "spin")
    BY <1>1, <1>2, <2>1 DEF IndInv, TypeOK, NoPanic, HoldingReadsLocked, Goto
  <2>2. CASE HoldingReadsCpu(c, "hold2", "panic", "spin")
    <3>1. arg[Cur(c)] \notin held[Cur(c)]
      BY <1>2, <2>2, WantedNotHeld DEF HoldingReadsCpu, Goto, IndInv
    <3>2. \A x \in {<<c, "thread">>, <<c, "intr">>} : arg[Cur(c)] \notin held[x]
      BY <1>1, <3>1, OtherHoldsNothing DEF IndInv
    <3>3. lkcpu[arg[Cur(c)]] # c
      BY <1>2, <3>2 DEF IndInv, HolderRecorded, Recorded
    <3> QED
      BY <1>1, <1>2, <2>2, <3>3 DEF IndInv, TypeOK, NoPanic, HoldingReadsCpu, Goto
  <2> QED
    BY <2>1, <2>2 DEF AcquireCheck
<1>5. HoldsArg'
  BY <1>1, <1>2, SpinAssumption DEF IndInv, TypeOK, HoldsArg, Goto, AcquireCheck, HoldingReadsLocked, HoldingReadsCpu
<1>6. \A x \in Contexts : Nesting(x)' = Nesting(x)
  <2>1. CASE HoldingReadsLocked(c, "hold1", "hold2", "spin")
    BY <1>1, <1>2, <2>1 DEF Nesting, TypeOK, HoldingReadsLocked, Goto
  <2>2. CASE HoldingReadsCpu(c, "hold2", "panic", "spin")
    <3>1. pc'[Cur(c)] = "spin"
      BY <1>1, <1>2, <1>4, <2>2 DEF TypeOK, NoPanic, HoldingReadsCpu, Goto
    <3> QED
      BY <1>1, <1>2, <2>2, <3>1 DEF Nesting, TypeOK, HoldingReadsCpu, Goto
  <2> QED
    BY <2>1, <2>2 DEF AcquireCheck
<1>7. NcliCounts'
  BY <1>1, <1>6, NestingSize, NcliFrame DEF IndInv, TypeOK, AcquireCheck, HoldingReadsLocked, HoldingReadsCpu
<1>8. FlagOK(c)'
  <2>1. PICK q \in PCs \ {"push"} : pc' = [pc EXCEPT ![Cur(c)] = q]
    BY DEF AcquireCheck, HoldingReadsLocked, HoldingReadsCpu, Goto, PCs
  <2>2. UNCHANGED <<mode, IF_, ncli, intena, eflags, held>>
    BY DEF AcquireCheck, HoldingReadsLocked, HoldingReadsCpu
  <2> QED
    BY <1>1, <2>1, <2>2, FlagKeep DEF IndInv, FlagInv
<1>9. FlagInv'
  BY <1>1, <1>2, <1>8, FlagFrame DEF IndInv, TypeOK, Goto, AcquireCheck, HoldingReadsLocked, HoldingReadsCpu
<1> QED
  BY <1>1, <1>3, <1>4, <1>5, <1>7, <1>9 DEF IndInv

\* The exchange keeps it: the lock it takes was nobody's.
LEMMA xchgStep ==
  ASSUME IndInv, NEW c \in CPUs, xchg(c)
  PROVE  IndInv'
<1>1. TypeOK /\ TypeOK'
  BY TypeStep DEF IndInv, Step, Inside
<1>2. /\ Cur(c) \in Contexts
      /\ Cur(c) = <<c, mode[c]>>
      /\ mode[c] \in {"thread", "intr"}
      /\ arg[Cur(c)] \in Locks
  BY <1>1, CurContext DEF Cur, TypeOK, Modes
<1>2a. arg[Cur(c)] \notin held[Cur(c)]
  BY <1>2, WantedNotHeld DEF IndInv, Goto, xchg
<1>3a. MutualExclusion'
  BY <1>1, <1>2, <1>2a DEF IndInv, TypeOK, MutualExclusion, LockWord, xchg
<1>3b. LockWord'
  <2>1. ASSUME NEW k \in Locks, k # arg[Cur(c)]
        PROVE  locked'[k] = locked[k] /\ \A x \in Contexts : k \in held'[x] <=> k \in held[x]
    BY <1>1, <1>2, <2>1 DEF TypeOK, xchg
  <2>2. locked'[arg[Cur(c)]] = 1 /\ arg[Cur(c)] \in held'[Cur(c)]
    BY <1>1, <1>2, <1>2a DEF TypeOK, xchg, IndInv, MutualExclusion
  <2> QED
    BY <1>2, <2>1, <2>2 DEF IndInv, LockWord
<1>3c. HolderRecorded'
  <2>1. \A x \in Contexts, k \in Locks : Recorded(x, k)' <=> Recorded(x, k)
    BY <1>1, <1>2, <1>2a DEF TypeOK, Recorded, Goto, xchg
  <2>2. lkcpu' = lkcpu
    BY DEF xchg
  <2> QED
    BY <2>1, <2>2, BothContexts DEF IndInv, HolderRecorded
<1>3. MutualExclusion' /\ LockWord' /\ HolderRecorded'
  BY <1>3a, <1>3b, <1>3c
<1>4. NoPanic'
  BY <1>1, <1>2 DEF IndInv, TypeOK, NoPanic, Goto, xchg
<1>5. HoldsArg'
  BY <1>1, <1>2, SpinAssumption DEF IndInv, TypeOK, HoldsArg, Goto, xchg
<1>6. \A x \in Contexts : Nesting(x)' = Nesting(x)
  <2>1. ASSUME NEW x \in Contexts, x # Cur(c) PROVE Nesting(x)' = Nesting(x)
    BY <1>1, <1>2, <2>1 DEF Nesting, TypeOK, Goto, xchg
  <2>2. /\ Cardinality(held[Cur(c)]) \in Nat
        /\ Cardinality(held'[Cur(c)]) = Cardinality(held[Cur(c)]) + 1
    BY <1>1, <1>2, <1>2a, HeldSize DEF TypeOK, xchg
  <2>3. ASSUME NEW x \in Contexts, x = Cur(c) PROVE Nesting(x)' = Nesting(x)
    <3>1. pc[x] = "spin" /\ pc'[x] = "own"
      BY <1>1, <2>3 DEF TypeOK, Goto, xchg
    <3> QED
      BY <2>2, <2>3, <3>1 DEF Nesting
  <2> QED
    BY <2>1, <2>3
<1>7. NcliCounts'
  BY <1>1, <1>6, NestingSize, NcliFrame DEF IndInv, TypeOK, xchg
<1>8. FlagOK(c)'
  BY <1>1, <1>2, BothContexts, NestingSize DEF IndInv, TypeOK, Goto, Cur, FlagInv, FlagOK, HoldsArg, NoPanic, NcliCounts, xchg
<1>9. FlagInv'
  BY <1>1, <1>2, <1>8, FlagFrame DEF IndInv, TypeOK, Goto, xchg
<1> QED
  BY <1>1, <1>3, <1>4, <1>5, <1>7, <1>9 DEF IndInv

\* Recording the CPU keeps it: the holder and the record agree again.
LEMMA RecordCpuStep ==
  ASSUME IndInv, NEW c \in CPUs, RecordCpu(c)
  PROVE  IndInv'
<1>1. TypeOK /\ TypeOK'
  BY TypeStep DEF IndInv, Step, Inside
<1>2. /\ Cur(c) \in Contexts
      /\ Cur(c) = <<c, mode[c]>>
      /\ mode[c] \in {"thread", "intr"}
      /\ arg[Cur(c)] \in Locks
  BY <1>1, CurContext DEF Cur, TypeOK, Modes
<1>3a. MutualExclusion'
  BY <1>1, <1>2 DEF IndInv, TypeOK, MutualExclusion, LockWord, Goto, RecordCpu
<1>3b. LockWord'
  BY <1>1, <1>2 DEF IndInv, TypeOK, MutualExclusion, LockWord, HoldsArg, Goto, RecordCpu
<1>3c. HolderRecorded'
  <2>1. ASSUME NEW x \in Contexts, NEW k \in Locks, k # arg[Cur(c)] \/ x # Cur(c)
        PROVE  Recorded(x, k)' <=> Recorded(x, k)
    BY <1>1, <1>2, <2>1 DEF TypeOK, Recorded, Goto, RecordCpu
  <2>2. \A x \in Contexts : x # Cur(c) => ~Recorded(x, arg[Cur(c)])
    BY <1>1, <1>2 DEF IndInv, HoldsArg, MutualExclusion, Recorded, Goto, RecordCpu
  <2>3. \A k \in Locks : k # arg[Cur(c)] => lkcpu'[k] = lkcpu[k]
    BY <1>1, <1>2 DEF TypeOK, RecordCpu
  <2>4. \A x \in Contexts : LET l == arg[Cur(c)] IN
          (l \in held'[x] /\ ~(arg'[x] = l /\ pc'[x] \in {"own", "unlock"})) <=> x = Cur(c)
    <3>1. (arg[Cur(c)] \in held'[Cur(c)] /\ pc'[Cur(c)] \notin {"own", "unlock"})
      BY <1>1, <1>2 DEF TypeOK, IndInv, HoldsArg, Goto, RecordCpu
    <3>2. arg' = arg
      BY DEF RecordCpu
    <3> QED
      BY <1>2, <2>1, <2>2, <3>1, <3>2 DEF Recorded
  <2>5. lkcpu'[arg[Cur(c)]] = c
    BY <1>1, <1>2 DEF TypeOK, RecordCpu
  <2>6. ASSUME NEW d \in CPUs, NEW k \in Locks
        PROVE  lkcpu'[k] = d <=> Recorded(<<d, "thread">>, k)' \/ Recorded(<<d, "intr">>, k)'
    <3>1. CASE k # arg[Cur(c)]
      BY <2>1, <2>3, <3>1, BothContexts DEF IndInv, HolderRecorded
    <3>2. CASE k = arg[Cur(c)]
      BY <1>2, <2>4, <2>5, <3>2, BothContexts, SpinAssumption DEF Recorded
    <3> QED
      BY <3>1, <3>2
  <2> QED
    BY <2>6 DEF HolderRecorded
<1>3. MutualExclusion' /\ LockWord' /\ HolderRecorded'
  BY <1>3a, <1>3b, <1>3c
<1>4. NoPanic'
  BY <1>1, <1>2 DEF IndInv, TypeOK, NoPanic, Goto, RecordCpu
<1>5. HoldsArg'
  BY <1>1, <1>2, SpinAssumption DEF IndInv, TypeOK, HoldsArg, Goto, RecordCpu
<1>6. \A x \in Contexts : Nesting(x)' = Nesting(x)
  BY <1>1, <1>2 DEF Nesting, TypeOK, Goto, RecordCpu
<1>7. NcliCounts'
  BY <1>1, <1>6, NestingSize, NcliFrame DEF IndInv, TypeOK, RecordCpu
<1>8. FlagOK(c)'
  BY <1>1, <1>2, BothContexts, NestingSize DEF IndInv, TypeOK, Goto, Cur, FlagInv, FlagOK, HoldsArg, NoPanic, NcliCounts, RecordCpu
<1>9. FlagInv'
  BY <1>1, <1>2, <1>8, FlagFrame DEF IndInv, TypeOK, Goto, RecordCpu
<1> QED
  BY <1>1, <1>3, <1>4, <1>5, <1>7, <1>9 DEF IndInv

\* release's check keeps it: the holder is recorded.
LEMMA ReleaseCheckStep ==
  ASSUME IndInv, NEW c \in CPUs, ReleaseCheck(c)
  PROVE  IndInv'
<1>1. TypeOK /\ TypeOK'
  BY TypeStep DEF IndInv, Step, Inside
<1>2. /\ Cur(c) \in Contexts
      /\ Cur(c) = <<c, mode[c]>>
      /\ mode[c] \in {"thread", "intr"}
      /\ arg[Cur(c)] \in Locks
  BY <1>1, CurContext DEF Cur, TypeOK, Modes
<1>3. MutualExclusion' /\ LockWord' /\ HolderRecorded'
  BY <1>1, <1>2, LockFrame DEF IndInv, TypeOK, Goto, ReleaseCheck, HoldingReadsLocked, HoldingReadsCpu
<1>4. NoPanic'
  <2>1. CASE HoldingReadsLocked(c, "rel1", "rel2", "panic")
    <3>1. locked[arg[Cur(c)]] = 1
      BY <1>2, <2>1 DEF HoldingReadsLocked, Goto, IndInv, HoldsArg, LockWord
    <3> QED
      BY <1>1, <1>2, <2>1, <3>1 DEF IndInv, TypeOK, NoPanic, HoldingReadsLocked, Goto
  <2>2. CASE HoldingReadsCpu(c, "rel2", "clear", "panic")
    <3>1. Recorded(Cur(c), arg[Cur(c)])
      BY <1>2, <2>2 DEF HoldingReadsCpu, Goto, IndInv, HoldsArg, Recorded
    <3>2. \E x \in {<<c, "thread">>, <<c, "intr">>} : Recorded(x, arg[Cur(c)])
      BY <1>1, <3>1, CurContext DEF Recorded
    <3>3. lkcpu[arg[Cur(c)]] = c
      BY <1>2, <3>2 DEF IndInv, HolderRecorded
    <3> QED
      BY <1>1, <1>2, <2>2, <3>3 DEF IndInv, TypeOK, NoPanic, HoldingReadsCpu, Goto
  <2> QED
    BY <2>1, <2>2 DEF ReleaseCheck
<1>5. HoldsArg'
  BY <1>1, <1>2, SpinAssumption DEF IndInv, TypeOK, HoldsArg, Goto, ReleaseCheck, HoldingReadsLocked, HoldingReadsCpu
<1>6. \A x \in Contexts : Nesting(x)' = Nesting(x)
  BY <1>1, <1>2 DEF Nesting, TypeOK, Goto, ReleaseCheck, HoldingReadsLocked, HoldingReadsCpu
<1>7. NcliCounts'
  BY <1>1, <1>6, NestingSize, NcliFrame DEF IndInv, TypeOK, ReleaseCheck, HoldingReadsLocked, HoldingReadsCpu
<1>8. FlagOK(c)'
  <2>1. PICK q \in PCs \ {"push"} : pc' = [pc EXCEPT ![Cur(c)] = q]
    BY DEF ReleaseCheck, HoldingReadsLocked, HoldingReadsCpu, Goto, PCs
  <2>2. UNCHANGED <<mode, IF_, ncli, intena, eflags, held>>
    BY DEF ReleaseCheck, HoldingReadsLocked, HoldingReadsCpu
  <2> QED
    BY <1>1, <2>1, <2>2, FlagKeep DEF IndInv, FlagInv
<1>9. FlagInv'
  BY <1>1, <1>2, <1>8, FlagFrame DEF IndInv, TypeOK, Goto, ReleaseCheck, HoldingReadsLocked, HoldingReadsCpu
<1> QED
  BY <1>1, <1>3, <1>4, <1>5, <1>7, <1>9 DEF IndInv

\* Erasing the record keeps it: the lock is about to be freed.
LEMMA ClearCpuStep ==
  ASSUME IndInv, NEW c \in CPUs, ClearCpu(c)
  PROVE  IndInv'
<1>1. TypeOK /\ TypeOK'
  BY TypeStep DEF IndInv, Step, Inside
<1>2. /\ Cur(c) \in Contexts
      /\ Cur(c) = <<c, mode[c]>>
      /\ mode[c] \in {"thread", "intr"}
      /\ arg[Cur(c)] \in Locks
  BY <1>1, CurContext DEF Cur, TypeOK, Modes
<1>3a. MutualExclusion'
  BY <1>1, <1>2 DEF IndInv, TypeOK, MutualExclusion, LockWord, Goto, ClearCpu
<1>3b. LockWord'
  BY <1>1, <1>2 DEF IndInv, TypeOK, MutualExclusion, LockWord, HoldsArg, Goto, ClearCpu
<1>3c. HolderRecorded'
  <2>1. ASSUME NEW x \in Contexts, NEW k \in Locks, k # arg[Cur(c)] \/ x # Cur(c)
        PROVE  Recorded(x, k)' <=> Recorded(x, k)
    BY <1>1, <1>2, <2>1 DEF TypeOK, Recorded, Goto, ClearCpu
  <2>2. \A x \in Contexts : x # Cur(c) => ~Recorded(x, arg[Cur(c)])
    BY <1>1, <1>2 DEF IndInv, HoldsArg, MutualExclusion, Recorded, Goto, ClearCpu
  <2>3. \A k \in Locks : k # arg[Cur(c)] => lkcpu'[k] = lkcpu[k]
    BY <1>1, <1>2 DEF TypeOK, ClearCpu
  <2>4. \A x \in Contexts : LET l == arg[Cur(c)] IN
          (l \in held'[x] /\ ~(arg'[x] = l /\ pc'[x] \in {"own", "unlock"})) <=> FALSE
    <3>1. ~(arg[Cur(c)] \in held'[Cur(c)] /\ pc'[Cur(c)] \notin {"own", "unlock"})
      BY <1>1, <1>2 DEF TypeOK, IndInv, HoldsArg, Goto, ClearCpu
    <3>2. arg' = arg
      BY DEF ClearCpu
    <3> QED
      BY <1>2, <2>1, <2>2, <3>1, <3>2 DEF Recorded
  <2>5. lkcpu'[arg[Cur(c)]] = NoCpu
    BY <1>1, <1>2 DEF TypeOK, ClearCpu
  <2>6. ASSUME NEW d \in CPUs, NEW k \in Locks
        PROVE  lkcpu'[k] = d <=> Recorded(<<d, "thread">>, k)' \/ Recorded(<<d, "intr">>, k)'
    <3>1. CASE k # arg[Cur(c)]
      BY <2>1, <2>3, <3>1, BothContexts DEF IndInv, HolderRecorded
    <3>2. CASE k = arg[Cur(c)]
      BY <1>2, <2>4, <2>5, <3>2, BothContexts, SpinAssumption DEF Recorded
    <3> QED
      BY <3>1, <3>2
  <2> QED
    BY <2>6 DEF HolderRecorded
<1>3. MutualExclusion' /\ LockWord' /\ HolderRecorded'
  BY <1>3a, <1>3b, <1>3c
<1>4. NoPanic'
  BY <1>1, <1>2 DEF IndInv, TypeOK, NoPanic, Goto, ClearCpu
<1>5. HoldsArg'
  BY <1>1, <1>2, SpinAssumption DEF IndInv, TypeOK, HoldsArg, Goto, ClearCpu
<1>6. \A x \in Contexts : Nesting(x)' = Nesting(x)
  BY <1>1, <1>2 DEF Nesting, TypeOK, Goto, ClearCpu
<1>7. NcliCounts'
  BY <1>1, <1>6, NestingSize, NcliFrame DEF IndInv, TypeOK, ClearCpu
<1>8. FlagOK(c)'
  BY <1>1, <1>2, BothContexts, NestingSize DEF IndInv, TypeOK, Goto, Cur, FlagInv, FlagOK, HoldsArg, NoPanic, NcliCounts, ClearCpu
<1>9. FlagInv'
  BY <1>1, <1>2, <1>8, FlagFrame DEF IndInv, TypeOK, Goto, ClearCpu
<1> QED
  BY <1>1, <1>3, <1>4, <1>5, <1>7, <1>9 DEF IndInv

\* The freeing store keeps it: the pending popcli still counts in ncli.
LEMMA UnlockStep ==
  ASSUME IndInv, NEW c \in CPUs, Unlock(c)
  PROVE  IndInv'
<1>1. TypeOK /\ TypeOK'
  BY TypeStep DEF IndInv, Step, Inside
<1>2. /\ Cur(c) \in Contexts
      /\ Cur(c) = <<c, mode[c]>>
      /\ mode[c] \in {"thread", "intr"}
      /\ arg[Cur(c)] \in Locks
  BY <1>1, CurContext DEF Cur, TypeOK, Modes
<1>2a. arg[Cur(c)] \in held[Cur(c)]
  BY <1>1, <1>2, SpinAssumption DEF IndInv, HoldsArg, Goto, Unlock
<1>3a. MutualExclusion'
  <2>1. \A x \in Contexts : held'[x] \subseteq held[x]
    BY <1>1, <1>2 DEF TypeOK, Unlock
  <2> QED
    BY <2>1 DEF IndInv, MutualExclusion
<1>3b. LockWord'
  <2>1. ASSUME NEW k \in Locks, k # arg[Cur(c)]
        PROVE  locked'[k] = locked[k] /\ \A x \in Contexts : k \in held'[x] <=> k \in held[x]
    BY <1>1, <1>2, <2>1 DEF TypeOK, Unlock
  <2>2. locked'[arg[Cur(c)]] = 0 /\ \A x \in Contexts : arg[Cur(c)] \notin held'[x]
    BY <1>1, <1>2, <1>2a DEF TypeOK, Unlock, IndInv, MutualExclusion
  <2> QED
    BY <1>2, <2>1, <2>2 DEF IndInv, LockWord
<1>3c. HolderRecorded'
  <2>1. \A x \in Contexts, k \in Locks : Recorded(x, k)' <=> Recorded(x, k)
    BY <1>1, <1>2, <1>2a DEF TypeOK, Recorded, Goto, Unlock
  <2>2. lkcpu' = lkcpu
    BY DEF Unlock
  <2> QED
    BY <2>1, <2>2, BothContexts DEF IndInv, HolderRecorded
<1>3. MutualExclusion' /\ LockWord' /\ HolderRecorded'
  BY <1>3a, <1>3b, <1>3c
<1>4. NoPanic'
  BY <1>1, <1>2 DEF IndInv, TypeOK, NoPanic, Goto, Unlock
<1>5. HoldsArg'
  BY <1>1, <1>2, SpinAssumption DEF IndInv, TypeOK, HoldsArg, Goto, Unlock
<1>6. \A x \in Contexts : Nesting(x)' = Nesting(x)
  <2>1. ASSUME NEW x \in Contexts, x # Cur(c) PROVE Nesting(x)' = Nesting(x)
    BY <1>1, <1>2, <2>1 DEF Nesting, TypeOK, Goto, Unlock
  <2>2. /\ Cardinality(held[Cur(c)]) \in Nat
        /\ Cardinality(held'[Cur(c)]) = Cardinality(held[Cur(c)]) - 1
    BY <1>1, <1>2, <1>2a, HeldSize DEF TypeOK, Unlock
  <2>3. ASSUME NEW x \in Contexts, x = Cur(c) PROVE Nesting(x)' = Nesting(x)
    <3>1. pc[x] = "unlock" /\ pc'[x] = "pop"
      BY <1>1, <2>3 DEF TypeOK, Goto, Unlock
    <3> QED
      BY <2>2, <2>3, <3>1 DEF Nesting
  <2> QED
    BY <2>1, <2>3
<1>7. NcliCounts'
  BY <1>1, <1>6, NestingSize, NcliFrame DEF IndInv, TypeOK, Unlock
<1>8. FlagOK(c)'
  BY <1>1, <1>2, BothContexts, NestingSize DEF IndInv, TypeOK, Goto, Cur, FlagInv, FlagOK, HoldsArg, NoPanic, NcliCounts, Unlock
<1>9. FlagInv'
  BY <1>1, <1>2, <1>8, FlagFrame DEF IndInv, TypeOK, Goto, Unlock
<1> QED
  BY <1>1, <1>3, <1>4, <1>5, <1>7, <1>9 DEF IndInv

\* popcli keeps it: ncli is positive, and the last call restores the flag.
LEMMA popcliStep ==
  ASSUME IndInv, NEW c \in CPUs, popcli(c)
  PROVE  IndInv'
<1>1. TypeOK /\ TypeOK'
  BY TypeStep DEF IndInv, Step, Inside
<1>2. /\ Cur(c) \in Contexts
      /\ Cur(c) = <<c, mode[c]>>
      /\ mode[c] \in {"thread", "intr"}
      /\ arg[Cur(c)] \in Locks
  BY <1>1, CurContext DEF Cur, TypeOK, Modes
<1>3. MutualExclusion' /\ LockWord' /\ HolderRecorded'
  BY <1>1, <1>2, LockFrame DEF IndInv, TypeOK, Goto, popcli
<1>3a. ncli[c] # 0 /\ ~IF_[c]
  <2>1. pc[<<c, "thread">>] = "pop" \/ pc[<<c, "intr">>] = "pop"
    BY <1>2 DEF popcli, Goto
  <2>2. ncli[c] # 0
    BY <1>1, <2>1, NcliZero DEF IndInv
  <2> QED
    BY <2>2 DEF IndInv, FlagInv, FlagOK
<1>4. NoPanic'
  BY <1>1, <1>2, <1>3a DEF IndInv, TypeOK, NoPanic, popcli, Goto
<1>5. HoldsArg'
  BY <1>1, <1>2, SpinAssumption DEF IndInv, TypeOK, HoldsArg, Goto, popcli
<1>6. \A x \in Contexts : Nesting(x)' = Nesting(x) + IF x = Cur(c) THEN -1 ELSE 0
  <2>1. ASSUME NEW x \in Contexts, x # Cur(c) PROVE Nesting(x)' = Nesting(x)
    BY <1>1, <1>2, <2>1 DEF Nesting, TypeOK, Goto, popcli
  <2>2. \A x \in Contexts : Cardinality(held[x]) \in Nat /\ Nesting(x) \in Nat
    BY <1>1, <1>2, HeldSize, NestingSize
  <2>3. ASSUME NEW x \in Contexts, x = Cur(c) PROVE Nesting(x)' = Nesting(x) + (-1)
    <3>1. pc[x] = "pop" /\ pc'[x] = "run" /\ held'[x] = held[x]
      BY <1>1, <1>3a, <2>3 DEF TypeOK, Goto, popcli
    <3> QED
      BY <2>2, <2>3, <3>1 DEF Nesting
  <2> QED
    BY <2>1, <2>2, <2>3
<1>7. NcliCounts'
  <2>1. ncli' = [ncli EXCEPT ![c] = @ + (-1)]
    BY <1>1, <1>3a DEF TypeOK, popcli
  <2> QED
    BY <1>1, <1>6, <2>1, NcliFrame DEF IndInv
<1>8. FlagOK(c)'
  <2>1. ncli'[c] = 0 <=> ncli[c] = 1
    BY <1>1, <1>3a DEF TypeOK, popcli
  <2>2. /\ IF_'[c] <=> (ncli[c] = 1 /\ intena[c])
        /\ UNCHANGED <<mode, eflags, held, intena>>
    BY <1>1, <1>3a DEF TypeOK, popcli
  <2>3. FlagOK(c) /\ (intena[c] <=> mode[c] = "thread")
    BY <1>3a DEF IndInv, FlagInv, FlagOK
  <2>4. \A x \in Contexts : pc'[x] = IF x = Cur(c) THEN "run" ELSE pc[x]
    BY <1>1, <1>3a DEF TypeOK, popcli, Goto
  <2>5. CASE mode[c] = "thread"
    <3>1. pc'[<<c, "intr">>] = pc[<<c, "intr">>] /\ pc'[<<c, "thread">>] = "run"
      BY <2>4, <2>5, BothContexts DEF Cur
    <3> QED
      BY <2>1, <2>2, <2>3, <2>5, <3>1 DEF FlagOK, Cur
  <2>6. CASE mode[c] = "intr"
    <3>1. pc'[<<c, "thread">>] = pc[<<c, "thread">>] /\ pc'[<<c, "intr">>] = "run"
      BY <2>4, <2>6, BothContexts DEF Cur
    <3> QED
      BY <2>1, <2>2, <2>3, <2>6, <3>1 DEF FlagOK, Cur
  <2> QED
    BY <1>2, <2>5, <2>6
<1>9. FlagInv'
  BY <1>1, <1>2, <1>8, FlagFrame DEF IndInv, TypeOK, Goto, popcli
<1> QED
  BY <1>1, <1>3, <1>4, <1>5, <1>7, <1>9 DEF IndInv

\* Taking an interrupt keeps it: the thread holds no lock, since the flag is set.
LEMMA InterruptStep ==
  ASSUME IndInv, NEW c \in CPUs, Interrupt(c)
  PROVE  IndInv'
<1>1. TypeOK /\ TypeOK'
  BY TypeStep DEF IndInv, Step, Inside
<1>2. /\ Cur(c) \in Contexts
      /\ Cur(c) = <<c, mode[c]>>
      /\ mode[c] \in {"thread", "intr"}
      /\ arg[Cur(c)] \in Locks
  BY <1>1, CurContext DEF Cur, TypeOK, Modes
<1>3. MutualExclusion' /\ LockWord' /\ HolderRecorded'
  BY <1>1, <1>2, LockFrame DEF IndInv, TypeOK, Goto, Interrupt
<1>4. NoPanic'
  BY <1>1, <1>2 DEF IndInv, TypeOK, NoPanic, Goto, Interrupt
<1>5. HoldsArg'
  BY <1>1, <1>2, SpinAssumption DEF IndInv, TypeOK, HoldsArg, Goto, Interrupt
<1>6. \A x \in Contexts : Nesting(x)' = Nesting(x)
  BY <1>1, <1>2 DEF Nesting, TypeOK, Goto, Interrupt
<1>7. NcliCounts'
  BY <1>1, <1>6, NestingSize, NcliFrame DEF IndInv, TypeOK, Interrupt
<1>8. FlagOK(c)'
  <2>1. FlagOK(c) /\ mode[c] = "thread" /\ IF_[c]
    BY DEF IndInv, FlagInv, Interrupt
  <2>2. mode'[c] = "intr" /\ ~IF_'[c] /\ UNCHANGED <<ncli, intena, pc, eflags, held>>
    BY <1>1 DEF TypeOK, Interrupt
  <2>3. ncli[c] = 0 /\ held[<<c, "thread">>] = {}
    BY <1>1, <2>1, NcliZero DEF IndInv, FlagOK
  <2>4. pc[<<c, "thread">>] \in {"run", "push"}
    <3>1. pc[<<c, "thread">>] \notin {"hold1", "hold2", "spin", "pop"}
      BY <1>1, <2>3, NcliZero DEF IndInv
    <3>2. pc[<<c, "thread">>] \notin {"own", "rel1", "rel2", "clear", "unlock"}
      BY <2>3, BothContexts DEF IndInv, HoldsArg
    <3>3. pc[<<c, "thread">>] \in PCs \ {"panic"}
      BY <1>1, BothContexts DEF TypeOK, IndInv, NoPanic
    <3> QED
      BY <3>1, <3>2, <3>3 DEF PCs
  <2> QED
    <3>1. pc[<<c, "thread">>] = "push" => eflags[<<c, "thread">>]
      BY <2>1 DEF FlagOK, Cur
    <3>2. pc[<<c, "intr">>] = "run"
      BY <2>1 DEF FlagOK
    <3> QED
      BY <2>2, <2>3, <2>4, <3>1, <3>2 DEF FlagOK, Cur
<1>9. FlagInv'
  BY <1>1, <1>2, <1>8, FlagFrame DEF IndInv, TypeOK, Goto, Interrupt
<1> QED
  BY <1>1, <1>3, <1>4, <1>5, <1>7, <1>9 DEF IndInv

\* Returning from one keeps it: the handler has released its locks.
LEMMA IretStep ==
  ASSUME IndInv, NEW c \in CPUs, Iret(c)
  PROVE  IndInv'
<1>1. TypeOK /\ TypeOK'
  BY TypeStep DEF IndInv, Step, Inside
<1>2. /\ Cur(c) \in Contexts
      /\ Cur(c) = <<c, mode[c]>>
      /\ mode[c] \in {"thread", "intr"}
      /\ arg[Cur(c)] \in Locks
  BY <1>1, CurContext DEF Cur, TypeOK, Modes
<1>3. MutualExclusion' /\ LockWord' /\ HolderRecorded'
  BY <1>1, <1>2, LockFrame DEF IndInv, TypeOK, Goto, Iret
<1>4. NoPanic'
  BY <1>1, <1>2 DEF IndInv, TypeOK, NoPanic, Goto, Iret
<1>5. HoldsArg'
  BY <1>1, <1>2, SpinAssumption DEF IndInv, TypeOK, HoldsArg, Goto, Iret
<1>6. \A x \in Contexts : Nesting(x)' = Nesting(x)
  BY <1>1, <1>2 DEF Nesting, TypeOK, Goto, Iret
<1>7. NcliCounts'
  BY <1>1, <1>6, NestingSize, NcliFrame DEF IndInv, TypeOK, Iret
<1>8. FlagOK(c)'
  <2>1. FlagOK(c) /\ mode[c] = "intr"
    BY DEF IndInv, FlagInv, Iret
  <2>2. mode'[c] = "thread" /\ IF_'[c] /\ UNCHANGED <<ncli, intena, pc, eflags, held>>
    BY <1>1 DEF TypeOK, Iret
  <2>3. pc[<<c, "intr">>] = "run" /\ held[<<c, "intr">>] = {}
    BY <2>1 DEF Iret, Cur
  <2>4. ncli[c] = 0
    BY <1>1, <2>1, <2>3, NcliZero DEF IndInv, FlagOK
  <2> QED
    <3>1. pc[<<c, "thread">>] = "push" => eflags[<<c, "thread">>]
      BY <2>1 DEF FlagOK
    <3> QED
      BY <2>2, <2>3, <2>4, <3>1 DEF FlagOK, Cur
<1>9. FlagInv'
  BY <1>1, <1>2, <1>8, FlagFrame DEF IndInv, TypeOK, Goto, Iret
<1> QED
  BY <1>1, <1>3, <1>4, <1>5, <1>7, <1>9 DEF IndInv

-----------------------------------------------------------------------------
(* The theorems *)

\* The boot state satisfies the invariant.
LEMMA InitInv == Init => IndInv
<1> SUFFICES ASSUME Init PROVE IndInv
  OBVIOUS
<1>1. TypeOK
  <2>1. AnyLock \in Locks
    BY SpinAssumption DEF AnyLock
  <2>2. /\ locked \in [Locks -> {0, 1}]
        /\ lkcpu \in [Locks -> CPUs \cup {NoCpu}]
    BY DEF Init, initlock
  <2>3. /\ IF_ \in [CPUs -> BOOLEAN]
        /\ ncli \in [CPUs -> Nat]
        /\ intena \in [CPUs -> BOOLEAN]
        /\ mode \in [CPUs -> Modes]
    BY DEF Init, Modes
  <2>4. /\ pc \in [Contexts -> PCs]
        /\ eflags \in [Contexts -> BOOLEAN]
        /\ held \in [Contexts -> SUBSET Locks]
    BY DEF Init, PCs
  <2>5. arg \in [Contexts -> Locks]
    BY <2>1 DEF Init
  <2> QED
    BY <2>2, <2>3, <2>4, <2>5 DEF TypeOK
<1>2. MutualExclusion /\ NoPanic /\ LockWord /\ HoldsArg
  BY DEF Init, initlock, MutualExclusion, NoPanic, LockWord, HoldsArg
<1>3. HolderRecorded
  BY BothContexts, SpinAssumption DEF Init, initlock, HolderRecorded, Recorded
<1>4. NcliCounts
  <2>1. \A x \in Contexts : Nesting(x) = 0
    BY <1>1, NestingSize DEF Init
  <2> SUFFICES ASSUME NEW c \in CPUs
               PROVE  ncli[c] = Nesting(<<c, "thread">>) + Nesting(<<c, "intr">>)
    BY DEF NcliCounts
  <2>2. Nesting(<<c, "thread">>) = 0 /\ Nesting(<<c, "intr">>) = 0
    BY <2>1, BothContexts
  <2>3. ncli[c] = 0
    BY DEF Init
  <2> QED
    BY <2>2, <2>3
<1>5. FlagInv
  BY BothContexts DEF Init, FlagInv, FlagOK, Cur
<1> QED
  BY <1>1, <1>2, <1>3, <1>4, <1>5 DEF IndInv

\* Every step keeps it.
LEMMA NextInv == IndInv /\ [Next]_vars => IndInv'
<1> SUFFICES ASSUME IndInv, [Next]_vars PROVE IndInv'
  OBVIOUS
<1>1. ASSUME NEW c \in CPUs, Step(c) PROVE IndInv'
  <2>1. ASSUME NEW l \in Locks, AcquireCall(c, l) \/ ReleaseCall(c, l) PROVE IndInv'
    BY <2>1, AcquireCallStep, ReleaseCallStep
  <2>2. CASE Inside(c)
    BY <2>2, pushcliStep, AcquireCheckStep, xchgStep, RecordCpuStep, ReleaseCheckStep,
       ClearCpuStep, UnlockStep, popcliStep DEF Inside
  <2>3. CASE Interrupt(c) \/ Iret(c)
    BY <2>3, InterruptStep, IretStep
  <2> QED
    BY <1>1, <2>1, <2>2, <2>3 DEF Step
<1>2. CASE UNCHANGED vars
  <2>1. TypeOK' /\ MutualExclusion' /\ NoPanic' /\ LockWord' /\ HoldsArg' /\ HolderRecorded'
    BY <1>2 DEF IndInv, vars, TypeOK, MutualExclusion, NoPanic, LockWord, HoldsArg,
       HolderRecorded, Recorded
  <2>2. NcliCounts' /\ FlagInv'
    BY <1>2 DEF IndInv, vars, NcliCounts, Nesting, FlagInv, FlagOK, Cur
  <2> QED
    BY <2>1, <2>2 DEF IndInv
<1> QED
  BY <1>1, <1>2 DEF Next

\* IndInv is an invariant of the spin locks.
THEOREM SpinInvariant == Spec => []IndInv
BY InitInv, NextInv, PTL DEF Spec

\* Type correctness: in particular ncli never goes below zero, so popcli is
\* never called more often than pushcli.
THEOREM SpinTypeCorrect == Spec => []TypeOK
<1>1. IndInv => TypeOK
  BY DEF IndInv
<1> QED
  BY <1>1, SpinInvariant, PTL

\* acquire and release give mutual exclusion between threads and interrupt
\* handlers, on any number of CPUs.
THEOREM SpinMutualExclusion == Spec => []MutualExclusion
<1>1. IndInv => MutualExclusion
  BY DEF IndInv
<1> QED
  BY <1>1, SpinInvariant, PTL

\* Code that nests locks in order and releases what it holds never panics in
\* acquire, release or popcli.
THEOREM SpinNoPanic == Spec => []NoPanic
<1>1. IndInv => NoPanic
  BY DEF IndInv
<1> QED
  BY <1>1, SpinInvariant, PTL

\* A CPU that holds a lock takes no interrupts.
THEOREM SpinInterruptsOff == Spec => []InterruptsOffWhileHeld
<1>1. IndInv => InterruptsOffWhileHeld
  <2> SUFFICES ASSUME IndInv, NEW c \in CPUs, NEW m \in Modes, held[<<c, m>>] # {}
               PROVE  ~IF_[c]
    BY DEF InterruptsOffWhileHeld
  <2>1. ncli[c] # 0
    BY NcliZero DEF IndInv, Modes
  <2> QED
    BY <2>1 DEF IndInv, FlagInv, FlagOK
<1> QED
  BY <1>1, SpinInvariant, PTL

\* Outside the locks the interrupt flag is back to what it was.
THEOREM SpinFlagRestored == Spec => []InterruptFlagRestored
<1>1. IndInv => InterruptFlagRestored
  <2> SUFFICES ASSUME IndInv, NEW c \in CPUs, pc[Cur(c)] = "run", held[Cur(c)] = {}
               PROVE  (IF_[c] <=> mode[c] = "thread") /\ ncli[c] = 0
    BY DEF InterruptFlagRestored
  <2>1. FlagOK(c) /\ mode[c] \in {"thread", "intr"}
    BY DEF IndInv, FlagInv, TypeOK, Modes
  <2>2. ncli[c] = 0
    BY <2>1, NcliZero DEF IndInv, FlagOK, Cur
  <2> QED
    BY <2>1, <2>2 DEF FlagOK
<1> QED
  BY <1>1, SpinInvariant, PTL
===============================================================================
