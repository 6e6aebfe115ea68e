------------------------------ MODULE MyLockProofs ------------------------------
(* Proofs about MyLock for any set of CPUs, any number of mylocks and any bounds. *)
EXTENDS MyLock, FiniteSetTheorems, TLAPS

\* The word of a lock's status is one of the words of the memory.
LEMMA StatusWord ==
  ASSUME NEW i \in 0 .. NLOCKS
  PROVE  status(i) \in Words /\ i \in Words
BY MyLockAssumption DEF status, Words

\* A step of a process that leaves the locked word alone, and does not make it an
\* owner, keeps WordOwned.
LEMMA OwnedFrame ==
  ASSUME WordOwned, locked' = locked, Owners' \subseteq Owners
  PROVE  WordOwned'
BY DEF WordOwned

\* The steps before a lock is taken: init_mylock, and the checks of acquire_mylock.
LEMMA BeforeStep ==
  ASSUME IndInv, NEW c \in CPUs,
         \/ init_mylock(c) \/ InitScans(c) \/ InitEnds(c) \/ InitMarks(c)
         \/ acquire_mylock(c) \/ HoldingReadsStatus(c) \/ HoldingReadsLocked(c) \/ Claim(c)
  PROVE  IndInv'
<1> USE DEF IndInv, TypeOK, Goto, counting
<1>1. /\ \A d \in CPUs : d # c => pc'[d] = pc[d]
      /\ locked' = locked /\ ret' = ret
      /\ pc'[c] \in {"scan", "user", "mark", "status", "claim", "locked", "panic", "spin"}
  BY DEF init_mylock, InitScans, InitEnds, InitMarks, acquire_mylock,
         HoldingReadsStatus, HoldingReadsLocked, Claim, PCs
<1>2. Owners' \subseteq Owners
  BY <1>1 DEF Owners
<1>3. WordOwned'
  BY <1>1, <1>2, OwnedFrame
<1>4. NoLostUpdate' /\ KernelOwns'
  BY <1>1 DEF NoLostUpdate, KernelOwns, init_mylock, InitScans, InitEnds, InitMarks,
         acquire_mylock, HoldingReadsStatus, HoldingReadsLocked, Claim
<1>5. CASE init_mylock(c)
  <2>1. TypeOK'
    BY <1>5, MyLockAssumption DEF init_mylock, PCs
  <2> QED
    BY <1>3, <1>4, <1>5, <2>1 DEF init_mylock, ScanInRange, NcliCounts, Kernel
<1>6. CASE InitScans(c)
  <2>1. TypeOK'
    BY <1>6, MyLockAssumption DEF InitScans, ScanOn, PCs
  <2> QED
    BY <1>3, <1>4, <1>6, <2>1 DEF InitScans, ScanInRange, NcliCounts, Kernel
<1>7. CASE InitEnds(c)
  <2>1. TypeOK'
    BY <1>7 DEF InitEnds, PCs, UserModes
  <2>2. ScanInRange'
    BY <1>7, MyLockAssumption DEF InitEnds, ScanInRange
  <2> QED
    BY <1>3, <1>4, <1>7, <2>1, <2>2 DEF InitEnds, NcliCounts, Kernel
<1>8. CASE InitMarks(c)
  <2>1. TypeOK'
    <3>1. n[c] \in 0 .. NLOCKS
      BY <1>8, MyLockAssumption DEF InitMarks, ScanInRange
    <3> QED
      BY <1>8, <3>1, StatusWord DEF InitMarks, PCs, UserModes
  <2> QED
    BY <1>3, <1>4, <1>8, <2>1 DEF InitMarks, ScanInRange, NcliCounts, Kernel
<1>9. CASE acquire_mylock(c)
  <2>1. ncli[c] = acquires[c] /\ acquires[c] < MaxUpdates
    BY <1>9 DEF acquire_mylock, NcliCounts, Kernel
  <2>2. TypeOK'
    BY <1>9, <2>1, MyLockAssumption DEF acquire_mylock, pushcli, PCs
  <2>3. NcliCounts'
    BY <1>9, <2>1, <2>2 DEF acquire_mylock, pushcli, NcliCounts, Kernel
  <2> QED
    BY <1>3, <1>4, <1>9, <2>2, <2>3 DEF acquire_mylock, ScanInRange
<1>10. CASE HoldingReadsStatus(c)
  BY <1>3, <1>4, <1>10
     DEF HoldingReadsStatus, PCs, ScanInRange, NcliCounts, Kernel
<1>11. CASE HoldingReadsLocked(c)
  BY <1>3, <1>4, <1>11
     DEF HoldingReadsLocked, PCs, ScanInRange, NcliCounts, Kernel
<1>12. CASE Claim(c)
  BY <1>3, <1>4, <1>12 DEF Claim, PCs, ScanInRange, NcliCounts, Kernel
<1> QED
  BY <1>5, <1>6, <1>7, <1>8, <1>9, <1>10, <1>11, <1>12

\* The exchange that reads 0: nobody owned the word, and now one process does.
LEMMA LocksStep ==
  ASSUME IndInv, NEW c \in CPUs, Locks(c) \/ KernelLocks(c)
  PROVE  IndInv'
<1> USE DEF IndInv, TypeOK, Goto, counting, xchg
<1>1. /\ locked = 0 /\ locked' = 1 /\ ret' = ret
      /\ pc' = [pc EXCEPT ![c] = IF Locks(c) THEN "held" ELSE "kcs"]
      /\ UNCHANGED <<mem, ncli, id, n, counter, seen, inits, updates, acquires>>
      /\ IF Locks(c) THEN pc[c] = "spin" ELSE pc[c] = "kspin"
  BY DEF Locks, KernelLocks
<1>2. Owners = {}
  BY <1>1 DEF WordOwned
<1>3. \A d \in CPUs : d # c => pc'[d] = pc[d]
  BY <1>1
<1>4. Owners' \subseteq {c}
  BY <1>1, <1>2, <1>3 DEF Owners
<1>5. WordOwned'
  BY <1>1, <1>4 DEF WordOwned
<1>6. TypeOK'
  BY <1>1 DEF PCs, UserModes, Kernel
<1>7. NoLostUpdate' /\ ScanInRange' /\ NcliCounts'
  BY <1>1 DEF NoLostUpdate, ScanInRange, NcliCounts, Kernel
<1>8. KernelOwns'
  BY <1>1, <1>2 DEF KernelOwns, Owners, UserModes
<1> QED
  BY <1>5, <1>6, <1>7, <1>8

\* update_cnt and release_mylock: the process owns the word, so nobody else is
\* between the load and the store.
LEMMA HeldStep ==
  ASSUME IndInv, NEW c \in CPUs,
         \/ update_cnt(c) \/ UpdateWrites(c) \/ ReleaseChecks(c)
         \/ ReleaseClears(c, "clear", "clear2") \/ ReleaseClears(c, "clear2", "unlock")
  PROVE  IndInv'
<1> USE DEF IndInv, TypeOK, Goto, counting
<1>1. /\ \A d \in CPUs : d # c => pc'[d] = pc[d]
      /\ locked' = locked /\ ret' = ret
      /\ pc[c] \in {"held", "write", "clear", "clear2"}
      /\ pc'[c] \in {"held", "write", "clear", "lost", "clear2", "unlock"}
      /\ UNCHANGED <<ncli, id, n, inits, acquires>>
  BY DEF update_cnt, UpdateWrites, ReleaseChecks, ReleaseClears
<1>2. c \in Owners
  BY <1>1 DEF Owners
<1>3. WordOwned'
  <2>1. Owners' \subseteq Owners
    BY <1>1, <1>2 DEF Owners
  <2> QED
    BY <1>1, <2>1, OwnedFrame
<1>4. \A d \in CPUs : pc[d] = "write" => d = c
  BY <1>2 DEF WordOwned, Owners
<1>5. NoLostUpdate'
  BY <1>1, <1>4 DEF NoLostUpdate, update_cnt, UpdateWrites, ReleaseChecks, ReleaseClears
<1>6. KernelOwns' /\ ScanInRange' /\ NcliCounts'
  BY <1>1 DEF KernelOwns, ScanInRange, NcliCounts, Kernel
<1>7. TypeOK'
  <2>1. CASE update_cnt(c)
    BY <2>1, MyLockAssumption DEF update_cnt, PCs
  <2>2. CASE UpdateWrites(c)
    BY <2>2 DEF UpdateWrites, PCs, UserModes
  <2>3. CASE ReleaseChecks(c)
    BY <2>3 DEF ReleaseChecks, PCs, UserModes
  <2>4. CASE ReleaseClears(c, "clear", "clear2") \/ ReleaseClears(c, "clear2", "unlock")
    BY <2>4 DEF ReleaseClears, PCs
  <2> QED
    BY <2>1, <2>2, <2>3, <2>4
<1> QED
  BY <1>3, <1>5, <1>6, <1>7

\* The store that frees the word is its owner's, in release_mylock or the kernel.
LEMMA UnlocksStep ==
  ASSUME IndInv, NEW c \in CPUs, Unlocks(c) \/ KernelReleases(c)
  PROVE  IndInv'
<1> USE DEF IndInv, TypeOK, Goto, counting
<1>1. /\ \/ pc[c] = "unlock"
         \/ pc[c] = "krelease" /\ ret[c] = "user"
      /\ pc' = [pc EXCEPT ![c] = "user"] /\ locked' = 0
      /\ UNCHANGED <<mem, id, n, ret, counter, seen, inits, updates, acquires>>
  BY DEF Unlocks, KernelReleases, KernelOwns
<1>2. Owners = {c}
  BY <1>1 DEF WordOwned, Owners
<1>3. \A d \in CPUs : pc'[d] = IF d = c THEN "user" ELSE pc[d]
  BY <1>1
<1>4. Owners' = {}
  BY <1>1, <1>2, <1>3 DEF Owners
<1>5. WordOwned'
  BY <1>4 DEF WordOwned
<1>6. NcliCounts' /\ ncli' \in [CPUs -> 0 .. MaxUpdates + 1]
  BY <1>1, MyLockAssumption
     DEF Unlocks, KernelReleases, popcli, NcliCounts, Kernel
<1>7. TypeOK'
  BY <1>1, <1>6 DEF PCs, UserModes
<1>8. NoLostUpdate' /\ KernelOwns' /\ ScanInRange'
  BY <1>1 DEF NoLostUpdate, KernelOwns, ScanInRange
<1> QED
  BY <1>5, <1>6, <1>7, <1>8

\* A trap neither takes nor gives away the word, also when the process holds it.
LEMMA TrapStep ==
  ASSUME IndInv, NEW c \in CPUs, Trap(c)
  PROVE  IndInv'
<1> USE DEF IndInv, TypeOK, Goto, counting
<1>1. /\ pc[c] \in UserModes /\ pc[c] # "panic" /\ pc[c] \notin Kernel
      /\ pc' = [pc EXCEPT ![c] = "kspin"]
      /\ ret' = [ret EXCEPT ![c] = pc[c]]
      /\ ncli' = [ncli EXCEPT ![c] = @ + 1]
      /\ UNCHANGED <<locked, mem, id, n, counter, seen, inits, updates, acquires>>
  BY DEF Trap, pushcli, UserModes, Kernel
<1>2. Owners' \subseteq Owners
  BY <1>1 DEF Owners
<1>3. WordOwned'
  BY <1>1, <1>2, OwnedFrame
<1>4. ncli[c] = acquires[c]
  BY <1>1 DEF NcliCounts
<1>5. ncli' \in [CPUs -> 0 .. MaxUpdates + 1]
  BY <1>1, <1>4, MyLockAssumption
<1>6. TypeOK'
  BY <1>1, <1>5 DEF PCs, Kernel
<1>7. NcliCounts'
  BY <1>1, <1>4 DEF NcliCounts, Kernel
<1>8. NoLostUpdate' /\ KernelOwns' /\ ScanInRange'
  BY <1>1 DEF NoLostUpdate, KernelOwns, ScanInRange
<1> QED
  BY <1>3, <1>6, <1>7, <1>8

\* The kernel's own section of ptable.lock.
LEMMA SectionStep ==
  ASSUME IndInv, NEW c \in CPUs, sched(c) \/ wakeup(c)
  PROVE  IndInv'
<1> USE DEF IndInv, TypeOK, Goto, counting
<1>1. /\ pc[c] = "kcs"
      /\ \/ pc' = [pc EXCEPT ![c] = "krelease"]
         \/ pc' = [pc EXCEPT ![c] = "panic"]
      /\ UNCHANGED <<locked, mem, ncli, id, n, ret, counter, seen, inits, updates, acquires>>
  BY DEF sched, wakeup
<1>2. Owners' \subseteq Owners
  BY <1>1 DEF Owners
<1>3. WordOwned'
  BY <1>1, <1>2, OwnedFrame
<1>4. TypeOK'
  BY <1>1 DEF PCs, Kernel
<1>5. NoLostUpdate' /\ KernelOwns' /\ ScanInRange' /\ NcliCounts'
  BY <1>1 DEF NoLostUpdate, KernelOwns, ScanInRange, NcliCounts, Kernel
<1> QED
  BY <1>3, <1>4, <1>5

-----------------------------------------------------------------------------

\* The system starts in the invariant.
LEMMA InitInv == Init => IndInv
<1> SUFFICES ASSUME Init PROVE IndInv
  OBVIOUS
<1>1. TypeOK
  BY MyLockAssumption DEF Init, TypeOK, Words, PCs, UserModes, NoId
<1>2. WordOwned
  BY DEF Init, WordOwned, Owners
<1>3. NoLostUpdate /\ KernelOwns /\ ScanInRange /\ NcliCounts
  BY DEF Init, NoLostUpdate, KernelOwns, ScanInRange, NcliCounts, Kernel
<1> QED
  BY <1>1, <1>2, <1>3 DEF IndInv

\* Every step keeps it.
LEMMA NextInv == IndInv /\ [Next]_vars => IndInv'
<1> SUFFICES ASSUME IndInv, [Next]_vars PROVE IndInv'
  OBVIOUS
<1>1. ASSUME NEW c \in CPUs,
             MyLockStep(c) \/ KernelStep(c) \/ init_mylock(c) \/ ReleaseChecks(c) \/ Trap(c)
      PROVE  IndInv'
  BY <1>1, BeforeStep, LocksStep, HeldStep, UnlocksStep, TrapStep, SectionStep
     DEF MyLockStep, KernelStep
<1>2. CASE UNCHANGED vars
  BY <1>2 DEF vars, IndInv, TypeOK, WordOwned, Owners, NoLostUpdate, KernelOwns,
              ScanInRange, NcliCounts
<1> QED
  BY <1>1, <1>2 DEF Next

\* The inductive invariant of the mylocks.
THEOREM MyLockInvariant == Spec => []IndInv
BY InitInv, NextInv, PTL DEF Spec

\* All variables have their types; no id and no ncli leaves its range.
THEOREM MyLockTypeCorrect == Spec => []TypeOK
<1>1. IndInv => TypeOK
  BY DEF IndInv
<1> QED
  BY <1>1, MyLockInvariant, PTL

\* At most one process holds a mylock or the kernel's ptable.lock.
THEOREM MyLockOneOwner == Spec => []OneOwner
<1>1. IndInv => OneOwner
  <2> SUFFICES ASSUME IndInv PROVE OneOwner
    OBVIOUS
  <2>1. CASE Owners = {}
    BY <2>1, FS_EmptySet DEF OneOwner
  <2>2. ASSUME NEW c \in Owners PROVE OneOwner
    <3>1. Owners = {c}
      BY DEF IndInv, WordOwned
    <3> QED
      BY <3>1, FS_Singleton DEF OneOwner
  <2> QED
    BY <2>1, <2>2
<1> QED
  BY <1>1, MyLockInvariant, PTL

\* No update of the shared counter that is made under a mylock is lost.
THEOREM MyLockNoLostUpdate == Spec => []NoLostUpdate
<1>1. IndInv => NoLostUpdate
  BY DEF IndInv
<1> QED
  BY <1>1, MyLockInvariant, PTL

================================================================================
