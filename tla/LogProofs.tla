------------------------------- MODULE LogProofs -------------------------------
(* Proofs about Log for any finite set of processes, any blocks and contents,  *)
(* any size of the log and of a system call, and any number of crashes.        *)
EXTENDS Log, FiniteSetTheorems, TLAPS

-----------------------------------------------------------------------------
(* Helpers *)

\* A step of one actor.
LEMMA Moves ==
  ASSUME TypeOK, NEW a \in Actors, NEW s \in PCs, pc' = [pc EXCEPT ![a] = s]
  PROVE  pc' \in [Actors -> PCs] /\ pc'[a] = s /\ \A c \in Actors \ {a} : pc'[c] = pc[c]
BY DEF TypeOK

\* A step of one actor that wakes those who sleep in begin_op.
LEMMA MovesAndWakes ==
  ASSUME TypeOK, NEW a \in Actors, NEW s \in PCs, pc' = [wakeup(pc) EXCEPT ![a] = s]
  PROVE  /\ pc' \in [Actors -> PCs] /\ pc'[a] = s
         /\ \A c \in Actors \ {a} : pc'[c] = IF pc[c] = "asleep" THEN "retry" ELSE pc[c]
<1>1. wakeup(pc) \in [Actors -> PCs]
  BY DEF TypeOK, wakeup, PCs
<1> QED
  BY <1>1 DEF wakeup

\* A system call is active at the places of one.
LEMMA ActiveSame ==
  ASSUME \A q \in Procs : pc'[q] \in {"op", "logging", "toobig", "panic"} <=> q \in Active
  PROVE  Active' = Active
BY DEF Active

LEMMA CommittersSame ==
  ASSUME \A q \in Procs : pc'[q] \in {"copy", "head", "install", "clear", "done"} <=> q \in Committers
  PROVE  Committers' = Committers
BY DEF Committers

\* The calls are counted.
LEMMA ActiveFinite ==
  /\ IsFiniteSet(Procs) /\ Cardinality(Procs) \in Nat
  /\ \A S \in SUBSET Procs : IsFiniteSet(S) /\ Cardinality(S) \in 0..Cardinality(Procs)
BY FS_Subset, FS_CardinalityType, LogAssumption

\* So is what they may still log, which is at most OpBlocks for each.
LEMMA RoomBound ==
  ASSUME NEW S \in SUBSET Procs, NEW R, R \subseteq S \X (1 .. OpBlocks)
  PROVE  IsFiniteSet(R) /\ Cardinality(R) \in Nat /\ Cardinality(R) <= Cardinality(S) * OpBlocks
<1>1. IsFiniteSet(1 .. OpBlocks) /\ Cardinality(1 .. OpBlocks) = OpBlocks
  BY FS_Interval, LogAssumption
<1>2. IsFiniteSet(S \X (1 .. OpBlocks)) /\ Cardinality(S \X (1 .. OpBlocks)) = Cardinality(S) * OpBlocks
  BY <1>1, ActiveFinite, FS_Product
<1> QED
  BY <1>2, FS_Subset, FS_CardinalityType

\* The sizes, as numbers.
LEMMA Sizes ==
  /\ MAXOPBLOCKS \in Nat /\ OpBlocks \in Nat /\ LOGSIZE \in Nat /\ Spare \in Nat
  /\ 1 <= OpBlocks /\ OpBlocks <= MAXOPBLOCKS /\ OpBlocks + Spare <= LOGSIZE
  /\ Slack => OpBlocks < MAXOPBLOCKS /\ Spare = 2
  /\ ~Slack => OpBlocks = MAXOPBLOCKS /\ Spare = 0
BY LogAssumption DEF Spare, Slack

\* Two calls or more that leave a block of what they reserve leave two.
LEMMA Leaves ==
  ASSUME NEW k \in Nat, 2 <= k
  PROVE  k * OpBlocks + Spare <= k * MAXOPBLOCKS /\ k * OpBlocks \in Nat /\ k * MAXOPBLOCKS \in Nat
<1>1. k * OpBlocks \in Nat /\ k * MAXOPBLOCKS \in Nat
  BY Sizes
<1>2. CASE ~Slack
  BY <1>1, <1>2, Sizes
<1>3. CASE Slack
  <2> DEFINE d == MAXOPBLOCKS - OpBlocks
  <2>1. d \in Nat /\ 1 <= d /\ MAXOPBLOCKS = OpBlocks + d
    BY <1>3, Sizes
  <2> HIDE DEF d
  <2>2. k * MAXOPBLOCKS = k * OpBlocks + k * d
    BY <2>1, Sizes
  <2>3. k <= k * d /\ k * d \in Nat
    BY <2>1
  <2> QED
    BY <1>1, <1>3, <2>2, <2>3, Sizes
<1> QED
  BY <1>2, <1>3, Sizes

\* The blocks of the log are finitely many.
LEMMA InLogFinite ==
  ASSUME TypeOK
  PROVE  /\ IsFiniteSet(InLog) /\ InLog \subseteq Blocks
         /\ \A S \in SUBSET InLog : IsFiniteSet(S) /\ Cardinality(S) \in Nat
<1>1. lh \in Seq(Blocks) /\ Len(lh) \in Nat
  BY DEF TypeOK
<1> DEFINE f == [i \in 1 .. Len(lh) |-> lh[i]]
<1>2. InLog = {f[i] : i \in 1 .. Len(lh)}
  BY DEF InLog
<1>3. IsFiniteSet(1 .. Len(lh))
  BY <1>1, FS_Interval
<1>4. f \in Surjection(1 .. Len(lh), InLog)
  BY <1>2 DEF Surjection
<1>5. IsFiniteSet(InLog)
  BY <1>3, <1>4, FS_Surjection
<1>6. InLog \subseteq Blocks
  BY <1>1 DEF InLog
<1> QED
  BY <1>5, <1>6, FS_Subset, FS_CardinalityType

\* Every block has contents, in a buffer or on the disk.
LEMMA Uncached ==
  ASSUME ControlInv, NEW b \in Blocks
  PROVE  Contents(b) \in Vals
BY DEF ControlInv, TypeOK, Contents

\* Nobody is in a call or a commit while Boot recovers.
LEMMA Recovering ==
  ASSUME CallInv, pc[Boot] # "off"
  PROVE  Active = {} /\ Committers = {} /\ outstanding = 0 /\ ~committing
<1>1. Active = {} /\ Committers = {}
  BY DEF CallInv, Active, Committers
<1> QED
  BY <1>1, FS_EmptySet DEF CallInv

-----------------------------------------------------------------------------
(* Who runs, and the room in the log *)

\* A step that starts and ends no call, logs nothing and reserves nothing.
LEMMA SpaceFrame ==
  ASSUME ControlInv, UNCHANGED <<lh, hd, wrote>>, Active' = Active,
         \A p \in Procs : pc'[p] = "logging" => pc[p] = "logging" /\ blk'[p] = blk[p]
  PROVE  SpaceInv'
<1>1. Room' = Room /\ InLog' = InLog
  BY DEF Room, InLog
<1>2. \A p \in Procs : pc'[p] = "logging" => Cardinality(wrote'[p] \cup {blk'[p]}) <= OpBlocks
  BY DEF ControlInv, SpaceInv
<1> QED
  BY <1>1, <1>2 DEF ControlInv, SpaceInv

\* Without calls there are no reservations.
LEMMA SpaceEmpty ==
  ASSUME lh' \in Seq(Blocks), Len(lh') + Spare <= LOGSIZE, Len(hd') + Spare <= LOGSIZE,
         Active' = {}, \A p \in Procs : wrote'[p] = {}
  PROVE  SpaceInv'
<1>1. Room' = {}
  BY DEF Room
<1>2. \A p \in Procs : pc'[p] # "logging"
  BY DEF Active
<1>3. Len(lh') + Cardinality(Room') + Spare <= LOGSIZE
  BY <1>1, FS_EmptySet, Sizes
<1> QED
  BY <1>2, <1>3 DEF SpaceInv

\* The log in memory and the one on the disk leave what is to be left.
LEMMA SpaceSizes ==
  ASSUME TypeOK, SpaceInv
  PROVE  /\ Len(lh) + Spare <= LOGSIZE /\ Len(hd) + Spare <= LOGSIZE
         /\ Len(<<>>) + Spare <= LOGSIZE
<1>1. Room \subseteq Active \X (1 .. OpBlocks) /\ Active \in SUBSET Procs
  BY DEF Room, Active
<1>2. Cardinality(Room) \in Nat /\ Len(lh) \in Nat /\ Len(hd) \in Nat
  BY <1>1, RoomBound DEF TypeOK
<1> QED
  BY <1>2, Sizes DEF SpaceInv

\* No step of one process's commit, or of the recovery, has calls beside it.
LEMMA Commits_Alone ==
  ASSUME CallInv, NEW p \in Procs, p \in Committers
  PROVE  /\ Active = {} /\ committing /\ outstanding = 0 /\ pc[Boot] = "off"
         /\ \A q \in Procs \ {p} : q \notin Committers
<1>1. Active = {} /\ committing
  BY DEF CallInv
<1>2. outstanding = 0
  BY <1>1, FS_EmptySet DEF CallInv
<1>3. pc[Boot] = "off"
  BY DEF CallInv, Committers
<1> QED
  BY <1>1, <1>2, <1>3 DEF CallInv

\* A process that is in a call is counted, and nobody commits.
LEMMA Calls_Counted ==
  ASSUME CallInv, NEW p \in Active
  PROVE  outstanding \in Nat \ {0} /\ ~committing /\ Committers = {} /\ pc[Boot] = "off"
<1>1. ~committing /\ Committers = {}
  BY DEF CallInv
<1>2. pc[Boot] = "off"
  BY DEF CallInv, Active
<1>3. IsFiniteSet(Active) /\ Active # {} /\ Cardinality(Active) \in Nat
  BY ActiveFinite, FS_CardinalityType DEF Active
<1> QED
  BY <1>1, <1>2, <1>3, FS_EmptySet DEF CallInv

LEMMA BeginStep ==
  ASSUME ControlInv, NEW p \in Procs, begin_op(p)
  PROVE  ControlInv'
<1>1. /\ pc[Boot] = "off" /\ pc[p] \in {"out", "retry"} /\ ~committing
      /\ Len(lh) + (outstanding + 1) * MAXOPBLOCKS <= LOGSIZE
      /\ outstanding' = outstanding + 1 /\ pc' = [pc EXCEPT ![p] = "op"]
      /\ UNCHANGED <<durable, cache, dirty, lh, committing, tail, blk, wrote, crashes>>
  BY DEF begin_op, AtBegin, MayBegin, HasSpace
<1>2. p \in Actors /\ Boot \in Actors /\ p # Boot /\ "op" \in PCs
  BY LogAssumption DEF Actors, PCs
<1>3. pc' \in [Actors -> PCs] /\ pc'[p] = "op" /\ \A c \in Actors \ {p} : pc'[c] = pc[c]
  BY <1>1, <1>2, Moves DEF ControlInv
<1>4. Active' = Active \cup {p} /\ p \notin Active
  BY <1>1, <1>2, <1>3 DEF Active, Actors
<1>5. Committers' = Committers
  BY <1>1, <1>2, <1>3 DEF Committers, Actors
<1>6. outstanding' = Cardinality(Active') /\ outstanding' \in 0 .. Cardinality(Procs)
  <2>1. IsFiniteSet(Active) /\ Active' \in SUBSET Procs
    BY ActiveFinite DEF Active
  <2>2. Cardinality(Active') = Cardinality(Active) + 1
    BY <1>4, <2>1, FS_AddElement
  <2> QED
    BY <1>1, <2>1, <2>2, ActiveFinite DEF ControlInv, CallInv
<1>7. TypeOK'
  BY <1>1, <1>3, <1>6 DEF ControlInv, TypeOK, durable
<1>8. CallInv'
  <2>1. \A a \in Actors : pc'[a] \in {"copy", "head", "install"} => tail'[a] <= Len(lh')
    BY <1>1, <1>2, <1>3 DEF ControlInv, CallInv
  <2> QED
    BY <1>1, <1>2, <1>3, <1>4, <1>5, <1>6, <2>1 DEF ControlInv, CallInv, Actors, Empty
<1>9. SpaceInv'
  <2>1. Room' \subseteq Active' \X (1 .. OpBlocks) /\ Active' \in SUBSET Procs
    BY DEF Room, Active
  <2>2. Cardinality(Room') \in Nat /\ Cardinality(Room') <= (outstanding + 1) * OpBlocks
    BY <1>1, <1>6, <2>1, RoomBound
  <2>3. lh' = lh /\ Len(lh) \in Nat /\ outstanding \in Nat
    BY <1>1, ActiveFinite DEF ControlInv, TypeOK
  <2>4. Len(lh') + Cardinality(Room') + Spare <= LOGSIZE
    <3>1. CASE outstanding = 0
      <4>1. Active = {} /\ Committers = {}
        <5>1. IsFiniteSet(Active) /\ Cardinality(Active) = 0
          BY <3>1, ActiveFinite DEF ControlInv, CallInv, Active
        <5> QED
          BY <1>1, <5>1, FS_EmptySet DEF ControlInv, CallInv
      <4>2. Len(lh) = 0
        BY <1>1, <4>1 DEF ControlInv, CallInv, Empty
      <4>3. (outstanding + 1) * OpBlocks = OpBlocks
        BY <3>1, Sizes
      <4> QED
        BY <2>2, <2>3, <4>2, <4>3, Sizes
    <3>2. CASE outstanding # 0
      <4> DEFINE k == outstanding + 1
      <4>1. k \in Nat /\ 2 <= k
        BY <2>3, <3>2
      <4>2. Len(lh) + k * MAXOPBLOCKS <= LOGSIZE /\ Cardinality(Room') <= k * OpBlocks
        BY <1>1, <2>2
      <4> HIDE DEF k
      <4> QED
        BY <2>2, <2>3, <4>1, <4>2, Leaves, Sizes
    <3> QED
      BY <3>1, <3>2
  <2> QED
    BY <1>1, <1>2, <1>3, <1>4, <2>4 DEF ControlInv, SpaceInv, InLog, Actors, durable
<1> QED
  BY <1>7, <1>8, <1>9 DEF ControlInv

LEMMA SleepStep ==
  ASSUME ControlInv, NEW p \in Procs, BeginSleeps(p)
  PROVE  ControlInv'
<1>1. /\ pc[Boot] = "off" /\ pc[p] \in {"out", "retry"} /\ pc' = [pc EXCEPT ![p] = "asleep"]
      /\ UNCHANGED <<durable, memory, tail, blk, wrote, crashes>>
  BY DEF BeginSleeps, AtBegin
<1>2. p \in Actors /\ Boot \in Actors /\ p # Boot /\ "asleep" \in PCs
  BY LogAssumption DEF Actors, PCs
<1>3. pc' \in [Actors -> PCs] /\ pc'[p] = "asleep" /\ \A c \in Actors \ {p} : pc'[c] = pc[c]
  BY <1>1, <1>2, Moves DEF ControlInv
<1>4. Active' = Active /\ Committers' = Committers
  BY <1>1, <1>2, <1>3 DEF Active, Committers, Actors
<1>5. TypeOK'
  BY <1>1, <1>3 DEF ControlInv, TypeOK, durable, memory
<1>6. CallInv'
  <2>1. \A a \in Actors : pc'[a] \in {"copy", "head", "install"} => tail'[a] <= Len(lh')
    BY <1>1, <1>2, <1>3 DEF ControlInv, CallInv, memory
  <2> QED
    BY <1>1, <1>2, <1>3, <1>4, <2>1 DEF ControlInv, CallInv, Actors, memory, Empty
<1>7. SpaceInv'
  BY <1>1, <1>2, <1>3, <1>4, SpaceFrame DEF memory, durable, Actors
<1> QED
  BY <1>5, <1>6, <1>7 DEF ControlInv

\* What is left free is enough for the check of log_write, also in a block logged again.
LEMMA NeverTooBig ==
  ASSUME TypeOK, SpaceInv, TooBig
  PROVE  ~Slack
<1>1. Len(lh) \in Nat /\ Len(lh) + Spare <= LOGSIZE
  BY SpaceSizes DEF TypeOK
<1> QED
  BY <1>1, Sizes DEF TooBig, NLOG

LEMMA ChecksStep ==
  ASSUME ControlInv, NEW p \in Procs, NEW b \in Blocks, NEW v \in Vals, LogWriteChecks(p, b, v)
  PROVE  ControlInv' /\ pc'[p] \in {"toobig", "logging"} /\ p \in Active
<1>1. p \in Active /\ p \in Actors /\ Boot \in Actors /\ p # Boot
  BY LogAssumption DEF LogWriteChecks, Active, Actors
<1>2. outstanding \in Nat \ {0} /\ pc[Boot] = "off" /\ ~committing /\ Committers = {}
  BY <1>1, Calls_Counted DEF ControlInv
<1> DEFINE s == IF TooBig THEN "toobig" ELSE "logging"
<1>3. /\ pc[p] = "op" /\ Cardinality(wrote[p] \cup {b}) <= OpBlocks
      /\ cache' = [cache EXCEPT ![b] = v] /\ blk' = [blk EXCEPT ![p] = b]
      /\ UNCHANGED <<durable, dirty, lh, outstanding, committing, tail, wrote, crashes>>
  BY DEF LogWriteChecks
<1>4. pc' = [pc EXCEPT ![p] = s]
  <2>1. ~(outstanding < 1)
    BY <1>2
  <2> QED
    BY <2>1 DEF LogWriteChecks
<1>5. s \in {"toobig", "logging"} /\ s \in PCs
  BY DEF PCs
<1> HIDE DEF s
<1>6. pc' \in [Actors -> PCs] /\ pc'[p] = s /\ \A c \in Actors \ {p} : pc'[c] = pc[c]
  BY <1>1, <1>4, <1>5, Moves DEF ControlInv
<1>7. Active' = Active /\ Committers' = Committers
  BY <1>1, <1>3, <1>5, <1>6 DEF Active, Committers, Actors
<1>8. TypeOK'
  BY <1>3, <1>6 DEF ControlInv, TypeOK, durable
<1>9. CallInv'
  <2>1. \A a \in Actors : pc'[a] \in {"copy", "head", "install"} => tail'[a] <= Len(lh')
    BY <1>1, <1>3, <1>5, <1>6 DEF ControlInv, CallInv
  <2>2. s = "toobig" => ~Slack
    BY NeverTooBig DEF ControlInv, s
  <2>3. Active' # {}
    BY <1>1, <1>7
  <2> QED
    BY <1>1, <1>2, <1>3, <1>5, <1>6, <1>7, <2>1, <2>2, <2>3 DEF ControlInv, CallInv, Actors, Empty
<1>10. SpaceInv'
  <2>1. Room' = Room /\ InLog' = InLog
    BY <1>3, <1>7 DEF Room, InLog
  <2>2. \A q \in Procs : pc'[q] = "logging" => Cardinality(wrote'[q] \cup {blk'[q]}) <= OpBlocks
    BY <1>1, <1>3, <1>6 DEF ControlInv, SpaceInv, TypeOK, Actors
  <2> QED
    BY <1>3, <1>7, <2>1, <2>2 DEF ControlInv, SpaceInv, durable
<1> QED
  BY <1>1, <1>5, <1>6, <1>8, <1>9, <1>10 DEF ControlInv

\* What the loop of log_write makes of the log.
LEMMA Absorbs ==
  ASSUME TypeOK, NEW b \in Blocks
  PROVE  /\ Absorb(b) \in Seq(Blocks)
         /\ b \in InLog => Absorb(b) = lh
         /\ b \notin InLog => /\ Len(Absorb(b)) = Len(lh) + 1 /\ Absorb(b)[Len(lh) + 1] = b
                             /\ \A i \in 1 .. Len(lh) : Absorb(b)[i] = lh[i]
         /\ {Absorb(b)[i] : i \in 1 .. Len(Absorb(b))} = InLog \cup {b}
<1>1. lh \in Seq(Blocks) /\ Len(lh) \in Nat
  BY DEF TypeOK
<1>2. CASE b \in InLog
  BY <1>1, <1>2 DEF Absorb, InLog
<1>3. CASE b \notin InLog
  <2>1. Absorb(b) = Append(lh, b)
    BY <1>3 DEF Absorb, InLog
  <2>2. /\ Absorb(b) \in Seq(Blocks) /\ Len(Absorb(b)) = Len(lh) + 1 /\ Absorb(b)[Len(lh) + 1] = b
        /\ \A i \in 1 .. Len(lh) : Absorb(b)[i] = lh[i]
    BY <1>1, <2>1
  <2>3. 1 .. Len(Absorb(b)) = (1 .. Len(lh)) \cup {Len(lh) + 1}
    BY <1>1, <2>2
  <2>4. {Absorb(b)[i] : i \in 1 .. Len(Absorb(b))} = InLog \cup {b}
    BY <2>2, <2>3 DEF InLog
  <2> QED
    BY <1>3, <2>2, <2>4
<1> QED
  BY <1>2, <1>3

LEMMA WriteStep ==
  ASSUME ControlInv, NEW p \in Procs, log_write(p)
  PROVE  ControlInv' /\ (blk[p] \notin wrote[p] => Len(lh) < LOGSIZE)
<1> DEFINE b == blk[p]
<1>1. /\ pc[p] = "logging" /\ lh' = Absorb(b) /\ dirty' = dirty \cup {b}
      /\ wrote' = [wrote EXCEPT ![p] = wrote[p] \cup {b}] /\ pc' = [pc EXCEPT ![p] = "op"]
      /\ blk' = [blk EXCEPT ![p] = Behind]
      /\ UNCHANGED <<durable, cache, outstanding, committing, tail, crashes>>
  BY DEF log_write, Pinned
<1>2. p \in Active /\ p \in Actors /\ Boot \in Actors /\ p # Boot /\ b \in Blocks /\ "op" \in PCs
  BY <1>1, LogAssumption DEF Active, Actors, ControlInv, TypeOK, PCs
<1>3. outstanding \in Nat \ {0} /\ pc[Boot] = "off" /\ ~committing /\ Committers = {}
  BY <1>2, Calls_Counted DEF ControlInv
<1>4. pc' \in [Actors -> PCs] /\ pc'[p] = "op" /\ \A c \in Actors \ {p} : pc'[c] = pc[c]
  BY <1>1, <1>2, Moves DEF ControlInv
<1>5. Active' = Active /\ Committers' = Committers
  BY <1>1, <1>2, <1>4 DEF Active, Committers, Actors
<1>6. wrote' \in [Procs -> SUBSET Blocks] /\ wrote'[p] = wrote[p] \cup {b} /\ \A q \in Procs \ {p} : wrote'[q] = wrote[q]
  BY <1>1, <1>2 DEF ControlInv, TypeOK
<1>7. lh' \in Seq(Blocks) /\ InLog' = InLog \cup {b}
  <2>1. /\ Absorb(b) \in Seq(Blocks)
        /\ {Absorb(b)[i] : i \in 1 .. Len(Absorb(b))} = InLog \cup {b}
    BY <1>2, Absorbs DEF ControlInv
  <2>2. InLog' = {lh'[i] : i \in 1 .. Len(lh')}
    BY DEF InLog
  <2> QED
    BY <1>1, <2>1, <2>2
<1>8. Len(lh') + Cardinality(Room') + Spare <= LOGSIZE /\ (b \notin wrote[p] => Len(lh) < LOGSIZE)
  <2>1. /\ Len(lh) \in Nat /\ Len(lh) + Cardinality(Room) + Spare <= LOGSIZE
        /\ LOGSIZE \in Nat /\ Spare \in Nat
    BY Sizes DEF ControlInv, TypeOK, SpaceInv
  <2>2. IsFiniteSet(Room) /\ Cardinality(Room) \in Nat
    <3>1. Room \subseteq Active \X (1 .. OpBlocks) /\ Active \in SUBSET Procs
      BY DEF Room, Active
    <3> QED
      BY <3>1, RoomBound
  <2>3. CASE b \in wrote[p]
    <3>1. b \in InLog /\ lh' = lh
      BY <1>1, <1>2, <2>3, Absorbs DEF ControlInv, SpaceInv
    <3>2. wrote' = wrote
      BY <1>1, <2>3 DEF ControlInv, TypeOK
    <3> QED
      BY <1>5, <2>1, <2>3, <3>1, <3>2 DEF Room
  <2>4. CASE b \notin wrote[p]
    <3> DEFINE n == Cardinality(wrote[p]) + 1
    <3>1. IsFiniteSet(wrote[p]) /\ Cardinality(wrote[p]) \in Nat
      BY InLogFinite DEF ControlInv, SpaceInv
    <3>2. Cardinality(wrote'[p]) = n
      <4>1. Cardinality(wrote[p] \cup {b}) = n
        BY <2>4, <3>1, FS_AddElement
      <4> QED
        BY <1>6, <4>1
    <3>3. n \in 1 .. OpBlocks
      <4>1. Cardinality(wrote[p] \cup {b}) <= OpBlocks
        BY <1>1 DEF ControlInv, SpaceInv
      <4>2. n <= OpBlocks
        BY <1>6, <3>2, <4>1
      <4> QED
        BY <3>1, <4>2, LogAssumption
    <3> HIDE DEF n
    <3>4. <<p, n>> \in Room
      BY <1>2, <3>1, <3>3 DEF Room, n
    <3>5. Room' = Room \ {<<p, n>>}
      <4>1. \A q \in Active, m \in 1 .. OpBlocks :
              m > Cardinality(wrote'[q]) <=> m > Cardinality(wrote[q]) /\ <<q, m>> # <<p, n>>
        <5>1. \A m \in 1 .. OpBlocks : m > n <=> m > Cardinality(wrote[p]) /\ m # n
          BY <3>1 DEF n
        <5> QED
          BY <1>6, <3>2, <5>1 DEF Active
      <4> QED
        BY <1>5, <4>1 DEF Room
    <3>6. Cardinality(Room') = Cardinality(Room) - 1
      BY <2>2, <3>4, <3>5, FS_RemoveElement
    <3>7. Len(lh') <= Len(lh) + 1
      BY <1>1, <1>2, <2>1, Absorbs DEF ControlInv
    <3>8. Cardinality(Room) # 0
      BY <2>2, <3>4, FS_EmptySet
    <3>9. Len(lh') \in Nat
      BY <1>7
    <3> QED
      BY <2>1, <2>2, <3>6, <3>7, <3>8, <3>9
  <2> QED
    BY <2>3, <2>4
<1>9. SpaceInv'
  <2>1. \A q \in Procs : wrote'[q] \subseteq InLog'
    BY <1>6, <1>7 DEF ControlInv, SpaceInv
  <2>2. \A q \in Procs : q \notin Active' => wrote'[q] = {}
    BY <1>2, <1>5, <1>6 DEF ControlInv, SpaceInv
  <2>3. \A q \in Procs : pc'[q] = "logging" => Cardinality(wrote'[q] \cup {blk'[q]}) <= OpBlocks
    BY <1>1, <1>4, <1>6 DEF ControlInv, SpaceInv, Actors
  <2>4. Len(hd') + Spare <= LOGSIZE
    BY <1>1 DEF durable, ControlInv, SpaceInv
  <2> QED
    BY <1>8, <2>1, <2>2, <2>3, <2>4 DEF SpaceInv
<1>10. TypeOK'
  <2>1. Len(lh') <= LOGSIZE
    <3>1. Room' \subseteq Active' \X (1 .. OpBlocks) /\ Active' \in SUBSET Procs
      BY DEF Room, Active
    <3>2. Cardinality(Room') \in Nat
      BY <3>1, RoomBound
    <3>3. Len(lh') \in Nat
      BY <1>7
    <3> QED
      BY <1>8, <3>2, <3>3, Sizes
  <2>2. blk' \in [Procs -> Blocks]
    BY <1>1, LogAssumption DEF ControlInv, TypeOK
  <2> QED
    BY <1>1, <1>2, <1>4, <1>6, <1>7, <2>1, <2>2 DEF ControlInv, TypeOK, durable
<1>11. CallInv'
  <2>1. \A a \in Actors : pc'[a] \notin {"copy", "head", "install"}
    BY <1>2, <1>3, <1>4 DEF ControlInv, CallInv, Committers, Actors
  <2>2. \A a \in Actors : pc'[a] \notin {"read", "clear", "done"}
    BY <1>2, <1>3, <1>4 DEF ControlInv, CallInv, Committers, Actors
  <2>3. Active' # {}
    BY <1>2, <1>5
  <2> QED
    BY <1>1, <1>2, <1>3, <1>4, <1>5, <2>1, <2>2, <2>3 DEF ControlInv, CallInv, Actors
<1> QED
  BY <1>8, <1>9, <1>10, <1>11 DEF ControlInv

LEMMA EndStep ==
  ASSUME ControlInv, NEW p \in Procs, end_op(p)
  PROVE  /\ ControlInv'
         /\ Active' = Active \ {p} /\ p \in Active /\ Committers = {}
         /\ \/ outstanding = 1 /\ Active' = {} /\ Committers' = {p} /\ pc'[p] = CommitStarts
               /\ \A c \in Actors \ {p} : pc'[c] = pc[c]
            \/ outstanding # 1 /\ Committers' = {} /\ pc'[p] = "out"
               /\ \A c \in Actors \ {p} : pc'[c] = IF pc[c] = "asleep" THEN "retry" ELSE pc[c]
<1>1. p \in Active /\ p \in Actors /\ Boot \in Actors /\ p # Boot /\ pc[p] = "op"
  BY LogAssumption DEF end_op, Active, Actors
<1>2. outstanding \in Nat \ {0} /\ pc[Boot] = "off" /\ ~committing /\ Committers = {}
  BY <1>1, Calls_Counted DEF ControlInv
<1>3. /\ outstanding' = outstanding - 1 /\ wrote' = [wrote EXCEPT ![p] = {}]
      /\ committing' = (outstanding = 1) /\ tail' = [tail EXCEPT ![p] = 1]
      /\ pc' = IF outstanding = 1 THEN [pc EXCEPT ![p] = CommitStarts] ELSE [wakeup(pc) EXCEPT ![p] = "out"]
      /\ UNCHANGED <<durable, cache, dirty, lh, blk, crashes>>
  BY <1>2 DEF end_op
<1>4. CommitStarts \in {"copy", "done"} /\ (CommitStarts = "copy" => lh # <<>>)
  BY DEF CommitStarts
<1>5. outstanding = Cardinality(Active) /\ IsFiniteSet(Active) /\ Active \in SUBSET Procs
  BY ActiveFinite DEF ControlInv, CallInv, Active
<1>6. wrote' \in [Procs -> SUBSET Blocks] /\ wrote'[p] = {} /\ \A q \in Procs \ {p} : wrote'[q] = wrote[q]
  BY <1>3 DEF ControlInv, TypeOK
<1>7. ASSUME Active' = Active \ {p},
             \A q \in Procs : pc'[q] = "logging" => q # p /\ pc[q] = "logging"
      PROVE  /\ SpaceInv' /\ outstanding' = Cardinality(Active')
             /\ outstanding' \in 0 .. Cardinality(Procs)
  <2>1. Cardinality(Active') = Cardinality(Active) - 1
    BY <1>1, <1>5, <1>7, FS_RemoveElement
  <2>2. outstanding' = Cardinality(Active') /\ outstanding' \in 0 .. Cardinality(Procs)
    BY <1>2, <1>3, <1>5, <1>7, <2>1, ActiveFinite
  <2>3. Room \subseteq Active \X (1 .. OpBlocks) /\ Room' \subseteq Room
    BY <1>6, <1>7 DEF Room, Active
  <2>4. IsFiniteSet(Room) /\ Cardinality(Room) \in Nat
    BY <1>5, <2>3, RoomBound
  <2>5. Cardinality(Room') \in Nat /\ Cardinality(Room') <= Cardinality(Room)
    BY <2>3, <2>4, FS_Subset, FS_CardinalityType
  <2>6. Len(lh') + Cardinality(Room') + Spare <= LOGSIZE /\ Len(hd') + Spare <= LOGSIZE
    BY <1>3, <2>4, <2>5, Sizes DEF ControlInv, SpaceInv, TypeOK, durable
  <2>7. \A q \in Procs : wrote'[q] \subseteq InLog'
    <3>1. InLog' = InLog
      BY <1>3 DEF InLog
    <3> QED
      BY <1>6, <3>1 DEF ControlInv, SpaceInv
  <2>8. \A q \in Procs : q \notin Active' => wrote'[q] = {}
    BY <1>6, <1>7 DEF ControlInv, SpaceInv
  <2>9. \A q \in Procs : pc'[q] = "logging" => Cardinality(wrote'[q] \cup {blk'[q]}) <= OpBlocks
    BY <1>3, <1>6, <1>7 DEF ControlInv, SpaceInv
  <2> QED
    BY <2>2, <2>6, <2>7, <2>8, <2>9 DEF SpaceInv
<1>8. tail' \in [Actors -> 1 .. LOGSIZE] /\ tail'[p] = 1
  BY <1>1, <1>3, LogAssumption DEF ControlInv, TypeOK
<1>9. CASE outstanding = 1
  <2>1. CommitStarts \in PCs
    BY <1>4 DEF PCs
  <2>2. pc' \in [Actors -> PCs] /\ pc'[p] = CommitStarts /\ \A c \in Actors \ {p} : pc'[c] = pc[c]
    BY <1>1, <1>3, <1>9, <2>1, Moves DEF ControlInv
  <2>3. Active' = Active \ {p} /\ Committers' = {p}
    BY <1>1, <1>2, <1>4, <2>2 DEF Active, Committers, Actors
  <2>4. SpaceInv' /\ outstanding' = Cardinality(Active') /\ outstanding' \in 0 .. Cardinality(Procs)
    <3>1. \A q \in Procs : pc'[q] = "logging" => q # p /\ pc[q] = "logging"
      BY <1>4, <2>2 DEF Actors
    <3> QED
      BY <1>7, <2>3, <3>1
  <2>5. IsFiniteSet(Active') /\ Cardinality(Active') = 0
    <3>1. Cardinality(Active') = 0
      BY <1>3, <1>9, <2>4
    <3> QED
      BY <3>1, ActiveFinite DEF Active
  <2>6. Active' = {}
    BY <2>5, FS_EmptySet
  <2>7. TypeOK'
    BY <1>3, <1>6, <1>8, <2>4, <1>9, <2>2, <2>3 DEF ControlInv, TypeOK, durable
  <2>8. CallInv'
    <3>1. \A a \in Actors : pc'[a] \in {"copy", "head", "install"} => tail'[a] <= Len(lh')
      <4> SUFFICES ASSUME NEW a \in Actors, pc'[a] \in {"copy", "head", "install"}
                   PROVE  tail'[a] <= Len(lh')
        OBVIOUS
      <4>1. CASE a = p
        <5>1. lh # <<>> /\ lh \in Seq(Blocks) /\ lh' = lh
          BY <1>3, <1>4, <2>2, <4>1 DEF ControlInv, TypeOK
        <5> QED
          BY <1>8, <4>1, <5>1
      <4>2. CASE a # p
        BY <1>2, <2>2, <4>2 DEF Committers, Actors
      <4> QED
        BY <4>1, <4>2
    <3>2. \A q \in Procs : /\ pc'[q] \notin {"read", "off", "panic"}
                           /\ pc'[q] = "toobig" => ~Slack
      BY <1>4, <2>2 DEF ControlInv, CallInv, Actors
    <3>3. pc'[Boot] = "off"
      BY <1>1, <1>2, <2>2
    <3>4. \A a \in Actors : pc'[a] \in {"read", "clear", "done"} => Empty'
      <4> SUFFICES ASSUME NEW a \in Actors, pc'[a] \in {"read", "clear", "done"}
                   PROVE  Empty'
        OBVIOUS
      <4>1. a \in Procs /\ pc'[a] \in {"clear", "done"}
        BY <3>2, <3>3 DEF Actors
      <4>2. a # p => a \in Committers
        BY <2>2, <4>1 DEF Committers
      <4>3. CommitStarts = "done"
        BY <1>2, <1>4, <2>2, <4>1, <4>2
      <4> QED
        BY <1>3, <4>3 DEF CommitStarts, Empty
    <3> QED
      BY <1>3, <1>9, <2>4, <2>3, <2>6, <3>1, <3>2, <3>3, <3>4 DEF CallInv
  <2> QED
    BY <1>1, <1>2, <1>9, <2>4, <2>2, <2>3, <2>6, <2>7, <2>8 DEF ControlInv
<1>10. CASE outstanding # 1
  <2>1. "out" \in PCs
    BY DEF PCs
  <2>2. /\ pc' \in [Actors -> PCs] /\ pc'[p] = "out"
        /\ \A c \in Actors \ {p} : pc'[c] = IF pc[c] = "asleep" THEN "retry" ELSE pc[c]
    BY <1>1, <1>3, <1>10, <2>1, MovesAndWakes DEF ControlInv
  <2>3. Active' = Active \ {p} /\ Committers' = {}
    BY <1>1, <1>2, <2>2 DEF Active, Committers, Actors
  <2>4. SpaceInv' /\ outstanding' = Cardinality(Active') /\ outstanding' \in 0 .. Cardinality(Procs)
    <3>1. \A q \in Procs : pc'[q] = "logging" => q # p /\ pc[q] = "logging"
      BY <2>2 DEF Actors
    <3> QED
      BY <1>7, <2>3, <3>1
  <2>5. TypeOK'
    BY <1>3, <1>6, <1>8, <2>4, <1>10, <2>2, <2>3 DEF ControlInv, TypeOK, durable
  <2>6. CallInv'
    <3>1. \A a \in Actors : pc'[a] \notin {"copy", "head", "install"}
      BY <1>1, <1>2, <2>2 DEF Committers, Actors
    <3>2. \A q \in Procs : /\ pc'[q] \notin {"read", "off", "panic"}
                           /\ pc'[q] = "toobig" => ~Slack
      BY <2>2 DEF ControlInv, CallInv, Actors
    <3>3. pc'[Boot] = "off"
      BY <1>1, <1>2, <2>2
    <3>4. ASSUME NEW a \in Actors, pc'[a] \in {"read", "clear", "done"}
          PROVE  FALSE
      <4>1. a \in Procs /\ pc'[a] \in {"clear", "done"} /\ a # p
        BY <2>2, <3>2, <3>3, <3>4 DEF Actors
      <4>2. pc[a] \in {"clear", "done"}
        BY <2>2, <4>1 DEF Actors
      <4> QED
        BY <1>2, <4>1, <4>2 DEF Committers
    <3>5. Active' # {}
      BY <1>3, <1>2, <1>10, <2>4, FS_EmptySet
    <3> QED
      BY <1>3, <1>10, <2>4, <2>3, <3>1, <3>2, <3>3, <3>4, <3>5 DEF CallInv
  <2> QED
    BY <1>1, <1>2, <1>10, <2>4, <2>2, <2>3, <2>5, <2>6 DEF ControlInv
<1> QED
  BY <1>9, <1>10

\* One turn of a loop over the log.
LEMMA Turns ==
  ASSUME ControlInv, NEW a \in Actors, NEW at \in {"copy", "install"}, NEW next \in {"head", "clear"},
         Loops(a, at, next)
  PROVE  /\ tail[a] \in 1 .. Len(lh) /\ lh \in Seq(Blocks) /\ lh[tail[a]] \in Blocks
         /\ tail' \in [Actors -> 1 .. LOGSIZE] /\ pc' \in [Actors -> PCs]
         /\ \A c \in Actors \ {a} : pc'[c] = pc[c] /\ tail'[c] = tail[c]
         /\ \/ tail[a] < Len(lh) /\ tail'[a] = tail[a] + 1 /\ pc'[a] = at
            \/ tail[a] = Len(lh) /\ tail'[a] = 1 /\ pc'[a] = next
<1>1. lh \in Seq(Blocks) /\ Len(lh) \in Nat /\ Len(lh) <= LOGSIZE /\ tail \in [Actors -> 1 .. LOGSIZE]
      /\ pc \in [Actors -> PCs]
  BY DEF ControlInv, TypeOK
<1>2. pc[a] = at /\ tail[a] <= Len(lh)
  BY DEF Loops, ControlInv, CallInv
<1>3. tail[a] \in 1 .. Len(lh) /\ lh[tail[a]] \in Blocks
  BY <1>1, <1>2, LogAssumption
<1>4. CASE tail[a] < Len(lh)
  BY <1>1, <1>2, <1>3, <1>4, LogAssumption DEF Loops
<1>5. CASE ~(tail[a] < Len(lh))
  <2>1. next \in PCs
    BY DEF PCs
  <2> QED
    BY <1>1, <1>2, <1>3, <1>5, <2>1, LogAssumption DEF Loops
<1> QED
  BY <1>4, <1>5

\* A step of a commit that ends it no sooner than its last one.
LEMMA CommitFrame ==
  ASSUME ControlInv, NEW p \in Procs, p \in Committers,
         pc'[p] \in {"copy", "head", "install", "clear", "done"},
         \A c \in Actors \ {p} : pc'[c] = pc[c],
         UNCHANGED <<outstanding, committing, wrote>>,
         lh' \in Seq(Blocks), lh' \in {lh, <<>>}, hd' \in {hd, lh, <<>>},
         pc'[p] \in {"clear", "done"} => Empty',
         pc'[p] \in {"copy", "head", "install"} => tail'[p] <= Len(lh')
  PROVE  CallInv' /\ SpaceInv' /\ Active' = {} /\ Committers' = {p}
<1>1. Active = {} /\ committing /\ outstanding = 0 /\ pc[Boot] = "off" /\ \A q \in Procs \ {p} : q \notin Committers
  BY Commits_Alone DEF ControlInv
<1>2. p \in Actors /\ Boot \in Actors /\ p # Boot
  BY LogAssumption DEF Actors
<1>3. Active' = {} /\ Committers' = {p}
  BY <1>1, <1>2 DEF Active, Committers, Actors
<1>4. outstanding' = Cardinality(Active')
  BY <1>1, <1>3, FS_EmptySet
<1>5. /\ pc'[Boot] = "off"
      /\ \A q \in Procs : /\ pc'[q] \notin {"read", "off", "panic"}
                          /\ pc'[q] = "toobig" => ~Slack
  BY <1>1, <1>2 DEF ControlInv, CallInv, Actors
<1>6. \A a \in Actors : pc'[a] \in {"copy", "head", "install"} => tail'[a] <= Len(lh')
  BY <1>1, <1>2 DEF Committers, Actors
<1>7. ASSUME NEW a \in Actors, pc'[a] \in {"read", "clear", "done"}
      PROVE  Empty'
  <2>1. a # Boot
    BY <1>5, <1>7
  <2>2. a = p
    <3>1. a \in Procs /\ pc'[a] \in {"clear", "done"}
      BY <1>5, <1>7, <2>1 DEF Actors
    <3>2. a # p => a \in Committers
      BY <1>7, <3>1 DEF Committers
    <3> QED
      BY <1>1, <3>1, <3>2
  <2> QED
    BY <1>5, <1>7, <2>2
<1>8. CallInv'
  BY <1>1, <1>3, <1>4, <1>5, <1>6, <1>7 DEF CallInv
<1>9. SpaceInv'
  <2>1. Len(lh') + Spare <= LOGSIZE /\ Len(hd') + Spare <= LOGSIZE
    BY SpaceSizes DEF ControlInv
  <2> QED
    BY <1>1, <1>3, <2>1, SpaceEmpty DEF ControlInv, SpaceInv
<1> QED
  BY <1>3, <1>8, <1>9

LEMMA CopyStep ==
  ASSUME ControlInv, NEW p \in Procs, write_log(p)
  PROVE  ControlInv' /\ Active' = {} /\ Committers' = {p}
<1>1. p \in Committers /\ p \in Actors /\ pc[p] = "copy"
  BY DEF write_log, Loops, Committers, Actors
<1>2. /\ tail[p] \in 1 .. Len(lh) /\ lh \in Seq(Blocks) /\ lh[tail[p]] \in Blocks
      /\ tail' \in [Actors -> 1 .. LOGSIZE] /\ pc' \in [Actors -> PCs]
      /\ \A c \in Actors \ {p} : pc'[c] = pc[c] /\ tail'[c] = tail[c]
      /\ \/ tail[p] < Len(lh) /\ tail'[p] = tail[p] + 1 /\ pc'[p] = "copy"
         \/ tail[p] = Len(lh) /\ tail'[p] = 1 /\ pc'[p] = "head"
  <2>1. Loops(p, "copy", "head")
    BY DEF write_log
  <2> QED
    BY <1>1, <2>1, Turns
<1>3. Contents(lh[tail[p]]) \in Vals
  BY <1>1, <1>2, Uncached
<1>4. TypeOK'
  <2> DEFINE v == Contents(lh[tail[p]])
  <2>1. UNCHANGED <<hd, lh, outstanding, committing, blk, wrote, crashes>>
    BY DEF write_log
  <2>2. CASE tail[p] < NLOG
    <3>1. logd' = [logd EXCEPT ![tail[p]] = v] /\ UNCHANGED <<disk, cache, dirty>>
      BY <2>2 DEF write_log
    <3>2. logd' \in [1 .. LOGSIZE -> Vals]
      BY <1>3, <3>1 DEF ControlInv, TypeOK
    <3> QED
      BY <1>2, <2>1, <3>1, <3>2 DEF ControlInv, TypeOK
  <2>3. CASE ~(tail[p] < NLOG)
    <3>1. /\ disk' = [disk EXCEPT ![Behind] = v] /\ cache' = [cache EXCEPT ![Behind] = v]
          /\ dirty' = dirty \ {Behind} /\ UNCHANGED logd
      BY <2>3 DEF write_log
    <3>2. disk' \in [Blocks -> Vals] /\ cache' \in [Blocks -> Vals \cup {NotCached}] /\ dirty' \subseteq Blocks
      BY <1>3, <3>1, LogAssumption DEF ControlInv, TypeOK
    <3> QED
      BY <1>2, <2>1, <3>1, <3>2 DEF ControlInv, TypeOK
  <2> QED
    BY <2>2, <2>3
<1>5. CallInv' /\ SpaceInv' /\ Active' = {} /\ Committers' = {p}
  <2>1. UNCHANGED <<lh, outstanding, committing, wrote>> /\ Len(lh) <= LOGSIZE
    BY DEF write_log, ControlInv, TypeOK
  <2>2. pc'[p] \in {"copy", "head", "install"} => tail'[p] <= Len(lh')
    BY <1>2, <2>1
  <2>3. hd' = hd
    BY DEF write_log
  <2> QED
    BY <1>1, <1>2, <2>1, <2>2, <2>3, CommitFrame
<1> QED
  BY <1>4, <1>5 DEF ControlInv

LEMMA HeadStep ==
  ASSUME ControlInv, NEW p \in Procs, write_head(p)
  PROVE  ControlInv' /\ Active' = {} /\ Committers' = {p}
<1>1. /\ p \in Committers /\ p \in Actors /\ pc[p] = "head" /\ hd' = lh /\ pc' = [pc EXCEPT ![p] = "install"]
      /\ UNCHANGED <<disk, logd, memory, tail, blk, wrote, crashes>> /\ "install" \in PCs
  BY DEF write_head, Committers, Actors, PCs
<1>2. pc' \in [Actors -> PCs] /\ pc'[p] = "install" /\ \A c \in Actors \ {p} : pc'[c] = pc[c]
  BY <1>1, Moves DEF ControlInv
<1>3. TypeOK'
  BY <1>1, <1>2 DEF ControlInv, TypeOK, memory
<1>4. CallInv' /\ SpaceInv' /\ Active' = {} /\ Committers' = {p}
  <2>1. lh' \in Seq(Blocks) /\ lh' = lh /\ tail'[p] <= Len(lh')
    BY <1>1 DEF ControlInv, TypeOK, CallInv, memory
  <2> QED
    BY <1>1, <1>2, <2>1, CommitFrame DEF memory
<1> QED
  BY <1>3, <1>4 DEF ControlInv

\* The type of a step that installs a block.
LEMMA InstallType ==
  ASSUME ControlInv, NEW a \in Actors, install_trans(a)
  PROVE  /\ TypeOK' /\ pc[a] = "install"
         /\ tail[a] \in 1 .. Len(lh) /\ lh \in Seq(Blocks) /\ lh[tail[a]] \in Blocks
         /\ \A c \in Actors \ {a} : pc'[c] = pc[c] /\ tail'[c] = tail[c]
         /\ \/ tail[a] < Len(lh) /\ tail'[a] = tail[a] + 1 /\ pc'[a] = "install" /\ lh' = lh
            \/ tail[a] = Len(lh) /\ tail'[a] = 1 /\ pc'[a] = "clear" /\ lh' = <<>>
<1>1. Loops(a, "install", "clear") /\ pc[a] = "install"
  BY DEF install_trans, Loops
<1>2. /\ tail[a] \in 1 .. Len(lh) /\ lh \in Seq(Blocks) /\ lh[tail[a]] \in Blocks
      /\ tail' \in [Actors -> 1 .. LOGSIZE] /\ pc' \in [Actors -> PCs]
      /\ \A c \in Actors \ {a} : pc'[c] = pc[c] /\ tail'[c] = tail[c]
      /\ \/ tail[a] < Len(lh) /\ tail'[a] = tail[a] + 1 /\ pc'[a] = "install"
         \/ tail[a] = Len(lh) /\ tail'[a] = 1 /\ pc'[a] = "clear"
  BY <1>1, Turns
<1> DEFINE v == IF tail[a] < NLOG THEN logd[tail[a]] ELSE Contents(Behind)
<1>3. v \in Vals
  BY <1>2, Uncached, LogAssumption DEF ControlInv, TypeOK
<1>4. lh' \in Seq(Blocks) /\ Len(lh') <= LOGSIZE /\ lh' = IF tail[a] < Len(lh) THEN lh ELSE <<>>
  BY <1>2, LogAssumption DEF install_trans, ControlInv, TypeOK
<1>5. /\ disk' = [disk EXCEPT ![lh[tail[a]]] = v] /\ cache' = [cache EXCEPT ![lh[tail[a]]] = v]
      /\ dirty' = dirty \ {lh[tail[a]]}
      /\ UNCHANGED <<logd, hd, outstanding, committing, blk, wrote, crashes>>
  BY DEF install_trans
<1> HIDE DEF v
<1>6. TypeOK'
  BY <1>2, <1>3, <1>4, <1>5 DEF ControlInv, TypeOK
<1> QED
  BY <1>1, <1>2, <1>4, <1>6

LEMMA InstallStep ==
  ASSUME ControlInv, NEW p \in Procs, install_trans(p)
  PROVE  ControlInv' /\ Active' = {} /\ Committers' = {p}
<1>1. p \in Actors
  BY DEF Actors
<1>2. /\ TypeOK' /\ pc[p] = "install" /\ lh \in Seq(Blocks)
      /\ \A c \in Actors \ {p} : pc'[c] = pc[c]
      /\ \/ tail[p] < Len(lh) /\ tail'[p] = tail[p] + 1 /\ pc'[p] = "install" /\ lh' = lh
         \/ pc'[p] = "clear" /\ lh' = <<>>
      /\ tail[p] \in 1 .. Len(lh)
  BY <1>1, InstallType
<1>3. p \in Committers
  BY <1>2 DEF Committers
<1>4. lh' \in Seq(Blocks) /\ lh' \in {lh, <<>>} /\ UNCHANGED <<hd, outstanding, committing, wrote>>
  BY <1>2 DEF TypeOK, install_trans
<1>5. pc'[p] \in {"copy", "head", "install"} => tail'[p] <= Len(lh')
  BY <1>2
<1> QED
  BY <1>2, <1>3, <1>4, <1>5, CommitFrame DEF ControlInv, Empty, install_trans

LEMMA EraseStep ==
  ASSUME ControlInv, NEW p \in Procs, EraseHead(p)
  PROVE  ControlInv' /\ Active' = {} /\ Committers' = {p} /\ pc'[p] = "done"
<1>1. /\ p \in Committers /\ p \in Actors /\ pc[p] = "clear" /\ hd' = <<>> /\ pc' = [pc EXCEPT ![p] = "done"]
      /\ UNCHANGED <<disk, logd, memory, tail, blk, wrote, crashes>> /\ "done" \in PCs
  BY LogAssumption DEF EraseHead, Committers, Actors, PCs
<1>2. pc' \in [Actors -> PCs] /\ pc'[p] = "done" /\ \A c \in Actors \ {p} : pc'[c] = pc[c]
  BY <1>1, Moves DEF ControlInv
<1>3. TypeOK'
  BY <1>1, <1>2, LogAssumption DEF ControlInv, TypeOK, memory
<1>4. lh' \in Seq(Blocks) /\ lh' = lh /\ lh = <<>>
  BY <1>1, <1>3 DEF TypeOK, memory, ControlInv, CallInv, Empty
<1> QED
  BY <1>1, <1>2, <1>3, <1>4, CommitFrame DEF ControlInv, memory, Empty

LEMMA CommitEndStep ==
  ASSUME ControlInv, NEW p \in Procs, CommitEnds(p)
  PROVE  ControlInv' /\ Active' = {} /\ Committers' = {} /\ pc'[p] = "out"
         /\ \A c \in Actors \ {p} : pc'[c] = IF pc[c] = "asleep" THEN "retry" ELSE pc[c]
<1>1. /\ p \in Committers /\ p \in Actors /\ Boot \in Actors /\ p # Boot
      /\ pc[p] = "done" /\ committing' = FALSE /\ pc' = [wakeup(pc) EXCEPT ![p] = "out"]
      /\ UNCHANGED <<durable, cache, dirty, lh, outstanding, tail, blk, wrote, crashes>> /\ "out" \in PCs
  BY LogAssumption DEF CommitEnds, Committers, Actors, PCs
<1>2. Active = {} /\ outstanding = 0 /\ pc[Boot] = "off" /\ \A q \in Procs \ {p} : q \notin Committers
  BY <1>1, Commits_Alone DEF ControlInv
<1>3. /\ pc' \in [Actors -> PCs] /\ pc'[p] = "out"
      /\ \A c \in Actors \ {p} : pc'[c] = IF pc[c] = "asleep" THEN "retry" ELSE pc[c]
  BY <1>1, MovesAndWakes DEF ControlInv
<1>4. Active' = {} /\ Committers' = {}
  BY <1>1, <1>2, <1>3 DEF Active, Committers, Actors
<1>5. TypeOK'
  BY <1>1, <1>3 DEF ControlInv, TypeOK, durable
<1>6. CallInv'
  <2>1. \A a \in Actors : pc'[a] \notin {"copy", "head", "install"}
    BY <1>1, <1>2, <1>3 DEF Committers, Actors
  <2>2. \A q \in Procs : /\ pc'[q] \notin {"read", "off", "panic"}
                         /\ pc'[q] = "toobig" => ~Slack
    BY <1>3 DEF ControlInv, CallInv, Actors
  <2>3. pc'[Boot] = "off"
    BY <1>1, <1>2, <1>3
  <2>4. outstanding' = Cardinality(Active')
    BY <1>1, <1>2, <1>4, FS_EmptySet
  <2>5. Empty'
    BY <1>1 DEF ControlInv, CallInv, Actors, Empty
  <2> QED
    BY <1>1, <1>4, <2>1, <2>2, <2>3, <2>4, <2>5 DEF CallInv
<1>7. SpaceInv'
  <2>1. Len(lh') + Spare <= LOGSIZE /\ Len(hd') + Spare <= LOGSIZE
    BY <1>1, SpaceSizes DEF ControlInv, durable
  <2> QED
    BY <1>1, <1>2, <1>4, <1>5, <2>1, SpaceEmpty DEF ControlInv, SpaceInv, TypeOK
<1> QED
  BY <1>3, <1>4, <1>5, <1>6, <1>7 DEF ControlInv

\* A step of the recovery.
LEMMA BootFrame ==
  ASSUME ControlInv, pc[Boot] # "off", TypeOK',
         pc'[Boot] \in {"install", "clear", "off"},
         \A c \in Actors \ {Boot} : pc'[c] = pc[c],
         UNCHANGED <<outstanding, committing, wrote>>,
         lh' \in {lh, hd, <<>>}, hd' \in {hd, <<>>}, pc'[Boot] # "install" => Empty',
         pc'[Boot] = "install" => tail'[Boot] <= Len(lh')
  PROVE  ControlInv' /\ Active' = {} /\ Committers' = {} /\ \A p \in Procs : pc[p] = "out" /\ pc'[p] = "out"
<1>1. Active = {} /\ outstanding = 0 /\ ~committing /\ \A p \in Procs : pc[p] = "out"
  BY Recovering DEF ControlInv, CallInv
<1>2. \A p \in Procs : pc'[p] = "out"
  BY <1>1, LogAssumption DEF Actors
<1>3. Active' = {} /\ Committers' = {}
  BY <1>2 DEF Active, Committers
<1>4. outstanding' = Cardinality(Active')
  BY <1>1, <1>3, FS_EmptySet
<1>5. \A a \in Actors : pc'[a] \in {"copy", "head", "install"} => tail'[a] <= Len(lh')
  BY <1>2 DEF Actors
<1>6. \A a \in Actors : pc'[a] \in {"read", "clear", "done"} => Empty'
  BY <1>2 DEF Actors
<1>7. CallInv'
  BY <1>1, <1>2, <1>3, <1>4, <1>5, <1>6 DEF CallInv
<1>8. SpaceInv'
  <2>1. Len(lh') + Spare <= LOGSIZE /\ Len(hd') + Spare <= LOGSIZE
    BY SpaceSizes DEF ControlInv
  <2> QED
    BY <1>1, <1>3, <2>1, SpaceEmpty DEF ControlInv, SpaceInv, TypeOK
<1> QED
  BY <1>1, <1>2, <1>3, <1>7, <1>8 DEF ControlInv

LEMMA RecoverStep ==
  ASSUME ControlInv, Recovers
  PROVE  /\ ControlInv' /\ Active' = {} /\ Committers' = {} /\ pc[Boot] # "off"
         /\ \A p \in Procs : pc[p] = "out" /\ pc'[p] = "out"
<1>1. Boot \in Actors /\ {"install", "clear", "off"} \subseteq PCs
  BY DEF Actors, PCs
<1>2. CASE read_head
  <2> DEFINE s == IF hd = <<>> THEN "clear" ELSE "install"
  <2>1. /\ pc[Boot] = "read" /\ lh' = hd /\ pc' = [pc EXCEPT ![Boot] = s]
        /\ UNCHANGED <<durable, cache, dirty, outstanding, committing, tail, blk, wrote, crashes>>
        /\ s \in {"clear", "install"} /\ (s = "install" <=> hd # <<>>)
    BY <1>2 DEF read_head
  <2> HIDE DEF s
  <2>2. pc' \in [Actors -> PCs] /\ pc'[Boot] = s /\ \A c \in Actors \ {Boot} : pc'[c] = pc[c]
    BY <1>1, <2>1, Moves DEF ControlInv
  <2>3. TypeOK'
    BY <2>1, <2>2 DEF ControlInv, TypeOK, durable
  <2>4. pc'[Boot] = "install" => tail'[Boot] <= Len(lh')
    <3>1. tail[Boot] = 1
      BY <2>1 DEF ControlInv, CallInv
    <3>2. hd # <<>> => Len(hd) >= 1
      BY DEF ControlInv, TypeOK
    <3> QED
      BY <2>1, <2>2, <3>1, <3>2
  <2> QED
    BY <2>1, <2>2, <2>3, <2>4, BootFrame DEF durable, Empty
<1>3. CASE install_trans(Boot)
  <2>1. /\ TypeOK' /\ pc[Boot] = "install" /\ lh \in Seq(Blocks)
        /\ \A c \in Actors \ {Boot} : pc'[c] = pc[c]
        /\ \/ tail[Boot] < Len(lh) /\ tail'[Boot] = tail[Boot] + 1 /\ pc'[Boot] = "install" /\ lh' = lh
           \/ pc'[Boot] = "clear" /\ lh' = <<>>
        /\ tail[Boot] \in 1 .. Len(lh)
    BY <1>1, <1>3, InstallType
  <2>2. pc'[Boot] = "install" => tail'[Boot] <= Len(lh')
    BY <2>1
  <2>3. UNCHANGED <<hd, outstanding, committing, wrote>>
    BY <1>3 DEF install_trans
  <2> QED
    BY <2>1, <2>2, <2>3, BootFrame DEF Empty
<1>4. CASE EraseHead(Boot)
  <2>1. /\ pc[Boot] = "clear" /\ hd' = <<>> /\ pc' = [pc EXCEPT ![Boot] = "off"]
        /\ UNCHANGED <<disk, logd, memory, tail, blk, wrote, crashes>>
    BY <1>4 DEF EraseHead
  <2>2. pc' \in [Actors -> PCs] /\ pc'[Boot] = "off" /\ \A c \in Actors \ {Boot} : pc'[c] = pc[c]
    BY <1>1, <2>1, Moves DEF ControlInv
  <2>3. TypeOK'
    BY <2>1, <2>2, LogAssumption DEF ControlInv, TypeOK, memory
  <2>4. lh' = <<>> /\ lh = <<>>
    BY <1>1, <2>1 DEF memory, ControlInv, CallInv, Empty
  <2> QED
    BY <2>1, <2>2, <2>3, <2>4, BootFrame DEF memory, Empty
<1> QED
  BY <1>2, <1>3, <1>4 DEF Recovers

LEMMA RecycleStep ==
  ASSUME ControlInv, NEW b \in Blocks, Recycle(b)
  PROVE  ControlInv' /\ Active' = Active /\ Committers' = Committers
<1>1. /\ cache' = [cache EXCEPT ![b] = NotCached]
      /\ UNCHANGED <<durable, dirty, lh, outstanding, committing, local, crashes>>
  BY DEF Recycle
<1>2. Active' = Active /\ Committers' = Committers
  BY <1>1 DEF Active, Committers, local
<1>3. TypeOK'
  BY <1>1 DEF ControlInv, TypeOK, durable, local
<1>4. CallInv'
  BY <1>1, <1>2 DEF ControlInv, CallInv, local, Empty
<1>5. SpaceInv'
  BY <1>1, <1>2, SpaceFrame DEF local, durable
<1> QED
  BY <1>2, <1>3, <1>4, <1>5 DEF ControlInv

\* A machine that starts.
LEMMA RebootState ==
  ASSUME /\ pc' = [a \in Actors |-> IF a = Boot THEN "read" ELSE "out"]
         /\ outstanding' = 0 /\ committing' = FALSE /\ lh' = <<>> /\ wrote' = [p \in Procs |-> {}]
         /\ tail' = [a \in Actors |-> 1] /\ Len(hd') + Spare <= LOGSIZE
  PROVE  CallInv' /\ SpaceInv' /\ Active' = {} /\ Committers' = {}
<1>1. pc'[Boot] = "read" /\ tail'[Boot] = 1 /\ \A p \in Procs : pc'[p] = "out"
  BY LogAssumption DEF Actors
<1>2. Active' = {} /\ Committers' = {}
  BY <1>1 DEF Active, Committers
<1>3. CallInv'
  BY <1>1, <1>2, FS_EmptySet DEF CallInv, Actors, Empty
<1>4. SpaceInv'
  <2>1. lh' \in Seq(Blocks) /\ Len(lh') + Spare <= LOGSIZE
    BY Sizes
  <2> QED
    BY <1>2, <2>1, SpaceEmpty
<1> QED
  BY <1>2, <1>3, <1>4

LEMMA CrashStep ==
  ASSUME ControlInv, Crash
  PROVE  ControlInv' /\ Active' = {} /\ Committers' = {} /\ pc'[Boot] = "read" /\ \A p \in Procs : pc'[p] = "out"
<1>1. CallInv' /\ SpaceInv' /\ Active' = {} /\ Committers' = {}
  <2>1. Len(hd') + Spare <= LOGSIZE
    BY SpaceSizes DEF Crash, durable, ControlInv
  <2> QED
    BY <2>1, RebootState DEF Crash, Reboot
<1>2. TypeOK'
  <2>1. Behind \in Blocks /\ 1 \in 1 .. LOGSIZE /\ <<>> \in Seq(Blocks) /\ Len(<<>>) <= LOGSIZE
    BY LogAssumption
  <2>2. {"read", "out"} \subseteq PCs
    BY DEF PCs
  <2>3. 0 \in 0 .. Cardinality(Procs)
    BY ActiveFinite
  <2>4. crashes' \in 0 .. MaxCrashes
    BY LogAssumption DEF Crash, ControlInv, TypeOK
  <2> QED
    BY <2>1, <2>2, <2>3, <2>4 DEF Crash, Reboot, durable, ControlInv, TypeOK
<1>3. pc'[Boot] = "read" /\ \A p \in Procs : pc'[p] = "out"
  BY LogAssumption DEF Crash, Reboot, Actors
<1> QED
  BY <1>1, <1>2, <1>3 DEF ControlInv

LEMMA InitControl == Init => ControlInv
<1> SUFFICES ASSUME Init
             PROVE  ControlInv
  OBVIOUS
<1>1. pc[Boot] = "read" /\ tail[Boot] = 1 /\ \A p \in Procs : pc[p] = "out"
  BY LogAssumption DEF Init, Actors
<1>2. Active = {} /\ Committers = {} /\ Room = {}
  BY <1>1 DEF Active, Committers, Room
<1>3. CallInv
  BY <1>1, <1>2, FS_EmptySet DEF CallInv, Actors, Init, Empty
<1>4. SpaceInv
  BY <1>1, <1>2, FS_EmptySet, Sizes DEF SpaceInv, Init
<1>5. TypeOK
  <2>1. Behind \in Blocks /\ Blank \in Vals /\ 1 \in 1 .. LOGSIZE /\ <<>> \in Seq(Blocks) /\ Len(<<>>) <= LOGSIZE
    BY LogAssumption
  <2>2. {"read", "out"} \subseteq PCs
    BY DEF PCs
  <2>3. 0 \in 0 .. Cardinality(Procs) /\ 0 \in 0 .. MaxCrashes
    BY ActiveFinite, LogAssumption
  <2> QED
    BY <2>1, <2>2, <2>3 DEF Init, TypeOK
<1> QED
  BY <1>3, <1>4, <1>5 DEF ControlInv

LEMMA NextControl == ControlInv /\ [Next]_vars => ControlInv'
<1> SUFFICES ASSUME ControlInv, [Next]_vars
             PROVE  ControlInv'
  OBVIOUS
<1>1. ASSUME NEW p \in Procs, begin_op(p) \/ BeginSleeps(p) \/ log_write(p) \/ end_op(p) \/ Commits(p)
      PROVE  ControlInv'
  BY <1>1, BeginStep, SleepStep, WriteStep, EndStep, CopyStep, HeadStep, InstallStep, EraseStep, CommitEndStep
     DEF Commits
<1>2. ASSUME NEW p \in Procs, NEW b \in Blocks, NEW v \in Vals, LogWriteChecks(p, b, v)
      PROVE  ControlInv'
  BY <1>2, ChecksStep
<1>3. CASE Recovers
  BY <1>3, RecoverStep
<1>4. ASSUME NEW b \in Blocks, Recycle(b)
      PROVE  ControlInv'
  BY <1>4, RecycleStep
<1>5. CASE Crash
  BY <1>5, CrashStep
<1>6. CASE UNCHANGED vars
  <2>1. Active' = Active /\ Committers' = Committers
    BY <1>6 DEF Active, Committers, vars, local
  <2>2. SpaceInv'
    BY <1>6, <2>1, SpaceFrame DEF vars, durable, memory, local
  <2>3. CallInv'
    BY <1>6, <2>1 DEF vars, memory, local, ControlInv, CallInv, Empty
  <2>4. TypeOK'
    BY <1>6 DEF vars, durable, memory, local, ControlInv, TypeOK
  <2> QED
    BY <2>2, <2>3, <2>4 DEF ControlInv
<1> QED
  BY <1>1, <1>2, <1>3, <1>4, <1>5, <1>6 DEF Next

\* Calls, commits and recoveries exclude each other, and the log has room for what the calls in
\* progress may still write, whatever the size of the log on the disk (log.c, begin_op and end_op).
THEOREM LogControl == Spec => []ControlInv
BY InitControl, NextControl, PTL DEF Spec

\* The types of the variables; the log in memory never grows past LOGSIZE.
THEOREM LogTypeCorrect == Spec => []TypeOK
<1>1. ControlInv => TypeOK
  BY DEF ControlInv
<1> QED
  BY <1>1, LogControl, PTL

\* log_write is never outside of a transaction, end_op never finds a commit, and if every call leaves
\* a block of its reservation, no log_write is too big for the log (log.c:151, log.c:218-221).
THEOREM LogNoPanic == Slack => (Spec => []NoPanic)
<1> SUFFICES ASSUME Slack
             PROVE  Spec => []NoPanic
  OBVIOUS
<1>1. ControlInv => NoPanic
  BY Sizes DEF ControlInv, CallInv, NoPanic
<1> QED
  BY <1>1, LogControl, PTL

-----------------------------------------------------------------------------
(* What a commit and a recovery make of the disk *)

\* StageInv speaks of one actor: the process that commits, or Boot, or nobody.
LEMMA StageAlone ==
  ASSUME NEW p \in Procs, Committers' = {p}, pc'[Boot] = "off",
         pc'[p] \in {"copy", "head"} => Copying(p)',
         pc'[p] = "install" => Installing(p)',
         pc'[p] = "clear" => Clearing',
         pc'[p] = "done" => Quiet' /\ lh' = <<>>
  PROVE  StageInv'
BY DEF StageInv, Committers, Actors

LEMMA StageNone ==
  ASSUME Committers' = {}, pc'[Boot] = "off", Quiet', Active' = {} => lh' = <<>>
  PROVE  StageInv'
BY DEF StageInv, Committers, Actors

LEMMA StageBoot ==
  ASSUME Committers' = {}, pc'[Boot] # "off", dirty' = {},
         pc'[Boot] = "read" => lh' = <<>>,
         pc'[Boot] = "install" => Installing(Boot)',
         pc'[Boot] = "clear" => Clearing'
  PROVE  StageInv'
BY DEF StageInv, Committers, Actors

\* Buffers whose blocks nobody is writing.
LEMMA CleanFrame ==
  ASSUME CleanInv, UNCHANGED <<disk, cache, dirty>>,
         \A p \in Procs : pc[p] \in {"logging", "toobig"} => pc'[p] = pc[p] /\ blk'[p] = blk[p]
  PROVE  CleanInv'
BY DEF CleanInv

LEMMA CleanContents ==
  ASSUME CleanInv, Active = {}, NEW b \in Blocks \ dirty
  PROVE  Contents(b) = disk[b] /\ cache[b] \in {NotCached, disk[b]}
BY DEF CleanInv, Active, Contents

\* With nobody in a call, it is enough that clean buffers hold what is on the disk.
LEMMA CleanAlone ==
  ASSUME \A b \in Blocks \ dirty' : cache'[b] \in {NotCached, disk'[b]}
  PROVE  CleanInv'
BY DEF CleanInv

LEMMA BeginData ==
  ASSUME IndInv, NEW p \in Procs, begin_op(p) \/ BeginSleeps(p)
  PROVE  DistinctInv' /\ StageInv' /\ CleanInv'
<1>1. /\ pc[Boot] = "off" /\ pc[p] \in {"out", "retry"} /\ pc' = [pc EXCEPT ![p] = pc'[p]]
      /\ pc'[p] \in {"op", "asleep"}
      /\ UNCHANGED <<durable, cache, dirty, lh, committing, tail, blk, wrote, crashes>>
  <2>1. p \in Actors /\ pc \in [Actors -> PCs]
    BY DEF Actors, IndInv, ControlInv, TypeOK
  <2> QED
    BY <2>1 DEF begin_op, BeginSleeps, AtBegin, memory
<1>2. p \in Actors /\ Boot \in Actors /\ p # Boot /\ pc \in [Actors -> PCs]
  BY LogAssumption DEF Actors, IndInv, ControlInv, TypeOK
<1>3. \A c \in Actors \ {p} : pc'[c] = pc[c]
  BY <1>1, <1>2
<1>4. DistinctInv'
  BY <1>1 DEF IndInv, DistinctInv, durable
<1>5. CleanInv'
  BY <1>1, <1>3, CleanFrame DEF IndInv, durable, Actors
<1>6. StageInv'
  <2>1. Committers' = Committers
    BY <1>1, <1>3 DEF Committers, Actors
  <2>2. \A a \in Actors : pc'[a] \in {"read", "copy", "head", "install", "clear", "done"} => pc'[a] = pc[a]
    BY <1>1, <1>3
  <2>3. InLog' = InLog /\ \A i \in 1 .. Len(lh) : Contents(lh[i])' = Contents(lh[i])
    BY <1>1 DEF InLog, Contents, durable
  <2>4. \A a \in Actors : Copying(a)' <=> (Quiet /\ (pc'[a] = "head" => tail[a] = 1)
           /\ \A i \in 1 .. Len(lh) : pc'[a] = "head" \/ i < tail[a] => logd[i] = Contents(lh[i]))
    BY <1>1, <2>3 DEF Copying, Quiet, durable
  <2>5. \A a \in Actors : Installing(a)' <=> Installing(a)
    BY <1>1, <2>3 DEF Installing, durable
  <2>6. (Clearing' <=> Clearing) /\ (Quiet' <=> Quiet)
    BY <1>1, <2>3 DEF Clearing, Quiet, durable
  <2>7. \A q \in Procs : pc'[q] \in {"copy", "head"} => Copying(q)'
    BY <2>2, <2>4 DEF IndInv, StageInv, Copying, Actors
  <2>8. Active' = {} => Active = {}
    BY <1>1, <1>2, <1>3 DEF Active, Actors
  <2>9. pc'[Boot] = pc[Boot] /\ UNCHANGED <<hd, dirty, lh>>
    BY <1>1, <1>2, <1>3 DEF durable
  <2> QED
    BY <1>2, <2>1, <2>2, <2>5, <2>6, <2>7, <2>8, <2>9 DEF IndInv, StageInv, Actors
<1> QED
  BY <1>4, <1>5, <1>6

LEMMA ChecksData ==
  ASSUME IndInv, NEW p \in Procs, NEW b \in Blocks, NEW v \in Vals, LogWriteChecks(p, b, v)
  PROVE  DistinctInv' /\ StageInv' /\ CleanInv'
<1>1. pc'[p] \in {"toobig", "logging"} /\ p \in Active /\ ControlInv'
  BY ChecksStep DEF IndInv
<1>2. /\ pc[p] = "op" /\ cache' = [cache EXCEPT ![b] = v] /\ blk' = [blk EXCEPT ![p] = b]
      /\ UNCHANGED <<durable, dirty, lh>>
  BY DEF LogWriteChecks
<1>3. /\ \A c \in Actors \ {p} : pc'[c] = pc[c]
      /\ cache \in [Blocks -> Vals \cup {NotCached}] /\ blk \in [Procs -> Blocks]
  BY DEF LogWriteChecks, IndInv, ControlInv, TypeOK
<1>4. Committers = {} /\ pc[Boot] = "off" /\ Boot \in Actors /\ p # Boot
  BY <1>1, Calls_Counted, LogAssumption DEF IndInv, ControlInv, Actors
<1>5. DistinctInv'
  BY <1>2 DEF IndInv, DistinctInv, durable
<1>6. StageInv'
  <2>1. Committers' = {} /\ pc'[Boot] = "off"
    BY <1>1, <1>3, <1>4 DEF Committers, Actors
  <2>2. Quiet'
    BY <1>2, <1>4 DEF IndInv, StageInv, Quiet, InLog, durable
  <2>3. p \in Active'
    BY <1>1 DEF Active
  <2> QED
    BY <2>1, <2>2, <2>3, StageNone
<1>7. CleanInv'
  <2>1. \A c \in Blocks \ {b} : cache'[c] = cache[c]
    BY <1>2, <1>3
  <2>2. \A q \in Procs : pc[q] \in {"logging", "toobig"} => pc'[q] = pc[q] /\ blk'[q] = blk[q]
    BY <1>2, <1>3 DEF Actors
  <2>3. blk'[p] = b
    BY <1>2, <1>3
  <2> QED
    BY <1>1, <1>2, <2>1, <2>2, <2>3 DEF IndInv, CleanInv, durable
<1> QED
  BY <1>5, <1>6, <1>7

LEMMA WriteData ==
  ASSUME IndInv, NEW p \in Procs, log_write(p)
  PROVE  DistinctInv' /\ StageInv' /\ CleanInv'
<1> DEFINE b == blk[p]
<1>1. /\ pc[p] = "logging" /\ lh' = Absorb(b) /\ dirty' = dirty \cup {b}
      /\ pc' = [pc EXCEPT ![p] = "op"]
      /\ blk' = [blk EXCEPT ![p] = Behind]
      /\ UNCHANGED <<durable, cache>>
  BY DEF log_write, Pinned
<1>2. p \in Active /\ p \in Actors /\ Boot \in Actors /\ p # Boot /\ b \in Blocks /\ pc \in [Actors -> PCs]
  BY <1>1, LogAssumption DEF Active, Actors, IndInv, ControlInv, TypeOK
<1>3. Committers = {} /\ pc[Boot] = "off"
  BY <1>2, Calls_Counted DEF IndInv, ControlInv
<1>4. pc'[p] = "op" /\ \A c \in Actors \ {p} : pc'[c] = pc[c]
  BY <1>1, <1>2
<1>5. Quiet
  BY <1>3 DEF IndInv, StageInv
<1>6. /\ b \in InLog => lh' = lh
      /\ b \notin InLog => /\ Len(lh') = Len(lh) + 1 /\ lh'[Len(lh) + 1] = b
                          /\ \A i \in 1 .. Len(lh) : lh'[i] = lh[i]
      /\ InLog' = InLog \cup {b}
  <2>1. InLog' = {lh'[i] : i \in 1 .. Len(lh')}
    BY DEF InLog
  <2>2. /\ b \in InLog => Absorb(b) = lh
        /\ b \notin InLog => /\ Len(Absorb(b)) = Len(lh) + 1 /\ Absorb(b)[Len(lh) + 1] = b
                            /\ \A i \in 1 .. Len(lh) : Absorb(b)[i] = lh[i]
        /\ {Absorb(b)[i] : i \in 1 .. Len(Absorb(b))} = InLog \cup {b}
    BY <1>2, Absorbs DEF IndInv, ControlInv
  <2>3. lh' = Absorb(b)
    BY <1>1
  <2> HIDE DEF b
  <2> QED
    BY <2>1, <2>2, <2>3
<1>7. DistinctInv'
  <2>1. CASE b \in InLog
    BY <1>1, <1>6, <2>1 DEF IndInv, DistinctInv, durable
  <2>2. CASE b \notin InLog
    <3>1. Len(lh) \in Nat /\ \A i \in 1 .. Len(lh) : lh'[i] = lh[i] /\ lh[i] # b
      BY <1>6, <2>2 DEF IndInv, ControlInv, TypeOK, InLog
    <3>2. \A i \in 1 .. Len(lh') : i \in 1 .. Len(lh) \/ i = Len(lh) + 1
      BY <1>6, <2>2, <3>1
    <3>3. \A i, j \in 1 .. Len(lh') : lh'[i] = lh'[j] => i = j
      BY <1>6, <2>2, <3>1, <3>2 DEF IndInv, DistinctInv
    <3> QED
      BY <1>1, <3>3 DEF IndInv, DistinctInv, durable
  <2> QED
    BY <2>1, <2>2
<1>8. StageInv'
  <2>1. Committers' = {} /\ pc'[Boot] = "off"
    BY <1>2, <1>3, <1>4 DEF Committers, Actors
  <2>2. Quiet'
    BY <1>1, <1>5, <1>6 DEF Quiet, durable
  <2>3. p \in Active'
    BY <1>4 DEF Active
  <2> QED
    BY <2>1, <2>2, <2>3, StageNone
<1>9. CleanInv'
  <2>1. \A q \in Procs \ {p} : pc'[q] = pc[q] /\ blk'[q] = blk[q]
    BY <1>1, <1>4 DEF Actors, IndInv, ControlInv, TypeOK
  <2> QED
    BY <1>1, <1>2, <2>1 DEF IndInv, CleanInv, durable
<1> QED
  BY <1>7, <1>8, <1>9

LEMMA EndData ==
  ASSUME IndInv, NEW p \in Procs, end_op(p)
  PROVE  DistinctInv' /\ StageInv' /\ CleanInv'
<1>1. /\ ControlInv' /\ p \in Active /\ Committers = {}
      /\ \/ outstanding = 1 /\ Active' = {} /\ Committers' = {p} /\ pc'[p] = CommitStarts
            /\ \A c \in Actors \ {p} : pc'[c] = pc[c]
         \/ outstanding # 1 /\ Committers' = {} /\ pc'[p] = "out"
            /\ \A c \in Actors \ {p} : pc'[c] = IF pc[c] = "asleep" THEN "retry" ELSE pc[c]
  BY EndStep DEF IndInv
<1>2. pc[p] = "op" /\ UNCHANGED <<durable, cache, dirty, lh, blk>> /\ tail' = [tail EXCEPT ![p] = 1]
  BY DEF end_op
<1>3. pc[Boot] = "off" /\ pc'[Boot] = "off" /\ Boot \in Actors
  <2>1. pc[Boot] = "off" /\ Boot \in Actors /\ p # Boot
    BY <1>1, Calls_Counted, LogAssumption DEF IndInv, ControlInv, Actors
  <2> QED
    BY <1>1, <2>1
<1>4. Quiet'
  BY <1>1, <1>2, <1>3 DEF IndInv, StageInv, Quiet, InLog, durable
<1>5. DistinctInv'
  BY <1>2 DEF IndInv, DistinctInv, durable
<1>6. CleanInv'
  BY <1>1, <1>2, CleanFrame DEF IndInv, durable, Actors
<1>7. StageInv'
  <2>1. CASE outstanding = 1
    <3>1. tail'[p] = 1
      BY <1>2 DEF IndInv, ControlInv, TypeOK, Actors
    <3>2. pc'[p] \in {"copy", "done"} /\ (pc'[p] = "done" => lh' = <<>>)
      <4>1. pc'[p] = CommitStarts
        BY <1>1, <2>1
      <4>2. lh' = lh
        BY <1>2
      <4> QED
        BY <4>1, <4>2 DEF CommitStarts
    <3>3. pc'[p] = "copy" => Copying(p)'
      BY <1>4, <3>1 DEF Copying
    <3> QED
      BY <1>1, <1>3, <1>4, <2>1, <3>2, <3>3, StageAlone
  <2>2. CASE outstanding # 1
    <3>1. outstanding' = outstanding - 1 /\ outstanding \in Nat
      BY ActiveFinite DEF end_op, IndInv, ControlInv, CallInv, Active
    <3>2. Cardinality(Active') # 0
      BY <1>1, <2>2, <3>1 DEF ControlInv, CallInv
    <3>3. Active' # {}
      BY <3>2, FS_EmptySet
    <3> QED
      BY <1>1, <1>3, <1>4, <2>2, <3>3, StageNone
  <2> QED
    BY <2>1, <2>2
<1> QED
  BY <1>5, <1>6, <1>7

LEMMA CopyData ==
  ASSUME IndInv, Fits, NEW p \in Procs, write_log(p)
  PROVE  /\ DistinctInv' /\ StageInv' /\ CleanInv'
         /\ UNCHANGED <<disk, hd, cache>> /\ hd = <<>>
<1>1. /\ ControlInv' /\ Active' = {} /\ Committers' = {p}
  BY CopyStep DEF IndInv
<1>2. /\ tail[p] \in 1 .. Len(lh) /\ lh \in Seq(Blocks)
      /\ \A c \in Actors \ {p} : pc'[c] = pc[c] /\ tail'[c] = tail[c]
      /\ \/ tail[p] < Len(lh) /\ tail'[p] = tail[p] + 1 /\ pc'[p] = "copy"
         \/ tail[p] = Len(lh) /\ tail'[p] = 1 /\ pc'[p] = "head"
  <2>1. Loops(p, "copy", "head") /\ p \in Actors
    BY DEF write_log, Actors
  <2> QED
    BY <2>1, Turns DEF IndInv
<1>3. p \in Committers /\ pc[p] = "copy"
  BY DEF write_log, Loops, Committers
<1>4. Active = {} /\ pc[Boot] = "off" /\ pc'[Boot] = "off" /\ Boot \in Actors /\ p # Boot
  BY <1>2, <1>3, Commits_Alone, LogAssumption DEF IndInv, ControlInv, Actors
<1>5. Copying(p)
  BY <1>3 DEF IndInv, StageInv
<1>6. /\ logd' = [logd EXCEPT ![tail[p]] = Contents(lh[tail[p]])]
      /\ UNCHANGED <<disk, hd, cache, dirty, lh, blk>>
  <2>1. tail[p] < NLOG
    BY <1>2, LogAssumption DEF Fits, NLOG
  <2> QED
    BY <2>1 DEF write_log
<1>7. /\ logd'[tail[p]] = Contents(lh[tail[p]])
      /\ \A i \in 1 .. Len(lh) : i # tail[p] => logd'[i] = logd[i]
  BY <1>2, <1>6, LogAssumption DEF IndInv, ControlInv, TypeOK
<1>8. Quiet'
  BY <1>5, <1>6 DEF Copying, Quiet, InLog
<1>9. Copying(p)'
  <2>1. \A i \in 1 .. Len(lh) : Contents(lh[i])' = Contents(lh[i])
    BY <1>6 DEF Contents
  <2>2. pc'[p] = "head" => tail'[p] = 1
    BY <1>2
  <2>3. ASSUME NEW i \in 1 .. Len(lh), pc'[p] = "head" \/ i < tail'[p]
        PROVE  logd'[i] = Contents(lh[i])
    <3>1. CASE i = tail[p]
      BY <1>7, <3>1
    <3>2. CASE i # tail[p]
      <4>1. i < tail[p]
        BY <1>2, <2>3, <3>2
      <4> QED
        BY <1>5, <1>7, <3>2, <4>1 DEF Copying
    <3> QED
      BY <3>1, <3>2
  <2> QED
    BY <1>6, <1>8, <2>1, <2>2, <2>3 DEF Copying
<1>10. StageInv'
  BY <1>1, <1>2, <1>4, <1>9, StageAlone
<1>11. CleanInv'
  BY <1>3, <1>4, <1>6, CleanFrame DEF IndInv, Active
<1>12. DistinctInv'
  BY <1>6 DEF IndInv, DistinctInv
<1> QED
  BY <1>5, <1>6, <1>10, <1>11, <1>12 DEF Copying, Quiet

LEMMA HeadData ==
  ASSUME IndInv, NEW p \in Procs, write_head(p)
  PROVE  /\ DistinctInv' /\ StageInv' /\ CleanInv'
         /\ UNCHANGED <<disk, logd, cache>> /\ hd = <<>> /\ hd' = lh /\ dirty = InLog
         /\ \A i \in 1 .. Len(lh) : logd[i] = Contents(lh[i])
<1>1. /\ ControlInv' /\ Active' = {} /\ Committers' = {p}
  BY HeadStep DEF IndInv
<1>2. /\ pc[p] = "head" /\ hd' = lh /\ pc' = [pc EXCEPT ![p] = "install"]
      /\ UNCHANGED <<disk, logd, cache, dirty, lh, tail, blk>> /\ p \in Committers
  BY DEF write_head, memory, Committers
<1>3. Active = {} /\ pc[Boot] = "off" /\ Boot \in Actors /\ p # Boot /\ p \in Actors
  BY <1>2, Commits_Alone, LogAssumption DEF IndInv, ControlInv, Actors
<1>4. pc'[p] = "install" /\ pc'[Boot] = "off" /\ tail \in [Actors -> 1 .. LOGSIZE]
  BY <1>2, <1>3 DEF IndInv, ControlInv, TypeOK
<1>5. Copying(p)
  BY <1>2 DEF IndInv, StageInv
<1>6. Installing(p)'
  <2>1. \A i \in 1 .. Len(lh) : Contents(lh[i])' = Contents(lh[i])
    BY <1>2 DEF Contents
  <2>2. \A i \in 1 .. Len(lh) : ~(i < tail[p])
    BY <1>2, <1>5 DEF Copying
  <2>3. dirty' \subseteq InLog'
    BY <1>2, <1>5 DEF Copying, Quiet, InLog
  <2>4. \A i \in 1 .. Len(lh) : logd[i] = Contents(lh[i])
    BY <1>2, <1>5 DEF Copying
  <2> QED
    BY <1>2, <2>1, <2>2, <2>3, <2>4 DEF Installing
<1>7. StageInv'
  BY <1>1, <1>4, <1>6, StageAlone
<1>8. CleanInv'
  BY <1>2, <1>3, CleanFrame DEF IndInv, Active
<1>9. DistinctInv'
  BY <1>2 DEF IndInv, DistinctInv
<1> QED
  BY <1>2, <1>5, <1>7, <1>8, <1>9 DEF Copying, Quiet

\* What one turn of install_trans does while the log fits.
LEMMA Installs ==
  ASSUME IndInv, Fits, NEW a \in Actors, install_trans(a)
  PROVE  /\ tail[a] \in 1 .. Len(lh) /\ lh[tail[a]] \in Blocks /\ hd = lh /\ pc[a] = "install"
         /\ disk' = [disk EXCEPT ![lh[tail[a]]] = logd[tail[a]]]
         /\ cache' = [cache EXCEPT ![lh[tail[a]]] = logd[tail[a]]]
         /\ disk'[lh[tail[a]]] = logd[tail[a]] /\ cache'[lh[tail[a]]] = logd[tail[a]]
         /\ \A b \in Blocks \ {lh[tail[a]]} : disk'[b] = disk[b] /\ cache'[b] = cache[b]
         /\ dirty' = dirty \ {lh[tail[a]]}
         /\ UNCHANGED <<logd, hd, blk>>
         /\ \A i \in 1 .. Len(lh) : i # tail[a] => lh[i] # lh[tail[a]]
         /\ \A c \in Actors \ {a} : pc'[c] = pc[c]
         /\ \/ tail[a] < Len(lh) /\ tail'[a] = tail[a] + 1 /\ pc'[a] = "install" /\ lh' = lh
            \/ tail[a] = Len(lh) /\ pc'[a] = "clear" /\ lh' = <<>>
<1>1. /\ pc[a] = "install" /\ tail[a] \in 1 .. Len(lh) /\ lh \in Seq(Blocks) /\ lh[tail[a]] \in Blocks
      /\ \A c \in Actors \ {a} : pc'[c] = pc[c]
      /\ \/ tail[a] < Len(lh) /\ tail'[a] = tail[a] + 1 /\ pc'[a] = "install" /\ lh' = lh
         \/ tail[a] = Len(lh) /\ pc'[a] = "clear" /\ lh' = <<>>
  BY InstallType DEF IndInv
<1>2. /\ disk' = [disk EXCEPT ![lh[tail[a]]] = logd[tail[a]]]
      /\ cache' = [cache EXCEPT ![lh[tail[a]]] = logd[tail[a]]]
      /\ dirty' = dirty \ {lh[tail[a]]} /\ UNCHANGED <<logd, hd, blk>>
  <2>1. tail[a] < NLOG
    BY <1>1, LogAssumption DEF Fits, NLOG
  <2> QED
    BY <2>1 DEF install_trans
<1>3. /\ disk'[lh[tail[a]]] = logd[tail[a]] /\ cache'[lh[tail[a]]] = logd[tail[a]]
      /\ \A b \in Blocks \ {lh[tail[a]]} : disk'[b] = disk[b] /\ cache'[b] = cache[b]
  BY <1>1, <1>2 DEF IndInv, ControlInv, TypeOK
<1>4. \A i \in 1 .. Len(lh) : i # tail[a] => lh[i] # lh[tail[a]]
  BY <1>1 DEF IndInv, DistinctInv
<1>5. hd = lh
  BY <1>1 DEF IndInv, StageInv, Installing
<1> QED
  BY <1>1, <1>2, <1>3, <1>4, <1>5

\* The clause of Installing for a turn that is not the last, and the one of Clearing after it.
LEMMA InstallsOn ==
  ASSUME IndInv, Fits, NEW a \in Actors, install_trans(a), dirty \subseteq InLog
  PROVE  /\ DistinctInv'
         /\ pc'[a] = "install" =>
              /\ hd' = lh' /\ dirty' \subseteq InLog'
              /\ \A i \in 1 .. Len(lh') : i < tail'[a] => disk'[lh'[i]] = logd'[i] /\ lh'[i] \notin dirty'
         /\ pc'[a] = "clear" => Clearing'
<1>1. Installing(a)
  BY Installs DEF IndInv, StageInv
<1>2. Len(lh) \in Nat /\ \A i \in 1 .. Len(lh) : lh[i] \in Blocks
  BY DEF IndInv, ControlInv, TypeOK
<1>3. \A i \in 1 .. Len(lh) : i <= tail[a] => disk'[lh[i]] = logd[i] /\ lh[i] \notin dirty'
  <2> SUFFICES ASSUME NEW i \in 1 .. Len(lh), i <= tail[a]
               PROVE  disk'[lh[i]] = logd[i] /\ lh[i] \notin dirty'
    OBVIOUS
  <2>1. CASE i = tail[a]
    BY <2>1, Installs
  <2>2. CASE i # tail[a]
    <3>1. i < tail[a] /\ lh[i] # lh[tail[a]]
      BY <1>2, <2>2, Installs
    <3>2. disk[lh[i]] = logd[i] /\ lh[i] \notin dirty
      BY <1>1, <3>1 DEF Installing
    <3> QED
      BY <1>2, <3>1, <3>2, Installs
  <2> QED
    BY <2>1, <2>2
<1>4. CASE pc'[a] = "install"
  <2>1. lh' = lh /\ tail'[a] = tail[a] + 1 /\ hd' = hd /\ hd = lh /\ logd' = logd /\ dirty' \subseteq dirty
        /\ tail[a] \in 1 .. Len(lh)
    BY <1>4, Installs
  <2>2. dirty' \subseteq InLog'
    BY <2>1 DEF InLog
  <2>3. \A i \in 1 .. Len(lh) : i < tail'[a] => i <= tail[a]
    BY <1>2, <2>1
  <2>4. DistinctInv'
    BY <2>1 DEF IndInv, DistinctInv
  <2> QED
    BY <1>3, <1>4, <2>1, <2>2, <2>3, <2>4
<1>5. CASE pc'[a] = "clear"
  <2>1. lh' = <<>> /\ tail[a] = Len(lh) /\ hd' = hd /\ hd = lh /\ logd' = logd /\ dirty' \subseteq dirty
    BY <1>5, Installs
  <2>2. \A i \in 1 .. Len(lh) : disk'[lh[i]] = logd[i] /\ lh[i] \notin dirty'
    BY <1>2, <1>3, <2>1
  <2>3. dirty' = {}
    BY <2>1, <2>2 DEF InLog
  <2>4. DistinctInv'
    BY <2>1 DEF IndInv, DistinctInv
  <2> QED
    BY <1>5, <2>1, <2>2, <2>3, <2>4 DEF Clearing
<1>6. pc'[a] \in {"install", "clear"}
  BY Installs
<1> QED
  BY <1>4, <1>5, <1>6

LEMMA InstallClean ==
  ASSUME IndInv, Fits, NEW a \in Actors, install_trans(a), Active = {}
  PROVE  CleanInv'
<1> DEFINE b == lh[tail[a]]
<1>1. /\ disk'[b] = cache'[b] /\ dirty' = dirty \ {b}
      /\ \A c \in Blocks \ {b} : disk'[c] = disk[c] /\ cache'[c] = cache[c]
  BY Installs
<1> HIDE DEF b
<1>2. \A c \in Blocks \ dirty : cache[c] \in {NotCached, disk[c]}
  BY CleanContents DEF IndInv
<1> QED
  BY <1>1, <1>2, CleanAlone

LEMMA InstallData ==
  ASSUME IndInv, Fits, NEW p \in Procs, install_trans(p)
  PROVE  /\ DistinctInv' /\ StageInv' /\ CleanInv'
         /\ \A b \in Blocks : Contents(b)' = Contents(b)
         /\ disk'[lh[tail[p]]] = logd[tail[p]]
<1>1. p \in Actors /\ Active' = {} /\ Committers' = {p} /\ pc[p] = "install" /\ p \in Committers
  BY InstallStep, InstallType DEF IndInv, Actors, Committers
<1>2. Active = {} /\ pc[Boot] = "off" /\ Boot \in Actors /\ p # Boot
  BY <1>1, Commits_Alone, LogAssumption DEF IndInv, ControlInv, Actors
<1>3. pc'[Boot] = "off" /\ pc'[p] \in {"install", "clear"}
  BY <1>1, <1>2, Installs
<1>4. Installing(p)
  BY <1>1 DEF IndInv, StageInv
<1>5. dirty \subseteq InLog /\ \A i \in 1 .. Len(lh) : logd[i] = Contents(lh[i])
  BY <1>2, <1>4 DEF Installing
<1>6. \A b \in Blocks : Contents(b)' = Contents(b)
  <2> SUFFICES ASSUME NEW b \in Blocks
               PROVE  Contents(b)' = Contents(b)
    OBVIOUS
  <2>1. CASE b = lh[tail[p]]
    <3>1. Contents(b)' = logd[tail[p]]
      BY <1>1, <2>1, Installs DEF Contents
    <3> QED
      BY <1>1, <1>5, <2>1, <3>1, Installs
  <2>2. CASE b # lh[tail[p]]
    BY <1>1, <2>2, Installs DEF Contents
  <2> QED
    BY <2>1, <2>2
<1>7. CleanInv'
  BY <1>1, <1>2, InstallClean
<1>8. DistinctInv' /\ StageInv'
  <2>1. pc'[p] = "install" => Installing(p)'
    <3> SUFFICES ASSUME pc'[p] = "install"
                 PROVE  Installing(p)'
      OBVIOUS
    <3>1. lh' = lh /\ logd' = logd
      BY <1>1, Installs
    <3>2. \A i \in 1 .. Len(lh) : lh[i] \in Blocks
      BY DEF IndInv, ControlInv, TypeOK
    <3>3. \A i \in 1 .. Len(lh') : logd'[i] = Contents(lh[i])'
      <4>1. \A i \in 1 .. Len(lh) : Contents(lh[i])' = Contents(lh[i])
        BY <1>6, <3>1, <3>2 DEF Contents
      <4> QED
        BY <1>5, <3>1, <4>1
    <3> QED
      BY <1>1, <1>5, <3>3, InstallsOn DEF Installing
  <2>2. (pc'[p] = "clear" => Clearing') /\ DistinctInv'
    BY <1>1, <1>5, InstallsOn
  <2> QED
    BY <1>1, <1>3, <2>1, <2>2, StageAlone
<1> QED
  BY <1>1, <1>6, <1>7, <1>8, Installs

LEMMA EraseData ==
  ASSUME IndInv, NEW p \in Procs, EraseHead(p)
  PROVE  /\ DistinctInv' /\ StageInv' /\ CleanInv' /\ hd' = <<>> /\ Clearing
         /\ UNCHANGED <<disk, logd, cache>>
<1>1. Active' = {} /\ Committers' = {p} /\ pc'[p] = "done"
  BY EraseStep DEF IndInv
<1>2. /\ pc[p] = "clear" /\ p \in Committers /\ hd' = <<>> /\ pc' = [pc EXCEPT ![p] = "done"]
      /\ UNCHANGED <<disk, logd, cache, dirty, lh, blk>> /\ p \in Actors
  BY LogAssumption DEF EraseHead, Committers, memory, Actors
<1>3. Active = {} /\ pc[Boot] = "off" /\ Boot \in Actors /\ p # Boot
  BY <1>2, Commits_Alone, LogAssumption DEF IndInv, ControlInv, Actors
<1>4. Clearing
  BY <1>2 DEF IndInv, StageInv
<1>5. Quiet' /\ lh' = <<>>
  BY <1>2, <1>4 DEF Quiet, InLog, Clearing
<1>6. pc'[Boot] = "off"
  BY <1>2, <1>3 DEF IndInv, ControlInv, TypeOK
<1>7. StageInv'
  BY <1>1, <1>5, <1>6, StageAlone
<1>8. CleanInv'
  BY <1>2, <1>3, CleanFrame DEF IndInv, Active
<1>9. DistinctInv'
  BY <1>2 DEF IndInv, DistinctInv
<1> QED
  BY <1>2, <1>4, <1>7, <1>8, <1>9

LEMMA CommitEndData ==
  ASSUME IndInv, NEW p \in Procs, CommitEnds(p)
  PROVE  DistinctInv' /\ StageInv' /\ CleanInv'
<1>1. /\ Active' = {} /\ Committers' = {} /\ pc'[p] = "out"
      /\ \A c \in Actors \ {p} : pc'[c] = IF pc[c] = "asleep" THEN "retry" ELSE pc[c]
  BY CommitEndStep DEF IndInv
<1>2. pc[p] = "done" /\ p \in Committers /\ UNCHANGED <<durable, cache, dirty, lh, blk>>
  BY DEF CommitEnds, Committers
<1>3. Active = {} /\ pc[Boot] = "off" /\ Boot \in Actors /\ p # Boot
  BY <1>2, Commits_Alone, LogAssumption DEF IndInv, ControlInv, Actors
<1>4. Quiet' /\ lh' = <<>>
  BY <1>2 DEF IndInv, StageInv, Quiet, InLog, durable
<1>5. StageInv'
  BY <1>1, <1>3, <1>4, StageNone
<1>6. CleanInv'
  BY <1>2, <1>3, CleanFrame DEF IndInv, Active, durable
<1>7. DistinctInv'
  BY <1>2 DEF IndInv, DistinctInv, durable
<1> QED
  BY <1>5, <1>6, <1>7

LEMMA RecoverData ==
  ASSUME IndInv, Fits, Recovers
  PROVE  DistinctInv' /\ StageInv' /\ CleanInv'
<1>1. /\ ControlInv' /\ Active' = {} /\ Committers' = {} /\ pc[Boot] # "off" /\ Active = {}
      /\ Boot \in Actors /\ dirty = {}
  BY RecoverStep, Recovering DEF IndInv, ControlInv, Actors, StageInv
<1>2. CASE read_head
  <2>1. /\ pc[Boot] = "read" /\ lh' = hd /\ UNCHANGED <<disk, logd, hd, cache, dirty, tail>>
        /\ pc'[Boot] = IF hd = <<>> THEN "clear" ELSE "install"
    BY <1>1, <1>2 DEF read_head, durable, IndInv, ControlInv, TypeOK
  <2>2. tail[Boot] = 1
    BY <2>1 DEF IndInv, ControlInv, CallInv
  <2>3. pc'[Boot] = "install" => Installing(Boot)'
    <3>1. \A i \in 1 .. Len(lh') : ~(i < tail'[Boot])
      BY <2>1, <2>2
    <3> QED
      BY <2>1, <3>1 DEF Installing
  <2>4. pc'[Boot] = "clear" => Clearing'
    BY <1>1, <2>1 DEF Clearing
  <2>5. StageInv'
    BY <1>1, <2>1, <2>3, <2>4, StageBoot
  <2>6. CleanInv'
    BY <1>1, <2>1, CleanContents, CleanAlone DEF IndInv
  <2>7. DistinctInv'
    BY <2>1 DEF IndInv, DistinctInv
  <2> QED
    BY <2>5, <2>6, <2>7
<1>3. CASE install_trans(Boot)
  <2>1. pc'[Boot] \in {"install", "clear"} /\ dirty' = {}
    BY <1>1, <1>3, Installs
  <2>2. pc'[Boot] = "install" => Installing(Boot)'
    BY <1>1, <1>3, InstallsOn DEF Installing
  <2>3. (pc'[Boot] = "clear" => Clearing') /\ DistinctInv'
    BY <1>1, <1>3, InstallsOn
  <2>4. StageInv'
    BY <1>1, <2>1, <2>2, <2>3, StageBoot
  <2> QED
    BY <1>1, <1>3, <2>3, <2>4, InstallClean
<1>4. CASE EraseHead(Boot)
  <2>1. /\ pc[Boot] = "clear" /\ hd' = <<>> /\ UNCHANGED <<disk, logd, cache, dirty, lh>> /\ pc'[Boot] = "off"
    BY <1>1, <1>4 DEF EraseHead, memory, IndInv, ControlInv, TypeOK
  <2>2. lh = <<>>
    BY <1>1, <2>1 DEF IndInv, StageInv, Clearing
  <2>3. Quiet'
    BY <1>1, <2>1, <2>2 DEF Quiet, InLog
  <2>4. StageInv'
    BY <1>1, <2>1, <2>2, <2>3, StageNone
  <2>5. CleanInv'
    BY <1>1, <2>1, CleanContents, CleanAlone DEF IndInv
  <2>6. DistinctInv'
    BY <2>1 DEF IndInv, DistinctInv
  <2> QED
    BY <2>4, <2>5, <2>6
<1> QED
  BY <1>2, <1>3, <1>4 DEF Recovers

LEMMA RecycleData ==
  ASSUME IndInv, NEW b \in Blocks, Recycle(b)
  PROVE  /\ DistinctInv' /\ StageInv' /\ CleanInv'
         /\ b \notin dirty /\ cache'[b] = NotCached /\ \A c \in Blocks \ {b} : cache'[c] = cache[c]
         /\ Active = {} => Contents(b) = disk[b]
<1>1. /\ b \notin dirty /\ cache' = [cache EXCEPT ![b] = NotCached]
      /\ \A p \in Procs : pc[p] = "logging" => blk[p] # b
      /\ UNCHANGED <<disk, logd, hd, dirty, lh, pc, tail, blk>>
  BY DEF Recycle, durable, local
<1>2. cache'[b] = NotCached /\ \A c \in Blocks \ {b} : cache'[c] = cache[c]
  BY <1>1 DEF IndInv, ControlInv, TypeOK
<1>3. CleanInv'
  BY <1>1, <1>2 DEF IndInv, CleanInv
<1>4. Active = {} => Contents(b) = disk[b]
  BY <1>1, CleanContents DEF IndInv
<1>5. DistinctInv'
  BY <1>1 DEF IndInv, DistinctInv
<1>6. StageInv'
  <2>1. Committers' = Committers /\ (Quiet' <=> Quiet) /\ (Clearing' <=> Clearing)
    BY <1>1 DEF Committers, Quiet, Clearing, InLog
  <2>2. ASSUME Active = {}, NEW i \in 1 .. Len(lh)
        PROVE  Contents(lh[i])' = Contents(lh[i])
    <3>1. lh[i] \in Blocks
      BY DEF IndInv, ControlInv, TypeOK
    <3>2. CASE lh[i] = b
      BY <1>1, <1>2, <1>4, <2>2, <3>2 DEF Contents
    <3>3. CASE lh[i] # b
      BY <1>1, <1>2, <3>1, <3>3 DEF Contents
    <3> QED
      BY <3>2, <3>3
  <2>3. ASSUME NEW p \in Procs, pc[p] \in {"copy", "head"}
        PROVE  Copying(p)'
    <3>1. Active = {} /\ Copying(p)
      BY <2>3, Commits_Alone DEF Committers, IndInv, ControlInv, StageInv
    <3> QED
      BY <1>1, <2>1, <2>2, <3>1 DEF Copying
  <2>4. ASSUME NEW a \in Actors, pc[a] = "install"
        PROVE  Installing(a)'
    <3>1. Active = {} /\ Installing(a)
      <4>1. CASE a \in Procs
        BY <2>4, <4>1, Commits_Alone DEF Committers, IndInv, ControlInv, StageInv
      <4>2. CASE a = Boot
        BY <2>4, <4>2, Recovering DEF IndInv, ControlInv, StageInv
      <4> QED
        BY <4>1, <4>2 DEF Actors
    <3>2. dirty \subseteq InLog => dirty' \subseteq InLog'
      BY <1>1 DEF InLog
    <3> QED
      BY <1>1, <2>2, <3>1, <3>2 DEF Installing
  <2>5. Active' = Active
    BY <1>1 DEF Active
  <2> QED
    BY <1>1, <2>1, <2>3, <2>4, <2>5 DEF IndInv, StageInv
<1> QED
  BY <1>1, <1>2, <1>3, <1>4, <1>5, <1>6

LEMMA CrashData ==
  ASSUME IndInv, Crash
  PROVE  DistinctInv' /\ StageInv' /\ CleanInv'
<1>1. Committers' = {} /\ pc'[Boot] = "read"
  BY CrashStep DEF IndInv
<1>2. dirty' = {} /\ lh' = <<>> /\ cache' = [b \in Blocks |-> NotCached] /\ hd' = hd
  BY DEF Crash, Reboot, durable
<1>3. StageInv'
  BY <1>1, <1>2, StageBoot
<1>4. CleanInv'
  BY <1>2, CleanAlone
<1>5. DistinctInv'
  BY <1>2 DEF IndInv, DistinctInv
<1> QED
  BY <1>3, <1>4, <1>5

LEMMA InitData == Init => IndInv
<1> SUFFICES ASSUME Init
             PROVE  IndInv
  OBVIOUS
<1>1. pc[Boot] = "read" /\ \A a \in Actors : pc[a] \in {"read", "out"}
  BY LogAssumption DEF Init, Actors
<1>2. DistinctInv
  BY DEF Init, DistinctInv
<1>3. StageInv
  <2>1. \A p \in Procs : pc[p] = "out"
    BY LogAssumption DEF Init, Actors
  <2> QED
    BY <1>1, <2>1 DEF Init, StageInv
<1>4. CleanInv
  BY DEF Init, CleanInv
<1> QED
  BY <1>2, <1>3, <1>4, InitControl DEF IndInv

LEMMA NextData == IndInv /\ Fits /\ [Next]_vars => IndInv'
<1> SUFFICES ASSUME IndInv, Fits, [Next]_vars
             PROVE  IndInv'
  OBVIOUS
<1>1. ControlInv'
  BY NextControl DEF IndInv
<1>2. DistinctInv' /\ StageInv' /\ CleanInv'
  <2>1. ASSUME NEW p \in Procs, begin_op(p) \/ BeginSleeps(p) \/ log_write(p) \/ end_op(p) \/ Commits(p)
        PROVE  DistinctInv' /\ StageInv' /\ CleanInv'
    BY <2>1, BeginData, WriteData, EndData, CopyData, HeadData, InstallData, EraseData, CommitEndData
       DEF Commits
  <2>2. ASSUME NEW p \in Procs, NEW b \in Blocks, NEW v \in Vals, LogWriteChecks(p, b, v)
        PROVE  DistinctInv' /\ StageInv' /\ CleanInv'
    BY <2>2, ChecksData
  <2>3. CASE Recovers
    BY <2>3, RecoverData
  <2>4. ASSUME NEW b \in Blocks, Recycle(b)
        PROVE  DistinctInv' /\ StageInv' /\ CleanInv'
    BY <2>4, RecycleData
  <2>5. CASE Crash
    BY <2>5, CrashData
  <2>6. CASE UNCHANGED vars
    <3>1. UNCHANGED <<disk, logd, hd, cache, dirty, lh, pc, tail, blk>>
      BY <2>6 DEF vars, durable, memory, local
    <3>2. DistinctInv' /\ CleanInv'
      BY <3>1, CleanFrame DEF IndInv, DistinctInv
    <3>3. StageInv'
      BY <3>1 DEF IndInv, StageInv, Active, Committers, Quiet, InLog, Copying, Installing, Clearing, Contents
    <3> QED
      BY <3>2, <3>3
  <2> QED
    BY <2>1, <2>2, <2>3, <2>4, <2>5, <2>6 DEF Next
<1> QED
  BY <1>1, <1>2 DEF IndInv

\* As long as the transactions fit into the data blocks of the log on the disk, the header, the log
\* and the buffers agree at each step of every commit and every recovery (log.c, commit and
\* recover_from_log).
THEOREM LogInvariant == Spec /\ []Fits => []IndInv
BY InitData, NextData, PTL DEF Spec

\* They do, in the log that mkfs makes with one data block less than LOGSIZE, because begin_op
\* reserves MAXOPBLOCKS for each call (log.c:132) and no call of fs.c and file.c logs as many.
THEOREM LogFits == Slack => (Spec => []Fits)
<1> SUFFICES ASSUME Slack
             PROVE  Spec => []Fits
  OBVIOUS
<1>1. ControlInv => Fits
  <2> SUFFICES ASSUME ControlInv
               PROVE  Fits
    OBVIOUS
  <2>1. Len(lh) \in Nat /\ Len(lh) + Spare <= LOGSIZE
    BY SpaceSizes DEF ControlInv, TypeOK
  <2> QED
    BY <2>1, Sizes DEF Fits, NLOG
<1> QED
  BY <1>1, LogControl, PTL

-----------------------------------------------------------------------------
(* The log implements atomic transactions *)

\* A recovery takes a block from the log if the header names it, else from its home.
RecoveredBy ==
  /\ Recovered = [b \in Blocks |-> Recovered[b]]
  /\ \A b \in Blocks :
       /\ \A i \in 1 .. Len(hd) : hd[i] = b => Recovered[b] = logd[i]
       /\ (\A i \in 1 .. Len(hd) : hd[i] # b) => Recovered[b] = disk[b]

LEMMA RecoveredIs == DistinctInv => RecoveredBy
<1> SUFFICES ASSUME DistinctInv
             PROVE  /\ Recovered = [b \in Blocks |-> Recovered[b]]
                    /\ \A b \in Blocks :
                         /\ \A i \in 1 .. Len(hd) : hd[i] = b => Recovered[b] = logd[i]
                         /\ (\A i \in 1 .. Len(hd) : hd[i] # b) => Recovered[b] = disk[b]
  BY DEF RecoveredBy
<1>1. Recovered = [b \in Blocks |-> Recovered[b]]
  BY DEF Recovered
<1>2. ASSUME NEW b \in Blocks, NEW i \in 1 .. Len(hd), hd[i] = b
      PROVE  Recovered[b] = logd[i]
  <2> DEFINE j == CHOOSE k \in 1 .. Len(hd) : hd[k] = b
  <2>1. j \in 1 .. Len(hd) /\ hd[j] = b
    BY <1>2
  <2>2. j = i
    BY <1>2, <2>1 DEF DistinctInv
  <2> QED
    BY <1>2, <2>2 DEF Recovered
<1>3. ASSUME NEW b \in Blocks, \A i \in 1 .. Len(hd) : hd[i] # b
      PROVE  Recovered[b] = disk[b]
  BY <1>3 DEF Recovered
<1> QED
  BY <1>1, <1>2, <1>3

LEMMA RecoveredWillBe == DistinctInv' => RecoveredBy'
BY RecoveredIs, PTL

\* Two disks that recover to the same.
LEMMA RecoveredSame ==
  ASSUME DistinctInv, DistinctInv', NEW f, \A b \in Blocks : Recovered'[b] = f[b], f = [b \in Blocks |-> f[b]]
  PROVE  Recovered' = f
<1>1. Recovered' = [b \in Blocks |-> Recovered'[b]]
  BY RecoveredWillBe DEF RecoveredBy
<1> QED
  BY <1>1

LEMMA RecoveredType ==
  ASSUME TypeOK
  PROVE  Recovered \in [Blocks -> Vals]
<1>1. hd \in Seq(Blocks) /\ Len(hd) \in Nat /\ Len(hd) <= LOGSIZE /\ logd \in [1 .. LOGSIZE -> Vals]
      /\ disk \in [Blocks -> Vals]
  BY DEF TypeOK
<1>2. ASSUME NEW b \in Blocks, \E i \in 1 .. Len(hd) : hd[i] = b
      PROVE  logd[CHOOSE i \in 1 .. Len(hd) : hd[i] = b] \in Vals
  <2> DEFINE j == CHOOSE k \in 1 .. Len(hd) : hd[k] = b
  <2>1. j \in 1 .. Len(hd)
    BY <1>2
  <2>2. j \in 1 .. LOGSIZE
    BY <1>1, <2>1, LogAssumption
  <2> QED
    BY <1>1, <2>2
<1> QED
  BY <1>1, <1>2 DEF Recovered

\* What the calls see, once the recovery is over.
LEMMA SeenFrame ==
  ASSUME pc'[Boot] = "off", pc[Boot] = "off", \A b \in Blocks : Contents(b)' = Contents(b)
  PROVE  Seen' = Seen
BY DEF Seen

\* Nothing a call or the disk can see has changed.
LEMMA StutterFrame ==
  ASSUME UNCHANGED <<disk, logd, hd, cache>>, pc'[Boot] = pc[Boot]
  PROVE  Recovered' = Recovered /\ Seen' = Seen
BY DEF Recovered, Seen, Contents

\* To install a block, from a commit or from a recovery, changes nothing for the next recovery.
LEMMA InstallRecovers ==
  ASSUME IndInv, DistinctInv', Fits, NEW a \in Actors, install_trans(a)
  PROVE  Recovered' = Recovered
<1>1. /\ UNCHANGED <<logd, hd>> /\ hd = lh /\ tail[a] \in 1 .. Len(lh)
      /\ \A b \in Blocks \ {lh[tail[a]]} : disk'[b] = disk[b]
  BY Installs
<1>2. DistinctInv /\ Recovered = [b \in Blocks |-> Recovered[b]]
  BY RecoveredIs DEF IndInv, RecoveredBy
<1>3. ASSUME NEW b \in Blocks
      PROVE  Recovered'[b] = Recovered[b]
  <2>1. ASSUME NEW i \in 1 .. Len(hd), hd[i] = b
        PROVE  Recovered'[b] = Recovered[b]
    <3>1. Recovered[b] = logd[i]
      BY <1>2, <2>1, RecoveredIs DEF RecoveredBy
    <3>2. Recovered'[b] = logd'[i]
      BY <1>1, <2>1, RecoveredWillBe DEF RecoveredBy
    <3> QED
      BY <1>1, <3>1, <3>2
  <2>2. CASE \A i \in 1 .. Len(hd) : hd[i] # b
    <3>1. Recovered[b] = disk[b]
      BY <1>2, <2>2, RecoveredIs DEF RecoveredBy
    <3>2. Recovered'[b] = disk'[b]
      BY <1>1, <2>2, RecoveredWillBe DEF RecoveredBy
    <3>3. b # lh[tail[a]]
      BY <1>1, <2>2
    <3> QED
      BY <1>1, <3>1, <3>2, <3>3
  <2> QED
    BY <2>1, <2>2
<1> QED
  BY <1>2, <1>3, RecoveredSame

\* Nor does it to erase the header, once all blocks are installed.
LEMMA EraseRecovers ==
  ASSUME DistinctInv, DistinctInv', Clearing, hd' = <<>>, UNCHANGED disk
  PROVE  Recovered' = Recovered
<1>1. Recovered = [b \in Blocks |-> Recovered[b]]
  BY RecoveredIs DEF RecoveredBy
<1>2. \A b \in Blocks : Recovered'[b] = disk[b]
  BY RecoveredWillBe DEF RecoveredBy
<1>3. \A b \in Blocks : Recovered[b] = disk[b]
  <2> SUFFICES ASSUME NEW b \in Blocks
               PROVE  Recovered[b] = disk[b]
    OBVIOUS
  <2>1. ASSUME NEW i \in 1 .. Len(hd), hd[i] = b
        PROVE  Recovered[b] = disk[b]
    BY <2>1, RecoveredIs DEF Clearing, RecoveredBy
  <2> QED
    BY <2>1, RecoveredIs DEF RecoveredBy
<1> QED
  BY <1>1, <1>2, <1>3, RecoveredSame

\* Only commit and recovery touch the disk: a step of a call begins it, ends it, or writes.
LEMMA CallTx ==
  ASSUME IndInv, NEW p \in Procs, begin_op(p) \/ BeginSleeps(p) \/ log_write(p) \/ end_op(p)
  PROVE  [Tx!TxNext]_<<Recovered, Seen, Active>>
<1>1. p \in Actors /\ Boot \in Actors /\ p # Boot /\ pc \in [Actors -> PCs]
  BY LogAssumption DEF Actors, IndInv, ControlInv, TypeOK
<1>2. UNCHANGED <<disk, logd, hd, cache>>
  BY DEF begin_op, BeginSleeps, log_write, end_op, durable, memory
<1>3. pc'[Boot] = pc[Boot]
  <2>1. CASE end_op(p)
    <3>1. pc[Boot] = "off"
      BY <2>1, EndStep, Calls_Counted DEF IndInv, ControlInv
    <3> QED
      BY <1>1, <2>1, <3>1, EndStep DEF IndInv
  <2> QED
    BY <1>1, <2>1 DEF begin_op, BeginSleeps, log_write
<1>4. Recovered' = Recovered /\ Seen' = Seen
  BY <1>2, <1>3, StutterFrame
<1>5. CASE begin_op(p)
  <2>1. p \notin Active /\ Active' = Active \cup {p}
    BY <1>1, <1>5 DEF begin_op, AtBegin, Active, Actors
  <2>2. Tx!Begin(p)
    BY <1>4, <2>1 DEF Tx!Begin
  <2> QED
    BY <2>2 DEF Tx!TxNext
<1>6. CASE BeginSleeps(p) \/ log_write(p)
  <2>1. Active' = Active
    BY <1>1, <1>6 DEF BeginSleeps, AtBegin, log_write, Active, Actors
  <2> QED
    BY <1>4, <2>1
<1>7. CASE end_op(p)
  <2>1. p \in Active /\ Active' = Active \ {p}
    BY <1>7, EndStep DEF IndInv
  <2>2. Tx!End(p)
    BY <1>4, <2>1 DEF Tx!End
  <2> QED
    BY <2>2 DEF Tx!TxNext
<1> QED
  BY <1>5, <1>6, <1>7

LEMMA ChecksTx ==
  ASSUME IndInv, NEW p \in Procs, NEW b \in Blocks, NEW v \in Vals, LogWriteChecks(p, b, v)
  PROVE  [Tx!TxNext]_<<Recovered, Seen, Active>>
<1>1. p \in Active /\ pc'[p] \in {"toobig", "logging"}
  BY ChecksStep DEF IndInv
<1>2. pc[Boot] = "off" /\ p # Boot /\ Boot \in Actors
  BY <1>1, Calls_Counted, LogAssumption DEF IndInv, ControlInv, Actors
<1>3. /\ UNCHANGED <<disk, logd, hd>> /\ cache' = [cache EXCEPT ![b] = v]
      /\ \A c \in Actors \ {p} : pc'[c] = pc[c]
      /\ cache \in [Blocks -> Vals \cup {NotCached}]
  BY DEF LogWriteChecks, durable, IndInv, ControlInv, TypeOK
<1>4. Active' = Active
  BY <1>1, <1>3 DEF Active, Actors
<1>5. Recovered' = Recovered
  BY <1>3 DEF Recovered
<1>6. \A c \in Blocks : Contents(c)' = IF c = b THEN v ELSE Contents(c)
  <2>1. v # NotCached
    BY LogAssumption
  <2> QED
    BY <1>3, <2>1 DEF Contents
<1>7. Seen' = [Seen EXCEPT ![b] = v]
  <2>1. pc'[Boot] = "off"
    BY <1>2, <1>3
  <2> QED
    BY <1>2, <1>6, <2>1 DEF Seen
<1>8. Tx!Write(p, b, v)
  BY <1>1, <1>4, <1>5, <1>7 DEF Tx!Write
<1> QED
  BY <1>8 DEF Tx!TxNext

\* The steps of a commit change nothing a call or a recovery sees, but for write_head.
LEMMA CommitTx ==
  ASSUME IndInv, IndInv', Fits, NEW p \in Procs, Commits(p)
  PROVE  [Tx!TxNext]_<<Recovered, Seen, Active>>
<1>1. /\ p \in Committers /\ p \in Actors /\ Boot \in Actors /\ p # Boot
      /\ pc \in [Actors -> PCs]
  BY LogAssumption
     DEF Commits, write_log, write_head, install_trans, Loops, EraseHead, CommitEnds, Committers, Actors,
         IndInv, ControlInv, TypeOK
<1>2. Active = {} /\ pc[Boot] = "off"
  BY <1>1, Commits_Alone DEF IndInv, ControlInv
<1>3. Active' = {} /\ pc'[Boot] = "off"
  <2>1. Active' = {}
    BY CopyStep, HeadStep, InstallStep, EraseStep, CommitEndStep DEF Commits, IndInv
  <2>2. CASE write_log(p)
    <3>1. Loops(p, "copy", "head")
      BY <2>2 DEF write_log
    <3> QED
      BY <1>1, <1>2, <2>1, <3>1, Turns DEF IndInv
  <2>3. CASE install_trans(p)
    BY <1>1, <1>2, <2>1, <2>3, Installs
  <2>4. CASE write_head(p)
    BY <1>1, <1>2, <2>1, <2>4 DEF write_head
  <2>5. CASE EraseHead(p)
    BY <1>1, <1>2, <2>1, <2>5 DEF EraseHead
  <2>6. CASE CommitEnds(p)
    BY <1>1, <1>2, <2>1, <2>6, CommitEndStep DEF IndInv
  <2> QED
    BY <2>1, <2>2, <2>3, <2>4, <2>5, <2>6 DEF Commits
<1>4. DistinctInv /\ DistinctInv' /\ Recovered = [b \in Blocks |-> Recovered[b]]
  BY RecoveredIs DEF IndInv, RecoveredBy
<1>5. CASE write_log(p)
  <2>1. UNCHANGED <<disk, hd, cache>> /\ hd = <<>>
    BY <1>5, CopyData
  <2>2. Recovered' = Recovered
    BY <2>1 DEF Recovered
  <2>3. Seen' = Seen
    BY <1>2, <1>3, <2>1, SeenFrame DEF Contents
  <2> QED
    BY <1>2, <1>3, <2>2, <2>3
<1>6. CASE write_head(p)
  <2>1. /\ UNCHANGED <<disk, logd, cache>> /\ hd' = lh /\ dirty = InLog
        /\ \A i \in 1 .. Len(lh) : logd[i] = Contents(lh[i])
    BY <1>6, HeadData
  <2>2. Seen' = Seen /\ Seen = [b \in Blocks |-> Contents(b)]
    BY <1>2, <1>3, <2>1, SeenFrame DEF Contents, Seen
  <2>3. ASSUME NEW b \in Blocks
        PROVE  Recovered'[b] = Contents(b)
    <3>1. CASE b \in InLog
      <4>1. PICK i \in 1 .. Len(lh) : lh[i] = b
        BY <3>1 DEF InLog
      <4>2. Recovered'[b] = logd'[i]
        BY <1>4, <2>1, <4>1, RecoveredWillBe DEF RecoveredBy
      <4> QED
        BY <2>1, <4>1, <4>2
    <3>2. CASE b \notin InLog
      <4>1. Recovered'[b] = disk'[b]
        BY <1>4, <2>1, <3>2, RecoveredWillBe DEF InLog, RecoveredBy
      <4>2. Contents(b) = disk[b]
        BY <1>2, <2>1, <3>2, CleanContents DEF IndInv
      <4> QED
        BY <2>1, <4>1, <4>2
    <3> QED
      BY <3>1, <3>2
  <2>4. Recovered' = Seen
    BY <1>4, <2>2, <2>3, RecoveredSame
  <2>5. Tx!Commit
    BY <1>2, <1>3, <2>2, <2>4 DEF Tx!Commit
  <2> QED
    BY <2>5 DEF Tx!TxNext
<1>7. CASE install_trans(p)
  <2>1. Seen' = Seen
    BY <1>2, <1>3, <1>7, InstallData, SeenFrame
  <2>2. Recovered' = Recovered
    BY <1>1, <1>4, <1>7, InstallRecovers
  <2> QED
    BY <1>2, <1>3, <2>1, <2>2
<1>8. CASE EraseHead(p)
  <2>1. UNCHANGED <<disk, logd, cache>> /\ hd' = <<>> /\ Clearing
    BY <1>8, EraseData
  <2>2. Recovered' = Recovered
    BY <1>4, <2>1, EraseRecovers
  <2>3. Seen' = Seen
    BY <1>2, <1>3, <2>1, SeenFrame DEF Contents
  <2> QED
    BY <1>2, <1>3, <2>2, <2>3
<1>9. CASE CommitEnds(p)
  <2>1. UNCHANGED <<disk, logd, hd, cache>>
    BY <1>9 DEF CommitEnds, durable
  <2> QED
    BY <1>2, <1>3, <2>1, StutterFrame
<1> QED
  BY <1>5, <1>6, <1>7, <1>8, <1>9 DEF Commits

LEMMA RecoverTx ==
  ASSUME IndInv, IndInv', Fits, Recovers
  PROVE  UNCHANGED <<Recovered, Seen, Active>>
<1>1. Active = {} /\ Active' = {} /\ pc[Boot] # "off" /\ Boot \in Actors /\ dirty = {}
  BY RecoverStep, Recovering DEF IndInv, ControlInv, Actors, StageInv
<1>2. DistinctInv /\ DistinctInv' /\ Recovered = [b \in Blocks |-> Recovered[b]]
  BY RecoveredIs DEF IndInv, RecoveredBy
<1>3. CASE read_head
  <2>1. UNCHANGED <<disk, logd, hd, cache>> /\ pc'[Boot] # "off"
    BY <1>1, <1>3 DEF read_head, durable, IndInv, ControlInv, TypeOK
  <2> QED
    BY <1>1, <2>1 DEF Recovered, Seen
<1>4. CASE install_trans(Boot)
  <2>1. Recovered' = Recovered
    BY <1>1, <1>2, <1>4, InstallRecovers
  <2>2. pc'[Boot] # "off"
    BY <1>1, <1>4, Installs
  <2> QED
    BY <1>1, <2>1, <2>2 DEF Seen
<1>5. CASE EraseHead(Boot)
  <2>1. /\ pc[Boot] = "clear" /\ hd' = <<>> /\ UNCHANGED <<disk, logd, cache>> /\ pc'[Boot] = "off"
    BY <1>1, <1>5 DEF EraseHead, memory, IndInv, ControlInv, TypeOK
  <2>2. Clearing
    BY <1>1, <2>1 DEF IndInv, StageInv
  <2>3. Recovered' = Recovered
    BY <1>2, <2>1, <2>2, EraseRecovers
  <2>4. \A b \in Blocks : Contents(b)' = Recovered'[b]
    <3>1. \A b \in Blocks : Contents(b)' = disk[b]
      BY <1>1, <2>1, CleanContents DEF IndInv, Contents
    <3>2. \A b \in Blocks : Recovered'[b] = disk[b]
      BY <1>2, <2>1, RecoveredWillBe DEF RecoveredBy
    <3> QED
      BY <3>1, <3>2
  <2>5. Seen' = [b \in Blocks |-> Recovered'[b]]
    BY <2>1, <2>4 DEF Seen
  <2> QED
    BY <1>1, <1>2, <2>3, <2>5 DEF Seen
<1> QED
  BY <1>3, <1>4, <1>5 DEF Recovers

LEMMA RecycleTx ==
  ASSUME IndInv, NEW b \in Blocks, Recycle(b)
  PROVE  [Tx!TxNext]_<<Recovered, Seen, Active>>
<1>1. /\ UNCHANGED <<disk, logd, hd, pc, blk>> /\ b \notin dirty
      /\ \A p \in Procs : pc[p] = "logging" => blk[p] # b
      /\ cache'[b] = NotCached /\ \A c \in Blocks \ {b} : cache'[c] = cache[c]
  BY RecycleData DEF Recycle, durable, local
<1>2. Recovered' = Recovered /\ Active' = Active
  BY <1>1 DEF Recovered, Active
<1>3. \A c \in Blocks : Contents(c)' = IF c = b THEN disk[b] ELSE Contents(c)
  BY <1>1 DEF Contents
<1>4. CASE pc[Boot] # "off"
  BY <1>1, <1>2, <1>4 DEF Seen
<1>5. CASE Contents(b) = disk[b]
  BY <1>1, <1>2, <1>3, <1>5 DEF Seen
<1>6. CASE pc[Boot] = "off" /\ Contents(b) # disk[b]
  <2>1. PICK p \in Procs : pc[p] \in {"logging", "toobig"} /\ blk[p] = b
    BY <1>1, <1>6 DEF IndInv, CleanInv, Contents
  <2>2. p \in Active /\ disk[b] \in Vals
    BY <2>1 DEF Active, IndInv, ControlInv, TypeOK
  <2>3. Seen' = [Seen EXCEPT ![b] = disk[b]]
    BY <1>1, <1>3, <1>6 DEF Seen
  <2>4. Tx!Write(p, b, disk[b])
    BY <1>2, <2>2, <2>3 DEF Tx!Write
  <2> QED
    BY <2>2, <2>4 DEF Tx!TxNext
<1> QED
  BY <1>4, <1>5, <1>6

\* Whatever the system calls do at the same time, whatever buffers are recycled, and wherever the
\* power fails, in a commit or in a recovery, the disk holds all that was written when no call was
\* active, or all of it at an earlier such time (log.c).
THEOREM LogAtomicWhileItFits == Spec /\ []Fits => Atomic
<1>1. Init => Tx!TxInit
  <2> SUFFICES ASSUME Init
               PROVE  Tx!TxInit
    OBVIOUS
  <2>1. ControlInv
    BY InitControl
  <2>2. Recovered \in [Blocks -> Vals]
    BY <2>1, RecoveredType DEF ControlInv
  <2>3. pc[Boot] # "off" /\ Active = {}
    BY LogAssumption DEF Init, Actors, Active
  <2> QED
    BY <2>2, <2>3 DEF Tx!TxInit, Seen
<1>2. ASSUME IndInv, IndInv', Fits, [Next]_vars
      PROVE  [Tx!TxNext]_<<Recovered, Seen, Active>>
  <2>1. ASSUME NEW p \in Procs, begin_op(p) \/ BeginSleeps(p) \/ log_write(p) \/ end_op(p) \/ Commits(p)
        PROVE  [Tx!TxNext]_<<Recovered, Seen, Active>>
    BY <1>2, <2>1, CallTx, CommitTx
  <2>2. ASSUME NEW p \in Procs, NEW b \in Blocks, NEW v \in Vals, LogWriteChecks(p, b, v)
        PROVE  [Tx!TxNext]_<<Recovered, Seen, Active>>
    BY <1>2, <2>2, ChecksTx
  <2>3. CASE Recovers
    BY <1>2, <2>3, RecoverTx
  <2>4. ASSUME NEW b \in Blocks, Recycle(b)
        PROVE  [Tx!TxNext]_<<Recovered, Seen, Active>>
    BY <1>2, <2>4, RecycleTx
  <2>5. CASE Crash
    <3>1. Active' = {} /\ pc'[Boot] = "read"
      BY <1>2, <2>5, CrashStep DEF IndInv
    <3>2. Recovered' = Recovered
      BY <2>5 DEF Crash, durable, Recovered
    <3>3. Tx!Crash
      BY <3>1, <3>2 DEF Tx!Crash, Seen
    <3> QED
      BY <3>3 DEF Tx!TxNext
  <2>6. CASE UNCHANGED vars
    BY <2>6 DEF vars, durable, memory, local, Recovered, Seen, Contents, Active
  <2> QED
    BY <1>2, <2>1, <2>2, <2>3, <2>4, <2>5, <2>6 DEF Next
<1> QED
  BY <1>1, <1>2, LogInvariant, PTL DEF Spec, Atomic, Tx!TxSpec, Tx!txvars

\* So the log that mkfs makes is atomic under calls that leave a block of their reservation.
THEOREM LogAtomic == Slack => (Spec => Atomic)
BY LogFits, LogAtomicWhileItFits, PTL

\* When no call is active and no commit is running, a crash loses nothing of what the calls have
\* written (log.c, end_op: the last call commits).
THEOREM LogQuietIsDurable == Spec /\ []Fits => []QuietIsDurable
<1>1. IndInv => QuietIsDurable
  <2> SUFFICES ASSUME IndInv, pc[Boot] = "off", outstanding = 0, ~committing
               PROVE  Seen = Recovered
    BY DEF QuietIsDurable
  <2>1. Active = {}
    <3>1. Cardinality(Active) = 0 /\ IsFiniteSet(Active)
      BY ActiveFinite DEF IndInv, ControlInv, CallInv, Active
    <3> QED
      BY <3>1, FS_EmptySet
  <2>2. Committers = {}
    BY DEF IndInv, ControlInv, CallInv
  <2>3. hd = <<>> /\ dirty = InLog
    BY <2>2 DEF IndInv, StageInv, Quiet
  <2>4. ASSUME NEW b \in Blocks
        PROVE  Contents(b) = Recovered[b]
    <3>0. Recovered[b] = disk[b]
      BY <2>3 DEF Recovered
    <3>1. CASE b \notin dirty
      BY <2>1, <3>0, <3>1, CleanContents DEF IndInv
    <3>2. b \notin dirty
      BY <2>1, <2>2, <2>3 DEF IndInv, StageInv, InLog
    <3> QED
      BY <3>1, <3>2
  <2> QED
    BY <2>4 DEF Seen, Recovered
<1> QED
  BY <1>1, LogInvariant, PTL
===============================================================================
