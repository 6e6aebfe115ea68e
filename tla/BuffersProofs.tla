---------------------------- MODULE BuffersProofs ----------------------------
(* Proofs about Buffers for any finite sets of processes and buffers, any set  *)
(* of blocks and any number of values.                                         *)
EXTENDS Buffers, FiniteSetTheorems, TLAPS

\* A process in bread, bwrite or brelse works on a buffer that caches a block, and
\* nobody else owns it while this process does.
LEMMA AtBuffer ==
  ASSUME IndInv, NEW p \in Procs, pc[p] # "idle"
  PROVE  /\ cur[p] \in Bufs /\ buf[cur[p]].block \in Blocks
         /\ pc[p] \in Owning => \A q \in Procs \ {p} : cur[q] = cur[p] => pc[q] \notin Owning
BY BuffersAssumption DEF IndInv, TypeOK, Buffer, RefInv, OwnInv

\* The processes on a buffer are counted.
LEMMA Counted ==
  ASSUME NEW f \in [Procs -> Bufs \cup {None}], NEW b \in Bufs
  PROVE  /\ IsFiniteSet({q \in Procs : f[q] = b})
         /\ Cardinality({q \in Procs : f[q] = b}) \in 0..Cardinality(Procs)
         /\ Cardinality({q \in Procs : f[q] = b}) = 0 <=> \A q \in Procs : f[q] # b
<1> DEFINE S == {q \in Procs : f[q] = b}
<1>1. IsFiniteSet(S) /\ Cardinality(S) <= Cardinality(Procs) /\ Cardinality(S) \in Nat /\ Cardinality(Procs) \in Nat
  BY FS_Subset, FS_CardinalityType, BuffersAssumption
<1>2. Cardinality(S) = 0 <=> S = {}
  BY <1>1, FS_EmptySet
<1> QED
  BY <1>1, <1>2

\* A change of one buffer.
LEMMA BufferChange ==
  ASSUME TypeOK, NEW b \in Bufs, NEW r \in Buffer, buf' = [buf EXCEPT ![b] = r]
  PROVE  /\ buf' \in [Bufs -> Buffer] /\ buf'[b] = r
         /\ \A c \in Bufs \ {b} : buf'[c] = buf[c]
BY DEF TypeOK

\* RefInv says nothing of flags, data and sleep locks.
LEMMA RefFrame ==
  ASSUME TypeOK, RefInv, UNCHANGED cur,
         \A b \in Bufs : buf'[b].refcnt = buf[b].refcnt /\ buf'[b].block = buf[b].block,
         \A q \in Procs : pc'[q] = "idle" <=> pc[q] = "idle"
  PROVE  RefInv'
<1>1. \A b \in Bufs : {q \in Procs : cur'[q] = b} = {q \in Procs : cur[q] = b}
  OBVIOUS
<1>2. \A q \in Procs : cur[q] # None => cur[q] \in Bufs
  BY DEF TypeOK
<1> QED
  BY <1>1, <1>2 DEF RefInv

\* A step that takes no sleep lock and gives none up, nor moves an owner from its buffer.
LEMMA OwnFrame ==
  ASSUME IndInv,
         \A b \in Bufs : buf'[b].owner = buf[b].owner,
         \A q \in Procs : /\ pc'[q] \in Owning <=> pc[q] \in Owning
                          /\ pc[q] \in Owning => cur'[q] = cur[q]
  PROVE  OwnInv'
<1>1. \A q \in Procs : pc[q] \in Owning => cur[q] \in Bufs
  BY AtBuffer DEF Owning
<1>2. \A b \in Bufs : buf[b].owner # None => buf[b].owner \in Procs
  BY DEF IndInv, TypeOK, Buffer
<1> QED
  BY <1>1, <1>2 DEF IndInv, OwnInv

\* A step that lets nobody sleep and whose wakeups reach those who need not sleep on.
LEMMA NapFrame ==
  ASSUME IndInv,
         \A q \in Procs : nap'[q].stage # "runs" =>
            /\ nap'[q] = nap[q] /\ pc'[q] = pc[q] /\ cur'[q] = cur[q]
            /\ nap[q].stage = "falls" => spin'[nap[q].lk] = spin[nap[q].lk]
            /\ pc[q] = "lock" /\ buf[cur[q]].owner # None => buf'[cur[q]].owner # None
            /\ q \in AtDisk /\ ~Fresh(cur[q]) => ~(buf'[cur[q]].valid /\ ~buf'[cur[q]].dirty)
  PROVE  NapInv'
BY DEF IndInv, NapInv, AtDisk, Fresh

\* A step that leaves the queue and those who wait for it alone.
LEMMA QueueFrame ==
  ASSUME IndInv, UNCHANGED queue, AtDisk' = AtDisk,
         \A q \in AtDisk : cur'[q] = cur[q],
         \A q \in AtDisk : (buf'[cur[q]].valid /\ ~buf'[cur[q]].dirty) <=> Fresh(cur[q])
  PROVE  QueueInv'
BY DEF IndInv, QueueInv, Queued, Fresh

\* A step that leaves the disk, its command and the buffers in the queue alone.
LEMMA CommandFrame ==
  ASSUME IndInv, UNCHANGED <<queue, command, disk, bad>>,
         \A q \in AtDisk : /\ buf'[cur[q]].block = buf[cur[q]].block
                           /\ buf'[cur[q]].dirty = buf[cur[q]].dirty
                           /\ buf'[cur[q]].data = buf[cur[q]].data
  PROVE  CommandInv'
<1>1. queue # <<>> => Head(queue) \in Queued /\ Head(queue) \in Bufs
  BY DEF IndInv, TypeOK, Queued
<1>2. queue # <<>> => \E q \in AtDisk : cur[q] = Head(queue)
  BY <1>1 DEF IndInv, QueueInv
<1> QED
  BY <1>1, <1>2 DEF IndInv, CommandInv

\* A change of buffer b, and of its block on the disk.
LEMMA DataChange ==
  ASSUME IndInv, NEW b \in Bufs, \A c \in Bufs \ {b} : buf'[c] = buf[c],
         buf'[b].block # None => \A c \in Bufs \ {b} : buf[c].block # buf'[b].block,
         buf'[b].valid => buf'[b].block # None,
         buf'[b].dirty => buf'[b].valid,
         buf'[b].valid /\ ~buf'[b].dirty => buf'[b].block \in bad' \/ buf'[b].data = disk'[buf'[b].block],
         \A k \in Blocks : k # buf'[b].block => disk'[k] = disk[k] /\ (k \in bad => k \in bad')
  PROVE  DataInv'
<1>1. \A c, d \in Bufs : buf'[c].block # None /\ buf'[c].block = buf'[d].block => c = d
  BY DEF IndInv, DataInv
<1>2. \A c \in Bufs : buf'[c].valid => buf'[c].block # None
  BY DEF IndInv, DataInv
<1>3. \A c \in Bufs : buf'[c].dirty => buf'[c].valid
  BY DEF IndInv, DataInv
<1>4. \A c \in Bufs : buf'[c].valid /\ ~buf'[c].dirty => buf'[c].block \in bad' \/ buf'[c].data = disk'[buf'[c].block]
  <2> SUFFICES ASSUME NEW c \in Bufs \ {b}, buf[c].valid, ~buf[c].dirty
               PROVE  buf[c].block \in bad' \/ buf[c].data = disk'[buf[c].block]
    OBVIOUS
  <2>1. (buf[c].block \in bad \/ buf[c].data = disk[buf[c].block]) /\ buf[c].block # None
    BY DEF IndInv, DataInv, Fresh
  <2>2. buf[c].block \in Blocks /\ buf[c].block # buf'[b].block
    BY <2>1 DEF IndInv, TypeOK, Buffer
  <2> QED
    BY <2>1, <2>2
<1> QED
  BY <1>1, <1>2, <1>3, <1>4 DEF DataInv, Fresh

\* A step of p, after which p knows what its place says and what the other owners know holds still.
LEMMA PlaceChange ==
  ASSUME IndInv, NEW p \in Procs,
         \A q \in Procs \ {p} : /\ pc'[q] = pc[q] /\ got'[q] = got[q]
                                /\ pc[q] \in Owning => /\ cur'[q] = cur[q]
                                                       /\ buf'[cur[q]].valid = buf[cur[q]].valid
                                                       /\ buf'[cur[q]].dirty = buf[cur[q]].dirty
                                                       /\ buf'[cur[q]].data = buf[cur[q]].data,
         pc'[p] \in {"write", "writing", "hold"} => buf'[cur'[p]].valid,
         pc'[p] = "read" => ~buf'[cur'[p]].valid,
         pc'[p] = "write" => buf'[cur'[p]].dirty,
         got'[p] # None => pc'[p] = "hold" /\ got'[p] = buf'[cur'[p]].data
  PROVE  PlaceInv'
<1>1. \A q \in Procs : pc'[q] \in {"write", "writing", "hold"} => buf'[cur'[q]].valid
  BY DEF IndInv, PlaceInv, Owning
<1>2. \A q \in Procs : pc'[q] = "read" => ~buf'[cur'[q]].valid
  BY DEF IndInv, PlaceInv, Owning
<1>3. \A q \in Procs : pc'[q] = "write" => buf'[cur'[q]].dirty
  BY DEF IndInv, PlaceInv, Owning
<1>4. \A q \in Procs : got'[q] # None => pc'[q] = "hold" /\ got'[q] = buf'[cur'[q]].data
  <2> SUFFICES ASSUME NEW q \in Procs \ {p}, got[q] # None
               PROVE  pc'[q] = "hold" /\ got[q] = buf'[cur'[q]].data
    OBVIOUS
  <2>1. pc[q] = "hold" /\ got[q] = buf[cur[q]].data
    BY DEF IndInv, PlaceInv
  <2> QED
    BY <2>1 DEF Owning
<1> QED
  BY <1>1, <1>2, <1>3, <1>4 DEF PlaceInv

\* bread's test of B_VALID changes only the place of its process and what it read.
LEMMA ReadsStep ==
  ASSUME IndInv, NEW p \in Procs, Reads(p)
  PROVE  IndInv'
<1> DEFINE to == IF buf[cur[p]].valid THEN "hold" ELSE "read"
<1>1. /\ pc[p] = "own" /\ nap[p].stage = "runs"
      /\ pc' = [pc EXCEPT ![p] = to]
      /\ got' = IF buf[cur[p]].valid THEN [got EXCEPT ![p] = buf[cur[p]].data] ELSE got
      /\ UNCHANGED <<cur, buf, driver, sleeping, panic>>
  BY DEF Reads, Runs, Goto, Awake
<1>2. cur[p] \in Bufs
  BY <1>1, AtBuffer
<1>3. TypeOK'
  BY <1>1, <1>2 DEF IndInv, TypeOK, Buffer, driver, sleeping
<1>4. \A q \in Procs : pc'[q] = IF q = p THEN to ELSE pc[q]
  BY <1>1 DEF IndInv, TypeOK
<1>5. AtDisk' = AtDisk
  BY <1>1, <1>4 DEF AtDisk
<1>6. RefInv'
  BY <1>1, <1>4, RefFrame DEF IndInv
<1>7. OwnInv'
  BY <1>1, <1>4, OwnFrame DEF Owning
<1>8. NapInv'
  BY <1>1, <1>4, NapFrame DEF Fresh, sleeping
<1>9. QueueInv' /\ CommandInv'
  BY <1>1, <1>5, QueueFrame, CommandFrame DEF driver, Fresh
<1>10. DataInv'
  BY <1>1 DEF IndInv, DataInv, Fresh, driver
<1>11. PlaceInv'
  BY <1>1, <1>2, <1>4 DEF IndInv, TypeOK, PlaceInv
<1> QED
  BY <1>1, <1>3, <1>6, <1>7, <1>8, <1>9, <1>10, <1>11 DEF IndInv

\* A change of the client: the owner makes its valid buffer dirty.
LEMMA ModifiesStep ==
  ASSUME IndInv, NEW p \in Procs, Modifies(p)
  PROVE  IndInv'
<1> DEFINE b == cur[p]
           v == (got[p] + 1) % Values
           r == [buf[b] EXCEPT !.data = v, !.dirty = TRUE]
<1>1. /\ pc[p] = "hold" /\ nap[p].stage = "runs" /\ got[p] # None
      /\ pc' = [pc EXCEPT ![p] = "write"] \/ pc' = pc
      /\ got' = [got EXCEPT ![p] = None]
      /\ UNCHANGED <<cur, driver, sleeping, panic>>
      /\ buf' = [buf EXCEPT ![b] = r]
  BY DEF Modifies, Runs, Goto, Awake
<1>2. b \in Bufs /\ \A q \in Procs \ {p} : cur[q] = b => pc[q] \notin Owning
  BY <1>1, AtBuffer DEF Owning
<1>3. v \in 0..Values-1
  BY <1>1, BuffersAssumption DEF IndInv, TypeOK
<1> HIDE DEF v
<1>4. r \in Buffer /\ r.dirty = TRUE /\ r.block = buf[b].block /\ r.refcnt = buf[b].refcnt
      /\ r.valid = buf[b].valid /\ r.owner = buf[b].owner /\ r.data = v
  <2>1. buf[b] \in Buffer
    BY <1>2 DEF IndInv, TypeOK
  <2> QED
    BY <2>1, <1>3 DEF Buffer
<1> HIDE DEF r
<1>5. buf' \in [Bufs -> Buffer] /\ buf'[b] = r /\ \A c \in Bufs \ {b} : buf'[c] = buf[c]
  BY <1>1, <1>2, <1>4, BufferChange DEF IndInv
<1>6. TypeOK'
  BY <1>1, <1>5 DEF IndInv, TypeOK, driver, sleeping
<1>7. \A q \in Procs : /\ q # p => pc'[q] = pc[q] /\ got'[q] = got[q]
                       /\ pc'[p] \in {"hold", "write"} /\ got'[p] = None
  BY <1>1 DEF IndInv, TypeOK
<1>8. AtDisk' = AtDisk /\ \A q \in AtDisk : cur[q] \in Bufs \ {b}
  BY <1>1, <1>2, <1>7, AtBuffer DEF AtDisk, Owning
<1>9. RefInv'
  BY <1>1, <1>4, <1>5, <1>7, RefFrame DEF IndInv
<1>10. OwnInv'
  BY <1>1, <1>4, <1>5, <1>7, OwnFrame DEF Owning
<1>11. NapInv'
  <2>1. \A q \in Procs : pc[q] = "lock" => cur[q] \in Bufs
    BY AtBuffer
  <2> QED
    BY <1>1, <1>4, <1>5, <1>7, <1>8, <2>1, NapFrame DEF Fresh, sleeping
<1>12. QueueInv' /\ CommandInv'
  BY <1>1, <1>5, <1>8, QueueFrame, CommandFrame DEF driver, Fresh
<1>13. buf[b].valid /\ buf[b].block # None
  BY <1>1, <1>2 DEF IndInv, DataInv, PlaceInv
<1>14. DataInv'
  <2>1. r.block # None => \A c \in Bufs \ {b} : buf[c].block # r.block
    BY <1>2, <1>4 DEF IndInv, DataInv
  <2>2. UNCHANGED <<disk, bad>>
    BY <1>1 DEF driver
  <2> QED
    BY <1>2, <1>4, <1>5, <1>13, <2>1, <2>2, DataChange
<1>15. PlaceInv'
  <2>1. cur'[p] = b /\ buf'[b].valid /\ buf'[b].dirty
    BY <1>1, <1>4, <1>5, <1>13
  <2>2. \A q \in Procs \ {p} : pc[q] \in Owning => cur[q] \in Bufs \ {b}
    BY <1>2, AtBuffer DEF Owning
  <2>3. \A q \in Procs \ {p} : cur'[q] = cur[q]
    BY <1>1
  <2> QED
    BY <1>5, <1>7, <2>1, <2>2, <2>3, PlaceChange
<1> QED
  BY <1>1, <1>6, <1>9, <1>10, <1>11, <1>12, <1>14, <1>15 DEF IndInv

\* bget gives b, which becomes r: the cached buffer with one more reference, or one recycled.
LEMMA GetStep ==
  ASSUME IndInv, NEW p \in Procs, NEW b \in Bufs, NEW k \in Blocks, NEW r,
         pc[p] = "idle", nap[p].stage = "runs",
         \/ buf[b].block = k /\ r = [buf[b] EXCEPT !.refcnt = buf[b].refcnt + 1]
         \/ /\ Cached(k) = {} /\ b \in Unused
            /\ r = [buf[b] EXCEPT !.block = k, !.refcnt = 1, !.valid = FALSE],
         buf' = [buf EXCEPT ![b] = r], cur' = [cur EXCEPT ![p] = b], pc' = [pc EXCEPT ![p] = "lock"],
         UNCHANGED <<got, driver, sleeping, panic>>
  PROVE  IndInv'
<1>1. /\ buf[b] \in Buffer /\ cur \in [Procs -> Bufs \cup {None}] /\ b # None
      /\ cur[p] = None /\ buf[b].refcnt = Cardinality({q \in Procs : cur[q] = b})
  BY BuffersAssumption DEF IndInv, TypeOK, RefInv
<1>2. /\ cur' \in [Procs -> Bufs \cup {None}]
      /\ cur'[p] = b /\ \A q \in Procs \ {p} : cur'[q] = cur[q]
      /\ pc'[p] = "lock" /\ \A q \in Procs \ {p} : pc'[q] = pc[q]
  BY <1>1 DEF IndInv, TypeOK
<1>3. /\ {q \in Procs : cur'[q] = b} = {q \in Procs : cur[q] = b} \cup {p}
      /\ p \notin {q \in Procs : cur[q] = b}
      /\ \A c \in Bufs \ {b} : {q \in Procs : cur'[q] = c} = {q \in Procs : cur[q] = c}
  <2>1. ASSUME NEW c \in Bufs \ {b}
        PROVE  {q \in Procs : cur'[q] = c} = {q \in Procs : cur[q] = c}
    <3>1. c # None
      BY BuffersAssumption
    <3> QED
      BY <1>1, <1>2, <3>1
  <2> QED
    BY <1>1, <1>2, <2>1
<1>4. /\ Cardinality({q \in Procs : cur'[q] = b}) = buf[b].refcnt + 1
      /\ buf[b].refcnt + 1 \in 0..Cardinality(Procs)
  <2>1. IsFiniteSet({q \in Procs : cur[q] = b})
    BY <1>1, Counted
  <2>2. Cardinality({q \in Procs : cur[q] = b} \cup {p}) = Cardinality({q \in Procs : cur[q] = b}) + 1
    BY <1>3, <2>1, FS_AddElement
  <2>3. Cardinality({q \in Procs : cur'[q] = b}) \in 0..Cardinality(Procs)
    BY <1>2, Counted
  <2> QED
    BY <1>1, <1>3, <2>2, <2>3
<1>5. buf[b].refcnt = 0 => \A q \in Procs : cur[q] # b
  BY <1>1, Counted
<1>6. /\ r \in Buffer /\ r.block = k /\ r.refcnt = buf[b].refcnt + 1
      /\ r.owner = buf[b].owner /\ r.dirty = buf[b].dirty
      /\ \/ r.block = buf[b].block /\ r.valid = buf[b].valid /\ r.data = buf[b].data
         \/ ~r.valid /\ ~r.dirty /\ Cached(k) = {} /\ \A q \in Procs : cur[q] # b
  <2>1. CASE buf[b].block = k /\ r = [buf[b] EXCEPT !.refcnt = buf[b].refcnt + 1]
    BY <1>1, <1>4, <2>1 DEF Buffer
  <2>2. CASE /\ Cached(k) = {} /\ b \in Unused
             /\ r = [buf[b] EXCEPT !.block = k, !.refcnt = 1, !.valid = FALSE]
    <3>1. buf[b].refcnt = 0 /\ ~buf[b].dirty
      BY <2>2 DEF Unused
    <3>2. buf[b].data \in 0..Values-1
      BY <1>1 DEF Buffer
    <3>3. r = [block |-> k, refcnt |-> 1, valid |-> FALSE, dirty |-> buf[b].dirty, data |-> buf[b].data, owner |-> buf[b].owner]
      BY <1>1, <2>2 DEF Buffer
    <3>4. buf[b].dirty \in BOOLEAN /\ buf[b].owner \in Procs \cup {None}
      BY <1>1 DEF Buffer
    <3>5. r \in Buffer
      BY <1>4, <3>1, <3>2, <3>3, <3>4 DEF Buffer
    <3>6. r.block = k /\ r.refcnt = 1 /\ r.owner = buf[b].owner /\ r.dirty = buf[b].dirty /\ ~r.valid
      BY <3>3
    <3>7. \A q \in Procs : cur[q] # b
      BY <1>5, <3>1
    <3>8. Cached(k) = {}
      BY <2>2
    <3>9. ~r.dirty
      BY <3>1, <3>6
    <3>10. r.refcnt = buf[b].refcnt + 1
      BY <3>1, <3>6
    <3> HIDE DEF Cached
    <3> QED
      BY <3>5, <3>6, <3>7, <3>8, <3>9, <3>10
  <2> QED
    BY <2>1, <2>2
<1>7. buf' \in [Bufs -> Buffer] /\ buf'[b] = r /\ \A c \in Bufs \ {b} : buf'[c] = buf[c]
  BY <1>6, BufferChange DEF IndInv
<1>8. k # None
  BY BuffersAssumption
<1>9. ASSUME NEW q \in Procs \ {p}, cur[q] # None
      PROVE  /\ cur[q] \in Bufs /\ buf'[cur[q]].block = buf[cur[q]].block /\ buf'[cur[q]].valid = buf[cur[q]].valid
             /\ buf'[cur[q]].dirty = buf[cur[q]].dirty /\ buf'[cur[q]].data = buf[cur[q]].data
             /\ buf'[cur[q]].owner = buf[cur[q]].owner
  BY <1>1, <1>6, <1>7, <1>9
<1>10. \A q \in Procs : pc[q] # "idle" => q # p /\ cur[q] # None
  BY DEF IndInv, RefInv
<1>11. TypeOK'
  BY <1>2, <1>7 DEF IndInv, TypeOK, driver, sleeping
<1>12. RefInv'
  <2>1. \A q \in Procs : pc'[q] = "idle" <=> cur'[q] = None
    BY <1>1, <1>2 DEF IndInv, RefInv
  <2>2. \A c \in Bufs : buf'[c].refcnt = Cardinality({q \in Procs : cur'[q] = c})
    <3> SUFFICES ASSUME NEW c \in Bufs
                 PROVE  buf'[c].refcnt = Cardinality({q \in Procs : cur'[q] = c})
      OBVIOUS
    <3>1. CASE c = b
      <4>1. buf'[b].refcnt = Cardinality({q \in Procs : cur'[q] = b})
        BY <1>4, <1>6, <1>7
      <4> QED
        BY <3>1, <4>1
    <3>2. CASE c # b
      <4>1. RefInv
        BY DEF IndInv
      <4>2. buf[c].refcnt = Cardinality({q \in Procs : cur[q] = c})
        BY <4>1 DEF RefInv
      <4> QED
        BY <1>3, <1>7, <3>2, <4>2
    <3> QED
      BY <3>1, <3>2
  <2>3. \A q \in Procs : cur'[q] # None => buf'[cur'[q]].block # None
    BY <1>2, <1>6, <1>7, <1>8, <1>9 DEF IndInv, RefInv
  <2> QED
    BY <2>1, <2>2, <2>3 DEF RefInv
<1>13. OwnInv'
  BY <1>2, <1>6, <1>7, OwnFrame DEF Owning
<1>14. NapInv'
  BY <1>2, <1>9, <1>10, NapFrame DEF Fresh, AtDisk, sleeping
<1>15. AtDisk' = AtDisk
  BY <1>2 DEF AtDisk
<1>16. QueueInv' /\ CommandInv'
  <2>1. \A q \in AtDisk : q \in Procs \ {p} /\ cur[q] # None
    BY <1>10 DEF AtDisk
  <2> QED
    BY <1>2, <1>9, <1>15, <2>1, QueueFrame, CommandFrame DEF Fresh, driver
<1>17. DataInv'
  <2>1. \A c \in Bufs \ {b} : buf[c].block # k
    BY <1>6, <1>8 DEF IndInv, DataInv, Cached
  <2>2. r.dirty => r.valid
    BY <1>6 DEF IndInv, DataInv
  <2>3. UNCHANGED <<disk, bad>>
    BY DEF driver
  <2>4. r.valid /\ ~r.dirty => r.block \in bad \/ r.data = disk[r.block]
    BY <1>6 DEF IndInv, DataInv, Fresh
  <2> QED
    BY <1>6, <1>7, <1>8, <2>1, <2>2, <2>3, <2>4, DataChange
<1>18. PlaceInv'
  <2>1. got[p] = None
    BY DEF IndInv, PlaceInv
  <2>2. \A q \in Procs \ {p} : pc[q] \in Owning => cur[q] # None
    BY <1>10 DEF Owning
  <2> QED
    BY <1>2, <1>9, <2>1, <2>2, PlaceChange
<1> QED
  BY <1>11, <1>12, <1>13, <1>14, <1>16, <1>17, <1>18 DEF IndInv

\* A step that leaves everything but panic.
LEMMA NothingElse ==
  ASSUME IndInv, panic' \in BOOLEAN,
         UNCHANGED <<spin, nap, pc, cur, got, buf, queue, command, disk, bad, medium>>
  PROVE  IndInv'
<1>1. TypeOK'
  BY DEF IndInv, TypeOK
<1>2. RefInv' /\ OwnInv' /\ CommandInv'
  BY DEF IndInv, RefInv, OwnInv, CommandInv
<1>3. NapInv' /\ QueueInv'
  BY DEF IndInv, NapInv, QueueInv, Queued, AtDisk, Fresh
<1>4. DataInv' /\ PlaceInv'
  BY DEF IndInv, DataInv, PlaceInv, Fresh
<1> QED
  BY <1>1, <1>2, <1>3, <1>4 DEF IndInv

\* bget.
LEMMA BgetStep ==
  ASSUME IndInv, NEW p \in Procs, NEW k \in Blocks, bget(p, k)
  PROVE  IndInv'
<1>1. pc[p] = "idle" /\ nap[p].stage = "runs" /\ UNCHANGED <<got, driver, sleeping>>
  <2>1. Runs(p, "idle") /\ UNCHANGED <<got, driver, sleeping>>
    BY Zenon DEF bget
  <2> QED
    BY <2>1 DEF Runs, Awake
<1>2. ASSUME NEW b \in Cached(k),
             buf' = [buf EXCEPT ![b].refcnt = @ + 1], cur' = [cur EXCEPT ![p] = b], Goto(p, "lock"), UNCHANGED panic
      PROVE  IndInv'
  <2> DEFINE r == [buf[b] EXCEPT !.refcnt = buf[b].refcnt + 1]
  <2>1. b \in Bufs /\ buf[b].block = k
    BY <1>2 DEF Cached
  <2>2. buf' = [buf EXCEPT ![b] = r]
    BY <1>2, <2>1 DEF IndInv, TypeOK
  <2> QED
    BY <1>1, <1>2, <2>1, <2>2, GetStep DEF Goto
<1>3. ASSUME NEW b \in Unused, Cached(k) = {},
             buf' = [buf EXCEPT ![b] = [@ EXCEPT !.block = k, !.refcnt = 1, !.valid = FALSE]],
             cur' = [cur EXCEPT ![p] = b], Goto(p, "lock"), UNCHANGED panic
      PROVE  IndInv'
  <2> DEFINE r == [buf[b] EXCEPT !.block = k, !.refcnt = 1, !.valid = FALSE]
  <2>1. b \in Bufs
    BY <1>3 DEF Unused
  <2>2. buf' = [buf EXCEPT ![b] = r]
    BY <1>3, <2>1 DEF IndInv, TypeOK
  <2> QED
    BY <1>1, <1>3, <2>1, <2>2, GetStep DEF Goto
<1>4. CASE panic' = TRUE /\ UNCHANGED <<pc, cur, buf>>
  BY <1>1, <1>4, NothingElse DEF driver, sleeping
<1> QED
  BY <1>2, <1>3, <1>4, Zenon DEF bget

\* A step after which a process other than p still sleeps only for what it waits for.
LEMMA NapChange ==
  ASSUME IndInv, NEW p \in Procs,
         \A q \in Procs \ {p} : nap'[q].stage # "runs" =>
            /\ nap'[q] = nap[q] /\ pc'[q] = pc[q] /\ cur'[q] = cur[q]
            /\ nap[q].stage = "falls" => spin'[nap[q].lk] = spin[nap[q].lk]
            /\ pc[q] = "lock" /\ buf[cur[q]].owner # None => buf'[cur[q]].owner # None
            /\ q \in AtDisk /\ ~Fresh(cur[q]) => ~(buf'[cur[q]].valid /\ ~buf'[cur[q]].dirty),
         nap'[p].stage # "runs" =>
            /\ nap'[p].stage = "falls" => spin'[nap'[p].lk] = p
            /\ \/ /\ pc'[p] = "lock" /\ nap'[p].chan = <<"lock", cur'[p]>> /\ nap'[p].lk = cur'[p]
                  /\ buf'[cur'[p]].owner # None
               \/ /\ pc'[p] \in {"reading", "writing"} /\ nap'[p].chan = <<"io", cur'[p]>> /\ nap'[p].lk = "ide"
                  /\ ~(buf'[cur'[p]].valid /\ ~buf'[cur'[p]].dirty)
  PROVE  NapInv'
<1>1. ASSUME NEW q \in Procs \ {p}, nap'[q].stage # "runs"
      PROVE  /\ nap'[q].stage = "falls" => spin'[nap'[q].lk] = q
             /\ \/ /\ pc'[q] = "lock" /\ nap'[q].chan = <<"lock", cur'[q]>> /\ nap'[q].lk = cur'[q]
                   /\ buf'[cur'[q]].owner # None
                \/ /\ pc'[q] \in {"reading", "writing"} /\ nap'[q].chan = <<"io", cur'[q]>> /\ nap'[q].lk = "ide"
                   /\ ~(buf'[cur'[q]].valid /\ ~buf'[cur'[q]].dirty)
  BY <1>1 DEF IndInv, NapInv, AtDisk, Fresh
<1> QED
  BY <1>1 DEF NapInv, AtDisk, Fresh

\* sleep(ch, lk) leaves the others that fall asleep with their locks.
LEMMA CallsSleepStep ==
  ASSUME IndInv, NEW p \in Procs, NEW ch \in {"lock", "io"} \X Bufs, NEW lk \in {"ide"} \cup Bufs,
         Open(lk), CallsSleep(p, ch, lk)
  PROVE  /\ spin' \in [{"ide"} \cup Bufs -> Procs \cup {None}]
         /\ nap' \in [Procs -> [stage : {"runs", "falls", "sleeps"},
                                chan : {None} \cup ({"lock", "io"} \X Bufs), lk : {None, "ide"} \cup Bufs]]
         /\ nap'[p].stage = "falls" /\ nap'[p].chan = ch /\ nap'[p].lk = lk /\ spin'[lk] = p
         /\ \A q \in Procs \ {p} : /\ nap'[q] = nap[q]
                                   /\ nap[q].stage = "falls" => spin'[nap[q].lk] = spin[nap[q].lk]
<1>1. /\ nap' = [nap EXCEPT ![p] = [stage |-> "falls", chan |-> ch, lk |-> lk]]
      /\ spin' = [spin EXCEPT ![lk] = p] /\ spin[lk] = None
  BY DEF CallsSleep, SleepAfter, Open
<1>2. TypeOK
  BY DEF IndInv
<1>3. spin' \in [{"ide"} \cup Bufs -> Procs \cup {None}] /\ spin'[lk] = p
  BY <1>1, <1>2 DEF TypeOK
<1>4. [stage |-> "falls", chan |-> ch, lk |-> lk] \in
        [stage : {"runs", "falls", "sleeps"},
         chan : {None} \cup ({"lock", "io"} \X Bufs), lk : {None, "ide"} \cup Bufs]
  OBVIOUS
<1>5. /\ nap' \in [Procs -> [stage : {"runs", "falls", "sleeps"},
                             chan : {None} \cup ({"lock", "io"} \X Bufs), lk : {None, "ide"} \cup Bufs]]
      /\ nap'[p] = [stage |-> "falls", chan |-> ch, lk |-> lk]
      /\ \A q \in Procs \ {p} : nap'[q] = nap[q]
  BY <1>1, <1>2, <1>4 DEF TypeOK
<1>6. ASSUME NEW q \in Procs \ {p}, nap[q].stage = "falls"
      PROVE  spin'[nap[q].lk] = spin[nap[q].lk]
  <2>1. spin[nap[q].lk] = q /\ q # None
    BY <1>6, BuffersAssumption DEF IndInv, NapInv
  <2> QED
    BY <1>1, <1>2, <2>1 DEF TypeOK
<1> QED
  BY <1>3, <1>5, <1>6

\* A process that must wait for a lock or the disk changes nothing else.
LEMMA WaitStep ==
  ASSUME IndInv, NEW p \in Procs, NEW ch \in {"lock", "io"} \X Bufs, NEW lk \in {"ide"} \cup Bufs,
         Open(lk), CallsSleep(p, ch, lk),
         UNCHANGED <<pc, client, buf, driver, panic>>,
         \/ pc[p] = "lock" /\ ch = <<"lock", cur[p]>> /\ lk = cur[p] /\ buf[cur[p]].owner # None
         \/ p \in AtDisk /\ ch = <<"io", cur[p]>> /\ lk = "ide" /\ ~Fresh(cur[p])
  PROVE  IndInv'
<1>1. TypeOK'
  BY CallsSleepStep DEF IndInv, TypeOK, client, driver
<1>2. RefInv' /\ OwnInv'
  BY DEF IndInv, RefInv, OwnInv, client
<1>3. NapInv'
  BY CallsSleepStep, NapChange DEF AtDisk, Fresh, client
<1>4. QueueInv'
  BY DEF IndInv, QueueInv, Queued, Fresh, AtDisk, client, driver
<1>5. CommandInv'
  BY DEF IndInv, CommandInv, driver
<1>6. DataInv' /\ PlaceInv'
  BY DEF IndInv, DataInv, PlaceInv, Fresh, client, driver
<1> QED
  BY <1>1, <1>2, <1>3, <1>4, <1>5, <1>6 DEF IndInv

\* acquiresleep.
LEMMA AcquireStep ==
  ASSUME IndInv, NEW p \in Procs, acquiresleep(p)
  PROVE  IndInv'
<1> DEFINE b == cur[p]
           r == [buf[b] EXCEPT !.owner = p]
<1>1. pc[p] = "lock" /\ nap[p].stage = "runs" /\ Open(b) /\ UNCHANGED <<client, driver, panic>>
  BY DEF acquiresleep, Runs, Awake
<1>2. b \in Bufs
  BY <1>1, AtBuffer
<1>3. CASE buf[b].owner # None /\ CallsSleep(p, <<"lock", b>>, b) /\ UNCHANGED <<buf, pc>>
  BY <1>1, <1>2, <1>3, WaitStep
<1>4. ASSUME buf[b].owner = None, buf' = [buf EXCEPT ![b].owner = p], Goto(p, "own"), UNCHANGED sleeping
      PROVE  IndInv'
  <2>1. buf' = [buf EXCEPT ![b] = r]
    BY <1>2, <1>4 DEF IndInv, TypeOK
  <2>2. /\ r \in Buffer /\ r.block = buf[b].block /\ r.refcnt = buf[b].refcnt /\ r.valid = buf[b].valid
        /\ r.dirty = buf[b].dirty /\ r.data = buf[b].data /\ r.owner = p
    <3>1. buf[b] \in Buffer
      BY <1>2 DEF IndInv, TypeOK
    <3> QED
      BY <3>1 DEF Buffer
  <2> HIDE DEF r
  <2>3. buf' \in [Bufs -> Buffer] /\ buf'[b] = r /\ \A c \in Bufs \ {b} : buf'[c] = buf[c]
    BY <1>2, <2>1, <2>2, BufferChange DEF IndInv
  <2>4. pc'[p] = "own" /\ \A q \in Procs \ {p} : pc'[q] = pc[q]
    BY <1>4 DEF IndInv, TypeOK, Goto
  <2>5. cur' = cur /\ got' = got /\ disk' = disk /\ bad' = bad /\ nap' = nap /\ spin' = spin
    BY <1>1, <1>4 DEF client, driver, sleeping
  <2>6. TypeOK'
    BY <1>1, <1>4, <2>3, <2>5 DEF IndInv, TypeOK, driver, Goto
  <2>7. RefInv'
    BY <1>1, <2>2, <2>3, <2>4, <2>5, RefFrame DEF IndInv
  <2>8. OwnInv'
    <3>1. \A q \in Procs \ {p} : pc[q] \in Owning => cur[q] \in Bufs \ {b} /\ buf[cur[q]].owner = q
      BY <1>4, AtBuffer, BuffersAssumption DEF IndInv, OwnInv, Owning
    <3>2. \A q \in Procs : pc'[q] \in Owning => buf'[cur'[q]].owner = q
      BY <2>2, <2>3, <2>4, <2>5, <3>1
    <3>3. \A c \in Bufs \ {b} : buf[c].owner # None => /\ buf[c].owner \in Procs /\ cur[buf[c].owner] = c
                                                      /\ pc[buf[c].owner] \in Owning
      BY DEF IndInv, OwnInv, TypeOK, Buffer
    <3>4. \A c \in Bufs : buf'[c].owner # None => cur'[buf'[c].owner] = c /\ pc'[buf'[c].owner] \in Owning
      BY <1>1, <2>2, <2>3, <2>4, <2>5, <3>3 DEF Owning
    <3> QED
      BY <3>2, <3>4 DEF OwnInv
  <2>9. NapInv'
    <3>1. p # None
      BY BuffersAssumption
    <3>2. \A q \in Procs : nap[q].stage # "runs" => q # p /\ cur[q] \in Bufs
      BY <1>1, AtBuffer DEF IndInv, NapInv, AtDisk
    <3> QED
      BY <2>2, <2>3, <2>4, <2>5, <3>1, <3>2, NapFrame DEF Fresh
  <2>10. AtDisk' = AtDisk
    BY <1>1, <2>4 DEF AtDisk
  <2>11. QueueInv' /\ CommandInv'
    <3>1. \A q \in AtDisk : cur[q] \in Bufs
      BY AtBuffer DEF AtDisk
    <3> QED
      BY <1>1, <2>2, <2>3, <2>5, <2>10, <3>1, QueueFrame, CommandFrame DEF Fresh, driver
  <2>12. DataInv'
    <3>1. /\ buf[b].block # None => \A c \in Bufs \ {b} : buf[c].block # buf[b].block
          /\ buf[b].valid => buf[b].block # None
          /\ buf[b].dirty => buf[b].valid
          /\ buf[b].valid /\ ~buf[b].dirty => buf[b].block \in bad \/ buf[b].data = disk[buf[b].block]
      BY <1>2 DEF IndInv, DataInv, Fresh
    <3> QED
      BY <1>2, <2>2, <2>3, <2>5, <3>1, DataChange
  <2>13. PlaceInv'
    <3>1. got[p] = None
      BY <1>1 DEF IndInv, PlaceInv
    <3>2. \A q \in Procs : pc[q] \in Owning => cur[q] \in Bufs
      BY AtBuffer DEF Owning
    <3> QED
      BY <2>2, <2>3, <2>4, <2>5, <3>1, <3>2, PlaceChange
  <2> QED
    BY <1>1, <2>6, <2>7, <2>8, <2>9, <2>11, <2>12, <2>13 DEF IndInv
<1> QED
  BY <1>3, <1>4 DEF acquiresleep

\* A change of buffer b leaves what DataInv says of it.
LEMMA DataKept ==
  ASSUME IndInv, NEW b \in Bufs
  PROVE  /\ buf[b].block # None => \A c \in Bufs \ {b} : buf[c].block # buf[b].block
         /\ buf[b].valid => buf[b].block # None
         /\ buf[b].dirty => buf[b].valid
         /\ buf[b].valid /\ ~buf[b].dirty => buf[b].block \in bad \/ buf[b].data = disk[buf[b].block]
BY DEF IndInv, DataInv, Fresh

\* wakeup keeps the type of nap, and whoever does not run afterwards slept on.
LEMMA WakeupStep ==
  ASSUME IndInv, NEW ch, wakeup(ch)
  PROVE  /\ nap' \in [Procs -> [stage : {"runs", "falls", "sleeps"},
                                chan : {None} \cup ({"lock", "io"} \X Bufs), lk : {None, "ide"} \cup Bufs]]
         /\ \A q \in Procs : nap'[q].stage # "runs" =>
               nap'[q] = nap[q] /\ ~(nap[q].stage = "sleeps" /\ nap[q].chan = ch)
<1>1. Awake \in [stage : {"runs", "falls", "sleeps"},
                 chan : {None} \cup ({"lock", "io"} \X Bufs), lk : {None, "ide"} \cup Bufs]
  BY DEF Awake
<1>2. \A q \in Procs : nap'[q] = IF nap[q].stage = "sleeps" /\ nap[q].chan = ch THEN Awake ELSE nap[q]
  BY DEF wakeup, Woken, Sleepers
<1>3. nap' = [q \in Procs |-> nap'[q]]
  BY DEF wakeup, Woken
<1>4. Awake.stage = "runs"
  BY DEF Awake
<1> QED
  BY <1>1, <1>2, <1>3, <1>4 DEF IndInv, TypeOK

\* releasesleep.
LEMMA ReleaseStep ==
  ASSUME IndInv, NEW p \in Procs, releasesleep(p)
  PROVE  IndInv'
<1> DEFINE b == cur[p]
           r == [buf[b] EXCEPT !.owner = None]
<1>1. /\ pc[p] = "hold" /\ nap[p].stage = "runs" /\ Open(b) /\ UNCHANGED <<cur, driver, spin, panic>>
      /\ buf' = [buf EXCEPT ![b].owner = None] /\ wakeup(<<"lock", b>>)
      /\ got' = [got EXCEPT ![p] = None] /\ pc' = [pc EXCEPT ![p] = "put"]
  BY DEF releasesleep, Runs, Awake, Goto
<1>2. b \in Bufs /\ \A q \in Procs \ {p} : cur[q] = b => pc[q] \notin Owning
  BY <1>1, AtBuffer DEF Owning
<1>3. buf' = [buf EXCEPT ![b] = r]
  BY <1>1, <1>2 DEF IndInv, TypeOK
<1>4. /\ r \in Buffer /\ r.block = buf[b].block /\ r.refcnt = buf[b].refcnt /\ r.valid = buf[b].valid
      /\ r.dirty = buf[b].dirty /\ r.data = buf[b].data /\ r.owner = None
  <2>1. buf[b] \in Buffer
    BY <1>2 DEF IndInv, TypeOK
  <2> QED
    BY <2>1 DEF Buffer
<1> HIDE DEF r
<1>5. buf' \in [Bufs -> Buffer] /\ buf'[b] = r /\ \A c \in Bufs \ {b} : buf'[c] = buf[c]
  BY <1>2, <1>3, <1>4, BufferChange DEF IndInv
<1>6. /\ pc'[p] = "put" /\ got'[p] = None
      /\ \A q \in Procs \ {p} : pc'[q] = pc[q] /\ got'[q] = got[q]
  BY <1>1 DEF IndInv, TypeOK
<1>7. cur' = cur /\ disk' = disk /\ bad' = bad /\ spin' = spin /\ spin[b] = None
  BY <1>1 DEF driver, Open
<1>8. TypeOK'
  BY <1>1, <1>5, <1>7, WakeupStep DEF IndInv, TypeOK, driver
<1>9. RefInv'
  BY <1>1, <1>4, <1>5, <1>6, <1>7, RefFrame DEF IndInv
<1>10. OwnInv'
  <2>1. \A q \in Procs \ {p} : pc[q] \in Owning => cur[q] \in Bufs \ {b} /\ buf[cur[q]].owner = q
    BY <1>2, AtBuffer DEF IndInv, OwnInv, Owning
  <2>2. \A q \in Procs : pc'[q] \in Owning => buf'[cur'[q]].owner = q
    BY <1>5, <1>6, <1>7, <2>1 DEF Owning
  <2>3. \A c \in Bufs \ {b} : buf[c].owner # None => /\ buf[c].owner \in Procs /\ cur[buf[c].owner] = c
                                                     /\ pc[buf[c].owner] \in Owning
    BY DEF IndInv, OwnInv, TypeOK, Buffer
  <2>4. \A c \in Bufs : buf'[c].owner # None => cur'[buf'[c].owner] = c /\ pc'[buf'[c].owner] \in Owning
    BY <1>2, <1>4, <1>5, <1>6, <1>7, <2>3
  <2> QED
    BY <2>2, <2>4 DEF OwnInv
<1>11. NapInv'
  <2> SUFFICES ASSUME NEW q \in Procs, nap'[q].stage # "runs"
               PROVE  /\ nap'[q] = nap[q] /\ pc'[q] = pc[q] /\ cur'[q] = cur[q]
                      /\ nap[q].stage = "falls" => spin'[nap[q].lk] = spin[nap[q].lk]
                      /\ pc[q] = "lock" /\ buf[cur[q]].owner # None => buf'[cur[q]].owner # None
                      /\ q \in AtDisk /\ ~Fresh(cur[q]) => ~(buf'[cur[q]].valid /\ ~buf'[cur[q]].dirty)
    BY NapFrame
  <2>1. nap'[q] = nap[q] /\ ~(nap[q].stage = "sleeps" /\ nap[q].chan = <<"lock", b>>)
    BY <1>1, WakeupStep
  <2>2. q # p /\ cur[q] \in Bufs /\ nap[q].stage \in {"falls", "sleeps"}
    <3>1. nap[q].stage # "runs" /\ nap[q].stage \in {"runs", "falls", "sleeps"}
      BY <2>1 DEF IndInv, TypeOK
    <3>2. pc[q] \in {"lock", "reading", "writing"}
      BY <3>1 DEF IndInv, NapInv, AtDisk
    <3> QED
      BY <1>1, <3>1, <3>2, AtBuffer
  <2>3. pc[q] = "lock" => cur[q] # b
    BY <1>7, <2>1, <2>2, BuffersAssumption DEF IndInv, NapInv, AtDisk
  <2> QED
    BY <1>4, <1>5, <1>6, <1>7, <2>1, <2>2, <2>3 DEF Fresh
<1>12. AtDisk' = AtDisk
  BY <1>1, <1>6 DEF AtDisk
<1>13. QueueInv' /\ CommandInv'
  <2>1. \A q \in AtDisk : cur[q] \in Bufs
    BY AtBuffer DEF AtDisk
  <2> QED
    BY <1>1, <1>4, <1>5, <1>7, <1>12, <2>1, QueueFrame, CommandFrame DEF Fresh, driver
<1>14. DataInv'
  BY <1>2, <1>4, <1>5, <1>7, DataKept, DataChange
<1>15. PlaceInv'
  <2>1. \A q \in Procs : pc[q] \in Owning => cur[q] \in Bufs
    BY AtBuffer DEF Owning
  <2> QED
    BY <1>4, <1>5, <1>6, <1>7, <2>1, PlaceChange
<1> QED
  BY <1>1, <1>8, <1>9, <1>10, <1>11, <1>13, <1>14, <1>15 DEF IndInv

\* brelse.
LEMMA BrelseStep ==
  ASSUME IndInv, NEW p \in Procs, brelse(p)
  PROVE  IndInv'
<1> DEFINE b == cur[p]
           n == buf[b].refcnt - 1
           r == [buf[b] EXCEPT !.refcnt = n]
<1>1. /\ pc[p] = "put" /\ nap[p].stage = "runs" /\ UNCHANGED <<got, driver, sleeping, panic>>
      /\ buf' = [buf EXCEPT ![b].refcnt = n]
      /\ cur' = [cur EXCEPT ![p] = None] /\ pc' = [pc EXCEPT ![p] = "idle"]
  BY DEF brelse, Runs, Awake, Goto, Dropped
<1>2. b \in Bufs
  BY <1>1, AtBuffer
<1>3. buf' = [buf EXCEPT ![b] = r]
  BY <1>1, <1>2 DEF IndInv, TypeOK
<1>4. /\ cur' \in [Procs -> Bufs \cup {None}]
      /\ cur'[p] = None /\ \A q \in Procs \ {p} : cur'[q] = cur[q]
      /\ pc'[p] = "idle" /\ \A q \in Procs \ {p} : pc'[q] = pc[q]
  BY <1>1 DEF IndInv, TypeOK
<1>5. /\ {q \in Procs : cur'[q] = b} = {q \in Procs : cur[q] = b} \ {p}
      /\ \A c \in Bufs \ {b} : {q \in Procs : cur'[q] = c} = {q \in Procs : cur[q] = c}
  <2>1. b # None
    BY <1>2, BuffersAssumption
  <2>2. ASSUME NEW c \in Bufs \ {b}
        PROVE  {q \in Procs : cur'[q] = c} = {q \in Procs : cur[q] = c}
    <3>1. c # None
      BY BuffersAssumption
    <3> QED
      BY <1>4, <3>1
  <2> QED
    BY <1>4, <2>1, <2>2
<1>6. Cardinality({q \in Procs : cur'[q] = b}) = n /\ n \in 0..Cardinality(Procs)
  <2>1. IsFiniteSet({q \in Procs : cur[q] = b}) /\ buf[b].refcnt = Cardinality({q \in Procs : cur[q] = b})
    <3>1. cur \in [Procs -> Bufs \cup {None}]
      BY DEF IndInv, TypeOK
    <3>2. buf[b].refcnt = Cardinality({q \in Procs : cur[q] = b})
      BY <1>2 DEF IndInv, RefInv
    <3> QED
      BY <1>2, <3>1, <3>2, Counted
  <2>2. Cardinality({q \in Procs : cur[q] = b} \ {p}) = Cardinality({q \in Procs : cur[q] = b}) - 1
    BY <2>1, FS_RemoveElement
  <2>3. Cardinality({q \in Procs : cur'[q] = b}) \in 0..Cardinality(Procs)
    <3>1. cur' \in [Procs -> Bufs \cup {None}]
      BY <1>4
    <3> QED
      BY <1>2, <3>1, Counted
  <2> QED
    BY <1>5, <2>1, <2>2, <2>3
<1> HIDE DEF n
<1>7. /\ r \in Buffer /\ r.block = buf[b].block /\ r.refcnt = n /\ r.valid = buf[b].valid
      /\ r.dirty = buf[b].dirty /\ r.data = buf[b].data /\ r.owner = buf[b].owner
  <2>1. buf[b] \in Buffer
    BY <1>2 DEF IndInv, TypeOK
  <2> QED
    BY <1>6, <2>1 DEF Buffer
<1> HIDE DEF r
<1>8. buf' \in [Bufs -> Buffer] /\ buf'[b] = r /\ \A c \in Bufs \ {b} : buf'[c] = buf[c]
  BY <1>2, <1>3, <1>7, BufferChange DEF IndInv
<1>9. got' = got /\ disk' = disk /\ bad' = bad /\ nap' = nap /\ spin' = spin
  BY <1>1 DEF driver, sleeping
<1>10. \A q \in Procs : pc[q] # "idle" => cur[q] \in Bufs
  BY AtBuffer
<1>11. TypeOK'
  BY <1>1, <1>4, <1>8, <1>9 DEF IndInv, TypeOK, driver
<1>12. RefInv'
  <2>1. \A q \in Procs : pc'[q] = "idle" <=> cur'[q] = None
    BY <1>4 DEF IndInv, RefInv
  <2>2. ASSUME NEW c \in Bufs \ {b}
        PROVE  buf'[c].refcnt = Cardinality({q \in Procs : cur'[q] = c})
    <3>1. buf[c].refcnt = Cardinality({q \in Procs : cur[q] = c})
      BY DEF IndInv, RefInv
    <3> QED
      BY <1>5, <1>8, <3>1
  <2>3. buf'[b].refcnt = Cardinality({q \in Procs : cur'[q] = b})
    BY <1>6, <1>7, <1>8
  <2>4. \A q \in Procs : cur[q] # None => cur[q] \in Bufs /\ buf[cur[q]].block # None
    BY DEF IndInv, RefInv, TypeOK
  <2>5. \A q \in Procs : cur'[q] # None => buf'[cur'[q]].block # None
    BY <1>4, <1>7, <1>8, <2>4
  <2> QED
    BY <2>1, <2>2, <2>3, <2>5 DEF RefInv
<1>13. OwnInv'
  BY <1>1, <1>4, <1>7, <1>8, OwnFrame DEF Owning
<1>14. NapInv'
  <2>1. \A q \in Procs : nap[q].stage # "runs" => q # p /\ cur[q] \in Bufs
    BY <1>1, <1>10 DEF IndInv, NapInv, AtDisk
  <2> QED
    BY <1>4, <1>7, <1>8, <1>9, <2>1, NapFrame DEF Fresh
<1>15. AtDisk' = AtDisk /\ p \notin AtDisk /\ \A q \in AtDisk : cur[q] \in Bufs
  BY <1>1, <1>4, <1>10 DEF AtDisk
<1>16. QueueInv' /\ CommandInv'
  <2>1. \A q \in AtDisk : cur'[q] = cur[q] /\ cur[q] \in Bufs
    BY <1>4, <1>15 DEF AtDisk
  <2> QED
    BY <1>1, <1>7, <1>8, <1>15, <2>1, QueueFrame, CommandFrame DEF Fresh, driver
<1>17. DataInv'
  BY <1>2, <1>7, <1>8, <1>9, DataKept, DataChange
<1>18. PlaceInv'
  <2>1. got[p] = None
    BY <1>1 DEF IndInv, PlaceInv
  <2>2. \A q \in Procs : pc[q] \in Owning => cur[q] \in Bufs
    BY AtBuffer DEF Owning
  <2> QED
    BY <1>4, <1>7, <1>8, <1>9, <2>1, <2>2, PlaceChange
<1> QED
  BY <1>1, <1>11, <1>12, <1>13, <1>14, <1>16, <1>17, <1>18 DEF IndInv

\* A process that fell asleep has given its lock back.
LEMMA SleepsStep ==
  ASSUME IndInv, NEW p \in Procs, Sleeps(p)
  PROVE  IndInv'
<1>1. /\ nap[p].stage = "falls" /\ spin' = [spin EXCEPT ![nap[p].lk] = None]
      /\ nap' = [nap EXCEPT ![p].stage = "sleeps"]
      /\ UNCHANGED <<pc, cur, got, buf, queue, command, disk, bad, medium, panic>>
  BY DEF Sleeps, FallsAsleep, client, driver
<1>2. /\ nap[p] \in [stage : {"runs", "falls", "sleeps"},
                     chan : {None} \cup ({"lock", "io"} \X Bufs), lk : {None, "ide"} \cup Bufs]
      /\ nap' = [nap EXCEPT ![p] = [nap[p] EXCEPT !.stage = "sleeps"]]
  BY <1>1 DEF IndInv, TypeOK
<1> DEFINE r == [nap[p] EXCEPT !.stage = "sleeps"]
<1>3. /\ r \in [stage : {"runs", "falls", "sleeps"},
                chan : {None} \cup ({"lock", "io"} \X Bufs), lk : {None, "ide"} \cup Bufs]
      /\ r.stage = "sleeps" /\ r.chan = nap[p].chan /\ r.lk = nap[p].lk
  BY <1>2
<1>4. nap' = [nap EXCEPT ![p] = r]
  BY <1>2
<1> HIDE DEF r
<1> DEFINE N == [stage : {"runs", "falls", "sleeps"},
                 chan : {None} \cup ({"lock", "io"} \X Bufs), lk : {None, "ide"} \cup Bufs]
<1>11. nap \in [Procs -> N] /\ r \in N
  BY <1>3 DEF IndInv, TypeOK
<1> HIDE DEF N
<1>12. nap' \in [Procs -> N] /\ nap'[p] = r /\ \A q \in Procs \ {p} : nap'[q] = nap[q]
  BY <1>4, <1>11
<1>5. TypeOK'
  <2>1. spin' \in [{"ide"} \cup Bufs -> Procs \cup {None}]
    BY <1>1 DEF IndInv, TypeOK
  <2> QED
    BY <1>1, <1>12, <2>1 DEF IndInv, TypeOK, N
<1>6. RefInv' /\ OwnInv'
  BY <1>1 DEF IndInv, RefInv, OwnInv
<1>7. NapInv'
  <2>1. spin[nap[p].lk] = p
    BY <1>1 DEF IndInv, NapInv
  <2>2. ASSUME NEW q \in Procs \ {p}, nap[q].stage = "falls"
        PROVE  spin'[nap[q].lk] = spin[nap[q].lk]
    <3>1. spin[nap[q].lk] = q
      BY <2>2 DEF IndInv, NapInv
    <3>2. nap[q].lk # nap[p].lk
      BY <2>1, <3>1
    <3> QED
      BY <1>1, <3>2 DEF IndInv, TypeOK
  <2>3. \/ pc[p] = "lock" /\ nap[p].chan = <<"lock", cur[p]>> /\ nap[p].lk = cur[p] /\ buf[cur[p]].owner # None
        \/ p \in AtDisk /\ nap[p].chan = <<"io", cur[p]>> /\ nap[p].lk = "ide" /\ ~Fresh(cur[p])
    BY <1>1 DEF IndInv, NapInv
  <2> QED
    BY <1>1, <1>3, <1>12, <2>2, <2>3, NapChange DEF AtDisk, Fresh
<1>8. QueueInv'
  BY <1>1 DEF IndInv, QueueInv, Queued, Fresh, AtDisk
<1>9. CommandInv'
  BY <1>1 DEF IndInv, CommandInv
<1>10. DataInv' /\ PlaceInv'
  BY <1>1 DEF IndInv, DataInv, PlaceInv, Fresh
<1> QED
  BY <1>1, <1>5, <1>6, <1>7, <1>8, <1>9, <1>10 DEF IndInv

\* iderw's loop.
LEMMA LoopsStep ==
  ASSUME IndInv, NEW p \in Procs, iderwLoops(p)
  PROVE  IndInv'
<1> DEFINE b == cur[p]
           to == IF pc[p] = "reading" THEN "own" ELSE "hold"
<1>1. /\ pc[p] \in {"reading", "writing"} /\ nap[p].stage = "runs" /\ Open("ide")
      /\ UNCHANGED <<client, buf, driver, panic>>
  BY DEF iderwLoops, Runs, Awake
<1>2. b \in Bufs /\ p \in AtDisk /\ \A q \in Procs \ {p} : cur[q] = b => pc[q] \notin Owning
  BY <1>1, AtBuffer DEF Owning, AtDisk
<1>3. CASE ~Fresh(b) /\ CallsSleep(p, <<"io", b>>, "ide") /\ UNCHANGED pc
  BY <1>1, <1>2, <1>3, WaitStep
<1>4. ASSUME Fresh(b), Goto(p, to), UNCHANGED sleeping
      PROVE  IndInv'
  <2>1. pc' = [pc EXCEPT ![p] = to] /\ nap' = nap /\ spin' = spin
    BY <1>4 DEF Goto, sleeping
  <2>2. pc'[p] = to /\ to \in {"own", "hold"} /\ \A q \in Procs \ {p} : pc'[q] = pc[q]
    BY <2>1 DEF IndInv, TypeOK
  <2>3. UNCHANGED <<cur, got, buf, queue, command, disk, bad, medium, panic>>
    BY <1>1 DEF client, driver
  <2>4. TypeOK'
    BY <2>1, <2>2, <2>3 DEF IndInv, TypeOK
  <2>5. RefInv' /\ OwnInv'
    BY <1>1, <2>2, <2>3, RefFrame, OwnFrame DEF IndInv, Owning
  <2>6. NapInv'
    BY <1>1, <2>1, <2>2, <2>3, NapFrame DEF Fresh
  <2>7. AtDisk' = AtDisk \ {p}
    BY <2>2 DEF AtDisk
  <2>8. QueueInv'
    <3>1. \A c \in Bufs : c \in Queued <=> ~Fresh(c) /\ \E q \in AtDisk : cur[q] = c
      BY DEF IndInv, QueueInv
    <3>2. \A c \in Bufs : c \in Queued <=> ~Fresh(c) /\ \E q \in AtDisk \ {p} : cur[q] = c
      BY <1>4, <3>1
    <3> QED
      BY <2>3, <2>7, <3>2 DEF IndInv, QueueInv, Queued, Fresh
  <2>9. CommandInv' /\ DataInv'
    BY <2>3 DEF IndInv, CommandInv, DataInv, Fresh
  <2>10. PlaceInv'
    <3>1. got[p] = None
      BY <1>1 DEF IndInv, PlaceInv
    <3> QED
      BY <1>4, <2>2, <2>3, <3>1, PlaceChange DEF Fresh
  <2> QED
    BY <2>3, <2>4, <2>5, <2>6, <2>8, <2>9, <2>10 DEF IndInv
<1> QED
  BY <1>3, <1>4 DEF iderwLoops, Fresh

\* Who is about to use the disk has the only claim to its buffer, which is not in the queue.
LEMMA BeforeDisk ==
  ASSUME IndInv, NEW p \in Procs, pc[p] \in {"read", "write"}
  PROVE  /\ cur[p] \in Bufs /\ cur[p] \notin Queued /\ ~Fresh(cur[p]) /\ got[p] = None
         /\ \A q \in Procs \ {p} : cur[q] = cur[p] => pc[q] \notin Owning
         /\ p \notin AtDisk /\ \A q \in AtDisk : cur[q] \in Bufs \ {cur[p]}
         /\ buf[cur[p]].block \in Blocks
<1>1. /\ cur[p] \in Bufs /\ buf[cur[p]].block \in Blocks
      /\ \A q \in Procs \ {p} : cur[q] = cur[p] => pc[q] \notin Owning
  BY AtBuffer DEF Owning
<1>2. p \notin AtDisk /\ \A q \in AtDisk : cur[q] \in Bufs \ {cur[p]}
  BY <1>1, AtBuffer DEF AtDisk, Owning
<1>3. ~Fresh(cur[p]) /\ got[p] = None
  BY DEF IndInv, PlaceInv, Fresh
<1>4. cur[p] \notin Queued
  BY <1>1, <1>2 DEF IndInv, QueueInv
<1> QED
  BY <1>1, <1>2, <1>3, <1>4

\* memide.c's iderw.
LEMMA MemoryStep ==
  ASSUME IndInv, NEW p \in Procs, memiderw(p)
  PROVE  IndInv'
<1> DEFINE b == cur[p]
           k == buf[b].block
           v == IF buf[b].dirty THEN buf[b].data ELSE disk[k]
           r == [buf[b] EXCEPT !.data = v, !.valid = TRUE, !.dirty = FALSE]
<1>1. /\ nap[p].stage = "runs" /\ UNCHANGED <<client, queue, command, bad, medium, sleeping, panic>>
      /\ \/ pc[p] = "read" /\ pc' = [pc EXCEPT ![p] = "own"]
         \/ pc[p] = "write" /\ pc' = [pc EXCEPT ![p] = "hold"]
      /\ disk' = IF buf[b].dirty THEN [disk EXCEPT ![k] = buf[b].data] ELSE disk
  BY DEF memiderw, Runs, Goto, Awake
<1>2. b \in Bufs /\ k \in Blocks /\ buf[b] \in Buffer
  BY <1>1, BeforeDisk DEF IndInv, TypeOK
<1>3. buf' = [buf EXCEPT ![b] = r]
  BY DEF memiderw
<1>4. v \in 0..Values-1
  BY <1>2 DEF IndInv, TypeOK, Buffer
<1>5. /\ disk' \in [Blocks -> 0..Values-1] /\ disk'[k] = v
      /\ \A j \in Blocks : j # k => disk'[j] = disk[j]
  BY <1>1, <1>2, <1>4 DEF IndInv, TypeOK
<1> HIDE DEF v
<1>6. /\ r \in Buffer /\ r.block = k /\ r.refcnt = buf[b].refcnt /\ r.valid = TRUE
      /\ r.dirty = FALSE /\ r.data = v /\ r.owner = buf[b].owner
  BY <1>2, <1>4 DEF Buffer
<1> HIDE DEF r
<1>7. buf' \in [Bufs -> Buffer] /\ buf'[b] = r /\ \A c \in Bufs \ {b} : buf'[c] = buf[c]
  BY <1>2, <1>3, <1>6, BufferChange DEF IndInv
<1>8. pc'[p] \in {"own", "hold"} /\ pc[p] \in {"read", "write"} /\ \A q \in Procs \ {p} : pc'[q] = pc[q]
  BY <1>1 DEF IndInv, TypeOK
<1>9. UNCHANGED <<cur, got, queue, command, bad, medium, nap, spin, panic>>
  BY <1>1 DEF client, sleeping
<1>10. TypeOK'
  <2>1. pc' \in [Procs -> {"idle", "lock", "own", "read", "reading", "write", "writing", "hold", "put"}]
    <3>1. pc \in [Procs -> {"idle", "lock", "own", "read", "reading", "write", "writing", "hold", "put"}]
      BY DEF IndInv, TypeOK
    <3> QED
      BY <1>1, <3>1
  <2> QED
    BY <1>5, <1>7, <1>9, <2>1 DEF IndInv, TypeOK
<1>11. RefInv'
  BY <1>6, <1>7, <1>8, <1>9, RefFrame DEF IndInv
<1>12. OwnInv'
  BY <1>6, <1>7, <1>8, <1>9, OwnFrame DEF Owning
<1>13. AtDisk' = AtDisk /\ p \notin AtDisk /\ \A q \in AtDisk : cur[q] \in Bufs \ {b}
  BY <1>8, BeforeDisk DEF AtDisk
<1>14. NapInv'
  <2>1. \A q \in Procs : nap[q].stage # "runs" => q # p /\ cur[q] \in Bufs
    BY <1>1, AtBuffer DEF IndInv, NapInv, AtDisk
  <2> QED
    BY <1>6, <1>7, <1>8, <1>9, <1>13, <2>1, NapFrame DEF Fresh
<1>15. QueueInv'
  BY <1>7, <1>9, <1>13, QueueFrame DEF Fresh
<1>16. CommandInv'
  <2>1. queue # <<>> => Head(queue) \in Queued /\ Head(queue) \in Bufs
    BY DEF IndInv, TypeOK, Queued
  <2>2. queue # <<>> => Head(queue) \in Bufs \ {b} /\ Head(queue) \in Queued
    BY <1>8, <2>1, BeforeDisk
  <2>3. queue # <<>> => \E q \in AtDisk : cur[q] = Head(queue)
    BY <2>2 DEF IndInv, QueueInv
  <2>4. queue # <<>> => command.block \in Blocks /\ command.block # k
    BY <1>2, <2>2, <2>3, AtBuffer, BuffersAssumption DEF IndInv, CommandInv, DataInv, AtDisk
  <2> QED
    BY <1>5, <1>7, <1>9, <2>2, <2>4 DEF IndInv, CommandInv
<1>17. DataInv'
  <2>1. \A c \in Bufs \ {b} : buf[c].block # k
    BY <1>2, BuffersAssumption DEF IndInv, DataInv
  <2>2. k # None
    BY <1>2, BuffersAssumption
  <2> QED
    BY <1>2, <1>5, <1>6, <1>7, <1>9, <2>1, <2>2, DataChange
<1>18. PlaceInv'
  <2>1. got[p] = None
    BY <1>8, BeforeDisk
  <2>2. \A q \in Procs \ {p} : pc[q] \in Owning => cur[q] \in Bufs \ {b}
    BY <1>8, BeforeDisk, AtBuffer DEF Owning
  <2> QED
    BY <1>6, <1>7, <1>8, <1>9, <2>1, <2>2, PlaceChange
<1> QED
  BY <1>9, <1>10, <1>11, <1>12, <1>14, <1>15, <1>16, <1>17, <1>18 DEF IndInv

\* The first request in the queue has its process at the disk.
LEMMA FirstRequest ==
  ASSUME IndInv, queue # <<>>
  PROVE  /\ Head(queue) \in Bufs /\ Head(queue) \in Queued /\ ~Fresh(Head(queue))
         /\ \E p \in AtDisk : cur[p] = Head(queue)
         /\ buf[Head(queue)].block \in Blocks
         /\ Tail(queue) \in Seq(Bufs) /\ {Tail(queue)[i] : i \in DOMAIN Tail(queue)} = Queued \ {Head(queue)}
         /\ \A i, j \in DOMAIN Tail(queue) : Tail(queue)[i] = Tail(queue)[j] => i = j
<1>1. queue \in Seq(Bufs) /\ Len(queue) \in Nat \ {0} /\ Head(queue) = queue[1] /\ DOMAIN queue = 1..Len(queue)
  BY DEF IndInv, TypeOK
<1>2. Head(queue) \in Bufs /\ Head(queue) \in Queued
  BY <1>1 DEF Queued
<1>3. ~Fresh(Head(queue)) /\ \E p \in AtDisk : cur[p] = Head(queue)
  BY <1>2 DEF IndInv, QueueInv
<1>4. buf[Head(queue)].block \in Blocks
  BY <1>3, AtBuffer DEF AtDisk
<1>5. /\ Tail(queue) \in Seq(Bufs) /\ DOMAIN Tail(queue) = 1..Len(queue)-1
      /\ \A i \in 1..Len(queue)-1 : Tail(queue)[i] = queue[i + 1]
  BY <1>1
<1>6. \A i, j \in 1..Len(queue) : queue[i] = queue[j] => i = j
  BY <1>1 DEF IndInv, QueueInv
<1>7. {Tail(queue)[i] : i \in DOMAIN Tail(queue)} = Queued \ {Head(queue)}
  <2>1. ASSUME NEW i \in 1..Len(queue)-1
        PROVE  Tail(queue)[i] \in Queued \ {Head(queue)}
    BY <1>1, <1>5, <1>6 DEF Queued
  <2>2. ASSUME NEW c \in Queued, c # Head(queue)
        PROVE  \E i \in 1..Len(queue)-1 : Tail(queue)[i] = c
    <3>1. PICK j \in 1..Len(queue) : queue[j] = c
      BY <1>1 DEF Queued
    <3>2. j - 1 \in 1..Len(queue)-1 /\ Tail(queue)[j - 1] = c
      BY <1>1, <1>5, <2>2, <3>1
    <3> QED
      BY <3>2
  <2>3. {Tail(queue)[i] : i \in 1..Len(queue)-1} \subseteq Queued \ {Head(queue)}
    BY <2>1
  <2>4. Queued \ {Head(queue)} \subseteq {Tail(queue)[i] : i \in 1..Len(queue)-1}
    BY <2>2
  <2> QED
    BY <1>5, <2>3, <2>4
<1>8. ASSUME NEW i \in 1..Len(queue)-1, NEW j \in 1..Len(queue)-1, Tail(queue)[i] = Tail(queue)[j]
      PROVE  i = j
  <2>1. queue[i + 1] = queue[j + 1] /\ i + 1 \in 1..Len(queue) /\ j + 1 \in 1..Len(queue)
    BY <1>1, <1>5, <1>8
  <2> QED
    BY <1>6, <2>1
<1> QED
  BY <1>2, <1>3, <1>4, <1>5, <1>7, <1>8

\* What idestart tells the controller.
LEMMA CommandType ==
  ASSUME TypeOK, NEW b \in Bufs
  PROVE  [block |-> buf[b].block, write |-> buf[b].dirty,
          data |-> IF buf[b].dirty THEN buf[b].data ELSE 0, done |-> FALSE, failed |-> FALSE]
            \in [block : Blocks \cup {None}, write : BOOLEAN, data : 0..Values-1, done : BOOLEAN,
          failed : BOOLEAN]
<1> DEFINE v == IF buf[b].dirty THEN buf[b].data ELSE 0
<1>1. buf[b].block \in Blocks \cup {None} /\ buf[b].dirty \in BOOLEAN /\ buf[b].data \in 0..Values-1
  BY DEF TypeOK, Buffer
<1>2. v \in 0..Values-1
  BY <1>1, BuffersAssumption
<1> HIDE DEF v
<1>3. [block |-> buf[b].block, write |-> buf[b].dirty, data |-> v, done |-> FALSE, failed |-> FALSE]
        \in [block : Blocks \cup {None}, write : BOOLEAN, data : 0..Values-1, done : BOOLEAN,
          failed : BOOLEAN]
  BY <1>1, <1>2
<1> QED
  BY <1>3 DEF v

\* The disk carries out the first request or fails on it: no clean buffer holds another version
\* of the block, or its last command failed.
LEMMA FinishStep ==
  ASSUME IndInv, DiskFinishes \/ DiskFails
  PROVE  IndInv'
<1> DEFINE h == Head(queue)
           k == command.block
<1>1. /\ k # None /\ command.done = FALSE
      /\ UNCHANGED <<pc, cur, got, buf, queue, medium, nap, spin, panic>>
  BY DEF DiskFinishes, DiskFails, client, sleeping, IndInv, TypeOK
<1>2. queue # <<>>
  BY <1>1 DEF IndInv, CommandInv
<1>3. /\ h \in Bufs /\ k = buf[h].block /\ command.write = buf[h].dirty /\ ~Fresh(h) /\ k \in Blocks
      /\ command.write => command.data = buf[h].data
      /\ ~command.failed
  BY <1>1, <1>2, FirstRequest DEF IndInv, CommandInv, TypeOK
<1>4. TypeOK
  BY DEF IndInv
<1>5. /\ disk' \in [Blocks -> 0..Values-1] /\ bad' \subseteq Blocks
      /\ \A j \in Blocks : j # k => disk'[j] = disk[j] /\ (j \in bad => j \in bad')
      /\ command' \in [block : Blocks \cup {None}, write : BOOLEAN, data : 0..Values-1, done : BOOLEAN,
                       failed : BOOLEAN]
      /\ command'.block = k /\ command'.write = command.write /\ command'.done
      /\ k \in bad' \/ (~command'.failed /\ command'.data = disk'[k])
      /\ command.write => command'.data = command.data
  <2>1. CASE DiskFinishes /\ command.write
    <3>1. /\ disk' = [disk EXCEPT ![k] = command.data] /\ command' = [command EXCEPT !.done = TRUE]
          /\ bad' = bad \ {k}
      BY <2>1 DEF DiskFinishes
    <3> QED
      BY <1>3, <1>4, <2>1, <3>1 DEF TypeOK
  <2>2. CASE DiskFinishes /\ ~command.write
    <3>1. disk' = disk /\ command' = [command EXCEPT !.done = TRUE, !.data = disk[k]] /\ bad' = bad \ {k}
      BY <2>2 DEF DiskFinishes
    <3> QED
      BY <1>3, <1>4, <2>2, <3>1 DEF TypeOK
  <2>3. CASE DiskFails
    <3>1. /\ disk' = disk \/ \E v \in 0..Values-1 : disk' = [disk EXCEPT ![k] = v]
          /\ command' = [command EXCEPT !.done = TRUE, !.failed = TRUE] /\ bad' = bad \cup {k}
      BY <2>3 DEF DiskFails
    <3>2. /\ bad' \subseteq Blocks /\ k \in bad' /\ \A j \in bad : j \in bad'
          /\ disk' \in [Blocks -> 0..Values-1] /\ \A j \in Blocks : j # k => disk'[j] = disk[j]
      BY <1>3, <1>4, <3>1 DEF TypeOK
    <3>3. /\ command' \in [block : Blocks \cup {None}, write : BOOLEAN, data : 0..Values-1, done : BOOLEAN,
                           failed : BOOLEAN]
          /\ command'.block = k /\ command'.write = command.write /\ command'.done
          /\ command'.data = command.data
      BY <1>4, <3>1 DEF TypeOK
    <3> QED
      BY <3>2, <3>3
  <2> QED
    BY <2>1, <2>2, <2>3
<1>6. TypeOK'
  BY <1>1, <1>4, <1>5 DEF TypeOK
<1>7. RefInv' /\ OwnInv' /\ PlaceInv'
  BY <1>1 DEF IndInv, RefInv, OwnInv, PlaceInv
<1>8. NapInv'
  BY <1>1 DEF IndInv, NapInv, AtDisk, Fresh
<1>9. QueueInv'
  BY <1>1 DEF IndInv, QueueInv, Queued, AtDisk, Fresh
<1>10. CommandInv'
  BY <1>1, <1>2, <1>3, <1>5 DEF CommandInv
<1>11. DataInv'
  <2>1. ~(buf'[h].valid /\ ~buf'[h].dirty) /\ buf' = buf
    BY <1>1, <1>3 DEF Fresh
  <2> QED
    BY <1>3, <1>5, <2>1, DataKept, DataChange
<1> QED
  BY <1>1, <1>6, <1>7, <1>8, <1>9, <1>10, <1>11 DEF IndInv

\* The interrupt handler.
LEMMA InterruptStep ==
  ASSUME IndInv, ideintr
  PROVE  IndInv'
<1> DEFINE b == Head(queue)
           v == IF buf[b].dirty \/ command.failed THEN buf[b].data ELSE command.data
           r == [buf[b] EXCEPT !.data = v, !.valid = TRUE, !.dirty = FALSE]
           t == Tail(queue)
           rest == {t[i] : i \in DOMAIN t}
<1>1. /\ command.done /\ queue # <<>> /\ spin["ide"] = None /\ queue' = t /\ wakeup(<<"io", b>>)
      /\ UNCHANGED <<pc, cur, got, disk, bad, medium, spin, panic>>
  BY Zenon DEF ideintr, client, Open
<1>2. buf' = [buf EXCEPT ![b] = r]
  BY Zenon DEF ideintr
<1>3. IF t # <<>>
      THEN command' = [block |-> buf[Head(t)].block, write |-> buf[Head(t)].dirty,
                       data |-> IF buf[Head(t)].dirty THEN buf[Head(t)].data ELSE 0, done |-> FALSE, failed |-> FALSE]
      ELSE command' = NoCommand
  BY <1>1 DEF ideintr, idestart
<1>4. /\ b \in Bufs /\ buf[b] \in Buffer /\ ~Fresh(b) /\ buf[b].block \in Blocks
      /\ t \in Seq(Bufs) /\ rest = Queued \ {b} /\ b \in Queued
      /\ \A i, j \in DOMAIN t : t[i] = t[j] => i = j
  BY <1>1, FirstRequest DEF IndInv, TypeOK
<1>5. PICK p \in AtDisk : cur[p] = b
  BY <1>1, FirstRequest
<1>6. /\ p \in Procs /\ pc[p] \in {"reading", "writing"}
      /\ \A q \in Procs \ {p} : pc[q] \in Owning => cur[q] \in Bufs \ {b}
  BY <1>5, AtBuffer DEF AtDisk, Owning
<1>7. v \in 0..Values-1 /\ (buf[b].block \in bad \/ v = disk[buf[b].block])
  <2>1. /\ command.block = buf[b].block /\ command.write = buf[b].dirty
        /\ command.block \in bad \/ (~command.failed /\ command.data = disk[command.block])
        /\ command.write => command.data = buf[b].data
    BY <1>1 DEF IndInv, CommandInv
  <2> QED
    BY <1>4, <2>1 DEF IndInv, TypeOK, Buffer
<1> HIDE DEF v
<1>8. /\ r \in Buffer /\ r.block = buf[b].block /\ r.refcnt = buf[b].refcnt /\ r.valid = TRUE
      /\ r.dirty = FALSE /\ r.data = v /\ r.owner = buf[b].owner
  BY <1>4, <1>7 DEF Buffer
<1> HIDE DEF r
<1>9. buf' \in [Bufs -> Buffer] /\ buf'[b] = r /\ \A c \in Bufs \ {b} : buf'[c] = buf[c]
  BY <1>2, <1>4, <1>8, BufferChange DEF IndInv
<1>10. t # <<>> => Head(t) \in rest /\ Head(t) \in Bufs \ {b}
  BY <1>4
<1>11. TypeOK'
  <2>1. command' \in [block : Blocks \cup {None}, write : BOOLEAN, data : 0..Values-1, done : BOOLEAN,
          failed : BOOLEAN]
    <3>1. NoCommand \in [block : Blocks \cup {None}, write : BOOLEAN, data : 0..Values-1, done : BOOLEAN,
          failed : BOOLEAN]
      BY BuffersAssumption DEF NoCommand
    <3>2. CASE t = <<>>
      <4>1. command' = NoCommand
        BY <1>3, <3>2
      <4> QED
        BY <3>1, <4>1
    <3>3. CASE t # <<>>
      <4>1. Head(t) \in Bufs
        BY <1>10, <3>3
      <4>2. command' = [block |-> buf[Head(t)].block, write |-> buf[Head(t)].dirty,
                        data |-> IF buf[Head(t)].dirty THEN buf[Head(t)].data ELSE 0, done |-> FALSE, failed |-> FALSE]
        BY <1>3, <3>3
      <4> QED
        BY <4>1, <4>2, CommandType DEF IndInv
    <3> QED
      BY <3>2, <3>3
  <2> QED
    BY <1>1, <1>4, <1>9, <2>1, WakeupStep DEF IndInv, TypeOK
<1>12. RefInv'
  BY <1>1, <1>8, <1>9, RefFrame DEF IndInv
<1>13. OwnInv'
  BY <1>1, <1>8, <1>9, OwnFrame
<1>14. NapInv'
  <2> SUFFICES ASSUME NEW q \in Procs, nap'[q].stage # "runs"
               PROVE  /\ nap'[q] = nap[q] /\ pc'[q] = pc[q] /\ cur'[q] = cur[q]
                      /\ nap[q].stage = "falls" => spin'[nap[q].lk] = spin[nap[q].lk]
                      /\ pc[q] = "lock" /\ buf[cur[q]].owner # None => buf'[cur[q]].owner # None
                      /\ q \in AtDisk /\ ~Fresh(cur[q]) => ~(buf'[cur[q]].valid /\ ~buf'[cur[q]].dirty)
    BY NapFrame
  <2>1. nap'[q] = nap[q] /\ ~(nap[q].stage = "sleeps" /\ nap[q].chan = <<"io", b>>)
    BY <1>1, WakeupStep
  <2>2. nap[q].stage \in {"falls", "sleeps"} /\ pc[q] \in {"lock", "reading", "writing"}
    <3>1. nap[q].stage # "runs" /\ nap[q].stage \in {"runs", "falls", "sleeps"}
      BY <2>1 DEF IndInv, TypeOK
    <3> QED
      BY <3>1 DEF IndInv, NapInv, AtDisk
  <2>3. cur[q] \in Bufs
    BY <2>2, AtBuffer
  <2>4. q \in AtDisk => cur[q] # b
    BY <1>1, <2>1, <2>2, BuffersAssumption DEF IndInv, NapInv, AtDisk
  <2> QED
    BY <1>1, <1>8, <1>9, <2>1, <2>3, <2>4 DEF Fresh
<1>15. AtDisk' = AtDisk
  BY <1>1 DEF AtDisk
<1>16. QueueInv'
  <2>1. Queued' = Queued \ {b}
    BY <1>1, <1>4 DEF Queued
  <2>2. \A c \in Bufs : c \in Queued <=> ~Fresh(c) /\ \E q \in AtDisk : cur[q] = c
    BY DEF IndInv, QueueInv
  <2>3. \A c \in Bufs : c \in Queued' <=> ~(buf'[c].valid /\ ~buf'[c].dirty) /\ \E q \in AtDisk : cur[q] = c
    BY <1>8, <1>9, <2>1, <2>2 DEF Fresh
  <2> QED
    BY <1>1, <1>4, <1>15, <2>3 DEF QueueInv, Fresh
<1>17. CommandInv'
  <2>1. CASE t = <<>>
    BY <1>1, <1>3, <2>1 DEF CommandInv, NoCommand
  <2>2. CASE t # <<>>
    <3>1. buf'[Head(t)] = buf[Head(t)]
      BY <1>9, <1>10, <2>2
    <3> QED
      BY <1>1, <1>3, <2>2, <3>1 DEF CommandInv
  <2> QED
    BY <2>1, <2>2
<1>18. DataInv'
  <2>1. /\ r.block # None => \A c \in Bufs \ {b} : buf[c].block # r.block
        /\ r.block # None
    BY <1>4, <1>8, DataKept, BuffersAssumption
  <2>2. disk' = disk /\ bad' = bad
    BY <1>1
  <2> QED
    BY <1>4, <1>7, <1>8, <1>9, <2>1, <2>2, DataChange
<1>19. PlaceInv'
  <2>1. got[p] = None
    BY <1>6 DEF IndInv, PlaceInv
  <2> QED
    BY <1>1, <1>5, <1>6, <1>8, <1>9, <2>1, PlaceChange
<1> QED
  BY <1>1, <1>11, <1>12, <1>13, <1>14, <1>16, <1>17, <1>18, <1>19 DEF IndInv

\* iderw puts a buffer in the queue that is not there yet.
LEMMA IderwStep ==
  ASSUME IndInv, NEW p \in Procs, iderw(p)
  PROVE  IndInv'
<1> DEFINE b == cur[p]
           to == IF pc[p] = "read" THEN "reading" ELSE "writing"
<1>1. /\ pc[p] \in {"read", "write"} /\ nap[p].stage = "runs" /\ Open("ide")
      /\ queue' = Append(queue, b) /\ CallsSleep(p, <<"io", b>>, "ide")
      /\ pc' = [pc EXCEPT ![p] = to]
      /\ UNCHANGED <<cur, got, buf, disk, bad, medium, panic>>
  BY DEF iderw, Runs, Awake, Goto, client
<1>2. /\ b \in Bufs /\ b \notin Queued /\ ~Fresh(b) /\ got[p] = None
      /\ p \notin AtDisk /\ \A q \in AtDisk : cur[q] \in Bufs \ {b}
  BY <1>1, BeforeDisk
<1>3. IF queue = <<>>
      THEN command' = [block |-> buf[b].block, write |-> buf[b].dirty,
                       data |-> IF buf[b].dirty THEN buf[b].data ELSE 0, done |-> FALSE, failed |-> FALSE]
      ELSE command' = command
  BY DEF iderw, idestart
<1>4. pc'[p] = to /\ to \in {"reading", "writing"} /\ \A q \in Procs \ {p} : pc'[q] = pc[q]
  BY <1>1 DEF IndInv, TypeOK
<1>5. <<"io", b>> \in {"lock", "io"} \X Bufs /\ "ide" \in {"ide"} \cup Bufs
  BY <1>2
<1>6. queue \in Seq(Bufs) /\ Len(queue) \in Nat /\ DOMAIN queue = 1..Len(queue)
  BY DEF IndInv, TypeOK
<1>7. /\ queue' \in Seq(Bufs) /\ DOMAIN queue' = 1..Len(queue)+1 /\ queue' # <<>>
      /\ queue'[Len(queue) + 1] = b /\ \A i \in 1..Len(queue) : queue'[i] = queue[i]
  BY <1>1, <1>2, <1>6
<1>8. TypeOK'
  <2>1. command' \in [block : Blocks \cup {None}, write : BOOLEAN, data : 0..Values-1, done : BOOLEAN,
          failed : BOOLEAN]
    <3>3. CASE queue = <<>>
      <4>1. command' = [block |-> buf[b].block, write |-> buf[b].dirty,
                        data |-> IF buf[b].dirty THEN buf[b].data ELSE 0, done |-> FALSE, failed |-> FALSE]
        BY <1>3, <3>3
      <4> QED
        BY <1>2, <4>1, CommandType DEF IndInv
    <3>4. CASE queue # <<>>
      BY <1>3, <3>4 DEF IndInv, TypeOK
    <3> QED
      BY <3>3, <3>4
  <2>2. /\ spin' \in [{"ide"} \cup Bufs -> Procs \cup {None}]
        /\ nap' \in [Procs -> [stage : {"runs", "falls", "sleeps"},
                               chan : {None} \cup ({"lock", "io"} \X Bufs), lk : {None, "ide"} \cup Bufs]]
    BY <1>1, <1>5, CallsSleepStep
  <2>3. pc' \in [Procs -> {"idle", "lock", "own", "read", "reading", "write", "writing", "hold", "put"}]
    <3>1. pc \in [Procs -> {"idle", "lock", "own", "read", "reading", "write", "writing", "hold", "put"}]
      BY DEF IndInv, TypeOK
    <3> QED
      BY <1>1, <3>1
  <2> QED
    BY <1>1, <1>7, <2>1, <2>2, <2>3 DEF IndInv, TypeOK
<1>9. RefInv'
  BY <1>1, <1>4, RefFrame DEF IndInv
<1>10. OwnInv'
  BY <1>1, <1>4, OwnFrame DEF Owning
<1>11. NapInv'
  BY <1>1, <1>2, <1>4, <1>5, CallsSleepStep, NapChange DEF Fresh
<1>12. AtDisk' = AtDisk \cup {p}
  BY <1>4 DEF AtDisk
<1>13. Queued' = Queued \cup {b}
  BY <1>6, <1>7 DEF Queued
<1>14. QueueInv'
  <2>1. \A c \in Bufs : c \in Queued <=> ~Fresh(c) /\ \E q \in AtDisk : cur[q] = c
    BY DEF IndInv, QueueInv
  <2>2. \A c \in Bufs : c \in Queued \cup {b} <=> ~Fresh(c) /\ \E q \in AtDisk \cup {p} : cur[q] = c
    BY <1>2, <2>1
  <2>3. \A i \in 1..Len(queue) : queue[i] # b
    BY <1>2, <1>6 DEF Queued
  <2>4. \A i, j \in 1..Len(queue) : queue[i] = queue[j] => i = j
    BY <1>6 DEF IndInv, QueueInv
  <2>5. \A i, j \in 1..Len(queue)+1 : queue'[i] = queue'[j] => i = j
    BY <1>6, <1>7, <2>3, <2>4
  <2> QED
    BY <1>1, <1>7, <1>12, <1>13, <2>2, <2>5 DEF QueueInv, Fresh
<1>15. CommandInv'
  <2>1. CASE queue = <<>>
    <3>1. Head(queue') = b
      BY <1>1, <2>1
    <3> QED
      BY <1>1, <1>3, <1>7, <2>1, <3>1 DEF CommandInv
  <2>2. CASE queue # <<>>
    <3>1. Head(queue') = Head(queue)
      BY <1>6, <1>7, <2>2
    <3> QED
      BY <1>1, <1>3, <1>7, <2>2, <3>1 DEF IndInv, CommandInv
  <2> QED
    BY <2>1, <2>2
<1>16. DataInv'
  BY <1>1 DEF IndInv, DataInv, Fresh
<1>17. PlaceInv'
  <2>1. pc[p] = "write" => buf[b].valid
    BY DEF IndInv, PlaceInv
  <2> QED
    BY <1>1, <1>2, <1>4, <2>1, PlaceChange
<1> QED
  BY <1>1, <1>8, <1>9, <1>10, <1>11, <1>14, <1>15, <1>16, <1>17 DEF IndInv

LEMMA InitIndInv == Init => IndInv
<1> SUFFICES ASSUME Init
             PROVE  IndInv
  OBVIOUS
<1>1. 0 \in 0..Values-1
  BY BuffersAssumption
<1>2. \A b \in Bufs : buf[b] = FreshBuffer
  BY DEF Init
<1>3. /\ pc = [p \in Procs |-> "idle"] /\ cur = [p \in Procs |-> None] /\ got = [p \in Procs |-> None]
      /\ nap = [p \in Procs |-> Awake] /\ spin = [l \in {"ide"} \cup Bufs |-> None]
      /\ queue = <<>> /\ command = NoCommand /\ disk = [k \in Blocks |-> 0] /\ bad = {} /\ medium \in {"ide", "memory"}
      /\ panic = FALSE /\ buf = [b \in Bufs |-> FreshBuffer]
  BY DEF Init
<1>4. 0 \in 0..Cardinality(Procs)
  BY FS_CardinalityType, BuffersAssumption
<1>5. FreshBuffer \in Buffer
  BY <1>1, <1>4 DEF FreshBuffer, Buffer
<1>6. TypeOK
  <2>1. NoCommand \in [block : Blocks \cup {None}, write : BOOLEAN, data : 0..Values-1, done : BOOLEAN,
          failed : BOOLEAN]
    BY <1>1 DEF NoCommand
  <2>2. Awake \in [stage : {"runs", "falls", "sleeps"},
                   chan : {None} \cup ({"lock", "io"} \X Bufs), lk : {None, "ide"} \cup Bufs]
    BY DEF Awake
  <2>3. queue \in Seq(Bufs)
    BY <1>3
  <2> QED
    BY <1>1, <1>3, <1>5, <2>1, <2>2, <2>3 DEF TypeOK
<1>7. RefInv
  <2>1. \A b \in Bufs : b # None
    BY BuffersAssumption
  <2>2. \A b \in Bufs : Cardinality({p \in Procs : cur[p] = b}) = 0
    <3> TAKE b \in Bufs
    <3>1. cur \in [Procs -> Bufs \cup {None}] /\ \A p \in Procs : cur[p] # b
      BY <1>3, <2>1
    <3> QED
      BY <3>1, Counted
  <2> QED
    BY <1>2, <1>3, <2>2 DEF RefInv, FreshBuffer
<1>8. OwnInv
  BY <1>2, <1>3 DEF OwnInv, FreshBuffer, Owning
<1>9. NapInv
  BY <1>3 DEF NapInv, Awake
<1>10. QueueInv
  BY <1>3 DEF QueueInv, Queued, AtDisk
<1>11. CommandInv
  BY <1>3 DEF CommandInv, NoCommand
<1>12. DataInv /\ PlaceInv
  BY <1>2, <1>3 DEF DataInv, PlaceInv, FreshBuffer, Fresh
<1> QED
  BY <1>3, <1>6, <1>7, <1>8, <1>9, <1>10, <1>11, <1>12 DEF IndInv

\* Every step preserves the invariant.
LEMMA NextIndInv == IndInv /\ [Next]_vars => IndInv'
<1> SUFFICES ASSUME IndInv, [Next]_vars
             PROVE  IndInv'
  OBVIOUS
<1>1. ASSUME NEW p \in Procs, Works(p)
      PROVE  IndInv'
  BY <1>1, BgetStep, AcquireStep, ReadsStep, IderwStep, LoopsStep, MemoryStep, ModifiesStep, ReleaseStep,
     BrelseStep, SleepsStep DEF Works
<1>2. CASE UNCHANGED vars
  <2>1. UNCHANGED <<spin, nap, pc, cur, got, buf, queue, command, disk, bad, medium, panic>>
    BY <1>2 DEF vars
  <2> QED
    BY <2>1, NothingElse DEF IndInv, TypeOK
<1> QED
  BY <1>1, <1>2, FinishStep, InterruptStep DEF Next, Panicked

\* The whole invariant, for any number of processes, buffers and blocks.
THEOREM BuffersInvariant == Spec => []IndInv
<1>1. Init => IndInv
  BY InitIndInv
<1>2. IndInv /\ [Next]_vars => IndInv'
  BY NextIndInv
<1> QED
  BY <1>1, <1>2, PTL DEF Spec

\* The variables have their types: reference counts never exceed the number of processes.
THEOREM BuffersTypeOK == Spec => []TypeOK
<1>1. IndInv => TypeOK
  BY DEF IndInv
<1> QED
  BY <1>1, BuffersInvariant, PTL

\* bget panics only when every buffer is held or dirty: its search misses none, since the
\* reference count of each is the number of accesses that have it.
THEOREM BuffersPanicOnlyWhenFull == Spec => []PanicOnlyWhenFull
<1>1. Init => PanicOnlyWhenFull
  BY DEF Init, PanicOnlyWhenFull
<1>2. ASSUME IndInv, PanicOnlyWhenFull, [Next]_vars
      PROVE  PanicOnlyWhenFull'
  <2>1. CASE panic
    <3>1. UNCHANGED <<buf, cur, panic>>
      <4>1. ~DiskFinishes /\ ~DiskFails /\ ~ideintr
        BY <2>1 DEF DiskFinishes, DiskFails, ideintr
      <4>2. ASSUME NEW p \in Procs, Works(p)
            PROVE  UNCHANGED <<buf, cur, panic>>
        <5>1. \A l : ~Runs(p, l)
          BY <2>1 DEF Runs
        <5>2. Sleeps(p)
          BY <4>2, <5>1, Zenon DEF Works, bget, acquiresleep, Reads, iderw, iderwLoops, memiderw, Modifies,
             releasesleep, brelse
        <5> QED
          BY <5>2 DEF Sleeps, client
      <4>3. CASE UNCHANGED vars
        BY <4>3 DEF vars
      <4> QED
        BY <1>2, <4>1, <4>2, <4>3 DEF Next, Panicked
    <3> QED
      BY <1>2, <3>1 DEF PanicOnlyWhenFull, Pinned
  <2>2. ASSUME NEW p \in Procs, NEW k \in Blocks, bget(p, k), panic'
        PROVE  PanicOnlyWhenFull'
    <3>1. CASE UNCHANGED panic
      BY <2>1, <2>2, <3>1
    <3>2. CASE Unused = {} /\ UNCHANGED <<cur, buf>>
      <4>1. ASSUME NEW b \in Bufs, ~buf[b].dirty
            PROVE  \E q \in Procs : cur[q] = b
        <5>1. buf[b].refcnt # 0
          BY <3>2, <4>1 DEF Unused
        <5>2. buf[b].refcnt = Cardinality({q \in Procs : cur[q] = b}) /\ cur \in [Procs -> Bufs \cup {None}]
          BY <1>2 DEF IndInv, RefInv, TypeOK
        <5>3. Cardinality({q \in Procs : cur[q] = b}) = 0 <=> \A q \in Procs : cur[q] # b
          BY <5>2, Counted
        <5> QED
          BY <5>1, <5>2, <5>3
      <4> QED
        BY <3>2, <4>1 DEF PanicOnlyWhenFull, Pinned
    <3> QED
      BY <2>2, <3>1, <3>2, Zenon DEF bget
  <2>3. CASE ~panic'
    BY <2>3 DEF PanicOnlyWhenFull
  <2>4. ASSUME NEW p \in Procs, Works(p), ~(\E k \in Blocks : bget(p, k))
        PROVE  UNCHANGED panic
    BY <2>4, Zenon DEF Works, acquiresleep, Reads, iderw, iderwLoops, memiderw, Modifies, releasesleep, brelse, Sleeps
  <2>5. DiskFinishes \/ DiskFails \/ ideintr \/ Panicked \/ UNCHANGED vars => UNCHANGED panic
    BY DEF DiskFinishes, DiskFails, ideintr, Panicked, vars
  <2> QED
    BY <1>2, <2>1, <2>2, <2>3, <2>4, <2>5 DEF Next, IndInv, TypeOK
<1> QED
  BY <1>1, <1>2, BuffersInvariant, PTL DEF Spec

\* No wakeup is lost between a sleep lock or the disk and those who sleep for them.
THEOREM BuffersSleeperHasWaker == Spec => []SleeperHasWaker
<1>1. ASSUME IndInv
      PROVE  SleeperHasWaker
  <2>1. ASSUME NEW b \in Bufs, NEW p \in Sleepers(<<"lock", b>>)
        PROVE  buf[b].owner # None
    <3>1. p \in Procs /\ nap[p].stage # "runs" /\ nap[p].chan = <<"lock", b>>
      BY <2>1 DEF Sleepers
    <3>2. cur[p] = b /\ buf[cur[p]].owner # None
      BY <1>1, <3>1 DEF IndInv, NapInv
    <3> QED
      BY <3>2
  <2>2. ASSUME NEW b \in Bufs, NEW p \in Sleepers(<<"io", b>>)
        PROVE  \E i \in DOMAIN queue : queue[i] = b
    <3>1. p \in Procs /\ nap[p].stage # "runs" /\ nap[p].chan = <<"io", b>>
      BY <2>2 DEF Sleepers
    <3>2. cur[p] = b /\ p \in AtDisk /\ ~Fresh(b)
      BY <1>1, <3>1 DEF IndInv, NapInv
    <3>3. b \in Queued
      BY <1>1, <3>2 DEF IndInv, QueueInv
    <3> QED
      BY <3>3 DEF Queued
  <2> QED
    BY <1>1, <2>1, <2>2 DEF SleeperHasWaker, IndInv, CommandInv
<1> QED
  BY <1>1, BuffersInvariant, PTL

\* What a block contains: its valid buffer, or else the disk.
LEMMA ContentsAre ==
  IndInv => \A k \in Blocks :
    /\ \A b \in Bufs : buf[b].block = k /\ buf[b].valid => Contents(k) = buf[b].data
    /\ (\A b \in Bufs : ~(buf[b].block = k /\ buf[b].valid)) => Contents(k) = disk[k]
<1> SUFFICES ASSUME IndInv, NEW k \in Blocks
             PROVE  /\ \A b \in Bufs : buf[b].block = k /\ buf[b].valid => Contents(k) = buf[b].data
                    /\ (\A b \in Bufs : ~(buf[b].block = k /\ buf[b].valid)) => Contents(k) = disk[k]
  OBVIOUS
<1>1. k # None
  BY BuffersAssumption
<1>2. ASSUME NEW b \in Bufs, buf[b].block = k, buf[b].valid
      PROVE  Contents(k) = buf[b].data
  <2>1. \A c \in Bufs : buf[c].block = k => c = b
    BY <1>1, <1>2 DEF IndInv, DataInv
  <2>2. (CHOOSE c \in Bufs : buf[c].block = k /\ buf[c].valid) = b
    BY <1>2, <2>1
  <2> QED
    BY <1>2, <2>2 DEF Contents
<1>3. ASSUME \A b \in Bufs : ~(buf[b].block = k /\ buf[b].valid)
      PROVE  Contents(k) = disk[k]
  BY <1>3 DEF Contents
<1> QED
  BY <1>2, <1>3

LEMMA ContentsBecome ==
  IndInv' => \A k \in Blocks :
    /\ \A b \in Bufs : buf'[b].block = k /\ buf'[b].valid => Contents(k)' = buf'[b].data
    /\ (\A b \in Bufs : ~(buf'[b].block = k /\ buf'[b].valid)) => Contents(k)' = disk'[k]
<1>1. (IndInv => \A k \in Blocks :
          /\ \A b \in Bufs : buf[b].block = k /\ buf[b].valid => Contents(k) = buf[b].data
          /\ (\A b \in Bufs : ~(buf[b].block = k /\ buf[b].valid)) => Contents(k) = disk[k])'
  BY ContentsAre, PTL
<1> QED
  BY <1>1

\* A change of buffer b and of its block on the disk leaves the contents of block k when the buffer
\* keeps its block and becomes valid at most with what the disk has, or is recycled, was not
\* dirty, and the last command on k did not fail.
LEMMA ContentsStay ==
  ASSUME IndInv, IndInv', NEW b \in Bufs, \A c \in Bufs \ {b} : buf'[c] = buf[c],
         NEW k \in Blocks, k # buf[b].block => disk'[k] = disk[k],
         \/ /\ buf'[b].block = buf[b].block
            /\ buf[b].block = k =>
                /\ buf[b].valid => buf'[b].valid /\ buf'[b].data = buf[b].data
                /\ ~buf[b].valid => /\ disk'[k] = disk[k]
                                    /\ buf'[b].valid => buf'[b].data = disk[k]
         \/ /\ disk' = disk /\ ~buf'[b].valid /\ ~buf[b].dirty
            /\ buf[b].block = k /\ buf[b].valid => k \notin bad
  PROVE  Contents(k)' = Contents(k)
<1>1. /\ \A c \in Bufs : buf[c].block = k /\ buf[c].valid => Contents(k) = buf[c].data
      /\ (\A c \in Bufs : ~(buf[c].block = k /\ buf[c].valid)) => Contents(k) = disk[k]
  BY ContentsAre
<1>2. /\ \A c \in Bufs : buf'[c].block = k /\ buf'[c].valid => Contents(k)' = buf'[c].data
      /\ (\A c \in Bufs : ~(buf'[c].block = k /\ buf'[c].valid)) => Contents(k)' = disk'[k]
  BY ContentsBecome
<1>3. CASE \E c \in Bufs \ {b} : buf[c].block = k /\ buf[c].valid
  BY <1>1, <1>2, <1>3
<1>4. CASE (\A c \in Bufs \ {b} : ~(buf[c].block = k /\ buf[c].valid)) /\ buf[b].block = k /\ buf[b].valid
  <2>1. Contents(k) = buf[b].data
    BY <1>1, <1>4
  <2>2. CASE buf'[b].block = buf[b].block /\ buf'[b].valid /\ buf'[b].data = buf[b].data
    BY <1>2, <1>4, <2>1, <2>2
  <2>3. CASE disk' = disk /\ ~buf'[b].valid /\ ~buf[b].dirty /\ k \notin bad
    <3>1. buf[b].data = disk[k]
      BY <1>4, <2>3, DataKept
    <3>2. \A c \in Bufs : ~(buf'[c].block = k /\ buf'[c].valid)
      BY <1>4, <2>3
    <3> QED
      BY <1>2, <2>1, <2>3, <3>1, <3>2
  <2> QED
    BY <1>4, <2>2, <2>3
<1>5. CASE \A c \in Bufs : ~(buf[c].block = k /\ buf[c].valid)
  <2>1. Contents(k) = disk[k]
    BY <1>1, <1>5
  <2>2. CASE buf'[b].block = k /\ buf'[b].valid
    <3>1. buf'[b].data = disk[k]
      BY <1>5, <2>2
    <3> QED
      BY <1>2, <2>1, <2>2, <3>1
  <2>3. CASE ~(buf'[b].block = k /\ buf'[b].valid)
    <3>1. \A c \in Bufs : ~(buf'[c].block = k /\ buf'[c].valid)
      BY <1>5, <2>3
    <3>2. disk'[k] = disk[k]
      BY <1>5
    <3> QED
      BY <1>2, <2>1, <3>1, <3>2
  <2> QED
    BY <2>2, <2>3
<1> QED
  BY <1>3, <1>4, <1>5

\* The same for every block.
LEMMA ContentsKept ==
  ASSUME IndInv, IndInv', NEW b \in Bufs, \A c \in Bufs \ {b} : buf'[c] = buf[c],
         \A k \in Blocks : k # buf[b].block => disk'[k] = disk[k],
         buf'[b].block = buf[b].block,
         buf[b].valid => buf'[b].valid /\ buf'[b].data = buf[b].data,
         ~buf[b].valid => /\ disk'[buf[b].block] = disk[buf[b].block]
                          /\ buf'[b].valid => buf'[b].data = disk[buf[b].block]
  PROVE  Register' = Register
<1>1. ASSUME NEW k \in Blocks
      PROVE  Contents(k)' = Contents(k)
  BY ContentsStay
<1> QED
  BY <1>1 DEF Register

\* What becomes of one block whose last command failed, while nobody has read it.
LEMMA Spoilt ==
  ASSUME IndInv, IndInv', NEW j \in bad, UNCHANGED <<Held, got, bad>>,
         \A q \in Procs : Held[q] # j,
         \A k \in Blocks \ {j} : Contents(k)' = Contents(k)
  PROVE  Store!Spoils(j)
<1>1. j \in Blocks
  BY DEF IndInv, TypeOK
<1>2. Contents(j)' \in 0..Values-1
  <2>1. /\ \A c \in Bufs : buf'[c].block = j /\ buf'[c].valid => Contents(j)' = buf'[c].data
        /\ (\A c \in Bufs : ~(buf'[c].block = j /\ buf'[c].valid)) => Contents(j)' = disk'[j]
    BY <1>1, ContentsBecome
  <2>2. (\A c \in Bufs : buf'[c].data \in 0..Values-1) /\ disk'[j] \in 0..Values-1
    BY <1>1 DEF IndInv, TypeOK, Buffer
  <2> QED
    BY <2>1, <2>2
<1>3. Register' = [Register EXCEPT ![j] = Contents(j)']
  <2>1. \A k \in Blocks : Contents(k)' = IF k = j THEN Contents(j)' ELSE Contents(k)
    OBVIOUS
  <2>2. Register' = [k \in Blocks |-> IF k = j THEN Contents(j)' ELSE Contents(k)]
    BY <2>1 DEF Register
  <2> QED
    BY <1>1, <2>2 DEF Register
<1> QED
  BY <1>2, <1>3 DEF Store!Spoils

\* A step that leaves those who have read a block, and their buffers' blocks, alone.
LEMMA HeldKept ==
  ASSUME IndInv, got' = got,
         \A q \in Procs : pc[q] = "hold" => cur'[q] = cur[q] /\ buf'[cur[q]].block = buf[cur[q]].block
  PROVE  Held' = Held
<1>1. \A q \in Procs : got[q] # None => pc[q] = "hold"
  BY DEF IndInv, PlaceInv
<1> QED
  BY <1>1 DEF Held

\* What a process has read is a block that no other process has.
LEMMA HeldAlone ==
  ASSUME IndInv, NEW p \in Procs, pc[p] \in Owning, NEW q \in Procs \ {p}
  PROVE  Held[q] # buf[cur[p]].block
<1>1. cur[p] \in Bufs /\ buf[cur[p]].block \in Blocks /\ cur[q] = cur[p] => pc[q] \notin Owning
  BY AtBuffer DEF Owning
<1>2. cur[p] \in Bufs /\ buf[cur[p]].block # None
  BY <1>1, AtBuffer, BuffersAssumption DEF Owning
<1>3. CASE got[q] = None
  BY <1>2, <1>3 DEF Held
<1>4. CASE got[q] # None
  <2>1. pc[q] = "hold"
    BY <1>4 DEF IndInv, PlaceInv
  <2>2. cur[q] \in Bufs /\ cur[q] # cur[p]
    BY <2>1, AtBuffer DEF Owning
  <2>3. buf[cur[q]].block # buf[cur[p]].block
    BY <1>2, <2>2 DEF IndInv, DataInv
  <2> QED
    BY <1>4, <2>3 DEF Held
<1> QED
  BY <1>3, <1>4

\* bread's test of B_VALID: a read, or a buffer that must be read from the disk first.
LEMMA ReadsStore ==
  ASSUME IndInv, NEW p \in Procs, Reads(p)
  PROVE  [Store!Next]_<<Register, Held, got, bad>>
<1> DEFINE b == cur[p]
           k == buf[b].block
<1>1. pc[p] = "own" /\ UNCHANGED <<cur, buf, disk, bad>>
  BY DEF Reads, Runs, driver
<1>2. b \in Bufs /\ k \in Blocks
  BY <1>1, AtBuffer
<1>3. Register' = Register
  BY <1>1 DEF Register, Contents
<1>4. CASE buf[b].valid /\ got' = [got EXCEPT ![p] = buf[b].data]
  <2>1. Register[k] = buf[b].data /\ buf[b].data # None
    <3>1. buf[b].data \in 0..Values-1
      BY <1>2 DEF IndInv, TypeOK, Buffer
    <3> QED
      BY <1>2, <1>4, <3>1, ContentsAre, BuffersAssumption DEF Register
  <2>2. got[p] = None
    BY <1>1 DEF IndInv, PlaceInv
  <2>3. \A q \in Procs : Held[q] # k
    <3>1. Held[p] # k
      BY <1>2, <2>2, BuffersAssumption DEF Held
    <3> QED
      BY <1>1, <3>1, HeldAlone DEF Owning
  <2>4. Held' = [Held EXCEPT ![p] = k]
    <3>1. got'[p] # None /\ \A q \in Procs \ {p} : got'[q] = got[q]
      BY <1>4, <2>1 DEF IndInv, TypeOK
    <3> QED
      BY <1>1, <3>1 DEF Held
  <2>5. Store!Read(p, k)
    BY <1>1, <1>3, <1>4, <2>1, <2>2, <2>3, <2>4 DEF Store!Read
  <2> QED
    BY <1>2, <2>5 DEF Store!Next
<1>5. CASE got' = got
  BY <1>1, <1>3, <1>5, HeldKept
<1> QED
  BY <1>4, <1>5 DEF Reads

\* A process that lets go of its buffer holds no block any more.
LEMMA HeldLets ==
  ASSUME IndInv, NEW p \in Procs, got' = [got EXCEPT ![p] = None], cur' = cur,
         \A c \in Bufs : buf'[c].block = buf[c].block
  PROVE  Held' = [Held EXCEPT ![p] = None]
<1>1. got'[p] = None /\ \A q \in Procs \ {p} : got'[q] = got[q]
  BY DEF IndInv, TypeOK
<1>2. \A q \in Procs : got[q] # None => cur[q] \in Bufs
  BY AtBuffer DEF IndInv, PlaceInv
<1>3. \A q \in Procs : (IF got'[q] = None THEN None ELSE buf'[cur'[q]].block)
                        = [Held EXCEPT ![p] = None][q]
  BY <1>1, <1>2 DEF Held
<1> QED
  BY <1>3 DEF Held

\* A change of the client is based on the last value of its block.
LEMMA ModifiesStore ==
  ASSUME IndInv, IndInv', NEW p \in Procs, Modifies(p)
  PROVE  Store!Next
<1> DEFINE b == cur[p]
           v == (got[p] + 1) % Values
<1>1. /\ pc[p] = "hold" /\ got[p] # None /\ got' = [got EXCEPT ![p] = None] /\ cur' = cur /\ disk' = disk /\ bad' = bad
      /\ buf' = [buf EXCEPT ![b] = [buf[b] EXCEPT !.data = v, !.dirty = TRUE]]
  BY DEF Modifies, Runs, driver
<1> HIDE DEF v
<1>2. b \in Bufs /\ buf[b].block \in Blocks /\ buf[b].valid /\ got[p] = buf[b].data
  BY <1>1, AtBuffer DEF IndInv, PlaceInv
<1>10. PICK k \in Blocks : buf[b].block = k
  BY <1>2
<1>3. /\ buf'[b].block = k /\ buf'[b].valid /\ buf'[b].data = v
      /\ \A c \in Bufs \ {b} : buf'[c] = buf[c]
  <2>1. buf \in [Bufs -> Buffer] /\ buf[b] \in Buffer
    BY <1>2 DEF IndInv, TypeOK
  <2> QED
    BY <1>1, <1>2, <1>10, <2>1 DEF Buffer
<1>4. Contents(k) = got[p] /\ Contents(k)' = v
  <2>1. \A c \in Bufs : buf[c].block = k /\ buf[c].valid => Contents(k) = buf[c].data
    BY ContentsAre
  <2>3. \A c \in Bufs : buf'[c].block = k /\ buf'[c].valid => Contents(k)' = buf'[c].data
    BY ContentsBecome
  <2> QED
    BY <1>2, <1>3, <1>10, <2>1, <2>3
<1>5. ASSUME NEW j \in Blocks \ {k}
      PROVE  Contents(j)' = Contents(j)
  <2>1. /\ \A c \in Bufs : buf[c].block = j /\ buf[c].valid => Contents(j) = buf[c].data
        /\ (\A c \in Bufs : ~(buf[c].block = j /\ buf[c].valid)) => Contents(j) = disk[j]
    BY ContentsAre
  <2>2. /\ \A c \in Bufs : buf'[c].block = j /\ buf'[c].valid => Contents(j)' = buf'[c].data
        /\ (\A c \in Bufs : ~(buf'[c].block = j /\ buf'[c].valid)) => Contents(j)' = disk'[j]
    BY ContentsBecome
  <2> QED
    BY <1>1, <1>2, <1>3, <1>10, <2>1, <2>2
<1>6. Register' = [Register EXCEPT ![k] = (Register[k] + 1) % Values]
  <2>1. Register[k] = got[p]
    BY <1>4 DEF Register
  <2>2. \A j \in Blocks : Contents(j)' = IF j = k THEN v ELSE Contents(j)
    BY <1>4, <1>5
  <2>3. Register' = [j \in Blocks |-> IF j = k THEN v ELSE Contents(j)]
    BY <2>2 DEF Register
  <2>4. Register' = [Register EXCEPT ![k] = v]
    BY <2>3 DEF Register
  <2> QED
    BY <2>1, <2>4 DEF v
<1>7. Held' = [Held EXCEPT ![p] = None]
  <2>1. \A c \in Bufs : buf'[c].block = buf[c].block
    BY <1>3, <1>10
  <2> QED
    BY <1>1, <2>1, HeldLets
<1>8. Held[p] = k /\ got[p] = Register[k]
  BY <1>1, <1>2, <1>4, <1>10 DEF Held, Register
<1>9. Store!Bump(p, k)
  BY <1>1, <1>6, <1>7, <1>8 DEF Store!Bump, Store!Lets
<1> QED
  BY <1>9 DEF Store!Next

\* releasesleep ends what a process may do with its block.
LEMMA ReleaseStore ==
  ASSUME IndInv, IndInv', NEW p \in Procs, releasesleep(p)
  PROVE  [Store!Next]_<<Register, Held, got, bad>>
<1> DEFINE b == cur[p]
<1>1. /\ pc[p] = "hold" /\ got' = [got EXCEPT ![p] = None] /\ cur' = cur /\ disk' = disk /\ bad' = bad
      /\ buf' = [buf EXCEPT ![b].owner = None]
  BY DEF releasesleep, Runs, driver
<1>2. b \in Bufs
  BY <1>1, AtBuffer
<1>3. /\ buf'[b].block = buf[b].block /\ buf'[b].valid = buf[b].valid /\ buf'[b].data = buf[b].data
      /\ \A c \in Bufs \ {b} : buf'[c] = buf[c]
  <2>1. buf \in [Bufs -> Buffer] /\ buf[b] \in Buffer
    BY <1>2 DEF IndInv, TypeOK
  <2> QED
    BY <1>1, <1>2, <2>1 DEF Buffer
<1>4. Register' = Register
  BY <1>1, <1>2, <1>3, ContentsKept, ContentsAre DEF IndInv, DataInv, Fresh
<1>5. Held' = [Held EXCEPT ![p] = None]
  BY <1>1, <1>2, <1>3, HeldLets
<1>6. CASE got[p] = None
  BY <1>1, <1>4, <1>5, <1>6 DEF Held, IndInv, TypeOK
<1>7. CASE got[p] # None
  BY <1>1, <1>4, <1>5, <1>7 DEF Store!Next, Store!Done, Store!Lets
<1> QED
  BY <1>6, <1>7

\* bget, acquiresleep and brelse change no contents, unless a buffer is recycled whose block the
\* disk last failed on; a buffer that is recycled was not dirty.
LEMMA QuietStore ==
  ASSUME IndInv, IndInv', NEW p \in Procs, (\E k \in Blocks : bget(p, k)) \/ acquiresleep(p) \/ brelse(p)
  PROVE  [Store!Next]_<<Register, Held, got, bad>>
<1>1. /\ pc[p] \in {"idle", "lock", "put"} /\ got' = got /\ disk' = disk /\ bad' = bad
      /\ \A q \in Procs \ {p} : cur'[q] = cur[q]
  <2>1. CASE \E k \in Blocks : bget(p, k)
    <3>1. PICK k \in Blocks : bget(p, k)
      BY <2>1
    <3>2. /\ Runs(p, "idle") /\ UNCHANGED <<got, driver>>
          /\ (\E b \in Bufs : cur' = [cur EXCEPT ![p] = b]) \/ cur' = cur
      BY <3>1, Zenon DEF bget, Cached, Unused
    <3> QED
      BY <3>2 DEF Runs, driver, IndInv, TypeOK
  <2>2. CASE acquiresleep(p)
    BY <2>2 DEF acquiresleep, Runs, client, driver
  <2>3. CASE brelse(p)
    BY <2>3 DEF brelse, Runs, driver, IndInv, TypeOK
  <2> QED
    BY <2>1, <2>2, <2>3
<1>2. buf \in [Bufs -> Buffer]
  BY DEF IndInv, TypeOK
<1>3. \/ buf' = buf
      \/ \E b \in Bufs : /\ \A c \in Bufs \ {b} : buf'[c] = buf[c]
                         /\ buf'[b].block = buf[b].block /\ buf'[b].valid = buf[b].valid /\ buf'[b].data = buf[b].data
      \/ \E b \in Unused : /\ \A c \in Bufs \ {b} : buf'[c] = buf[c]
                           /\ ~buf'[b].valid
  <2>1. ASSUME NEW b \in Bufs, NEW n, buf' = [buf EXCEPT ![b] = [buf[b] EXCEPT !.refcnt = n]]
        PROVE  /\ \A c \in Bufs \ {b} : buf'[c] = buf[c]
               /\ buf'[b].block = buf[b].block /\ buf'[b].valid = buf[b].valid /\ buf'[b].data = buf[b].data
    <3> DEFINE r == [buf[b] EXCEPT !.refcnt = n]
    <3>1. r.block = buf[b].block /\ r.valid = buf[b].valid /\ r.data = buf[b].data
      BY <1>2 DEF Buffer
    <3> HIDE DEF r
    <3>2. buf' = [buf EXCEPT ![b] = r]
      BY <2>1 DEF r
    <3>3. buf'[b] = r /\ \A c \in Bufs \ {b} : buf'[c] = buf[c]
      BY <1>2, <3>2
    <3> QED
      BY <3>1, <3>3
  <2>2. ASSUME NEW b \in Bufs, NEW o, buf' = [buf EXCEPT ![b] = [buf[b] EXCEPT !.owner = o]]
        PROVE  /\ \A c \in Bufs \ {b} : buf'[c] = buf[c]
               /\ buf'[b].block = buf[b].block /\ buf'[b].valid = buf[b].valid /\ buf'[b].data = buf[b].data
    <3> DEFINE r == [buf[b] EXCEPT !.owner = o]
    <3>1. r.block = buf[b].block /\ r.valid = buf[b].valid /\ r.data = buf[b].data
      BY <1>2 DEF Buffer
    <3> HIDE DEF r
    <3>2. buf' = [buf EXCEPT ![b] = r]
      BY <2>2 DEF r
    <3>3. buf'[b] = r /\ \A c \in Bufs \ {b} : buf'[c] = buf[c]
      BY <1>2, <3>2
    <3> QED
      BY <3>1, <3>3
  <2>3. CASE \E k \in Blocks : bget(p, k)
    <3>1. PICK k \in Blocks : bget(p, k)
      BY <2>3
    <3>2. CASE \E b \in Cached(k) : buf' = [buf EXCEPT ![b].refcnt = @ + 1]
      <4>1. PICK b \in Bufs : buf' = [buf EXCEPT ![b].refcnt = buf[b].refcnt + 1]
        BY <3>2 DEF Cached
      <4>2. buf' = [buf EXCEPT ![b] = [buf[b] EXCEPT !.refcnt = buf[b].refcnt + 1]]
        BY <1>2, <4>1
      <4> QED
        BY <2>1, <4>2
    <3>3. CASE \E b \in Unused : buf' = [buf EXCEPT ![b] = [@ EXCEPT !.block = k, !.refcnt = 1, !.valid = FALSE]]
      <4>1. PICK b \in Unused : buf' = [buf EXCEPT ![b] = [buf[b] EXCEPT !.block = k, !.refcnt = 1, !.valid = FALSE]]
        BY <3>3
      <4>2. b \in Bufs /\ buf[b] \in Buffer
        BY <1>2 DEF Unused
      <4> QED
        BY <1>2, <4>1, <4>2 DEF Buffer
    <3>4. CASE UNCHANGED <<pc, cur, buf>>
      BY <3>4
    <3> QED
      BY <3>1, <3>2, <3>3, <3>4, Zenon DEF bget
  <2>4. CASE acquiresleep(p)
    <3>1. cur[p] \in Bufs
      BY <1>1, <2>4, AtBuffer DEF acquiresleep, Runs
    <3>2. buf' = buf \/ buf' = [buf EXCEPT ![cur[p]] = [buf[cur[p]] EXCEPT !.owner = p]]
      BY <1>2, <2>4, <3>1 DEF acquiresleep
    <3> QED
      BY <2>2, <3>1, <3>2
  <2>5. CASE brelse(p)
    <3>1. cur[p] \in Bufs
      BY <1>1, <2>5, AtBuffer DEF brelse, Runs
    <3>2. buf' = [buf EXCEPT ![cur[p]] = [buf[cur[p]] EXCEPT !.refcnt = Dropped(cur[p])]]
      BY <1>2, <2>5, <3>1 DEF brelse
    <3> QED
      BY <2>1, <3>1, <3>2
  <2> QED
    BY <2>3, <2>4, <2>5
<1>5. Held' = Held
  <2>1. ASSUME NEW q \in Procs, pc[q] = "hold"
        PROVE  cur'[q] = cur[q] /\ buf'[cur[q]].block = buf[cur[q]].block
    <3>1. cur'[q] = cur[q] /\ cur[q] \in Bufs
      BY <1>1, <2>1, AtBuffer
    <3>2. cur[q] \notin Unused
      <4>1. buf[cur[q]].refcnt # 0
        <5>1. cur \in [Procs -> Bufs \cup {None}]
          BY DEF IndInv, TypeOK
        <5>2. Cardinality({r \in Procs : cur[r] = cur[q]}) # 0
          BY <3>1, <5>1, Counted
        <5>3. buf[cur[q]].refcnt = Cardinality({r \in Procs : cur[r] = cur[q]})
          BY <3>1 DEF IndInv, RefInv
        <5> QED
          BY <5>2, <5>3
      <4> QED
        BY <4>1 DEF Unused
    <3> QED
      BY <1>3, <3>1, <3>2
  <2> QED
    BY <1>1, <2>1, HeldKept
<1>6. CASE buf' = buf
  BY <1>1, <1>5, <1>6 DEF Register, Contents
<1>7. ASSUME NEW b \in Bufs, \A c \in Bufs \ {b} : buf'[c] = buf[c],
             buf'[b].block = buf[b].block, buf'[b].valid = buf[b].valid, buf'[b].data = buf[b].data
      PROVE  Register' = Register
  BY <1>1, <1>7, ContentsKept
<1>8. ASSUME NEW b \in Unused, \A c \in Bufs \ {b} : buf'[c] = buf[c], ~buf'[b].valid
      PROVE  [Store!Next]_<<Register, Held, got, bad>>
  <2> DEFINE j == buf[b].block
  <2>1. b \in Bufs /\ ~buf[b].dirty /\ buf[b].refcnt = 0
    BY DEF Unused
  <2>2. ASSUME NEW k \in Blocks, k # j \/ k \notin bad
        PROVE  Contents(k)' = Contents(k)
    BY <1>1, <1>8, <2>1, <2>2, ContentsStay
  <2>3. CASE j \in bad
    <3>1. \A q \in Procs : Held[q] # j
      <4>1. ASSUME NEW q \in Procs, got[q] # None
            PROVE  cur[q] \in Bufs /\ cur[q] # b
        <5>1. cur[q] \in Bufs
          BY <4>1, AtBuffer DEF IndInv, PlaceInv
        <5>2. cur \in [Procs -> Bufs \cup {None}] /\ buf[b].refcnt = Cardinality({r \in Procs : cur[r] = b})
          BY <2>1 DEF IndInv, RefInv, TypeOK
        <5>3. Cardinality({r \in Procs : cur[r] = b}) = 0 <=> \A r \in Procs : cur[r] # b
          BY <2>1, <5>2, Counted
        <5> QED
          BY <2>1, <5>1, <5>2, <5>3
      <4>2. j # None
        BY <2>3, BuffersAssumption DEF IndInv, TypeOK
      <4>3. \A c \in Bufs \ {b} : buf[c].block # j
        BY <2>1, <4>2, DataKept
      <4> QED
        BY <4>1, <4>2, <4>3 DEF Held
    <3>2. Store!Spoils(j) /\ j \in Blocks
      BY <1>1, <1>5, <2>2, <2>3, <3>1, Spoilt DEF IndInv, TypeOK
    <3> QED
      BY <3>2 DEF Store!Next
  <2>4. CASE j \notin bad
    <3>1. \A k \in Blocks : Contents(k)' = Contents(k)
      BY <2>2, <2>4
    <3> QED
      BY <1>1, <1>5, <3>1 DEF Register
  <2> QED
    BY <2>3, <2>4
<1> QED
  BY <1>1, <1>3, <1>5, <1>6, <1>7, <1>8

\* The driver changes no contents: it writes what is dirty and reads what is not valid; but where
\* a command failed, the block becomes what the buffer had before.
LEMMA DriverStore ==
  ASSUME IndInv, IndInv', DiskFinishes \/ DiskFails \/ ideintr \/ \E p \in Procs : memiderw(p)
  PROVE  [Store!Next]_<<Register, Held, got, bad>>
<1>1. buf \in [Bufs -> Buffer] /\ disk \in [Blocks -> 0..Values-1]
  BY DEF IndInv, TypeOK
<1>2. CASE DiskFinishes \/ DiskFails
  <2> DEFINE h == Head(queue)
             k == command.block
  <2>1. /\ UNCHANGED <<cur, got, buf>> /\ k # None
        /\ disk' = disk \/ (command.write /\ \E v \in 0..Values-1 : disk' = [disk EXCEPT ![k] = v])
        /\ bad' = bad \ {k} \/ bad' = bad \cup {k}
    <3>1. command.data \in 0..Values-1
      BY DEF IndInv, TypeOK
    <3> QED
      BY <1>2, <3>1 DEF DiskFinishes, DiskFails, client
  <2>2. queue # <<>>
    BY <2>1 DEF IndInv, CommandInv
  <2>3. /\ h \in Bufs /\ k = buf[h].block /\ command.write = buf[h].dirty
        /\ buf[h].dirty => buf[h].valid
        /\ k \in Blocks
    BY <2>2, FirstRequest DEF IndInv, CommandInv, DataInv
  <2>4. \A j \in Blocks : j # buf[h].block => disk'[j] = disk[j]
    BY <1>1, <2>1, <2>3
  <2>5. ~buf[h].valid => disk' = disk
    BY <2>1, <2>3
  <2>6. Register' = Register
    <3>1. buf[h].valid => buf'[h].valid /\ buf'[h].data = buf[h].data
      BY <2>1
    <3>2. ~buf[h].valid => /\ disk'[buf[h].block] = disk[buf[h].block]
                           /\ buf'[h].valid => buf'[h].data = disk[buf[h].block]
      BY <2>1, <2>5
    <3> QED
      BY <2>1, <2>3, <2>4, <3>1, <3>2, ContentsKept
  <2>7. Held' = Held
    BY <2>1 DEF Held
  <2>8. Store!Recovers(k) \/ Store!Fails(k)
    BY <2>1, <2>6, <2>7 DEF Store!Recovers, Store!Fails
  <2> QED
    BY <2>3, <2>8 DEF Store!Next
<1>3. CASE ideintr
  <2> DEFINE b == Head(queue)
             j == buf[b].block
             v == IF buf[b].dirty \/ command.failed THEN buf[b].data ELSE command.data
  <2>1. /\ command.done /\ queue # <<>> /\ UNCHANGED <<cur, got, disk, bad>>
        /\ buf' = [buf EXCEPT ![b] = [buf[b] EXCEPT !.data = v, !.valid = TRUE, !.dirty = FALSE]]
    BY <1>3, Zenon DEF ideintr, client
  <2>2. b \in Bufs /\ ~Fresh(b) /\ buf[b] \in Buffer /\ j \in Blocks
    BY <1>1, <2>1, FirstRequest
  <2>3. ~buf[b].dirty => j \in bad \/ v = disk[j]
    BY <2>1 DEF IndInv, CommandInv
  <2>4. buf[b].dirty => v = buf[b].data
    OBVIOUS
  <2> HIDE DEF v
  <2>5. /\ buf'[b].block = j /\ buf'[b].data = v /\ buf'[b].valid
        /\ \A c \in Bufs \ {b} : buf'[c] = buf[c]
    BY <1>1, <2>1, <2>2 DEF Buffer
  <2>6. buf[b].valid <=> buf[b].dirty
    BY <2>2 DEF Fresh, IndInv, DataInv
  <2>7. ASSUME NEW k \in Blocks, k # j \/ k \notin bad
        PROVE  Contents(k)' = Contents(k)
    <3>1. buf[b].valid => buf'[b].valid /\ buf'[b].data = buf[b].data
      BY <2>4, <2>5, <2>6
    <3>2. ~buf[b].valid /\ k = j => buf'[b].data = disk[k]
      BY <2>3, <2>5, <2>6, <2>7
    <3> QED
      BY <2>1, <2>2, <2>5, <3>1, <3>2, ContentsStay
  <2>8. Held' = Held
    <3>1. \A q \in Procs : pc[q] = "hold" => cur[q] \in Bufs
      BY AtBuffer
    <3> QED
      BY <2>1, <2>5, <3>1, HeldKept
  <2>9. \A q \in Procs : Held[q] # j
    <3>1. PICK p \in AtDisk : cur[p] = b
      BY <2>1, FirstRequest
    <3>2. p \in Procs /\ pc[p] \in Owning /\ got[p] = None
      BY <3>1 DEF AtDisk, Owning, IndInv, PlaceInv
    <3>3. Held[p] # j
      BY <2>2, <3>2, BuffersAssumption DEF Held
    <3> QED
      BY <3>1, <3>2, <3>3, HeldAlone
  <2>10. CASE j \in bad
    <3>1. Store!Spoils(j)
      BY <2>1, <2>7, <2>8, <2>9, <2>10, Spoilt
    <3> QED
      BY <2>2, <3>1 DEF Store!Next
  <2>11. CASE j \notin bad
    <3>1. \A k \in Blocks : Contents(k)' = Contents(k)
      BY <2>7, <2>11
    <3> QED
      BY <2>1, <2>8, <3>1 DEF Register
  <2> QED
    BY <2>10, <2>11
<1>4. ASSUME NEW p \in Procs, memiderw(p)
      PROVE  UNCHANGED <<Register, Held, got, bad>>
  <2> DEFINE b == cur[p]
             k == buf[b].block
             v == IF buf[b].dirty THEN buf[b].data ELSE disk[k]
  <2>1. /\ pc[p] \in {"read", "write"} /\ UNCHANGED <<cur, got, bad>>
        /\ disk' = IF buf[b].dirty THEN [disk EXCEPT ![k] = buf[b].data] ELSE disk
        /\ buf' = [buf EXCEPT ![b] = [buf[b] EXCEPT !.data = v, !.valid = TRUE, !.dirty = FALSE]]
    BY <1>4 DEF memiderw, Runs, client
  <2>2. b \in Bufs /\ ~Fresh(b) /\ buf[b] \in Buffer /\ k \in Blocks
    BY <1>1, <2>1, BeforeDisk
  <2>3. ~buf[b].dirty => v = disk[k]
    OBVIOUS
  <2>4. buf[b].dirty => v = buf[b].data
    OBVIOUS
  <2> HIDE DEF v
  <2>5. /\ buf'[b].block = buf[b].block /\ buf'[b].data = v /\ buf'[b].valid
        /\ \A c \in Bufs \ {b} : buf'[c] = buf[c]
    BY <1>1, <2>1, <2>2 DEF Buffer
  <2>6. buf[b].valid <=> buf[b].dirty
    BY <2>2 DEF Fresh, IndInv, DataInv
  <2>7. Register' = Register
    <3>1. buf[b].valid => buf'[b].valid /\ buf'[b].data = buf[b].data
      BY <2>4, <2>5, <2>6
    <3>2. ~buf[b].valid => disk' = disk /\ buf'[b].data = disk[buf[b].block]
      BY <2>1, <2>3, <2>5, <2>6
    <3>3. \A j \in Blocks : j # buf[b].block => disk'[j] = disk[j]
      BY <1>1, <2>1, <2>2
    <3> QED
      BY <2>1, <2>2, <2>5, <3>1, <3>2, <3>3, ContentsKept
  <2>8. Held' = Held
    <3>1. \A q \in Procs : pc[q] = "hold" => cur[q] \in Bufs
      BY AtBuffer
    <3> QED
      BY <2>1, <2>5, <3>1, HeldKept
  <2> QED
    BY <2>1, <2>7, <2>8
<1> QED
  BY <1>2, <1>3, <1>4

\* The buffer cache is a register for each block, which one process has at a time: for any number
\* of processes, buffers and blocks, whatever is recycled and in whatever order the disk answers.
THEOREM BuffersImplementStore == Spec => ImplementsStore
<1>1. Init => Store!Init
  <2> SUFFICES ASSUME Init
               PROVE  Store!Init
    OBVIOUS
  <2>1. \A b \in Bufs : buf[b].valid = FALSE
    BY DEF Init, FreshBuffer
  <2>2. \A k \in Blocks : Contents(k) = 0
    BY <2>1, ContentsAre, InitIndInv DEF Init
  <2>3. Register = [k \in Blocks |-> 0]
    BY <2>2 DEF Register
  <2>4. Held = [p \in Procs |-> None]
    BY DEF Held, Init
  <2> QED
    BY <2>3, <2>4 DEF Store!Init, Init
<1>2. ASSUME IndInv, IndInv', [Next]_vars
      PROVE  [Store!Next]_<<Register, Held, got, bad>>
  <2>1. CASE DiskFinishes \/ DiskFails \/ ideintr
    BY <1>2, <2>1, DriverStore
  <2>2. ASSUME NEW p \in Procs, Works(p)
        PROVE  [Store!Next]_<<Register, Held, got, bad>>
    <3>1. CASE (\E k \in Blocks : bget(p, k)) \/ acquiresleep(p) \/ brelse(p)
      BY <1>2, <3>1, QuietStore
    <3>2. CASE Reads(p)
      BY <1>2, <3>2, ReadsStore
    <3>3. CASE Modifies(p)
      BY <1>2, <3>3, ModifiesStore
    <3>4. CASE releasesleep(p)
      BY <1>2, <3>4, ReleaseStore
    <3>5. CASE memiderw(p)
      BY <1>2, <3>5, DriverStore
    <3>6. CASE iderw(p) \/ iderwLoops(p) \/ Sleeps(p)
      <4>1. UNCHANGED <<cur, got, buf, disk, bad>>
        BY <3>6 DEF iderw, iderwLoops, Sleeps, client, driver
      <4> QED
        BY <4>1 DEF Register, Contents, Held
    <3> QED
      BY <2>2, <3>1, <3>2, <3>3, <3>4, <3>5, <3>6 DEF Works
  <2>3. CASE Panicked \/ UNCHANGED vars
    BY <2>3 DEF Panicked, vars, Register, Contents, Held
  <2> QED
    BY <1>2, <2>1, <2>2, <2>3 DEF Next
<1> QED
  BY <1>1, <1>2, BuffersInvariant, PTL DEF Spec, ImplementsStore, Store!Spec
=============================================================================
