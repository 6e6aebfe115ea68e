----------------------------- MODULE PipeProofs -----------------------------
(***************************************************************************)
(* Theorems about Pipe, for every number of processes, descriptors, files  *)
(* and pipes, every PIPESIZE and every multiple of it that the counters    *)
(* wrap at.                                                                *)
(***************************************************************************)
EXTENDS Pipe, Integers, FiniteSetTheorems, WellFoundedInduction, TLAPS, SequenceTheorems

-----------------------------------------------------------------------------
(* Sets of numbers, and remainders *)

\* filealloc and fdalloc take the first free entry.
LEMMA MinIn ==
  ASSUME NEW S \in SUBSET Nat, S # {}
  PROVE  Min(S) \in S /\ \A y \in S : Min(S) <= y
<1>1. PICK x \in S : \A y \in S : ~(<<y, x>> \in OpToRel(<, Nat))
  BY WFMin, NatLessThanWellFounded
<1>2. \A y \in S : x <= y
  <2> SUFFICES ASSUME NEW y \in S, ~(x <= y)
               PROVE  FALSE
    OBVIOUS
  <2>1. <<y, x>> \in Nat \X Nat /\ y < x
    OBVIOUS
  <2>2. <<y, x>> \in OpToRel(<, Nat)
    BY <2>1 DEF OpToRel
  <2> QED
    BY <1>1, <2>2
<1> QED
  BY <1>2 DEF Min

LEMMA ModDef ==
  ASSUME NEW m \in Nat \ {0}, NEW a \in Int
  PROVE  a % m \in 0 .. m - 1 /\ \E k \in Int : a = k * m + (a % m)
<1>1. a % m \in 0 .. m - 1
  OBVIOUS
<1>2. a = (a \div m) * m + (a % m) /\ a \div m \in Int
  OBVIOUS
<1> QED
  BY <1>1, <1>2

LEMMA ModUnique ==
  ASSUME NEW m \in Nat \ {0}, NEW k \in Int, NEW r \in 0 .. m - 1
  PROVE  (k * m + r) % m = r
OBVIOUS

LEMMA Times ==
  ASSUME NEW m \in Nat \ {0}, NEW d \in Int
  PROVE  /\ d * m \in Int
         /\ d >= 1 => d * m >= m
         /\ d <= 0 => d * m <= 0
         /\ d <= -1 => d * m <= -m
<1>1. d >= 1 => d * m >= m
  <2> SUFFICES ASSUME d >= 1 PROVE d * m >= m
    OBVIOUS
  <2>1. (d - 1) * m >= 0
    OBVIOUS
  <2>2. (d - 1) * m = d * m - m
    OBVIOUS
  <2> QED
    BY <2>1, <2>2
<1>2. d <= 0 => d * m <= 0
  OBVIOUS
<1>3. d <= -1 => d * m <= -m
  <2> SUFFICES ASSUME d <= -1 PROVE d * m <= -m
    OBVIOUS
  <2>1. (d + 1) * m <= 0
    OBVIOUS
  <2>2. (d + 1) * m = d * m + m
    OBVIOUS
  <2> QED
    BY <2>1, <2>2
<1> QED
  BY <1>1, <1>2, <1>3

LEMMA ModSame ==
  ASSUME NEW m \in Nat \ {0}, NEW a \in Int, NEW b \in Int, NEW k \in Int, a = b + k * m
  PROVE a % m = b % m
<1>1. PICK j \in Int : b = j * m + (b % m)
  BY ModDef
<1>2. a = (j + k) * m + (b % m)
  BY <1>1
<1>3. b % m \in 0 .. m - 1 /\ j + k \in Int
  BY ModDef
<1>4. ((j + k) * m + (b % m)) % m = b % m
  BY <1>3, ModUnique
<1> QED
  BY <1>2, <1>4

LEMMA ModApart ==
  ASSUME NEW m \in Nat \ {0}, NEW a \in Int, NEW b \in Int, a % m = b % m, a <= b, b < a + m
  PROVE a = b
<1>1. PICK j \in Int : a = j * m + (a % m)
  BY ModDef
<1>2. PICK k \in Int : b = k * m + (b % m)
  BY ModDef
<1>3. (k - j) * m = k * m - j * m /\ k * m \in Int /\ j * m \in Int /\ k - j \in Int /\ a % m \in Int
  OBVIOUS
<1>4. (k - j) * m = b - a
  BY <1>1, <1>2, <1>3
<1>5. k - j >= 0 /\ k - j < 1
  BY <1>3, <1>4, Times
<1> QED
  BY <1>1, <1>2, <1>3, <1>5

\* The counters of a pipe wrap at a multiple of its size.
LEMMA WrapIs == \E k \in Nat \ {0} : Wrap = k * PIPESIZE
<1>1. Wrap \in Int /\ PIPESIZE \in Nat \ {0}
  BY PipeAssumption
<1>2. PICK k \in Int : Wrap = k * PIPESIZE + (Wrap % PIPESIZE)
  BY <1>1, ModDef
<1>3. Wrap = k * PIPESIZE
  BY <1>2, PipeAssumption
<1>4. ~(k <= 0)
  BY <1>3, PipeAssumption, Times
<1> QED
  BY <1>3, <1>4

LEMMA ModMod ==
  ASSUME NEW a \in Int
  PROVE  (a % Wrap) % PIPESIZE = a % PIPESIZE
<1>1. Wrap \in Nat \ {0} /\ PIPESIZE \in Nat \ {0} /\ a % Wrap \in Int
  BY PipeAssumption
<1>2. PICK k \in Nat \ {0} : Wrap = k * PIPESIZE
  BY WrapIs
<1>3. PICK j \in Int : a = j * Wrap + (a % Wrap)
  BY <1>1, ModDef
<1>4. j * (k * PIPESIZE) = (j * k) * PIPESIZE /\ j * k \in Int
  BY <1>1
<1>5. PICK t \in Int : a = t * PIPESIZE + (a % Wrap)
  <2>1. a = (j * k) * PIPESIZE + (a % Wrap)
    BY <1>2, <1>3, <1>4
  <2> QED
    BY <1>4, <2>1
<1>6. (-t) * PIPESIZE = -(t * PIPESIZE) /\ t * PIPESIZE \in Int /\ -t \in Int
  BY <1>1
<1>7. a % Wrap = a + (-t) * PIPESIZE
  BY <1>1, <1>5, <1>6
<1> DEFINE b == a % Wrap
           d == -t
<1>8. b \in Int /\ d \in Int /\ b = a + d * PIPESIZE
  BY <1>1, <1>6, <1>7
<1> HIDE DEF b, d
<1>9. b % PIPESIZE = a % PIPESIZE
  BY <1>1, <1>8, ModSame
<1> QED
  BY <1>9 DEF b

LEMMA WrapOnce ==
  ASSUME NEW a \in Nat, a < 2 * Wrap
  PROVE  a % Wrap = IF a < Wrap THEN a ELSE a - Wrap
<1>1. Wrap \in Nat \ {0}
  BY PipeAssumption
<1>2. CASE a < Wrap
  BY <1>1, <1>2
<1>3. CASE a >= Wrap
  <2>1. a - Wrap \in 0 .. Wrap - 1 /\ a = 1 * Wrap + (a - Wrap)
    BY <1>1, <1>3
  <2>2. (1 * Wrap + (a - Wrap)) % Wrap = a - Wrap
    BY <1>1, <2>1, ModUnique
  <2> QED
    BY <1>1, <1>3, <2>1, <2>2
<1> QED
  BY <1>1, <1>2, <1>3

-----------------------------------------------------------------------------
(* How full a pipe is *)

LEMMA FilledIs ==
  ASSUME TypeOK, NEW c \in Pages
  PROVE  /\ Filled(c) \in 0 .. Wrap - 1
         /\ Empty(c) <=> Filled(c) = 0
         /\ pipe[c].nwrite = (pipe[c].nread + Filled(c)) % Wrap
<1> DEFINE r == pipe[c].nread
           w == pipe[c].nwrite
<1>1. r \in 0 .. Wrap - 1 /\ w \in 0 .. Wrap - 1 /\ Wrap \in Nat \ {0}
  BY PipeAssumption DEF TypeOK, PipesType
<1>2. Filled(c) = (w + Wrap - r) % Wrap /\ (Empty(c) <=> r = w)
  BY DEF Filled, Empty
<1> HIDE DEF r, w
<1>3. Filled(c) = IF w >= r THEN w - r ELSE w + Wrap - r
  <2>1. w + Wrap - r \in Nat /\ w + Wrap - r < 2 * Wrap
    BY <1>1
  <2> QED
    BY <1>1, <1>2, <2>1, WrapOnce
<1>4. Filled(c) \in 0 .. Wrap - 1 /\ (Empty(c) <=> Filled(c) = 0)
  BY <1>1, <1>2, <1>3
<1>5. w = (r + Filled(c)) % Wrap
  <2>1. r + Filled(c) \in Nat /\ r + Filled(c) < 2 * Wrap
    BY <1>1, <1>4
  <2> QED
    BY <1>1, <1>3, <2>1, WrapOnce
<1> QED
  BY <1>4, <1>5 DEF r, w

\* The difference of two counters; n bytes go in; n bytes go out.
LEMMA Difference ==
  ASSUME NEW r \in 0 .. Wrap - 1, NEW w \in 0 .. Wrap - 1
  PROVE  (w + Wrap - r) % Wrap = IF w >= r THEN w - r ELSE w + Wrap - r
<1>1. Wrap \in Nat \ {0}
  BY PipeAssumption
<1>2. w + Wrap - r \in Nat /\ w + Wrap - r < 2 * Wrap
  BY <1>1
<1> QED
  BY <1>1, <1>2, WrapOnce

LEMMA Advance ==
  ASSUME NEW x \in 0 .. Wrap - 1, NEW n \in Nat, n < Wrap
  PROVE  (x + n) % Wrap = IF x + n < Wrap THEN x + n ELSE x + n - Wrap
<1>1. Wrap \in Nat \ {0}
  BY PipeAssumption
<1>2. x + n \in Nat /\ x + n < 2 * Wrap
  BY <1>1
<1> QED
  BY <1>1, <1>2, WrapOnce

LEMMA FilledPut ==
  ASSUME NEW r \in 0 .. Wrap - 1, NEW w \in 0 .. Wrap - 1, NEW n \in Nat,
         ((w + Wrap - r) % Wrap) + n < Wrap
  PROVE  /\ (w + n) % Wrap \in 0 .. Wrap - 1
         /\ (((w + n) % Wrap) + Wrap - r) % Wrap = ((w + Wrap - r) % Wrap) + n
<1> DEFINE d == (w + Wrap - r) % Wrap
           v == (w + n) % Wrap
<1>1. Wrap \in Nat \ {0} /\ d + n < Wrap
  BY PipeAssumption
<1>2. d = IF w >= r THEN w - r ELSE w + Wrap - r
  BY Difference
<1> HIDE DEF d
<1>3. n < Wrap
  BY <1>1, <1>2
<1>4. v = IF w + n < Wrap THEN w + n ELSE w + n - Wrap
  BY <1>3, Advance
<1> HIDE DEF v
<1>5. v \in 0 .. Wrap - 1
  BY <1>1, <1>3, <1>4
<1>6. (v + Wrap - r) % Wrap = IF v >= r THEN v - r ELSE v + Wrap - r
  BY <1>5, Difference
<1>7. (v + Wrap - r) % Wrap = d + n
  BY <1>1, <1>2, <1>3, <1>4, <1>6
<1> QED
  BY <1>5, <1>7 DEF d, v

LEMMA FilledTake ==
  ASSUME NEW r \in 0 .. Wrap - 1, NEW w \in 0 .. Wrap - 1, NEW n \in Nat,
         n <= (w + Wrap - r) % Wrap
  PROVE  /\ (r + n) % Wrap \in 0 .. Wrap - 1
         /\ (w + Wrap - ((r + n) % Wrap)) % Wrap = ((w + Wrap - r) % Wrap) - n
<1> DEFINE d == (w + Wrap - r) % Wrap
           s == (r + n) % Wrap
<1>1. Wrap \in Nat \ {0} /\ n <= d
  BY PipeAssumption
<1>2. d = IF w >= r THEN w - r ELSE w + Wrap - r
  BY Difference
<1> HIDE DEF d
<1>3. n < Wrap
  BY <1>1, <1>2
<1>4. s = IF r + n < Wrap THEN r + n ELSE r + n - Wrap
  BY <1>3, Advance
<1> HIDE DEF s
<1>5. s \in 0 .. Wrap - 1
  BY <1>1, <1>3, <1>4
<1>6. (w + Wrap - s) % Wrap = IF w >= s THEN w - s ELSE w + Wrap - s
  BY <1>5, Difference
<1>7. (w + Wrap - s) % Wrap = d - n
  BY <1>1, <1>2, <1>3, <1>4, <1>6
<1> QED
  BY <1>5, <1>7 DEF d, s

-----------------------------------------------------------------------------
(* Descriptors and the entries of ftable *)

LEMMA PairsFinite ==
  \A S \in SUBSET (Procs \X Fds) :
    IsFiniteSet(S) /\ Cardinality(S) \in Nat /\ Cardinality(S) <= Cardinality(Procs) * Cardinality(Fds)
<1>1. IsFiniteSet(Procs) /\ IsFiniteSet(Fds)
  BY PipeAssumption
<1>2. IsFiniteSet(Procs \X Fds) /\ Cardinality(Procs \X Fds) = Cardinality(Procs) * Cardinality(Fds)
  BY <1>1, FS_Product
<1> QED
  BY <1>2, FS_Subset, FS_CardinalityType

LEMMA RefsFinite ==
  \A f \in Files : /\ Refs[f] \in SUBSET (Procs \X Fds) /\ IsFiniteSet(Refs[f])
                   /\ Cardinality(Refs[f]) \in 0 .. Cardinality(Procs) * Cardinality(Fds) /\ Cardinality(Refs[f]) \in Nat
<1> SUFFICES ASSUME NEW f \in Files
             PROVE  /\ Refs[f] \in SUBSET (Procs \X Fds) /\ IsFiniteSet(Refs[f])
                    /\ Cardinality(Refs[f]) \in 0 .. Cardinality(Procs) * Cardinality(Fds) /\ Cardinality(Refs[f]) \in Nat
  OBVIOUS
<1>1. Refs[f] \in SUBSET (Procs \X Fds)
  BY DEF Refs
<1>2. Cardinality(Procs) * Cardinality(Fds) \in Nat
  BY PipeAssumption, FS_CardinalityType
<1> QED
  BY <1>1, <1>2, PairsFinite

LEMMA FileType ==
  ASSUME TypeOK, NEW f \in Files
  PROVE  /\ file[f].ref \in Nat /\ file[f].writable \in BOOLEAN /\ file[f].pipe \in Pages \cup {None}
         /\ End(file[f].writable) \in Ends
<1>1. file[f] \in [ref : 0..Cardinality(Procs) * Cardinality(Fds), type : {"NONE", "PIPE"},
                 pipe : Pages \cup {None}, writable : BOOLEAN]
  BY DEF TypeOK, TablesType
<1>2. Cardinality(Procs) * Cardinality(Fds) \in Nat
  BY PipeAssumption, FS_CardinalityType
<1> QED
  BY <1>1, <1>2 DEF End, Ends

LEMMA CallType ==
  ASSUME TypeOK, NEW p \in Procs
  PROVE  /\ call[p] \in [op : {"user", "read", "write", "close", "exit"}, pipe : Pages \cup {None},
                        n : Nat, i : Nat]
         /\ End(call[p].n = 1) \in Ends
BY DEF TypeOK, CallsType, End, Ends

\* An open descriptor refers to an entry that counts it; nothing refers to a free entry.
LEMMA Referred ==
  ASSUME TypeOK, CountInv, NEW p \in Procs, NEW d \in Fds, ofile[p][d] # None
  PROVE  /\ ofile[p][d] \in Files /\ <<p, d>> \in Refs[ofile[p][d]]
         /\ file[ofile[p][d]].ref \in Nat \ {0}
         /\ file[ofile[p][d]].type = "PIPE" /\ file[ofile[p][d]].pipe \in Pages
         /\ file[ofile[p][d]].writable \in BOOLEAN
<1> DEFINE f == ofile[p][d]
<1>1. f \in Files /\ <<p, d>> \in Refs[f]
  BY DEF TypeOK, TablesType, Refs
<1>2. Cardinality(Refs[f]) \in Nat \ {0}
  BY <1>1, RefsFinite, FS_EmptySet
<1> HIDE DEF f
<1>3. file[f].ref \in Nat \ {0}
  BY <1>1, <1>2 DEF CountInv
<1>4. file[f].type = "PIPE" /\ file[f].pipe \in Pages /\ file[f].writable \in BOOLEAN
  BY <1>1, <1>3, FileType DEF CountInv
<1> QED
  BY <1>1, <1>3, <1>4 DEF f

LEMMA Unreferred ==
  ASSUME CountInv, NEW f \in Files, file[f].ref = 0
  PROVE  Refs[f] = {} /\ \A p \in Procs, d \in Fds : ofile[p][d] # f
<1>1. Cardinality(Refs[f]) = 0 /\ IsFiniteSet(Refs[f])
  BY RefsFinite DEF CountInv
<1>2. Refs[f] = {}
  BY <1>1, FS_EmptySet
<1>3. ASSUME NEW p \in Procs, NEW d \in Fds, ofile[p][d] = f
      PROVE  <<p, d>> \in Refs[f]
  BY <1>3 DEF Refs
<1> QED
  BY <1>2, <1>3

\* A process in read or write keeps its end open.
LEMMA HasEnd ==
  ASSUME TypeOK, CountInv, EndInv, PageInv, CallInv, NEW p \in InCall
  PROVE  /\ p \in alive /\ p \in Procs /\ call[p].op \in Ends /\ call[p].pipe \in Pages
         /\ IsOpen(call[p].pipe, call[p].op) /\ pipe[call[p].pipe].live
         /\ \A q \in Procs : ~Closing(q, call[p].pipe, call[p].op)
<1>1. p \in Procs /\ call[p].op \in Ends
  BY DEF InCall
<1>2. p \in alive
  BY <1>1 DEF CallInv, Ends
<1>3. PICK f \in Files : Opens(f, call[p].pipe, call[p].op)
  BY <1>1 DEF CallInv
<1>4. call[p].pipe \in Pages
  BY <1>3, FileType DEF CountInv, Opens
<1>5. IsOpen(call[p].pipe, call[p].op) /\ \A q \in Procs : ~Closing(q, call[p].pipe, call[p].op)
  BY <1>1, <1>3, <1>4 DEF EndInv
<1>6. pipe[call[p].pipe].live
  BY <1>1, <1>4, <1>5 DEF PageInv, Ends
<1> QED
  BY <1>1, <1>2, <1>4, <1>5, <1>6

\* Nobody has to do with a page that is not a pipe's.
LEMMA Unused ==
  ASSUME TypeOK, CountInv, EndInv, PageInv, CallInv, NEW c \in Pages, ~pipe[c].live
  PROVE  /\ \A e \in Ends : /\ ~IsOpen(c, e)
                            /\ \A f \in Files : ~Opens(f, c, e)
                            /\ \A p \in Procs : ~Closing(p, c, e)
         /\ \A p \in InCall : call[p].pipe # c
<1>1. \A e \in Ends : ~IsOpen(c, e)
  BY DEF PageInv, Ends
<1> QED
  BY <1>1, HasEnd DEF EndInv

LEMMA AwakeUnlessInCall ==
  ASSUME NapInv, NEW p \in Procs, p \notin InCall
  PROVE  nap[p] = Awake
BY DEF NapInv

\* One descriptor changes, and the counts of the entry it referred to and of the one it refers to.
Sets(p, d, g) == ofile' = [ofile EXCEPT ![p][d] = g] /\ g # ofile[p][d]

LEMMA SetFd ==
  ASSUME TypeOK, NEW p \in Procs, NEW d \in Fds, NEW g \in Files \cup {None}, Sets(p, d, g)
  PROVE  /\ ofile' \in [Procs -> [Fds -> Files \cup {None}]]
         /\ ofile'[p][d] = g
         /\ \A q \in Procs, x \in Fds : q # p \/ x # d => ofile'[q][x] = ofile[q][x]
         /\ \A f \in Files : f # g /\ f # ofile[p][d] => Cardinality(Refs'[f]) = Cardinality(Refs[f])
         /\ g \in Files => Cardinality(Refs'[g]) = Cardinality(Refs[g]) + 1
         /\ ofile[p][d] \in Files => Cardinality(Refs'[ofile[p][d]]) = Cardinality(Refs[ofile[p][d]]) - 1
<1> DEFINE old == ofile[p][d]
           pd == <<p, d>>
<1>1. ofile \in [Procs -> [Fds -> Files \cup {None}]]
  BY DEF TypeOK, TablesType
<1>2. /\ ofile' \in [Procs -> [Fds -> Files \cup {None}]]
      /\ ofile'[p][d] = g /\ g # ofile[p][d]
      /\ \A q \in Procs, x \in Fds : q # p \/ x # d => ofile'[q][x] = ofile[q][x]
  BY <1>1 DEF Sets
<1>3. /\ pd \in Procs \X Fds /\ ofile[pd[1]][pd[2]] = old /\ ofile'[pd[1]][pd[2]] = g /\ old # g
      /\ \A x \in Procs \X Fds : x # pd => ofile'[x[1]][x[2]] = ofile[x[1]][x[2]]
  BY <1>2
<1> HIDE DEF old, pd
<1>4. \A f \in Files : /\ \A x \in Refs[f] \cup Refs'[f] : x \in Procs \X Fds
                      /\ \A x \in Procs \X Fds : /\ x \in Refs[f] <=> ofile[x[1]][x[2]] = f
                                                 /\ x \in Refs'[f] <=> ofile'[x[1]][x[2]] = f
  BY DEF Refs
<1>5. \A f \in Files : f # g /\ f # old => Refs'[f] = Refs[f]
  <2> SUFFICES ASSUME NEW f \in Files, f # g, f # old
               PROVE  Refs'[f] = Refs[f]
    OBVIOUS
  <2>1. \A x \in Procs \X Fds : x \in Refs'[f] <=> x \in Refs[f]
    BY <1>3, <1>4
  <2>2. \A x \in Refs[f] \cup Refs'[f] : x \in Procs \X Fds
    BY <1>4
  <2> QED
    BY <2>1, <2>2
<1>6. g \in Files => Refs'[g] = Refs[g] \cup {pd} /\ pd \notin Refs[g]
  <2> SUFFICES ASSUME g \in Files
               PROVE  Refs'[g] = Refs[g] \cup {pd} /\ pd \notin Refs[g]
    OBVIOUS
  <2>1. pd \in Refs'[g] /\ pd \notin Refs[g]
    BY <1>3, <1>4
  <2>2. \A x \in Procs \X Fds : x # pd => (x \in Refs'[g] <=> x \in Refs[g])
    BY <1>3, <1>4
  <2>3. \A x \in Refs[g] \cup Refs'[g] : x \in Procs \X Fds
    BY <1>4
  <2> QED
    BY <2>1, <2>2, <2>3
<1>7. old \in Files => Refs'[old] = Refs[old] \ {pd} /\ pd \in Refs[old]
  <2> SUFFICES ASSUME old \in Files
               PROVE  Refs'[old] = Refs[old] \ {pd} /\ pd \in Refs[old]
    OBVIOUS
  <2>1. pd \in Refs[old] /\ pd \notin Refs'[old]
    BY <1>3, <1>4
  <2>2. \A x \in Procs \X Fds : x # pd => (x \in Refs'[old] <=> x \in Refs[old])
    BY <1>3, <1>4
  <2>3. \A x \in Refs[old] \cup Refs'[old] : x \in Procs \X Fds
    BY <1>4
  <2> QED
    BY <2>1, <2>2, <2>3
<1>8. g \in Files => Cardinality(Refs'[g]) = Cardinality(Refs[g]) + 1
  <2>1. g \in Files => IsFiniteSet(Refs[g])
    BY RefsFinite
  <2> QED
    BY <1>6, <2>1, FS_AddElement
<1>9. old \in Files => Cardinality(Refs'[old]) = Cardinality(Refs[old]) - 1
  <2>1. old \in Files => IsFiniteSet(Refs[old])
    BY RefsFinite
  <2> QED
    BY <1>7, <2>1, FS_RemoveElement
<1> QED
  BY <1>2, <1>5, <1>8, <1>9 DEF old

\* Steps that wake some of those that are SLEEPING, and leave the calls and the pipes of the others alone.
WakesSome ==
  /\ spin' = spin /\ nap' = [q \in Procs |-> nap'[q]]
  /\ \A q \in Procs : nap'[q] = nap[q] \/ (nap'[q] = Awake /\ nap[q].stage # "falls")

LEMMA NapFrame ==
  ASSUME NapInv, WakesSome,
         \A q \in Procs : nap'[q] # Awake => call'[q].op = call[q].op /\ call'[q].pipe = call[q].pipe
  PROVE  NapInv'
<1>1. Awake' = Awake /\ Awake.stage = "runs"
  BY DEF Awake
<1>2. ASSUME NEW q \in Procs
      PROVE  /\ \/ nap'[q] = Awake'
                \/ /\ q \in InCall'
                   /\ nap'[q] \in [stage : {"falls", "sleeps"}, chan : {Chan(q)'}, lk : {call'[q].pipe}]
             /\ \A c \in Pages : spin'[c] = q <=> nap'[q].stage = "falls" /\ nap'[q].lk = c
  <2>1. CASE nap'[q] = Awake /\ nap[q].stage # "falls"
    BY <1>1, <2>1 DEF NapInv, WakesSome
  <2>2. CASE nap'[q] = nap[q] /\ nap'[q] # Awake
    <3>1. Chan(q)' = Chan(q) /\ call'[q].op = call[q].op /\ call'[q].pipe = call[q].pipe
      BY <2>2 DEF Chan
    <3>2. q \in InCall /\ nap[q] \in [stage : {"falls", "sleeps"}, chan : {Chan(q)}, lk : {call[q].pipe}]
      BY <2>2 DEF NapInv
    <3>3. q \in InCall'
      BY <3>1, <3>2 DEF InCall
    <3>4. \A c \in Pages : spin'[c] = q <=> nap'[q].stage = "falls" /\ nap'[q].lk = c
      BY <2>2 DEF NapInv, WakesSome
    <3> QED
      BY <2>2, <3>1, <3>2, <3>3, <3>4
  <2> QED
    BY <1>1, <2>1, <2>2 DEF WakesSome
<1> QED
  BY <1>2 DEF NapInv, WakesSome

LEMMA ReasonFrame ==
  ASSUME ReasonInv,
         \A q \in Procs : nap'[q] # Awake => /\ nap[q] # Awake
                                             /\ call'[q].op = call[q].op /\ call'[q].pipe = call[q].pipe
                                             /\ pipe'[call[q].pipe] = pipe[call[q].pipe]
  PROVE  ReasonInv'
<1> SUFFICES ASSUME NEW p \in Procs, nap'[p] # Awake
             PROVE  (LET c == call[p].pipe IN
                     IF call[p].op = "read" THEN pipe[c].writeopen /\ (Empty(c) \/ pipe[c].silent)
                                            ELSE Filled(c) = PIPESIZE /\ pipe[c].readopen)'
  BY DEF ReasonInv, Awake
<1>2. /\ call'[p].op = call[p].op /\ call'[p].pipe = call[p].pipe
      /\ pipe'[call[p].pipe] = pipe[call[p].pipe]
  OBVIOUS
<1>3. LET c == call[p].pipe IN
      IF call[p].op = "read" THEN pipe[c].writeopen /\ (Empty(c) \/ pipe[c].silent)
                             ELSE Filled(c) = PIPESIZE /\ pipe[c].readopen
  BY DEF ReasonInv
<1> QED
  BY <1>2, <1>3 DEF Empty, Filled

\* Steps that leave the sleepers, their calls and their pipes alone.
LEMMA SleepersFrame ==
  ASSUME NapInv, ReasonInv, UNCHANGED <<nap, spin>>,
         \A p \in InCall : /\ call'[p].op = call[p].op /\ call'[p].pipe = call[p].pipe
                           /\ pipe'[call[p].pipe] = pipe[call[p].pipe]
  PROVE  NapInv' /\ ReasonInv'
<1>1. WakesSome
  BY DEF WakesSome, NapInv
<1>2. \A q \in Procs : nap'[q] # Awake => q \in InCall /\ nap[q] # Awake
  BY AwakeUnlessInCall
<1>3. NapInv'
  BY <1>1, <1>2, NapFrame
<1>4. ReasonInv'
  BY <1>2, ReasonFrame
<1> QED
  BY <1>3, <1>4

-----------------------------------------------------------------------------
(* sysfile.c and file.c *)

\* Entries that stay open or closed, with what they are for.
SameOpen(f) ==
  /\ file'[f].ref > 0 <=> file[f].ref > 0
  /\ file[f].ref > 0 => /\ file'[f].type = file[f].type /\ file'[f].pipe = file[f].pipe
                        /\ file'[f].writable = file[f].writable

TablesShape ==
  /\ ofile \in [Procs -> [Fds -> Files \cup {None}]]
  /\ file \in [Files -> [ref : Nat, type : {"NONE", "PIPE"}, pipe : Pages \cup {None}, writable : BOOLEAN]]
  /\ \A f \in Files : file[f].ref = Cardinality(Refs[f])

LEMMA TablesAre == TablesShape => TablesType
<1> SUFFICES ASSUME TablesShape
             PROVE  TablesType
  OBVIOUS
<1>1. \A f \in Files : file[f].ref \in 0 .. Cardinality(Procs) * Cardinality(Fds)
  BY RefsFinite DEF TablesShape
<1>2. \A f \in Files : file[f] \in [ref : 0..Cardinality(Procs) * Cardinality(Fds), type : {"NONE", "PIPE"},
                                    pipe : Pages \cup {None}, writable : BOOLEAN]
  BY <1>1 DEF TablesShape
<1> QED
  BY <1>2 DEF TablesType, TablesShape

LEMMA FilesAre ==
  ASSUME TypeOK
  PROVE  file \in [Files -> [ref : Nat, type : {"NONE", "PIPE"}, pipe : Pages \cup {None}, writable : BOOLEAN]]
<1>1. Cardinality(Procs) * Cardinality(Fds) \in Nat
  BY PipeAssumption, FS_CardinalityType
<1>2. \A r \in 0 .. Cardinality(Procs) * Cardinality(Fds) : r \in Nat
  BY <1>1
<1> QED
  BY <1>2 DEF TypeOK, TablesType

LEMMA TablesWillBe == TablesShape' => TablesType'
BY TablesAre, PTL

SameClose(p) ==
  /\ call'[p].op = "close" <=> call[p].op = "close"
  /\ call[p].op = "close" => call'[p].pipe = call[p].pipe /\ call'[p].n = call[p].n

LEMMA EndFrame ==
  ASSUME EndInv, \A f \in Files : SameOpen(f), \A p \in Procs : SameClose(p),
         \A c \in Pages : pipe'[c].readopen = pipe[c].readopen /\ pipe'[c].writeopen = pipe[c].writeopen
  PROVE  EndInv'
<1>1. \A f \in Files, c \in Pages, e \in Ends : Opens(f, c, e)' <=> Opens(f, c, e)
  BY DEF Opens, SameOpen
<1>2. \A p \in Procs, c \in Pages, e \in Ends : Closing(p, c, e)' <=> Closing(p, c, e)
  BY DEF Closing, SameClose
<1>3. \A c \in Pages, e \in Ends : IsOpen(c, e)' <=> IsOpen(c, e)
  BY DEF IsOpen
<1> QED
  BY <1>1, <1>2, <1>3 DEF EndInv, Ends

\* One process changes; the entries the others refer to stay open.
StaysOpen(f) ==
  file[f].ref > 0 => /\ file'[f].ref > 0
                     /\ file'[f].pipe = file[f].pipe /\ file'[f].writable = file[f].writable

UsesOwnEnd(p) ==
  /\ p \notin alive => call[p].op = "user" /\ \A d \in Fds : ofile[p][d] = None
  /\ p \in InCall => \E d \in Fds : /\ ofile[p][d] \in Files
                                    /\ Opens(ofile[p][d], call[p].pipe, call[p].op)
  /\ call[p].op = "write" => call[p].i < call[p].n
  /\ call[p].op = "close" => call[p].pipe \in Pages

LEMMA CallFrame ==
  ASSUME CallInv, NEW p \in Procs, UsesOwnEnd(p)',
         \A q \in Procs \ {p} : /\ call'[q] = call[q] /\ (q \in alive' <=> q \in alive)
                                /\ \A d \in Fds : /\ ofile'[q][d] = ofile[q][d]
                                                  /\ ofile[q][d] \in Files => StaysOpen(ofile[q][d])
  PROVE  CallInv'
<1>1. ASSUME NEW q \in Procs \ {p}, q \in InCall'
      PROVE  \E d \in Fds : ofile'[q][d] \in Files /\ Opens(ofile[q][d], call[q].pipe, call[q].op)'
  <2>1. q \in InCall
    BY <1>1 DEF InCall, Ends
  <2>2. PICK d \in Fds : ofile[q][d] \in Files /\ Opens(ofile[q][d], call[q].pipe, call[q].op)
    BY <2>1 DEF CallInv, InCall
  <2>3. ofile'[q][d] = ofile[q][d] /\ StaysOpen(ofile[q][d]) /\ call'[q] = call[q]
    BY <2>2 DEF InCall
  <2> QED
    BY <2>2, <2>3 DEF Opens, StaysOpen
<1>2. \A q \in Procs \ {p} : /\ q \notin alive' => call'[q].op = "user" /\ \A d \in Fds : ofile'[q][d] = None
                             /\ call'[q].op = "write" => call'[q].i < call'[q].n
                             /\ call'[q].op = "close" => call'[q].pipe \in Pages
  BY DEF CallInv
<1>3. /\ p \notin alive' => call'[p].op = "user" /\ \A d \in Fds : ofile'[p][d] = None
      /\ p \in InCall' => \E d \in Fds : ofile'[p][d] \in Files /\ Opens(ofile[p][d], call[p].pipe, call[p].op)'
      /\ call'[p].op = "write" => call'[p].i < call'[p].n
      /\ call'[p].op = "close" => call'[p].pipe \in Pages
  BY DEF UsesOwnEnd
<1> QED
  BY <1>1, <1>2, <1>3 DEF CallInv

LEMMA DupStep ==
  ASSUME IndInv, NEW p \in Procs, NEW d \in Fds, sys_dup(p, d)
  PROVE  IndInv'
<1> DEFINE f == ofile[p][d]
           e == Min(FreeFds(p))
<1>1. /\ f \in Files /\ file[f].ref \in Nat \ {0} /\ file[f].type = "PIPE" /\ file[f].pipe \in Pages
  BY Referred DEF sys_dup, IndInv
<1>2. e \in Fds /\ ofile[p][e] = None
  <2>1. FreeFds(p) \in SUBSET Nat /\ FreeFds(p) # {}
    BY PipeAssumption DEF sys_dup, FreeFds
  <2>2. e \in FreeFds(p)
    BY <2>1, MinIn
  <2> QED
    BY <2>2 DEF FreeFds
<1>3. /\ ofile' = [ofile EXCEPT ![p][e] = f] /\ file' = [file EXCEPT ![f].ref = @ + 1]
      /\ UNCHANGED <<alive, pipe, call, killed, last, panic, spin, nap>>
      /\ p \in alive /\ call[p].op = "user"
  BY DEF sys_dup, InUser
<1> HIDE DEF f, e
<1>4. /\ ofile' \in [Procs -> [Fds -> Files \cup {None}]]
      /\ \A q \in Procs, x \in Fds : q # p \/ x # e => ofile'[q][x] = ofile[q][x]
      /\ Cardinality(Refs'[f]) = Cardinality(Refs[f]) + 1
      /\ \A g \in Files \ {f} : Cardinality(Refs'[g]) = Cardinality(Refs[g])
  <2>1. f # None /\ f \in Files \cup {None} /\ \A g \in Files : g # None
    BY <1>1, PipeAssumption
  <2>2. TypeOK /\ Sets(p, e, f)
    BY <1>2, <1>3, <2>1 DEF IndInv, Sets
  <2>3. /\ ofile' \in [Procs -> [Fds -> Files \cup {None}]]
        /\ \A q \in Procs, x \in Fds : q # p \/ x # e => ofile'[q][x] = ofile[q][x]
        /\ \A g \in Files : g # f /\ g # ofile[p][e] => Cardinality(Refs'[g]) = Cardinality(Refs[g])
        /\ f \in Files => Cardinality(Refs'[f]) = Cardinality(Refs[f]) + 1
    BY <1>2, <2>1, <2>2, SetFd
  <2> QED
    BY <1>1, <1>2, <2>1, <2>3
<1>5. /\ file' \in [Files -> [ref : Nat, type : {"NONE", "PIPE"}, pipe : Pages \cup {None}, writable : BOOLEAN]]
      /\ file'[f].ref = file[f].ref + 1
      /\ file'[f].type = file[f].type /\ file'[f].pipe = file[f].pipe /\ file'[f].writable = file[f].writable
      /\ \A g \in Files \ {f} : file'[g] = file[g]
  BY <1>1, <1>3 DEF IndInv, TypeOK, TablesType
<1>6. \A g \in Files : SameOpen(g)
  BY <1>1, <1>5 DEF SameOpen
<1>7. \A g \in Files : file'[g].ref = Cardinality(Refs'[g])
  <2>1. \A g \in Files : file[g].ref = Cardinality(Refs[g])
    BY DEF IndInv, CountInv
  <2> QED
    BY <1>1, <1>4, <1>5, <2>1
<1>8. CountInv'
  BY <1>3, <1>6, <1>7 DEF IndInv, CountInv, SameOpen
<1>9. TypeOK'
  BY <1>3, <1>4, <1>5, <1>7, TablesWillBe DEF TablesShape, IndInv, TypeOK, PipesType, CallsType
<1>10. EndInv'
  BY <1>3, <1>6, EndFrame DEF IndInv, SameClose
<1>11. CallInv'
  <2>1. UsesOwnEnd(p)'
    BY <1>3 DEF UsesOwnEnd, InCall, Ends
  <2>2. \A g \in Files : StaysOpen(g)
    BY <1>6 DEF SameOpen, StaysOpen
  <2> QED
    BY <1>3, <1>4, <2>1, <2>2, CallFrame DEF IndInv
<1>12. PageInv' /\ NapInv' /\ ReasonInv'
  BY <1>3, SleepersFrame DEF IndInv, PageInv, IsOpen, Filled
<1> QED
  BY <1>8, <1>9, <1>10, <1>11, <1>12 DEF IndInv

\* Steps of a process that go from a call to another, without a pipe or a descriptor.
LEMMA CallStep ==
  ASSUME IndInv, UNCHANGED <<tables, pipe, last, panic, spin, nap>>, CallsType',
         NEW p \in Procs, p \notin InCall, call[p].op # "close", call'[p].op # "close", UsesOwnEnd(p)',
         \A q \in Procs \ {p} : call'[q] = call[q] /\ (q \in alive' <=> q \in alive)
  PROVE  IndInv'
<1>1. CountInv'
  BY DEF IndInv, CountInv, Refs, tables
<1>2. TypeOK'
  BY DEF IndInv, TypeOK, TablesType, PipesType, tables
<1>3. EndInv'
  <2>1. \A q \in Procs : SameClose(q)
    BY DEF SameClose
  <2>2. \A f \in Files : SameOpen(f)
    BY DEF SameOpen, tables
  <2> QED
    BY <2>1, <2>2, EndFrame DEF IndInv
<1>4. CallInv'
  <2>1. \A f \in Files : StaysOpen(f)
    BY DEF StaysOpen, tables
  <2> QED
    BY <2>1, CallFrame DEF IndInv, tables
<1>5. PageInv'
  BY DEF IndInv, PageInv, IsOpen, Filled
<1>6. NapInv' /\ ReasonInv'
  BY SleepersFrame DEF IndInv, InCall
<1> QED
  BY <1>1, <1>2, <1>3, <1>4, <1>5, <1>6 DEF IndInv

LEMMA StartsIOStep ==
  ASSUME IndInv, NEW p \in Procs, NEW d \in Fds, NEW n \in Counts, StartsIO(p, d, n)
  PROVE  IndInv'
<1> DEFINE f == ofile[p][d]
           op == IF file[f].writable THEN "write" ELSE "read"
<1>1. /\ f \in Files /\ file[f].ref \in Nat \ {0} /\ file[f].pipe \in Pages /\ file[f].writable \in BOOLEAN
      /\ op = End(file[f].writable) /\ n \in Nat \ {0}
  BY Referred, PipeAssumption DEF StartsIO, IndInv, End
<1>2. /\ call' = [call EXCEPT ![p] = [op |-> op, pipe |-> file[f].pipe, n |-> n, i |-> 0]]
      /\ UNCHANGED <<alive, tables, pipe, killed, last, panic, spin, nap>>
      /\ p \in alive /\ call[p].op = "user" /\ op \in {"read", "write"}
  BY DEF StartsIO, InUser
<1> HIDE DEF f, op
<1>3. call'[p] = [op |-> op, pipe |-> file[f].pipe, n |-> n, i |-> 0] /\ \A q \in Procs \ {p} : call'[q] = call[q]
  BY <1>2 DEF IndInv, TypeOK, CallsType
<1>4. CallsType'
  BY <1>1, <1>2 DEF IndInv, TypeOK, CallsType
<1>5. UsesOwnEnd(p)'
  <2>1. /\ ofile'[p][d] \in Files
        /\ Opens(ofile[p][d], call[p].pipe, call[p].op)'
    BY <1>1, <1>2, <1>3 DEF Opens, tables, f
  <2>2. p \in alive' /\ call'[p].op \in {"read", "write"} /\ call'[p].i < call'[p].n
    BY <1>1, <1>2, <1>3
  <2> QED
    BY <2>1, <2>2 DEF UsesOwnEnd
<1> QED
  BY <1>2, <1>3, <1>4, <1>5, CallStep DEF InCall, Ends

-----------------------------------------------------------------------------
(* proc.c *)

LEMMA ExitStep ==
  ASSUME IndInv, NEW p \in Procs, exit(p)
  PROVE  IndInv'
<1>1. /\ call' = [call EXCEPT ![p].op = "exit"] /\ p \in alive /\ call[p].op = "user"
      /\ UNCHANGED <<alive, tables, pipe, killed, last, panic, spin, nap>>
  BY DEF exit
<1>2. call'[p].op = "exit" /\ \A q \in Procs \ {p} : call'[q] = call[q]
  BY <1>1 DEF IndInv, TypeOK, CallsType
<1>3. CallsType'
  BY <1>1 DEF IndInv, TypeOK, CallsType
<1>4. UsesOwnEnd(p)'
  BY <1>1, <1>2 DEF UsesOwnEnd, InCall, Ends
<1> QED
  BY <1>1, <1>2, <1>3, <1>4, CallStep DEF InCall, Ends

LEMMA DiesStep ==
  ASSUME IndInv, NEW p \in Procs, Dies(p)
  PROVE  IndInv'
<1>1. /\ call' = [call EXCEPT ![p] = Idle] /\ call[p].op = "exit"
      /\ alive' = alive \ {p} /\ killed' = killed \ {p} /\ FreeFds(p) = Fds
      /\ UNCHANGED <<tables, pipe, last, panic, spin, nap>>
  BY DEF Dies, Runs, Returns
<1>2. call'[p] = Idle /\ \A q \in Procs \ {p} : call'[q] = call[q]
  BY <1>1 DEF IndInv, TypeOK, CallsType
<1>3. CallsType'
  BY <1>1 DEF IndInv, TypeOK, CallsType, Idle
<1>4. UsesOwnEnd(p)'
  <2>1. \A d \in Fds : ofile'[p][d] = None
    BY <1>1 DEF FreeFds, tables
  <2> QED
    BY <1>2, <2>1 DEF UsesOwnEnd, InCall, Ends, Idle
<1> QED
  BY <1>1, <1>2, <1>3, <1>4, CallStep DEF InCall, Ends, Idle

LEMMA KillStep ==
  ASSUME IndInv, NEW q \in Procs, kill(q)
  PROVE  IndInv'
<1>1. /\ q \in alive /\ killed' = killed \cup {q}
      /\ nap' = IF nap[q].stage = "sleeps" THEN [nap EXCEPT ![q] = Awake] ELSE nap
      /\ UNCHANGED <<alive, tables, pipe, call, last, panic, spin>>
  BY DEF kill
<1>2. TypeOK'
  BY <1>1 DEF IndInv, TypeOK, TablesType, PipesType, CallsType, tables
<1>3. CountInv'
  BY <1>1 DEF IndInv, CountInv, Refs, tables
<1>4. EndInv'
  <2>1. /\ \A p \in Procs : SameClose(p)
        /\ \A f \in Files : SameOpen(f)
    BY <1>1 DEF SameClose, SameOpen, tables
  <2> QED
    BY <1>1, <2>1, EndFrame DEF IndInv
<1>5. CallInv'
  BY <1>1 DEF IndInv, CallInv, InCall, Opens, tables
<1>6. PageInv'
  BY <1>1 DEF IndInv, PageInv, IsOpen, Filled
<1>7. WakesSome /\ \A p \in Procs : nap'[p] # Awake => nap[p] # Awake
  BY <1>1 DEF IndInv, NapInv, WakesSome
<1>8. NapInv'
  BY <1>1, <1>7, NapFrame DEF IndInv
<1>9. ReasonInv'
  BY <1>1, <1>7, ReasonFrame DEF IndInv
<1> QED
  BY <1>2, <1>3, <1>4, <1>5, <1>6, <1>8, <1>9 DEF IndInv

\* sleep, once the lock of the pipe is given back.
LEMMA FallsStep ==
  ASSUME IndInv, NEW p \in Procs, Falls(p)
  PROVE  IndInv'
<1>1. /\ nap[p].stage = "falls"
      /\ spin' = [spin EXCEPT ![nap[p].lk] = None]
      /\ nap' = [nap EXCEPT ![p].stage = "sleeps"]
      /\ UNCHANGED <<alive, tables, pipe, call, killed, last, panic>>
  BY DEF Falls, FallsAsleep
<1>2. /\ p \in InCall
      /\ nap[p] \in [stage : {"falls", "sleeps"}, chan : {Chan(p)}, lk : {call[p].pipe}]
  BY <1>1 DEF IndInv, NapInv, Awake
<1>3. call[p].pipe \in Pages /\ nap[p].lk = call[p].pipe
  BY <1>2, HasEnd DEF IndInv
<1>4. TypeOK'
  BY <1>1, <1>3 DEF IndInv, TypeOK, TablesType, PipesType, CallsType, tables
<1>5. CountInv'
  BY <1>1 DEF IndInv, CountInv, Refs, tables
<1>6. EndInv'
  <2>1. /\ \A q \in Procs : SameClose(q)
        /\ \A f \in Files : SameOpen(f)
    BY <1>1 DEF SameClose, SameOpen, tables
  <2> QED
    BY <1>1, <2>1, EndFrame DEF IndInv
<1>7. CallInv'
  BY <1>1 DEF IndInv, CallInv, InCall, Opens, tables
<1>8. PageInv'
  BY <1>1 DEF IndInv, PageInv, IsOpen, Filled
<1>9. /\ nap' = [q \in Procs |-> nap'[q]]
      /\ nap'[p] = [nap[p] EXCEPT !.stage = "sleeps"] /\ \A q \in Procs \ {p} : nap'[q] = nap[q]
  BY <1>1 DEF IndInv, NapInv
<1>10. nap'[p] \in [stage : {"falls", "sleeps"}, chan : {Chan(p)}, lk : {call[p].pipe}]
       /\ nap'[p].stage = "sleeps" /\ nap[p] # Awake
  BY <1>1, <1>2, <1>9 DEF Awake
<1>11. InCall' = InCall /\ \A q \in Procs : Chan(q)' = Chan(q)
  BY <1>1 DEF InCall, Chan
<1>12. \A c \in Pages, q \in Procs : spin'[c] = q <=> nap'[q].stage = "falls" /\ nap'[q].lk = c
  <2> SUFFICES ASSUME NEW c \in Pages, NEW q \in Procs
               PROVE  spin'[c] = q <=> nap'[q].stage = "falls" /\ nap'[q].lk = c
    OBVIOUS
  <2>1. /\ spin[c] = q <=> nap[q].stage = "falls" /\ nap[q].lk = c
        /\ spin[c] = p <=> nap[p].stage = "falls" /\ nap[p].lk = c
    BY DEF IndInv, NapInv
  <2>2. spin'[c] = IF c = call[p].pipe THEN None ELSE spin[c]
    BY <1>1, <1>3 DEF IndInv, TypeOK
  <2> QED
    BY <1>1, <1>3, <1>9, <1>10, <2>1, <2>2, PipeAssumption
<1>13. NapInv'
  <2>1. \A q \in Procs : \/ nap'[q] = Awake
                         \/ /\ q \in InCall
                            /\ nap'[q] \in [stage : {"falls", "sleeps"}, chan : {Chan(q)}, lk : {call[q].pipe}]
    BY <1>2, <1>9, <1>10 DEF IndInv, NapInv
  <2> QED
    BY <1>1, <1>9, <1>11, <1>12, <2>1 DEF NapInv, Awake
<1>14. ReasonInv'
  BY <1>1, <1>9, <1>10, ReasonFrame DEF IndInv
<1> QED
  BY <1>4, <1>5, <1>6, <1>7, <1>8, <1>13, <1>14 DEF IndInv

\* What a close does to the descriptors: the entry has one reference less.
LEMMA CloseTables ==
  ASSUME IndInv, NEW p \in Procs, NEW d \in Fds, sys_close(p, d)
  PROVE  LET f == ofile[p][d] IN
         /\ f \in Files /\ file[f].ref \in Nat \ {0} /\ file[f].pipe \in Pages /\ file[f].writable \in BOOLEAN
         /\ p \in alive /\ p \notin InCall /\ call[p].op \in {"user", "exit"}
         /\ UNCHANGED <<alive, pipe, killed, last, spin, nap, panic>>
         /\ ofile' \in [Procs -> [Fds -> Files \cup {None}]]
         /\ \A q \in Procs, x \in Fds : q # p \/ x # d => ofile'[q][x] = ofile[q][x]
         /\ Cardinality(Refs'[f]) = file[f].ref - 1
         /\ \A g \in Files \ {f} : Cardinality(Refs'[g]) = file[g].ref
<1> DEFINE f == ofile[p][d]
<1>1. /\ f # None /\ ofile' = [ofile EXCEPT ![p][d] = None]
      /\ UNCHANGED <<alive, pipe, killed, last, spin, nap>>
      /\ panic' = (panic \/ file[f].ref < 1)
      /\ call[p].op \in {"user", "exit"} /\ (call[p].op = "user" => p \in alive)
  BY DEF sys_close, Closes, InUser, Runs
<1>2. /\ f \in Files /\ file[f].ref \in Nat \ {0} /\ file[f].pipe \in Pages /\ file[f].writable \in BOOLEAN
  BY <1>1, Referred DEF IndInv
<1>3. p \in alive /\ p \notin InCall
  BY <1>1 DEF IndInv, CallInv, InCall, Ends
<1>4. panic' = panic
  BY <1>1, <1>2 DEF IndInv, TypeOK
<1>5. TypeOK /\ Sets(p, d, None) /\ None \notin Files /\ None \in Files \cup {None}
  BY <1>1, PipeAssumption DEF Sets, IndInv
<1>6. /\ ofile' \in [Procs -> [Fds -> Files \cup {None}]]
      /\ \A q \in Procs, x \in Fds : q # p \/ x # d => ofile'[q][x] = ofile[q][x]
      /\ \A g \in Files : g # None /\ g # ofile[p][d] => Cardinality(Refs'[g]) = Cardinality(Refs[g])
      /\ ofile[p][d] \in Files => Cardinality(Refs'[ofile[p][d]]) = Cardinality(Refs[ofile[p][d]]) - 1
  BY <1>5, SetFd
<1>7. \A g \in Files : file[g].ref = Cardinality(Refs[g])
  BY DEF IndInv, CountInv
<1>8. /\ Cardinality(Refs'[f]) = file[f].ref - 1
      /\ \A g \in Files \ {f} : Cardinality(Refs'[g]) = file[g].ref
  BY <1>2, <1>5, <1>6, <1>7
<1> QED
  BY <1>1, <1>2, <1>3, <1>4, <1>6, <1>8

LEMMA CloseSharedStep ==
  ASSUME IndInv, NEW p \in Procs, NEW d \in Fds, sys_close(p, d), file[ofile[p][d]].ref > 1
  PROVE  IndInv'
<1> DEFINE f == ofile[p][d]
<1>1. /\ f \in Files /\ file[f].ref \in Nat \ {0} /\ file[f].pipe \in Pages /\ file[f].writable \in BOOLEAN
      /\ p \in alive /\ p \notin InCall /\ call[p].op \in {"user", "exit"}
      /\ UNCHANGED <<alive, pipe, killed, last, spin, nap, panic>>
      /\ ofile' \in [Procs -> [Fds -> Files \cup {None}]]
      /\ \A q \in Procs, x \in Fds : q # p \/ x # d => ofile'[q][x] = ofile[q][x]
      /\ Cardinality(Refs'[f]) = file[f].ref - 1
      /\ \A g \in Files \ {f} : Cardinality(Refs'[g]) = file[g].ref
  BY CloseTables
<1>2. file' = [file EXCEPT ![f].ref = @ - 1] /\ call' = call /\ file[f].ref > 1
  BY <1>1 DEF sys_close, Closes
<1> HIDE DEF f
<1>3. /\ file' \in [Files -> [ref : Nat, type : {"NONE", "PIPE"}, pipe : Pages \cup {None}, writable : BOOLEAN]]
      /\ file'[f].ref = file[f].ref - 1
      /\ file'[f].type = file[f].type /\ file'[f].pipe = file[f].pipe /\ file'[f].writable = file[f].writable
      /\ \A g \in Files \ {f} : file'[g] = file[g]
  <2>1. file \in [Files -> [ref : Nat, type : {"NONE", "PIPE"}, pipe : Pages \cup {None}, writable : BOOLEAN]]
    BY FilesAre DEF IndInv
  <2>2. file[f].ref - 1 \in Nat /\ f \in Files
    <3>1. f \in Files /\ file[f].ref \in Nat \ {0}
      BY <1>1
    <3> QED
      BY <3>1
  <2>3. file'[f] = [file[f] EXCEPT !.ref = file[f].ref - 1] /\ \A g \in Files \ {f} : file'[g] = file[g]
    BY <1>2, <2>1, <2>2
  <2>4. file' = [g \in Files |-> file'[g]]
    BY <1>2, <2>1
  <2>5. /\ file'[f] \in [ref : Nat, type : {"NONE", "PIPE"}, pipe : Pages \cup {None}, writable : BOOLEAN]
        /\ file'[f].ref = file[f].ref - 1
        /\ file'[f].type = file[f].type /\ file'[f].pipe = file[f].pipe /\ file'[f].writable = file[f].writable
    BY <2>1, <2>2, <2>3
  <2> QED
    BY <2>1, <2>3, <2>4, <2>5
<1>4. \A g \in Files : SameOpen(g)
  BY <1>1, <1>2, <1>3 DEF SameOpen
<1>5. \A g \in Files : file'[g].ref = Cardinality(Refs'[g])
  BY <1>1, <1>3
<1>6. CountInv'
  BY <1>1, <1>4, <1>5 DEF IndInv, CountInv, SameOpen
<1>7. TypeOK'
  BY <1>1, <1>2, <1>3, <1>5, TablesWillBe DEF TablesShape, IndInv, TypeOK, PipesType, CallsType
<1>8. EndInv'
  BY <1>1, <1>2, <1>4, EndFrame DEF IndInv, SameClose
<1>9. CallInv'
  <2>1. UsesOwnEnd(p)'
    BY <1>1, <1>2 DEF UsesOwnEnd, InCall, Ends
  <2>2. \A g \in Files : StaysOpen(g)
    BY <1>4 DEF SameOpen, StaysOpen
  <2> QED
    BY <1>1, <1>2, <2>1, <2>2, CallFrame DEF IndInv
<1>10. PageInv' /\ NapInv' /\ ReasonInv'
  BY <1>1, <1>2, SleepersFrame DEF IndInv, PageInv, IsOpen, Filled
<1> QED
  BY <1>6, <1>7, <1>8, <1>9, <1>10 DEF IndInv

\* The last reference goes: the entry is free, and p holds its end until pipeclose.
LEMMA CloseLastStep ==
  ASSUME IndInv, NEW p \in Procs, NEW d \in Fds, sys_close(p, d), ~(file[ofile[p][d]].ref > 1)
  PROVE  IndInv'
<1> DEFINE f == ofile[p][d]
           page == file[f].pipe
           end == End(file[f].writable)
<1>1. /\ f \in Files /\ file[f].ref \in Nat \ {0} /\ page \in Pages /\ file[f].writable \in BOOLEAN
      /\ p \in alive /\ p \notin InCall /\ call[p].op \in {"user", "exit"}
      /\ UNCHANGED <<alive, pipe, killed, last, spin, nap, panic>>
      /\ ofile' \in [Procs -> [Fds -> Files \cup {None}]]
      /\ \A q \in Procs, x \in Fds : q # p \/ x # d => ofile'[q][x] = ofile[q][x]
      /\ Cardinality(Refs'[f]) = file[f].ref - 1
      /\ \A g \in Files \ {f} : Cardinality(Refs'[g]) = file[g].ref
  BY CloseTables
<1>2. /\ file[f].ref = 1
      /\ file' = [file EXCEPT ![f] = NoFile]
      /\ call' = [call EXCEPT ![p] = [@ EXCEPT !.pipe = page,
                        !.n = IF file[f].writable THEN 1 ELSE 0, !.i = IF call[p].op = "exit" THEN 1 ELSE 0,
                        !.op = "close"]]
  BY <1>1 DEF sys_close, Closes
<1>3. end \in Ends /\ Opens(f, page, end)
  BY <1>1 DEF End, Ends, Opens
<1>4. /\ call'[p].op = "close" /\ call'[p].pipe = page /\ call'[p].n \in Nat /\ End(call'[p].n = 1) = end
      /\ \A q \in Procs \ {p} : call'[q] = call[q]
      /\ call' \in [Procs -> [op : {"user", "read", "write", "close", "exit"}, pipe : Pages \cup {None},
                              n : Nat, i : Nat]]
  <2>1. call \in [Procs -> [op : {"user", "read", "write", "close", "exit"}, pipe : Pages \cup {None}, n : Nat, i : Nat]]
    BY DEF IndInv, TypeOK, CallsType
  <2>2. /\ call'[p] = [op |-> "close", pipe |-> page, n |-> IF file[f].writable THEN 1 ELSE 0,
                       i |-> IF call[p].op = "exit" THEN 1 ELSE 0]
        /\ \A q \in Procs \ {p} : call'[q] = call[q]
        /\ call' = [q \in Procs |-> call'[q]]
    BY <1>2, <2>1, ZenonT(30)
  <2>3. End(call'[p].n = 1) = end
    BY <1>1, <2>2 DEF End
  <2> QED
    BY <1>1, <2>1, <2>2, <2>3, SMTT(30)
<1>5. /\ file' \in [Files -> [ref : Nat, type : {"NONE", "PIPE"}, pipe : Pages \cup {None}, writable : BOOLEAN]]
      /\ file'[f].ref = 0
      /\ \A g \in Files \ {f} : file'[g] = file[g]
  <2>1. file \in [Files -> [ref : Nat, type : {"NONE", "PIPE"}, pipe : Pages \cup {None}, writable : BOOLEAN]]
    BY FilesAre DEF IndInv
  <2>2. f \in Files
    BY <1>1
  <2> QED
    BY <1>2, <2>1, <2>2 DEF NoFile
<1> HIDE DEF f, page, end
<1>6. \A g \in Files : file'[g].ref = Cardinality(Refs'[g])
  BY <1>1, <1>2, <1>5
<1>7. CountInv'
  BY <1>1, <1>5, <1>6 DEF IndInv, CountInv
<1>8. TypeOK'
  BY <1>1, <1>4, <1>5, <1>6, TablesWillBe DEF TablesShape, IndInv, TypeOK, PipesType, CallsType
<1>9. \A g \in Files, c \in Pages, e \in Ends : Opens(g, c, e)' <=> Opens(g, c, e) /\ g # f
  BY <1>5 DEF Opens
<1>10. \A c \in Pages, e \in Ends : /\ Closing(p, c, e)' <=> c = page /\ e = end
                                    /\ ~Closing(p, c, e)
                                    /\ \A q \in Procs \ {p} : Closing(q, c, e)' <=> Closing(q, c, e)
  BY <1>1, <1>4 DEF Closing
<1>11. \A c \in Pages, e \in Ends : /\ IsOpen(c, e)' <=> IsOpen(c, e)
                                    /\ Opens(f, c, e) <=> c = page /\ e = end
  BY <1>1, <1>3 DEF IsOpen, Opens, end, page
<1>12. EndInv'
  <2> SUFFICES ASSUME NEW c \in Pages, NEW e \in Ends
               PROVE  /\ \A g, h \in Files : Opens(g, c, e)' /\ Opens(h, c, e)' => g = h
                      /\ \A q, r \in Procs : Closing(q, c, e)' /\ Closing(r, c, e)' => q = r
                      /\ \A g \in Files, q \in Procs : ~(Opens(g, c, e)' /\ Closing(q, c, e)')
                      /\ IsOpen(c, e)' <=> (\E g \in Files : Opens(g, c, e)') \/ (\E q \in Procs : Closing(q, c, e)')
    BY DEF EndInv, Ends
  <2>1. /\ \A g, h \in Files : Opens(g, c, e) /\ Opens(h, c, e) => g = h
        /\ \A q, r \in Procs : Closing(q, c, e) /\ Closing(r, c, e) => q = r
        /\ \A g \in Files, q \in Procs : ~(Opens(g, c, e) /\ Closing(q, c, e))
        /\ IsOpen(c, e) <=> (\E g \in Files : Opens(g, c, e)) \/ (\E q \in Procs : Closing(q, c, e))
    BY DEF IndInv, EndInv
  <2>2. /\ \A g \in Files : Opens(g, c, e)' <=> Opens(g, c, e) /\ g # f
        /\ Closing(p, c, e)' <=> Opens(f, c, e)
        /\ ~Closing(p, c, e)
        /\ \A q \in Procs \ {p} : Closing(q, c, e)' <=> Closing(q, c, e)
        /\ IsOpen(c, e)' <=> IsOpen(c, e)
    BY <1>9, <1>10, <1>11
  <2> QED
    BY <1>1, <2>1, <2>2, Zenon
<1>13. CallInv'
  <2>1. UsesOwnEnd(p)'
    BY <1>1, <1>4 DEF UsesOwnEnd, InCall, Ends
  <2>2. \A q \in Procs, x \in Fds : ofile'[q][x] # f
    <3>1. Cardinality(Refs'[f]) = 0 /\ IsFiniteSet(Refs'[f])
      <4>1. IsFiniteSet(Procs \X Fds) /\ Refs'[f] \subseteq Procs \X Fds
        BY <1>1, PairsFinite DEF Refs
      <4> QED
        BY <1>1, <1>2, <4>1, FS_Subset
    <3>2. Refs'[f] = {}
      BY <3>1, FS_EmptySet
    <3>3. ASSUME NEW q \in Procs, NEW x \in Fds, ofile'[q][x] = f
          PROVE  <<q, x>> \in Refs'[f]
      BY <1>1, <3>3 DEF Refs
    <3> QED
      BY <3>2, <3>3
  <2>3. \A q \in Procs \ {p}, x \in Fds : ofile'[q][x] = ofile[q][x] /\ (ofile[q][x] \in Files => StaysOpen(ofile[q][x]))
    BY <1>1, <1>5, <2>2 DEF StaysOpen
  <2> QED
    BY <1>1, <1>4, <2>1, <2>3, CallFrame DEF IndInv
<1>14. PageInv' /\ NapInv' /\ ReasonInv'
  BY <1>1, <1>4, SleepersFrame DEF IndInv, PageInv, IsOpen, Filled, InCall
<1> QED
  BY <1>7, <1>8, <1>12, <1>13, <1>14 DEF IndInv

LEMMA CloseStep ==
  ASSUME IndInv, NEW p \in Procs, NEW d \in Fds, sys_close(p, d)
  PROVE  IndInv'
BY CloseSharedStep, CloseLastStep

-----------------------------------------------------------------------------
(* Who sleeps beside a pipe *)

LEMMA WokenIs ==
  ASSUME NapInv, NEW ch, nap' = Woken(ch), spin' = spin
  PROVE  /\ WakesSome
         /\ \A q \in Procs : nap'[q] # Awake => nap'[q] = nap[q] /\ ~(nap[q].stage = "sleeps" /\ nap[q].chan = ch)
<1>1. nap' = [q \in Procs |-> nap'[q]]
  BY DEF Woken
<1>2. \A q \in Procs : nap'[q] = IF nap[q].stage = "sleeps" /\ nap[q].chan = ch THEN Awake ELSE nap[q]
  BY DEF Woken, Sleepers
<1> QED
  BY <1>1, <1>2 DEF WakesSome

\* Whoever is in sleep beside a pipe whose lock is free is SLEEPING on its channel.
LEMMA AsleepOn ==
  ASSUME TypeOK, NapInv, NEW q \in Procs, nap[q] # Awake, NEW c \in Pages, Open(c), call[q].pipe = c
  PROVE  q \in InCall /\ nap[q].stage = "sleeps" /\ nap[q].chan = Chan(q)
<1>1. q \in InCall /\ nap[q] \in [stage : {"falls", "sleeps"}, chan : {Chan(q)}, lk : {call[q].pipe}]
  BY DEF NapInv
<1>2. spin[c] # q
  BY PipeAssumption DEF Open
<1>3. nap[q].stage # "falls"
  BY <1>1, <1>2 DEF NapInv
<1> QED
  BY <1>1, <1>3

\* p goes to sleep, after it has woken some or nobody.
LEMMA SleepStep ==
  ASSUME TypeOK, NapInv, NEW p \in InCall, nap[p] = Awake, NEW c \in Pages, call[p].pipe = c, Open(c),
         NEW before, before = nap \/ \E ch : before = Woken(ch),
         SleepAfter(before, p, Chan(p), c),
         \A q \in Procs : call'[q].op = call[q].op /\ call'[q].pipe = call[q].pipe
  PROVE  NapInv' /\ spin' \in [Pages -> Procs \cup {None}]
<1>1. /\ before = [q \in Procs |-> before[q]]
      /\ \A q \in Procs : before[q] = nap[q] \/ (before[q] = Awake /\ nap[q].stage = "sleeps")
  BY DEF Woken, Sleepers, NapInv
<1>2. p \in Procs
  BY DEF InCall
<1>3. /\ nap' = [q \in Procs |-> nap'[q]]
      /\ nap'[p] = [stage |-> "falls", chan |-> Chan(p), lk |-> c]
      /\ \A q \in Procs \ {p} : nap'[q] = nap[q] \/ (nap'[q] = Awake /\ nap[q].stage = "sleeps")
  BY <1>1, <1>2 DEF SleepAfter
<1>4. spin' = [spin EXCEPT ![c] = p] /\ spin \in [Pages -> Procs \cup {None}] /\ spin[c] = None
  BY DEF SleepAfter, TypeOK, Open
<1>5. InCall' = InCall /\ \A q \in Procs : Chan(q)' = Chan(q)
  BY DEF InCall, Chan
<1>6. Awake.stage = "runs" /\ Awake' = Awake
  BY DEF Awake
<1>7. ASSUME NEW q \in Procs \ {p}
      PROVE  /\ \/ nap'[q] = Awake
                \/ q \in InCall /\ nap'[q] \in [stage : {"falls", "sleeps"}, chan : {Chan(q)}, lk : {call[q].pipe}]
             /\ \A x \in Pages : spin[x] = q <=> nap'[q].stage = "falls" /\ nap'[q].lk = x
  <2>1. CASE nap'[q] = nap[q]
    BY <2>1 DEF NapInv
  <2>2. CASE nap'[q] = Awake /\ nap[q].stage = "sleeps"
    BY <1>6, <2>2 DEF NapInv
  <2> QED
    BY <1>3, <2>1, <2>2
<1>8. \A x \in Pages, q \in Procs : spin'[x] = q <=> nap'[q].stage = "falls" /\ nap'[q].lk = x
  <2> SUFFICES ASSUME NEW x \in Pages, NEW q \in Procs
               PROVE  spin'[x] = q <=> nap'[q].stage = "falls" /\ nap'[q].lk = x
    OBVIOUS
  <2>1. spin'[x] = IF x = c THEN p ELSE spin[x]
    BY <1>4
  <2>2. CASE q = p
    <3>1. spin[x] # p
      BY <1>2, <1>6 DEF NapInv
    <3> QED
      BY <1>3, <2>1, <2>2, <3>1
  <2>3. CASE q # p
    <3>1. spin[x] = q <=> nap'[q].stage = "falls" /\ nap'[q].lk = x
      BY <1>7, <2>3
    <3>2. x = c => spin[x] # q
      BY <1>4, PipeAssumption
    <3> QED
      BY <2>1, <2>3, <3>1, <3>2
  <2> QED
    BY <2>2, <2>3
<1>9. \A q \in Procs : \/ nap'[q] = Awake
                       \/ q \in InCall /\ nap'[q] \in [stage : {"falls", "sleeps"}, chan : {Chan(q)}, lk : {call[q].pipe}]
  BY <1>3, <1>7
<1>10. NapInv'
  BY <1>3, <1>5, <1>6, <1>8, <1>9 DEF NapInv
<1> QED
  BY <1>2, <1>4, <1>10

-----------------------------------------------------------------------------
(* pipe.c *)

\* What PageInv says of a page, so that a step is checked on the new contents of the page alone.
PageType ==
  [live : BOOLEAN, data : [0..PIPESIZE-1 -> 0..Values-1], nread : 0..Wrap-1,
   nwrite : 0..Wrap-1, readopen : BOOLEAN, writeopen : BOOLEAN, sent : 0..Values-1, silent : BOOLEAN]
PageFits(r) ==
  /\ r.live <=> r.readopen \/ r.writeopen
  /\ ~r.live => r = FreePage
  /\ (r.nwrite + Wrap - r.nread) % Wrap <= PIPESIZE

LEMMA FreePageFits ==
  FreePage \in PageType /\ PageFits(FreePage)
<1>1. Wrap \in Nat \ {0} /\ 0 \in 0 .. Wrap - 1 /\ 0 \in 0 .. Values - 1
  BY PipeAssumption
<1>2. (0 + Wrap - 0) % Wrap = 0
  BY <1>1, Difference
<1> QED
  BY <1>1, <1>2, PipeAssumption DEF FreePage, PageType, PageFits

LEMMA PageFrame ==
  ASSUME TypeOK, PageInv, NEW c \in Pages, NEW r, pipe' = [pipe EXCEPT ![c] = r], PageFits(r), r \in PageType,
         last' \in 0 .. Values - 1
  PROVE  /\ PageInv' /\ PipesType'
         /\ pipe'[c] = r /\ \A x \in Pages \ {c} : pipe'[x] = pipe[x]
<1>1. pipe \in [Pages -> PageType]
  BY DEF TypeOK, PipesType, PageType
<1>2. pipe' \in [Pages -> PageType] /\ pipe'[c] = r /\ \A x \in Pages \ {c} : pipe'[x] = pipe[x]
  BY <1>1
<1>3. PipesType'
  BY <1>2 DEF PipesType, PageType
<1>4. \A x \in Pages : PageFits(pipe'[x])
  BY <1>2 DEF PageInv, PageFits, IsOpen, Filled
<1>5. PageInv'
  BY <1>4 DEF PageInv, PageFits, IsOpen, Filled, FreePage
<1> QED
  BY <1>2, <1>3, <1>5

LEMMA PipeCloseStep ==
  ASSUME IndInv, NEW p \in Procs, pipeclose(p)
  PROVE  IndInv'
<1> DEFINE c == call[p].pipe
           writable == call[p].n = 1
           end == End(writable)
           new == IF FreedBy(c, writable) THEN FreePage
                  ELSE IF writable THEN [pipe[c] EXCEPT !.writeopen = FALSE, !.silent = FALSE] ELSE [pipe[c] EXCEPT !.readopen = FALSE]
<1>1. /\ call[p].op = "close" /\ nap[p] = Awake /\ Open(c)
      /\ pipe' = [pipe EXCEPT ![c] = new]
      /\ nap' = WokenByClose(writable, c)
      /\ call' = [call EXCEPT ![p] = IF @.i = 1 THEN [Idle EXCEPT !.op = "exit"] ELSE Idle]
      /\ UNCHANGED <<alive, tables, killed, last, panic, spin>>
  BY DEF pipeclose, Runs
<1>2. c \in Pages /\ end \in Ends /\ Closing(p, c, end) /\ p \in alive /\ p \notin InCall
  BY <1>1 DEF IndInv, CallInv, InCall, Ends, Closing, End
<1>3. /\ IsOpen(c, end) /\ pipe[c].live
      /\ \A f \in Files : ~Opens(f, c, end)
      /\ \A q \in Procs : Closing(q, c, end) => q = p
  BY <1>2 DEF IndInv, EndInv, PageInv, Ends
<1>4. pipe[c] \in PageType /\ PageFits(pipe[c])
  BY <1>2 DEF IndInv, TypeOK, PipesType, PageType, PageInv, PageFits, IsOpen, Filled
<1>5. /\ new \in PageType /\ PageFits(new)
      /\ new.readopen <=> pipe[c].readopen /\ end # "read"
      /\ new.writeopen <=> pipe[c].writeopen /\ end # "write"
  <2>1. CASE FreedBy(c, writable)
    <3>1. new = FreePage
      BY <2>1
    <3>2. ~FreePage.readopen /\ ~FreePage.writeopen
      BY DEF FreePage
    <3>3. pipe[c].readopen => end = "read"
      BY <1>3, <2>1 DEF FreedBy, IsOpen, End
    <3>4. pipe[c].writeopen => end = "write"
      BY <1>3, <2>1 DEF FreedBy, IsOpen, End
    <3> QED
      BY <3>1, <3>2, <3>3, <3>4, FreePageFits
  <2>2. CASE ~FreedBy(c, writable) /\ writable
    <3>1. new = [pipe[c] EXCEPT !.writeopen = FALSE, !.silent = FALSE] /\ end = "write" /\ pipe[c].readopen
      BY <2>2 DEF FreedBy, End
    <3> QED
      BY <1>3, <1>4, <3>1 DEF PageType, PageFits
  <2>3. CASE ~FreedBy(c, writable) /\ ~writable
    <3>1. new = [pipe[c] EXCEPT !.readopen = FALSE] /\ end = "read" /\ pipe[c].writeopen
      BY <2>3 DEF FreedBy, End
    <3> QED
      BY <1>3, <1>4, <3>1 DEF PageType, PageFits
  <2> QED
    BY <2>1, <2>2, <2>3
<1>6. /\ call'[p].op \in {"user", "exit"} /\ \A q \in Procs \ {p} : call'[q] = call[q]
      /\ call' \in [Procs -> [op : {"user", "read", "write", "close", "exit"}, pipe : Pages \cup {None},
                              n : Nat, i : Nat]]
  BY <1>1 DEF IndInv, TypeOK, CallsType, Idle
<1>7. nap' = Woken(<<IF writable THEN "nread" ELSE "nwrite", c>>)
  BY <1>1 DEF WokenByClose
<1> HIDE DEF c, writable, end, new
<1>8. /\ PageInv' /\ PipesType'
      /\ pipe'[c] = new /\ \A x \in Pages \ {c} : pipe'[x] = pipe[x]
  <2>1. TypeOK /\ PageInv /\ last' \in 0 .. Values - 1
    BY <1>1 DEF IndInv, TypeOK, PipesType
  <2> QED
    BY <1>1, <1>2, <1>5, <2>1, PageFrame
<1>9. TypeOK'
  BY <1>1, <1>6, <1>8 DEF IndInv, TypeOK, TablesType, CallsType, tables
<1>10. CountInv'
  BY <1>1 DEF IndInv, CountInv, Refs, tables
<1>11. EndInv'
  <2>1. \A x \in Pages, e \in Ends : IsOpen(x, e)' <=> IsOpen(x, e) /\ ~(x = c /\ e = end)
    BY <1>2, <1>5, <1>8 DEF IsOpen, Ends
  <2>2. \A f \in Files, x \in Pages, e \in Ends : Opens(f, x, e)' <=> Opens(f, x, e)
    BY <1>1 DEF Opens, tables
  <2>3. \A q \in Procs, x \in Pages, e \in Ends : Closing(q, x, e)' <=> Closing(q, x, e) /\ q # p
    BY <1>6 DEF Closing
  <2>4. \A x \in Pages, e \in Ends : Closing(p, x, e) => x = c /\ e = end
    BY DEF Closing, c, end, writable
  <2> SUFFICES ASSUME NEW x \in Pages, NEW e \in Ends
               PROVE  /\ \A f, g \in Files : Opens(f, x, e)' /\ Opens(g, x, e)' => f = g
                      /\ \A q, r \in Procs : Closing(q, x, e)' /\ Closing(r, x, e)' => q = r
                      /\ \A f \in Files, q \in Procs : ~(Opens(f, x, e)' /\ Closing(q, x, e)')
                      /\ IsOpen(x, e)' <=> (\E f \in Files : Opens(f, x, e)') \/ (\E q \in Procs : Closing(q, x, e)')
    BY DEF EndInv, Ends
  <2>5. /\ \A f, g \in Files : Opens(f, x, e) /\ Opens(g, x, e) => f = g
        /\ \A q, r \in Procs : Closing(q, x, e) /\ Closing(r, x, e) => q = r
        /\ \A f \in Files, q \in Procs : ~(Opens(f, x, e) /\ Closing(q, x, e))
        /\ IsOpen(x, e) <=> (\E f \in Files : Opens(f, x, e)) \/ (\E q \in Procs : Closing(q, x, e))
    BY DEF IndInv, EndInv
  <2>6. CASE x = c /\ e = end
    BY <1>3, <2>1, <2>2, <2>3, <2>5, <2>6
  <2>7. CASE ~(x = c /\ e = end)
    BY <2>1, <2>2, <2>3, <2>4, <2>5, <2>7
  <2> QED
    BY <2>6, <2>7
<1>12. CallInv'
  <2>1. UsesOwnEnd(p)'
    BY <1>1, <1>2, <1>6 DEF UsesOwnEnd, InCall, Ends
  <2>2. \A f \in Files : StaysOpen(f)
    BY <1>1 DEF StaysOpen, tables
  <2> QED
    BY <1>1, <1>6, <2>1, <2>2, CallFrame DEF IndInv, tables
<1>14. /\ WakesSome
       /\ \A q \in Procs : nap'[q] # Awake =>
            nap'[q] = nap[q] /\ ~(nap[q].stage = "sleeps" /\ nap[q].chan = <<IF writable THEN "nread" ELSE "nwrite", c>>)
  BY <1>1, <1>7, WokenIs DEF IndInv
<1>15. \A q \in Procs : nap'[q] # Awake => nap[q] # Awake /\ q # p /\ call[q].pipe # c
  <2> SUFFICES ASSUME NEW q \in Procs, nap'[q] # Awake, nap[q] # Awake, call[q].pipe = c
               PROVE  FALSE
    BY <1>1, <1>14
  <2>1. q \in InCall /\ nap[q].stage = "sleeps" /\ nap[q].chan = Chan(q)
    BY <1>1, <1>2, AsleepOn DEF IndInv
  <2>2. call[q].op # end /\ call[q].op \in Ends
    BY <1>2, <2>1, HasEnd DEF IndInv
  <2>3. Chan(q) = <<IF writable THEN "nread" ELSE "nwrite", c>>
    BY <2>2 DEF Chan, end, End, Ends
  <2> QED
    BY <1>14, <2>1, <2>3
<1>16. NapInv'
  BY <1>6, <1>14, <1>15, NapFrame DEF IndInv
<1>17. ReasonInv'
  <2>1. \A q \in Procs : nap'[q] # Awake => call[q].pipe \in Pages
    BY <1>15, AwakeUnlessInCall, HasEnd DEF IndInv
  <2> QED
    BY <1>6, <1>8, <1>15, <2>1, ReasonFrame DEF IndInv
<1> QED
  BY <1>8, <1>9, <1>10, <1>11, <1>12, <1>16, <1>17 DEF IndInv

\* n more bytes in the ring of a pipe, and n less.
LEMMA StoredIs ==
  ASSUME TypeOK, PageInv, NEW c \in Pages, pipe[c].live, NEW n \in Nat, Filled(c) + n <= PIPESIZE,
         NEW s \in BOOLEAN
  PROVE  LET new == [Stored(c, n) EXCEPT !.silent = s] IN
         /\ new \in PageType /\ PageFits(new)
         /\ new.live /\ new.readopen = pipe[c].readopen /\ new.writeopen = pipe[c].writeopen
         /\ new.nread = pipe[c].nread /\ new.silent = s
         /\ (new.nwrite + Wrap - new.nread) % Wrap = Filled(c) + n
<1> DEFINE r == pipe[c]
           data == [x \in 0..PIPESIZE-1 |->
                      IF \E j \in 0..n-1 : (r.nwrite + j) % PIPESIZE = x
                      THEN (r.sent + (CHOOSE j \in 0..n-1 : (r.nwrite + j) % PIPESIZE = x)) % Values
                      ELSE r.data[x]]
           nwrite == (r.nwrite + n) % Wrap
           sent == (r.sent + n) % Values
           new == [Stored(c, n) EXCEPT !.silent = s]
<1>1. r \in PageType /\ PageFits(r) /\ r.live
  BY DEF TypeOK, PipesType, PageType, PageInv, PageFits, IsOpen, Filled
<1>2. new = [r EXCEPT !.data = data, !.nwrite = nwrite, !.sent = sent, !.silent = s]
  BY <1>1 DEF Stored, PageType
<1>3. Values \in Nat \ {0} /\ Wrap \in Nat \ {0} /\ PIPESIZE < Wrap /\ PIPESIZE \in Nat
  BY PipeAssumption
<1>4. data \in [0..PIPESIZE-1 -> 0..Values-1]
  <2> SUFFICES ASSUME NEW x \in 0..PIPESIZE-1
               PROVE  data[x] \in 0..Values-1
    OBVIOUS
  <2>1. CASE \E j \in 0..n-1 : (r.nwrite + j) % PIPESIZE = x
    <3> DEFINE j == CHOOSE j \in 0..n-1 : (r.nwrite + j) % PIPESIZE = x
    <3>1. j \in 0..n-1 /\ data[x] = (r.sent + j) % Values
      BY <2>1
    <3> HIDE DEF j, data
    <3>2. r.sent + j \in Int
      BY <1>1, <3>1 DEF PageType
    <3> QED
      BY <1>3, <3>1, <3>2, ModDef
  <2>2. CASE ~ \E j \in 0..n-1 : (r.nwrite + j) % PIPESIZE = x
    <3>1. data[x] = r.data[x]
      BY <2>2
    <3> QED
      BY <1>1, <3>1 DEF PageType
  <2> QED
    BY <2>1, <2>2
<1>5. sent \in 0..Values-1
  <2>1. r.sent + n \in Int
    BY <1>1 DEF PageType
  <2> QED
    BY <1>3, <2>1, ModDef
<1>6. nwrite \in 0..Wrap-1 /\ (nwrite + Wrap - r.nread) % Wrap = Filled(c) + n
  <2>1. r.nread \in 0..Wrap-1 /\ r.nwrite \in 0..Wrap-1
    BY <1>1 DEF PageType
  <2>2. ((r.nwrite + Wrap - r.nread) % Wrap) + n < Wrap
    <3>1. Filled(c) \in Nat
      BY FilledIs
    <3>2. Filled(c) + n < Wrap
      BY <1>3, <3>1
    <3> QED
      BY <3>2 DEF Filled
  <2> QED
    BY <2>1, <2>2, FilledPut DEF Filled
<1> HIDE DEF data, nwrite, sent, new
<1>7. /\ new \in PageType /\ new.live /\ new.readopen = r.readopen /\ new.writeopen = r.writeopen
      /\ new.nread = r.nread /\ new.nwrite = nwrite /\ new.silent = s
  BY <1>1, <1>2, <1>4, <1>5, <1>6 DEF PageType
<1>8. PageFits(new)
  BY <1>1, <1>6, <1>7 DEF PageFits
<1> QED
  BY <1>6, <1>7, <1>8 DEF new

LEMMA TakenIs ==
  ASSUME TypeOK, PageInv, NEW c \in Pages, pipe[c].live, NEW n \in Nat, n <= Filled(c)
  PROVE  LET new == Taken(c, n) IN
         /\ new \in PageType /\ PageFits(new)
         /\ new.live /\ new.readopen = pipe[c].readopen /\ new.writeopen = pipe[c].writeopen
         /\ new.nwrite = pipe[c].nwrite /\ new.silent = pipe[c].silent
         /\ (new.nwrite + Wrap - new.nread) % Wrap = Filled(c) - n
<1> DEFINE r == pipe[c]
           data == [x \in 0..PIPESIZE-1 |->
                      IF \E j \in 0..n-1 : (r.nread + j) % PIPESIZE = x THEN 0 ELSE r.data[x]]
           nread == (r.nread + n) % Wrap
           new == [r EXCEPT !.nread = nread, !.data = data]
<1>1. r \in PageType /\ PageFits(r) /\ r.live
  BY DEF TypeOK, PipesType, PageType, PageInv, PageFits, IsOpen, Filled
<1>2. Values \in Nat \ {0} /\ Wrap \in Nat \ {0} /\ PIPESIZE < Wrap /\ PIPESIZE \in Nat
  BY PipeAssumption
<1>3. data \in [0..PIPESIZE-1 -> 0..Values-1]
  <2>1. DOMAIN r.data = 0..PIPESIZE-1 /\ (\A x \in 0..PIPESIZE-1 : r.data[x] \in 0..Values-1) /\ 0 \in 0..Values-1
    BY <1>1, <1>2 DEF PageType
  <2> QED
    BY <2>1
<1>4. nread \in 0..Wrap-1 /\ (r.nwrite + Wrap - nread) % Wrap = Filled(c) - n
  <2>1. r.nread \in 0..Wrap-1 /\ r.nwrite \in 0..Wrap-1
    BY <1>1 DEF PageType
  <2>2. n <= (r.nwrite + Wrap - r.nread) % Wrap
    BY DEF Filled
  <2> QED
    BY <2>1, <2>2, FilledTake DEF Filled
<1>5. Filled(c) \in Nat /\ Filled(c) <= PIPESIZE
  BY FilledIs DEF PageInv
<1>6. new = Taken(c, n)
  BY <1>1 DEF PageType, Taken
<1> HIDE DEF data, nread
<1>7. /\ new \in PageType /\ new.live /\ new.readopen = r.readopen /\ new.writeopen = r.writeopen
      /\ new.nread = nread /\ new.nwrite = r.nwrite /\ new.silent = r.silent
  BY <1>1, <1>3, <1>4 DEF PageType
<1> HIDE DEF new
<1>8. PageFits(new)
  BY <1>1, <1>2, <1>4, <1>5, <1>7 DEF PageFits
<1> QED
  BY <1>4, <1>6, <1>7, <1>8

\* What read and write leave alone: who has which end.
Fills(c, new) ==
  /\ pipe' = [pipe EXCEPT ![c] = new] /\ last' \in 0 .. Values - 1
  /\ new \in PageType /\ PageFits(new)
  /\ new.readopen = pipe[c].readopen /\ new.writeopen = pipe[c].writeopen
Goes(p, k) ==
  /\ call' = [call EXCEPT ![p] = k]
  /\ k \in [op : {"user", "read", "write", "close", "exit"}, pipe : Pages \cup {None}, n : Nat, i : Nat]
  /\ k = Idle \/ (k.op = call[p].op /\ k.pipe = call[p].pipe /\ (k.op = "write" => k.i < k.n))

LEMMA TransferFrame ==
  ASSUME IndInv, NEW p \in InCall, NEW c \in Pages, NEW new, Fills(c, new), NEW k, Goes(p, k),
         UNCHANGED <<alive, tables, killed, panic>>, spin' \in [Pages -> Procs \cup {None}]
  PROVE  /\ TypeOK' /\ CountInv' /\ EndInv' /\ CallInv' /\ PageInv'
         /\ pipe'[c] = new /\ \A x \in Pages \ {c} : pipe'[x] = pipe[x]
         /\ call'[p] = k /\ \A q \in Procs \ {p} : call'[q] = call[q]
<1>1. p \in Procs /\ p \in alive /\ call[p].op \in Ends
  BY HasEnd DEF IndInv
<1>2. /\ PageInv' /\ PipesType'
      /\ pipe'[c] = new /\ \A x \in Pages \ {c} : pipe'[x] = pipe[x]
  <2>1. TypeOK /\ PageInv
    BY DEF IndInv
  <2> QED
    BY <2>1, PageFrame DEF Fills
<1>3. /\ call'[p] = k /\ \A q \in Procs \ {p} : call'[q] = call[q]
      /\ CallsType'
  BY <1>1 DEF IndInv, TypeOK, CallsType, Goes
<1>4. TypeOK'
  BY <1>2, <1>3 DEF IndInv, TypeOK, TablesType, tables
<1>5. CountInv'
  BY DEF IndInv, CountInv, Refs, tables
<1>6. EndInv'
  <2>1. \A q \in Procs : SameClose(q)
    BY <1>1, <1>3 DEF SameClose, Ends, Idle, Goes
  <2>2. \A f \in Files : SameOpen(f)
    BY DEF SameOpen, tables
  <2>3. \A x \in Pages : pipe'[x].readopen = pipe[x].readopen /\ pipe'[x].writeopen = pipe[x].writeopen
    BY <1>2 DEF Fills
  <2> QED
    BY <2>1, <2>2, <2>3, EndFrame DEF IndInv
<1>7. CallInv'
  <2>1. UsesOwnEnd(p)'
    <3>1. CASE k = Idle
      BY <1>1, <1>3, <3>1 DEF UsesOwnEnd, InCall, Ends, Idle
    <3>2. CASE k.op = call[p].op /\ k.pipe = call[p].pipe /\ (k.op = "write" => k.i < k.n)
      <4>1. PICK d \in Fds : ofile[p][d] \in Files /\ Opens(ofile[p][d], call[p].pipe, call[p].op)
        BY <1>1 DEF IndInv, CallInv
      <4>2. ofile'[p][d] \in Files /\ Opens(ofile[p][d], call[p].pipe, call[p].op)'
        BY <1>3, <3>2, <4>1 DEF Opens, tables
      <4>3. p \in alive' /\ call'[p].op \in Ends /\ (call'[p].op = "write" => call'[p].i < call'[p].n)
        BY <1>1, <1>3, <3>2
      <4> QED
        BY <4>2, <4>3 DEF UsesOwnEnd, Ends
    <3> QED
      BY <3>1, <3>2 DEF Goes
  <2>2. \A f \in Files : StaysOpen(f)
    BY DEF StaysOpen, tables
  <2> QED
    BY <1>1, <1>3, <2>1, <2>2, CallFrame DEF IndInv, tables
<1> QED
  BY <1>2, <1>3, <1>4, <1>5, <1>6, <1>7

\* The reason to sleep, for those who are still in sleep beside c and elsewhere.
LEMMA ReasonAfter ==
  ASSUME IndInv, NEW p \in InCall, NEW c \in Pages,
         \A x \in Pages \ {c} : pipe'[x] = pipe[x],
         \A q \in Procs \ {p} : call'[q] = call[q] /\ (nap'[q] # Awake => nap[q] # Awake),
         nap'[p] # Awake => call'[p].pipe = c,
         \A q \in Procs : nap'[q] # Awake /\ call'[q].pipe = c =>
           IF call'[q].op = "read" THEN pipe'[c].writeopen /\ (pipe'[c].nread = pipe'[c].nwrite \/ pipe'[c].silent)
           ELSE (pipe'[c].nwrite + Wrap - pipe'[c].nread) % Wrap = PIPESIZE /\ pipe'[c].readopen
  PROVE  ReasonInv'
<1> SUFFICES ASSUME NEW q \in Procs, nap'[q] # Awake
             PROVE  LET x == call'[q].pipe IN
                    IF call'[q].op = "read" THEN pipe'[x].writeopen /\ (pipe'[x].nread = pipe'[x].nwrite \/ pipe'[x].silent)
                    ELSE (pipe'[x].nwrite + Wrap - pipe'[x].nread) % Wrap = PIPESIZE /\ pipe'[x].readopen
  BY DEF ReasonInv, Empty, Filled, Awake
<1>1. CASE call'[q].pipe = c
  BY <1>1
<1>2. CASE call'[q].pipe # c
  <2>1. q # p /\ call'[q] = call[q] /\ nap[q] # Awake
    BY <1>2
  <2>2. call[q].pipe \in Pages
    BY <2>1, AwakeUnlessInCall, HasEnd DEF IndInv
  <2>3. pipe'[call[q].pipe] = pipe[call[q].pipe]
    BY <1>2, <2>1, <2>2
  <2> QED
    BY <2>1, <2>3 DEF IndInv, ReasonInv, Empty, Filled
<1> QED
  BY <1>1, <1>2

\* The reason of those who were in sleep beside c already.
LEMMA ReasonBefore ==
  ASSUME IndInv, NEW c \in Pages, NEW q \in Procs, nap[q] # Awake, call[q].pipe = c, Open(c)
  PROVE  /\ nap[q].stage = "sleeps" /\ nap[q].chan = Chan(q) /\ call[q].op \in Ends
         /\ call[q].op = "read" => /\ pipe[c].writeopen /\ pipe[c].readopen
                                   /\ (Empty(c) \/ pipe[c].silent) /\ Chan(q) = <<"nread", c>>
         /\ call[q].op = "write" => /\ Filled(c) = PIPESIZE /\ pipe[c].readopen
                                    /\ Chan(q) = <<"nwrite", c>>
<1>1. q \in InCall /\ nap[q].stage = "sleeps" /\ nap[q].chan = Chan(q)
  BY AsleepOn DEF IndInv
<1>2. call[q].op \in Ends /\ IsOpen(c, call[q].op)
  BY <1>1, HasEnd DEF IndInv
<1>3. IF call[q].op = "read" THEN pipe[c].writeopen /\ (Empty(c) \/ pipe[c].silent)
                             ELSE Filled(c) = PIPESIZE /\ pipe[c].readopen
  BY DEF IndInv, ReasonInv
<1> QED
  BY <1>1, <1>2, <1>3 DEF Ends, IsOpen, Chan

LEMMA EmptyHasRoom ==
  ASSUME TypeOK, NEW c \in Pages, Empty(c)
  PROVE  Filled(c) = 0
<1>1. pipe[c].nread \in 0..Wrap-1 /\ pipe[c].nwrite = pipe[c].nread /\ Wrap \in Nat \ {0}
  BY PipeAssumption DEF TypeOK, PipesType, Empty
<1> QED
  BY <1>1, Difference DEF Filled

LEMMA WriteStep ==
  ASSUME IndInv, NEW p \in Procs, pipewrite(p)
  PROVE  IndInv'
<1> DEFINE n == Min({PIPESIZE - Filled(call[p].pipe), call[p].n - call[p].i})
           s == call[p].i + n < call[p].n /\ p \in killed /\ (pipe[call[p].pipe].silent \/ n > 0)
           new == [Stored(call[p].pipe, n) EXCEPT !.silent = s]
<1>1. p \in InCall /\ call[p].op = "write" /\ nap[p] = Awake
  BY DEF pipewrite, Runs, InCall, Ends
<1>2. PICK c \in Pages : c = call[p].pipe /\ pipe[c].live /\ Open(c) /\ IsOpen(c, "write")
  BY <1>1, HasEnd DEF IndInv, pipewrite
<1>3. /\ n \in Nat /\ Filled(c) + n <= PIPESIZE /\ call[p].i + n <= call[p].n
      /\ Filled(c) \in Nat /\ call[p].i \in Nat /\ call[p].n \in Nat
      /\ Filled(c) = PIPESIZE => n = 0
      /\ n = PIPESIZE - Filled(c) \/ call[p].i + n = call[p].n
  <2>1. /\ Filled(c) \in Nat /\ Filled(c) <= PIPESIZE /\ PIPESIZE \in Nat
        /\ call[p].i \in Nat /\ call[p].n \in Nat /\ call[p].i < call[p].n
    BY <1>1, FilledIs, CallType, PipeAssumption DEF IndInv, PageInv, CallInv
  <2> DEFINE S == {PIPESIZE - Filled(c), call[p].n - call[p].i}
  <2>2. S \in SUBSET Nat /\ S # {}
    BY <2>1
  <2>3. n = Min(S)
    BY <1>2
  <2>4. Min(S) \in S /\ \A y \in S : Min(S) <= y
    BY <2>2, MinIn
  <2> HIDE DEF n
  <2> QED
    BY <2>1, <2>3, <2>4
<1>4. s \in BOOLEAN
  <2>1. pipe[c].silent \in BOOLEAN
    BY DEF IndInv, TypeOK, PipesType
  <2> QED
    BY <1>2, <2>1
<1>5. /\ pipe' = [pipe EXCEPT ![c] = [Stored(c, n) EXCEPT !.silent =
                     call[p].i + n < call[p].n /\ p \in killed /\ (@ \/ n > 0)]]
      /\ \/ call[p].i + n = call[p].n /\ nap' = Woken(<<"nread", c>>) /\ Returns(p) /\ spin' = spin
         \/ /\ call[p].i + n < call[p].n /\ (~pipe[c].readopen \/ p \in killed)
            /\ Returns(p) /\ nap' = nap /\ spin' = spin
         \/ /\ call[p].i + n < call[p].n /\ pipe[c].readopen /\ p \notin killed
            /\ SleepAfter(Woken(<<"nread", c>>), p, <<"nwrite", c>>, c)
            /\ call' = [call EXCEPT ![p].i = @ + n]
      /\ UNCHANGED <<alive, tables, killed, last, panic>>
  BY <1>2 DEF pipewrite, wakeup
<1>6. new = [Stored(c, n) EXCEPT !.silent = call[p].i + n < call[p].n /\ p \in killed /\ (@ \/ n > 0)]
  BY <1>2 DEF Stored
<1>7. /\ new \in PageType /\ PageFits(new)
      /\ new.live /\ new.readopen = pipe[c].readopen /\ new.writeopen = pipe[c].writeopen
      /\ new.nread = pipe[c].nread /\ new.silent = s
      /\ (new.nwrite + Wrap - new.nread) % Wrap = Filled(c) + n
  <2>1. TypeOK /\ PageInv
    BY DEF IndInv
  <2> HIDE DEF n, s
  <2> QED
    BY <1>2, <1>3, <1>4, <2>1, StoredIs
<1>8. pipe' = [pipe EXCEPT ![c] = new]
  BY <1>5, <1>6
<1>9. Fills(c, new) /\ UNCHANGED <<alive, tables, killed, panic>>
  BY <1>5, <1>7, <1>8 DEF IndInv, TypeOK, PipesType, Fills
<1> HIDE DEF new
<1>10. CASE /\ Returns(p) /\ spin' = spin
            /\ \/ nap' = Woken(<<"nread", c>>)
               \/ nap' = nap /\ call[p].i + n < call[p].n /\ (~pipe[c].readopen \/ p \in killed)
  <2>1. Goes(p, Idle) /\ spin' \in [Pages -> Procs \cup {None}]
    BY <1>10 DEF Idle, Returns, IndInv, TypeOK, Goes
  <2> HIDE DEF n, s
  <2>2. /\ TypeOK' /\ CountInv' /\ EndInv' /\ CallInv' /\ PageInv'
        /\ pipe'[c] = new /\ \A x \in Pages \ {c} : pipe'[x] = pipe[x]
        /\ call'[p] = Idle /\ \A q \in Procs \ {p} : call'[q] = call[q]
    BY <1>1, <1>9, <2>1, TransferFrame
  <2>3. /\ WakesSome /\ \A q \in Procs : nap'[q] # Awake => nap'[q] = nap[q]
        /\ nap' = Woken(<<"nread", c>>) => \A q \in Procs : nap'[q] # Awake => ~(nap[q].stage = "sleeps" /\ nap[q].chan = <<"nread", c>>)
    <3>1. CASE nap' = nap /\ nap' # Woken(<<"nread", c>>)
      BY <1>10, <3>1 DEF WakesSome, IndInv, NapInv
    <3>2. CASE nap' = Woken(<<"nread", c>>)
      BY <1>10, <3>2, WokenIs DEF IndInv
    <3> QED
      BY <1>10, <3>1, <3>2
  <2>4. \A q \in Procs : nap'[q] # Awake => q # p /\ nap[q] # Awake
    BY <1>1, <2>3
  <2>5. NapInv'
    BY <2>2, <2>3, <2>4, NapFrame DEF IndInv
  <2>6. ASSUME NEW q \in Procs, nap'[q] # Awake, call'[q].pipe = c
        PROVE  IF call'[q].op = "read" THEN pipe'[c].writeopen /\ (pipe'[c].nread = pipe'[c].nwrite \/ pipe'[c].silent)
               ELSE (pipe'[c].nwrite + Wrap - pipe'[c].nread) % Wrap = PIPESIZE /\ pipe'[c].readopen
    <3>1. nap'[q] = nap[q] /\ nap[q] # Awake /\ call'[q] = call[q] /\ call[q].pipe = c
      BY <2>2, <2>3, <2>4, <2>6
    <3>2. /\ nap[q].stage = "sleeps" /\ nap[q].chan = Chan(q) /\ call[q].op \in Ends
          /\ call[q].op = "read" => /\ pipe[c].writeopen /\ pipe[c].readopen
                                    /\ (Empty(c) \/ pipe[c].silent) /\ Chan(q) = <<"nread", c>>
          /\ call[q].op = "write" => /\ Filled(c) = PIPESIZE /\ pipe[c].readopen
                                     /\ Chan(q) = <<"nwrite", c>>
      BY <1>2, <3>1, ReasonBefore
    <3>3. CASE call[q].op = "read"
      <4>1. call[p].i + n < call[p].n /\ p \in killed
        BY <1>10, <2>3, <2>6, <3>2, <3>3
      <4>2. pipe[c].silent \/ n > 0
        <5>1. Empty(c) => Filled(c) = 0
          BY <1>2, EmptyHasRoom DEF IndInv
        <5>2. n = PIPESIZE - Filled(c) /\ PIPESIZE \in Nat \ {0}
          BY <1>3, <4>1, PipeAssumption
        <5> QED
          BY <3>2, <3>3, <5>1, <5>2
      <4>3. new.silent /\ new.writeopen
        BY <1>2, <1>7, <3>2, <3>3, <4>1, <4>2 DEF s
      <4> QED
        BY <2>2, <3>1, <3>3, <4>3
    <3>4. CASE call[q].op = "write"
      <4>1. Filled(c) + n = PIPESIZE /\ new.readopen
        BY <1>3, <1>7, <3>2, <3>4
      <4>2. (new.nwrite + Wrap - new.nread) % Wrap = PIPESIZE
        BY <1>7, <4>1
      <4> QED
        BY <2>2, <3>1, <3>4, <4>1, <4>2
    <3> QED
      BY <3>2, <3>3, <3>4 DEF Ends
  <2>7. ReasonInv'
    BY <1>1, <2>2, <2>4, <2>6, ReasonAfter
  <2> QED
    BY <2>2, <2>5, <2>7 DEF IndInv
<1>11. CASE /\ call[p].i + n < call[p].n /\ pipe[c].readopen
            /\ SleepAfter(Woken(<<"nread", c>>), p, <<"nwrite", c>>, c)
            /\ call' = [call EXCEPT ![p].i = @ + n]
  <2> DEFINE k == [call[p] EXCEPT !.i = call[p].i + n]
  <2>1. Goes(p, k) /\ k.op = "write" /\ k.pipe = c /\ k.i < k.n
    <3>1. /\ call[p] \in [op : {"user", "read", "write", "close", "exit"}, pipe : Pages \cup {None}, n : Nat, i : Nat]
          /\ call[p].i + n \in Nat
      BY <1>3, CallType DEF IndInv
    <3> HIDE DEF n
    <3> QED
      BY <1>1, <1>2, <1>11, <3>1 DEF Goes
  <2> HIDE DEF n, s, k
  <2>2. \A q \in Procs : call'[q].op = call[q].op /\ call'[q].pipe = call[q].pipe
    BY <1>1, <1>2, <2>1 DEF IndInv, TypeOK, CallsType, Goes
  <2>3. NapInv' /\ spin' \in [Pages -> Procs \cup {None}]
    <3>1. SleepAfter(Woken(<<"nread", c>>), p, Chan(p), c)
      BY <1>1, <1>2, <1>11 DEF Chan
    <3>2. \E ch : Woken(<<"nread", c>>) = Woken(ch)
      OBVIOUS
    <3>3. TypeOK /\ NapInv
      BY DEF IndInv
    <3> QED
      BY <1>1, <1>2, <2>2, <3>1, <3>2, <3>3, SleepStep
  <2>4. /\ TypeOK' /\ CountInv' /\ EndInv' /\ CallInv' /\ PageInv'
        /\ pipe'[c] = new /\ \A x \in Pages \ {c} : pipe'[x] = pipe[x]
        /\ call'[p] = k /\ \A q \in Procs \ {p} : call'[q] = call[q]
    BY <1>1, <1>9, <2>1, <2>3, TransferFrame
  <2>5. \A q \in Procs \ {p} : nap'[q] # Awake => nap[q] # Awake /\ ~(nap[q].stage = "sleeps" /\ nap[q].chan = <<"nread", c>>)
    BY <1>11 DEF SleepAfter, Woken, Sleepers
  <2>6. Filled(c) + n = PIPESIZE /\ new.readopen
    BY <1>3, <1>7, <1>11, PipeAssumption
  <2>7. (new.nwrite + Wrap - new.nread) % Wrap = PIPESIZE
    BY <1>7, <2>6
  <2>8. ASSUME NEW q \in Procs, nap'[q] # Awake, call'[q].pipe = c
        PROVE  IF call'[q].op = "read" THEN pipe'[c].writeopen /\ (pipe'[c].nread = pipe'[c].nwrite \/ pipe'[c].silent)
               ELSE (pipe'[c].nwrite + Wrap - pipe'[c].nread) % Wrap = PIPESIZE /\ pipe'[c].readopen
    <3>1. CASE q = p
      BY <2>1, <2>4, <2>6, <2>7, <3>1
    <3>2. CASE q # p
      <4>1. nap[q] # Awake /\ call'[q] = call[q] /\ call[q].pipe = c
        BY <2>4, <2>5, <2>8, <3>2
      <4>2. call[q].op # "read"
        BY <1>2, <2>5, <2>8, <3>2, <4>1, ReasonBefore
      <4> QED
        BY <2>4, <2>6, <2>7, <4>1, <4>2
    <3> QED
      BY <3>1, <3>2
  <2>9. ReasonInv'
    <3>1. call'[p].pipe = c
      BY <2>1, <2>4
    <3> QED
      BY <1>1, <2>4, <2>5, <2>8, <3>1, ReasonAfter
  <2> QED
    BY <2>3, <2>4, <2>9 DEF IndInv
<1> QED
  BY <1>5, <1>10, <1>11

LEMMA ReadStep ==
  ASSUME IndInv, NEW p \in Procs, piperead(p)
  PROVE  IndInv'
<1> DEFINE n == Min({Filled(call[p].pipe), call[p].n})
<1>1. p \in InCall /\ call[p].op = "read" /\ nap[p] = Awake
  <2>1. Runs(p, "read")
    BY Zenon DEF piperead
  <2> QED
    BY <2>1, Zenon DEF Runs, InCall, Ends
<1>2. PICK c \in Pages : c = call[p].pipe /\ pipe[c].live /\ Open(c) /\ IsOpen(c, "read")
  <2>1. Open(call[p].pipe)
    BY Zenon DEF piperead
  <2> QED
    BY <1>1, <2>1, HasEnd DEF IndInv
<1>3. n \in Nat /\ n <= Filled(c)
  <2>1. Filled(c) \in Nat /\ call[p].n \in Nat
    BY FilledIs, CallType DEF IndInv
  <2> DEFINE S == {Filled(c), call[p].n}
  <2>2. n = Min(S) /\ S \in SUBSET Nat /\ S # {}
    BY <1>2, <2>1
  <2>3. Min(S) \in S /\ \A y \in S : Min(S) <= y
    BY <2>2, MinIn
  <2> HIDE DEF n
  <2> QED
    BY <2>1, <2>2, <2>3
<1> DEFINE new == Taken(c, n)
<1>4. UNCHANGED <<alive, tables, killed, panic>>
  BY Zenon DEF piperead
<1>5. \/ /\ Empty(c) /\ pipe[c].writeopen
         /\ SleepAfter(nap, p, <<"nread", c>>, c) /\ UNCHANGED <<pipe, call, last>>
      \/ Returns(p) /\ UNCHANGED <<pipe, last, nap, spin>>
      \/ /\ ~Empty(c) \/ ~pipe[c].writeopen
         /\ pipe' = [pipe EXCEPT ![c] = new]
         /\ last' = IF n = 0 THEN last ELSE pipe[c].data[(pipe[c].nread + n - 1) % PIPESIZE]
         /\ nap' = Woken(<<"nwrite", c>>) /\ Returns(p) /\ spin' = spin
  <2>1. c = call[p].pipe
    BY <1>2
  <2> QED
    BY <2>1, Zenon DEF piperead, CallsSleep, wakeup
<1> HIDE DEF n
<1>6. /\ new \in PageType /\ PageFits(new)
      /\ new.readopen = pipe[c].readopen /\ new.writeopen = pipe[c].writeopen /\ new.silent = pipe[c].silent
  <2>1. TypeOK /\ PageInv
    BY DEF IndInv
  <2> QED
    BY <1>2, <1>3, <2>1, TakenIs
<1> HIDE DEF new
<1>7. /\ pipe[c] \in PageType /\ PageFits(pipe[c]) /\ last \in 0 .. Values - 1
      /\ pipe = [pipe EXCEPT ![c] = pipe[c]] /\ spin \in [Pages -> Procs \cup {None}]
      /\ call[p] \in [op : {"user", "read", "write", "close", "exit"}, pipe : Pages \cup {None}, n : Nat, i : Nat]
      /\ call = [call EXCEPT ![p] = call[p]]
      /\ Idle \in [op : {"user", "read", "write", "close", "exit"}, pipe : Pages \cup {None}, n : Nat, i : Nat]
  BY DEF IndInv, TypeOK, PipesType, CallsType, PageType, PageInv, PageFits, IsOpen, Filled, Idle
<1>8. CASE /\ Empty(c) /\ pipe[c].writeopen
           /\ SleepAfter(nap, p, <<"nread", c>>, c) /\ UNCHANGED <<pipe, call, last>>
  <2>1. Fills(c, pipe[c]) /\ Goes(p, call[p])
    BY <1>1, <1>7, <1>8 DEF Fills, Goes
  <2>2. NapInv' /\ spin' \in [Pages -> Procs \cup {None}]
    <3>1. SleepAfter(nap, p, Chan(p), c) /\ TypeOK /\ NapInv
      BY <1>1, <1>2, <1>8 DEF Chan, IndInv
    <3>2. \A q \in Procs : call'[q].op = call[q].op /\ call'[q].pipe = call[q].pipe
      BY <1>8
    <3> QED
      BY <1>1, <1>2, <3>1, <3>2, SleepStep
  <2>3. TypeOK' /\ CountInv' /\ EndInv' /\ CallInv' /\ PageInv'
    BY <1>1, <1>4, <2>1, <2>2, TransferFrame
  <2>4. \A q \in Procs \ {p} : nap'[q] = nap[q]
    BY <1>8 DEF SleepAfter, IndInv, NapInv
  <2>5. ASSUME NEW q \in Procs, nap'[q] # Awake, call'[q].pipe = c
        PROVE  IF call'[q].op = "read" THEN pipe'[c].writeopen /\ (pipe'[c].nread = pipe'[c].nwrite \/ pipe'[c].silent)
               ELSE (pipe'[c].nwrite + Wrap - pipe'[c].nread) % Wrap = PIPESIZE /\ pipe'[c].readopen
    <3>1. CASE q = p
      BY <1>1, <1>8, <3>1 DEF Empty
    <3>2. CASE q # p
      <4>1. nap[q] # Awake /\ call[q].pipe = c
        BY <1>8, <2>4, <2>5, <3>2
      <4> QED
        BY <1>2, <1>8, <4>1, ReasonBefore DEF Ends, Empty, Filled
    <3> QED
      BY <3>1, <3>2
  <2>6. ReasonInv'
    BY <1>1, <1>2, <1>8, <2>4, <2>5, ReasonAfter
  <2> QED
    BY <2>2, <2>3, <2>6 DEF IndInv
<1>9. CASE Returns(p) /\ UNCHANGED <<pipe, last, nap, spin>>
  <2>1. Fills(c, pipe[c]) /\ Goes(p, Idle)
    BY <1>7, <1>9 DEF Fills, Goes, Returns
  <2>2. /\ TypeOK' /\ CountInv' /\ EndInv' /\ CallInv' /\ PageInv'
        /\ \A q \in Procs \ {p} : call'[q] = call[q]
    <3>1. spin' \in [Pages -> Procs \cup {None}]
      BY <1>7, <1>9
    <3> QED
      BY <1>1, <1>4, <2>1, <3>1, TransferFrame
  <2>3. WakesSome /\ \A q \in Procs : nap'[q] # Awake => q # p /\ nap[q] # Awake
    BY <1>1, <1>9 DEF WakesSome, IndInv, NapInv
  <2>4. NapInv'
    BY <2>2, <2>3, NapFrame DEF IndInv
  <2>5. ReasonInv'
    BY <1>9, <2>2, <2>3, ReasonFrame DEF IndInv
  <2> QED
    BY <2>2, <2>4, <2>5 DEF IndInv
<1>10. CASE /\ ~Empty(c) \/ ~pipe[c].writeopen
            /\ pipe' = [pipe EXCEPT ![c] = new]
            /\ last' = IF n = 0 THEN last ELSE pipe[c].data[(pipe[c].nread + n - 1) % PIPESIZE]
            /\ nap' = Woken(<<"nwrite", c>>) /\ Returns(p) /\ spin' = spin
  <2>1. last' \in 0 .. Values - 1
    <3>1. n # 0 => pipe[c].nread + n - 1 \in Int
      BY <1>3, <1>7 DEF PageType
    <3>2. n # 0 => (pipe[c].nread + n - 1) % PIPESIZE \in 0 .. PIPESIZE - 1
      BY <3>1, ModDef, PipeAssumption
    <3> QED
      BY <1>7, <1>10, <3>2 DEF PageType
  <2>2. Fills(c, new) /\ Goes(p, Idle) /\ spin' \in [Pages -> Procs \cup {None}]
    BY <1>6, <1>7, <1>10, <2>1 DEF Fills, Goes, Returns
  <2>3. /\ TypeOK' /\ CountInv' /\ EndInv' /\ CallInv' /\ PageInv'
        /\ pipe'[c] = new /\ \A x \in Pages \ {c} : pipe'[x] = pipe[x]
        /\ \A q \in Procs \ {p} : call'[q] = call[q]
    BY <1>1, <1>4, <2>2, TransferFrame
  <2>4. /\ WakesSome
        /\ \A q \in Procs : nap'[q] # Awake => nap'[q] = nap[q] /\ ~(nap[q].stage = "sleeps" /\ nap[q].chan = <<"nwrite", c>>)
    BY <1>10, WokenIs DEF IndInv
  <2>5. \A q \in Procs : nap'[q] # Awake => q # p /\ nap[q] # Awake
    BY <1>1, <2>4
  <2>6. NapInv'
    BY <2>3, <2>4, <2>5, NapFrame DEF IndInv
  <2>7. ASSUME NEW q \in Procs, nap'[q] # Awake, call'[q].pipe = c
        PROVE  IF call'[q].op = "read" THEN pipe'[c].writeopen /\ (pipe'[c].nread = pipe'[c].nwrite \/ pipe'[c].silent)
               ELSE (pipe'[c].nwrite + Wrap - pipe'[c].nread) % Wrap = PIPESIZE /\ pipe'[c].readopen
    <3>1. nap[q] # Awake /\ call'[q] = call[q] /\ call[q].pipe = c
      BY <2>3, <2>4, <2>5, <2>7
    <3>2. /\ call[q].op = "read" /\ pipe[c].writeopen /\ (Empty(c) \/ pipe[c].silent)
      BY <1>2, <2>4, <2>7, <3>1, ReasonBefore DEF Ends
    <3>3. new.writeopen /\ new.silent
      BY <1>6, <1>10, <3>2
    <3> QED
      BY <2>3, <3>1, <3>2, <3>3
  <2>8. ReasonInv'
    BY <1>1, <2>3, <2>5, <2>7, ReasonAfter
  <2> QED
    BY <2>3, <2>6, <2>8 DEF IndInv
<1> QED
  BY <1>5, <1>8, <1>9, <1>10, Zenon

-----------------------------------------------------------------------------
(* fork and pipe, which make descriptors *)

LEMMA ForkStep ==
  ASSUME IndInv, NEW p \in Procs, NEW q \in Procs, fork(p, q)
  PROVE  IndInv'
<1> DEFINE D(f) == {d \in Fds : ofile[p][d] = f}
<1>1. /\ p \in alive /\ q \notin alive /\ alive' = alive \cup {q}
      /\ ofile' = [ofile EXCEPT ![q] = ofile[p]]
      /\ file' = [f \in Files |-> [file[f] EXCEPT !.ref = @ + Cardinality(D(f))]]
      /\ UNCHANGED <<pipe, call, killed, last, panic, spin, nap>>
  BY DEF fork, InUser
<1>2. call[q].op = "user" /\ \A d \in Fds : ofile[q][d] = None
  BY <1>1 DEF IndInv, CallInv
<1>3. /\ ofile' \in [Procs -> [Fds -> Files \cup {None}]]
      /\ ofile'[q] = ofile[p] /\ \A r \in Procs \ {q} : ofile'[r] = ofile[r]
  BY <1>1 DEF IndInv, TypeOK, TablesType
<1>4. \A f \in Files : IsFiniteSet(D(f)) /\ Cardinality(D(f)) \in Nat
  <2> SUFFICES ASSUME NEW f \in Files
               PROVE  IsFiniteSet(D(f)) /\ Cardinality(D(f)) \in Nat
    OBVIOUS
  <2>1. IsFiniteSet(Fds) /\ D(f) \subseteq Fds
    BY PipeAssumption
  <2> QED
    BY <2>1, FS_Subset, FS_CardinalityType
<1>5. \A f \in Files : Cardinality(Refs'[f]) = Cardinality(Refs[f]) + Cardinality(D(f))
  <2> SUFFICES ASSUME NEW f \in Files
               PROVE  Cardinality(Refs'[f]) = Cardinality(Refs[f]) + Cardinality(D(f))
    OBVIOUS
  <2> DEFINE N == {q} \X D(f)
  <2>1. /\ \A x \in Refs[f] \cup Refs'[f] : x \in Procs \X Fds
        /\ \A x \in Procs \X Fds : /\ x \in Refs[f] <=> ofile[x[1]][x[2]] = f
                                   /\ x \in Refs'[f] <=> ofile'[x[1]][x[2]] = f
    BY DEF Refs
  <2>2. None \notin Files
    BY PipeAssumption
  <2>3. Refs'[f] = Refs[f] \cup N
    <3>1. \A x \in Procs \X Fds : x \in Refs'[f] <=> x \in Refs[f] \/ x \in N
      <4> SUFFICES ASSUME NEW r \in Procs, NEW d \in Fds
                   PROVE  <<r, d>> \in Refs'[f] <=> <<r, d>> \in Refs[f] \/ <<r, d>> \in N
        OBVIOUS
      <4>1. /\ <<r, d>> \in Refs[f] <=> ofile[r][d] = f
            /\ <<r, d>> \in Refs'[f] <=> ofile'[r][d] = f
        BY <2>1
      <4>2. <<r, d>> \in N <=> r = q /\ ofile[p][d] = f
        OBVIOUS
      <4> QED
        BY <1>2, <1>3, <2>2, <4>1, <4>2
    <3>2. \A x \in Refs'[f] \cup Refs[f] \cup N : x \in Procs \X Fds
      BY <2>1
    <3> HIDE DEF N
    <3> QED
      BY <3>1, <3>2
  <2>4. Refs[f] \cap N = {}
    BY <1>2, <2>1, <2>2
  <2>5. IsFiniteSet(N) /\ Cardinality(N) = Cardinality(D(f))
    <3>1. IsFiniteSet({q}) /\ Cardinality({q}) = 1
      BY FS_Singleton
    <3>2. IsFiniteSet(N) /\ Cardinality(N) = Cardinality({q}) * Cardinality(D(f))
      BY <1>4, <3>1, FS_Product
    <3> HIDE DEF D, N
    <3>3. Cardinality(D(f)) \in Nat
      BY <1>4
    <3> QED
      BY <3>1, <3>2, <3>3
  <2> HIDE DEF D, N
  <2>6. IsFiniteSet(Refs[f]) /\ Cardinality(Refs[f]) \in Nat /\ Cardinality(D(f)) \in Nat
    BY <1>4, RefsFinite
  <2>7. Cardinality(Refs[f] \cup N) = Cardinality(Refs[f]) + Cardinality(N) - Cardinality(Refs[f] \cap N)
    BY <2>5, <2>6, FS_Union
  <2>8. Cardinality(Refs[f] \cap N) = 0
    BY <2>4, FS_EmptySet
  <2> QED
    BY <2>3, <2>5, <2>6, <2>7, <2>8
<1>6. \A f \in Files : file[f].ref = 0 => Cardinality(D(f)) = 0
  <2> SUFFICES ASSUME NEW f \in Files, file[f].ref = 0
               PROVE  Cardinality(D(f)) = 0
    OBVIOUS
  <2>1. D(f) = {}
    BY Unreferred DEF IndInv
  <2> QED
    BY <2>1, FS_EmptySet
<1> HIDE DEF D
<1>7. \A f \in Files : /\ file'[f] \in [ref : Nat, type : {"NONE", "PIPE"}, pipe : Pages \cup {None}, writable : BOOLEAN]
                       /\ file'[f].ref = file[f].ref + Cardinality(D(f))
                       /\ file'[f].type = file[f].type /\ file'[f].pipe = file[f].pipe /\ file'[f].writable = file[f].writable
                       /\ file[f].ref \in Nat
  <2>1. file \in [Files -> [ref : Nat, type : {"NONE", "PIPE"}, pipe : Pages \cup {None}, writable : BOOLEAN]]
    BY FilesAre DEF IndInv
  <2> SUFFICES ASSUME NEW f \in Files
               PROVE  /\ file'[f] \in [ref : Nat, type : {"NONE", "PIPE"}, pipe : Pages \cup {None}, writable : BOOLEAN]
                      /\ file'[f].ref = file[f].ref + Cardinality(D(f))
                      /\ file'[f].type = file[f].type /\ file'[f].pipe = file[f].pipe /\ file'[f].writable = file[f].writable
                      /\ file[f].ref \in Nat
    OBVIOUS
  <2>2. file'[f] = [file[f] EXCEPT !.ref = file[f].ref + Cardinality(D(f))]
    BY <1>1
  <2>3. file[f].ref \in Nat /\ Cardinality(D(f)) \in Nat
    BY <1>4, <2>1
  <2>4. file[f].ref + Cardinality(D(f)) \in Nat
    BY <2>3
  <2> QED
    BY <2>1, <2>2, <2>3, <2>4
<1>8. \A f \in Files : SameOpen(f) /\ file'[f].ref = Cardinality(Refs'[f])
  <2> SUFFICES ASSUME NEW f \in Files
               PROVE  SameOpen(f) /\ file'[f].ref = Cardinality(Refs'[f])
    OBVIOUS
  <2> DEFINE n == Cardinality(D(f))
  <2>1. /\ n \in Nat /\ file[f].ref \in Nat /\ file'[f].ref = file[f].ref + n
        /\ file[f].ref = 0 => n = 0
    BY <1>4, <1>6, <1>7
  <2>2. Cardinality(Refs'[f]) = file[f].ref + n
    BY <1>5 DEF IndInv, CountInv
  <2>3. file'[f].type = file[f].type /\ file'[f].pipe = file[f].pipe /\ file'[f].writable = file[f].writable
    BY <1>7
  <2> HIDE DEF n
  <2> QED
    BY <2>1, <2>2, <2>3 DEF SameOpen
<1>9. CountInv'
  BY <1>1, <1>8 DEF IndInv, CountInv, SameOpen
<1>10. TypeOK'
  <2>1. TablesShape'
    BY <1>1, <1>3, <1>7, <1>8 DEF TablesShape
  <2> QED
    BY <1>1, <2>1, TablesWillBe DEF IndInv, TypeOK, PipesType, CallsType
<1>11. EndInv'
  BY <1>1, <1>8, EndFrame DEF IndInv, SameClose
<1>12. CallInv'
  <2>1. UsesOwnEnd(q)'
    BY <1>1, <1>2 DEF UsesOwnEnd, InCall, Ends
  <2>2. \A f \in Files : StaysOpen(f)
    BY <1>8 DEF SameOpen, StaysOpen
  <2> QED
    BY <1>1, <1>3, <2>1, <2>2, CallFrame DEF IndInv
<1>13. PageInv' /\ NapInv' /\ ReasonInv'
  BY <1>1, SleepersFrame DEF IndInv, PageInv, IsOpen, Filled
<1> QED
  BY <1>9, <1>10, <1>11, <1>12, <1>13 DEF IndInv

\* The two lowest members of a set that has two.
LEMMA TwoIn ==
  ASSUME NEW S \in SUBSET Nat, IsFiniteSet(S), Cardinality(S) >= 2
  PROVE  Min(S) \in S /\ Min(S \ {Min(S)}) \in S \ {Min(S)}
<1>1. S # {}
  BY FS_EmptySet
<1>2. Min(S) \in S
  BY <1>1, MinIn
<1> DEFINE a == Min(S)
           T == S \ {a}
<1> HIDE DEF a
<1>3. Cardinality(T) = Cardinality(S) - 1 /\ Cardinality(S) \in Nat
  BY <1>2, FS_RemoveElement, FS_CardinalityType DEF a
<1>4. T # {}
  <2>1. Cardinality({}) = 0
    BY FS_EmptySet
  <2> HIDE DEF T
  <2> QED
    BY <1>3, <2>1
<1>5. T \in SUBSET Nat
  OBVIOUS
<1>6. Min(T) \in T
  BY <1>4, <1>5, MinIn
<1> QED
  BY <1>2, <1>6 DEF a

LEMMA PipeMadeStep ==
  ASSUME IndInv, NEW p \in Procs, PipeMade(p)
  PROVE  IndInv'
<1> DEFINE rf == Min(FreeFiles)
           wf == Min(FreeFiles \ {rf})
           r == Min(FreeFds(p))
           w == Min(FreeFds(p) \ {r})
<1>1. /\ p \in alive /\ call[p].op = "user"
      /\ Cardinality(FreeFiles) >= 2 /\ Cardinality(FreeFds(p)) >= 2
      /\ ofile' = [ofile EXCEPT ![p][r] = rf, ![p][w] = wf]
      /\ UNCHANGED <<alive, call, killed, last, panic, spin, nap>>
  BY DEF PipeMade, InUser, filealloc
<1>2. PICK c \in Pages :
        /\ ~pipe[c].live
        /\ file' = [file EXCEPT ![rf] = [ref |-> 1, type |-> "PIPE", pipe |-> c, writable |-> FALSE],
                                ![wf] = [ref |-> 1, type |-> "PIPE", pipe |-> c, writable |-> TRUE]]
        /\ pipe' = [pipe EXCEPT ![c] = [FreePage EXCEPT !.live = TRUE, !.readopen = TRUE, !.writeopen = TRUE]]
  BY DEF PipeMade, filealloc
<1>3. /\ rf \in Files /\ wf \in Files /\ rf # wf /\ file[rf].ref = 0 /\ file[wf].ref = 0
      /\ r \in Fds /\ w \in Fds /\ r # w /\ ofile[p][r] = None /\ ofile[p][w] = None
  <2>1. /\ FreeFiles \in SUBSET Nat /\ FreeFds(p) \in SUBSET Nat
        /\ FreeFiles \subseteq Files /\ FreeFds(p) \subseteq Fds
    BY PipeAssumption DEF FreeFiles, FreeFds
  <2>2. IsFiniteSet(FreeFiles) /\ IsFiniteSet(FreeFds(p))
    BY <2>1, PipeAssumption, FS_Subset
  <2>3. rf \in FreeFiles /\ wf \in FreeFiles \ {rf}
    BY <1>1, <2>1, <2>2, TwoIn
  <2>4. r \in FreeFds(p) /\ w \in FreeFds(p) \ {r}
    BY <1>1, <2>1, <2>2, TwoIn
  <2> HIDE DEF rf, wf, r, w
  <2> QED
    BY <2>3, <2>4 DEF FreeFiles, FreeFds
<1> HIDE DEF rf, wf, r, w
<1>4. /\ ofile' \in [Procs -> [Fds -> Files \cup {None}]]
      /\ ofile'[p][r] = rf /\ ofile'[p][w] = wf
      /\ \A q \in Procs, d \in Fds : q # p \/ (d # r /\ d # w) => ofile'[q][d] = ofile[q][d]
  BY <1>1, <1>3 DEF IndInv, TypeOK, TablesType
<1>5. /\ file' \in [Files -> [ref : Nat, type : {"NONE", "PIPE"}, pipe : Pages \cup {None}, writable : BOOLEAN]]
      /\ file'[rf] = [ref |-> 1, type |-> "PIPE", pipe |-> c, writable |-> FALSE]
      /\ file'[wf] = [ref |-> 1, type |-> "PIPE", pipe |-> c, writable |-> TRUE]
      /\ \A f \in Files \ {rf, wf} : file'[f] = file[f]
  <2>1. file \in [Files -> [ref : Nat, type : {"NONE", "PIPE"}, pipe : Pages \cup {None}, writable : BOOLEAN]]
    BY FilesAre DEF IndInv
  <2> QED
    BY <1>2, <1>3, <2>1
<1> DEFINE pr == <<p, r>>
           pw == <<p, w>>
<1>6. /\ pr \in Procs \X Fds /\ pw \in Procs \X Fds /\ pr # pw
      /\ ofile'[pr[1]][pr[2]] = rf /\ ofile'[pw[1]][pw[2]] = wf
      /\ ofile[pr[1]][pr[2]] = None /\ ofile[pw[1]][pw[2]] = None
      /\ \A x \in Procs \X Fds : x # pr /\ x # pw => ofile'[x[1]][x[2]] = ofile[x[1]][x[2]]
      /\ \A x \in Procs \X Fds : ofile[x[1]][x[2]] # rf /\ ofile[x[1]][x[2]] # wf
  <2>1. \A q \in Procs, d \in Fds : ofile[q][d] # rf /\ ofile[q][d] # wf
    BY <1>3, Unreferred DEF IndInv
  <2> QED
    BY <1>3, <1>4, <2>1
<1> HIDE DEF pr, pw
<1>7. /\ \A f \in Files : /\ \A x \in Refs[f] \cup Refs'[f] : x \in Procs \X Fds
                          /\ \A x \in Procs \X Fds : /\ x \in Refs[f] <=> ofile[x[1]][x[2]] = f
                                                     /\ x \in Refs'[f] <=> ofile'[x[1]][x[2]] = f
      /\ None \notin Files
  BY PipeAssumption DEF Refs
<1>8. \A f \in Files : file'[f].ref = Cardinality(Refs'[f])
  <2> SUFFICES ASSUME NEW f \in Files
               PROVE  file'[f].ref = Cardinality(Refs'[f])
    OBVIOUS
  <2>1. CASE f = rf
    <3>1. \A x \in Procs \X Fds : x \in Refs'[f] <=> x = pr
      BY <1>3, <1>6, <1>7, <2>1
    <3>2. \A x \in Refs'[f] : x \in Procs \X Fds
      BY <1>7
    <3>3. Refs'[f] = {pr}
      BY <1>6, <3>1, <3>2
    <3>4. Cardinality({pr}) = 1
      BY FS_Singleton
    <3>5. file'[f].ref = 1
      BY <1>5, <2>1
    <3> QED
      BY <3>3, <3>4, <3>5
  <2>2. CASE f = wf
    <3>1. \A x \in Procs \X Fds : x \in Refs'[f] <=> x = pw
      BY <1>3, <1>6, <1>7, <2>2
    <3>2. \A x \in Refs'[f] : x \in Procs \X Fds
      BY <1>7
    <3>3. Refs'[f] = {pw}
      BY <1>6, <3>1, <3>2
    <3>4. Cardinality({pw}) = 1
      BY FS_Singleton
    <3>5. file'[f].ref = 1
      BY <1>5, <2>2
    <3> QED
      BY <3>3, <3>4, <3>5
  <2>3. CASE f # rf /\ f # wf
    <3>1. \A x \in Procs \X Fds : x \in Refs'[f] <=> x \in Refs[f]
      BY <1>6, <1>7, <2>3
    <3>2. \A x \in Refs[f] \cup Refs'[f] : x \in Procs \X Fds
      BY <1>7
    <3>3. Refs'[f] = Refs[f]
      BY <3>1, <3>2
    <3> QED
      BY <1>5, <2>3, <3>3 DEF IndInv, CountInv
  <2> QED
    BY <2>1, <2>2, <2>3
<1>9. CountInv'
  <2>1. \A f \in Files : file'[f].ref > 0 => file'[f].type = "PIPE" /\ file'[f].pipe \in Pages
    BY <1>5 DEF IndInv, CountInv
  <2> QED
    BY <1>1, <1>8, <2>1 DEF IndInv, CountInv
<1> DEFINE new == [FreePage EXCEPT !.live = TRUE, !.readopen = TRUE, !.writeopen = TRUE]
<1>10. new \in PageType /\ PageFits(new) /\ new.readopen /\ new.writeopen
  BY FreePageFits DEF PageType, PageFits
<1> HIDE DEF new
<1>11. /\ PageInv' /\ PipesType'
       /\ pipe'[c] = new /\ \A x \in Pages \ {c} : pipe'[x] = pipe[x]
  <2>1. TypeOK /\ PageInv /\ last' \in 0 .. Values - 1 /\ pipe' = [pipe EXCEPT ![c] = new]
    BY <1>1, <1>2 DEF IndInv, TypeOK, PipesType, new
  <2> QED
    BY <1>10, <2>1, PageFrame
<1>12. TypeOK'
  <2>1. TablesShape'
    BY <1>4, <1>5, <1>8 DEF TablesShape
  <2> QED
    BY <1>1, <1>11, <2>1, TablesWillBe DEF IndInv, TypeOK, CallsType
<1>13. /\ \A e \in Ends : /\ ~IsOpen(c, e)
                          /\ \A f \in Files : ~Opens(f, c, e)
                          /\ \A q \in Procs : ~Closing(q, c, e)
       /\ \A q \in InCall : call[q].pipe # c
  BY <1>2, Unused DEF IndInv
<1>14. EndInv'
  <2>1. \A x \in Pages, e \in Ends : IsOpen(x, e)' <=> IsOpen(x, e) \/ x = c
    BY <1>10, <1>11 DEF IsOpen
  <2>2. \A q \in Procs, x \in Pages, e \in Ends : Closing(q, x, e)' <=> Closing(q, x, e)
    BY <1>1 DEF Closing
  <2>3. \A f \in Files, x \in Pages, e \in Ends :
          Opens(f, x, e)' <=> \/ Opens(f, x, e)
                              \/ x = c /\ f = (IF e = "write" THEN wf ELSE rf)
    <3> SUFFICES ASSUME NEW f \in Files, NEW x \in Pages, NEW e \in Ends
                 PROVE  Opens(f, x, e)' <=> \/ Opens(f, x, e)
                                            \/ x = c /\ f = (IF e = "write" THEN wf ELSE rf)
      OBVIOUS
    <3>1. CASE f # rf /\ f # wf
      <4>1. file'[f] = file[f]
        BY <1>5, <3>1
      <4> QED
        BY <3>1, <4>1 DEF Opens
    <3>2. CASE f = rf
      BY <1>3, <1>5, <3>2 DEF Opens, End, Ends
    <3>3. CASE f = wf
      BY <1>3, <1>5, <3>3 DEF Opens, End, Ends
    <3> QED
      BY <3>1, <3>2, <3>3
  <2> SUFFICES ASSUME NEW x \in Pages, NEW e \in Ends
               PROVE  /\ \A f, g \in Files : Opens(f, x, e)' /\ Opens(g, x, e)' => f = g
                      /\ \A q, s \in Procs : Closing(q, x, e)' /\ Closing(s, x, e)' => q = s
                      /\ \A f \in Files, q \in Procs : ~(Opens(f, x, e)' /\ Closing(q, x, e)')
                      /\ IsOpen(x, e)' <=> (\E f \in Files : Opens(f, x, e)') \/ (\E q \in Procs : Closing(q, x, e)')
    BY DEF EndInv, Ends
  <2>4. /\ \A f, g \in Files : Opens(f, x, e) /\ Opens(g, x, e) => f = g
        /\ \A q, s \in Procs : Closing(q, x, e) /\ Closing(s, x, e) => q = s
        /\ \A f \in Files, q \in Procs : ~(Opens(f, x, e) /\ Closing(q, x, e))
        /\ IsOpen(x, e) <=> (\E f \in Files : Opens(f, x, e)) \/ (\E q \in Procs : Closing(q, x, e))
    BY DEF IndInv, EndInv
  <2>5. CASE x # c
    BY <2>1, <2>2, <2>3, <2>4, <2>5
  <2>6. CASE x = c
    BY <1>3, <1>13, <2>1, <2>2, <2>3, <2>6
  <2> QED
    BY <2>5, <2>6
<1>15. CallInv'
  <2>1. UsesOwnEnd(p)'
    BY <1>1 DEF UsesOwnEnd, InCall, Ends
  <2>2. \A f \in Files : StaysOpen(f)
    BY <1>3, <1>5 DEF StaysOpen
  <2> QED
    BY <1>1, <1>4, <2>1, <2>2, CallFrame DEF IndInv
<1>16. NapInv' /\ ReasonInv'
  <2>1. \A q \in InCall : pipe'[call[q].pipe] = pipe[call[q].pipe]
    BY <1>11, <1>13, HasEnd DEF IndInv
  <2> QED
    BY <1>1, <2>1, SleepersFrame DEF IndInv
<1> QED
  BY <1>9, <1>11, <1>12, <1>14, <1>15, <1>16 DEF IndInv

\* A pipe that finds no two free descriptors leaves what there was.
LEMMA FdallocFailsStep ==
  ASSUME IndInv, NEW p \in Procs, FdallocFails(p)
  PROVE  IndInv'
<1> DEFINE rf == Min(FreeFiles)
           wf == Min(FreeFiles \ {rf})
<1>1. /\ Cardinality(FreeFiles) >= 2
      /\ file' = [file EXCEPT ![rf] = NoFile, ![wf] = NoFile]
      /\ UNCHANGED <<ofile, pipe, alive, call, killed, last, panic, spin, nap>>
  BY DEF FdallocFails, filealloc
<1>2. rf \in Files /\ wf \in Files /\ file[rf].ref = 0 /\ file[wf].ref = 0
  <2>1. FreeFiles \in SUBSET Nat /\ FreeFiles \subseteq Files /\ IsFiniteSet(FreeFiles)
    BY PipeAssumption, FS_Subset DEF FreeFiles
  <2>2. rf \in FreeFiles /\ wf \in FreeFiles \ {rf}
    BY <1>1, <2>1, TwoIn
  <2> HIDE DEF rf, wf
  <2> QED
    BY <2>2 DEF FreeFiles
<1> HIDE DEF rf, wf
<1>3. /\ file' \in [Files -> [ref : Nat, type : {"NONE", "PIPE"}, pipe : Pages \cup {None}, writable : BOOLEAN]]
      /\ \A f \in Files : \/ file'[f] = file[f]
                          \/ file[f].ref = 0 /\ file'[f] = NoFile
  <2>1. file \in [Files -> [ref : Nat, type : {"NONE", "PIPE"}, pipe : Pages \cup {None}, writable : BOOLEAN]]
    BY FilesAre DEF IndInv
  <2> QED
    BY <1>1, <1>2, <2>1 DEF NoFile
<1>4. \A f \in Files : file'[f].ref = file[f].ref /\ SameOpen(f) /\ StaysOpen(f)
  BY <1>3, FilesAre DEF NoFile, SameOpen, StaysOpen, IndInv
<1>5. CountInv'
  BY <1>1, <1>3, <1>4 DEF IndInv, CountInv, Refs, NoFile
<1>6. TypeOK'
  <2>1. TablesShape'
    BY <1>1, <1>3, <1>5 DEF TablesShape, CountInv, IndInv, TypeOK, TablesType
  <2> QED
    BY <1>1, <2>1, TablesWillBe DEF IndInv, TypeOK, PipesType, CallsType
<1>7. EndInv'
  BY <1>1, <1>4, EndFrame DEF IndInv, SameClose
<1>8. CallInv'
  <2>1. UsesOwnEnd(p)'
    <3>1. UsesOwnEnd(p)
      BY DEF IndInv, CallInv, UsesOwnEnd
    <3>2. ASSUME p \in InCall
          PROVE  \E d \in Fds : ofile[p][d] \in Files /\ Opens(ofile[p][d], call[p].pipe, call[p].op)'
      <4>1. PICK d \in Fds : ofile[p][d] \in Files /\ Opens(ofile[p][d], call[p].pipe, call[p].op)
        BY <3>1, <3>2 DEF UsesOwnEnd
      <4>2. Opens(ofile[p][d], call[p].pipe, call[p].op)'
        BY <1>1, <1>4, <4>1 DEF Opens, StaysOpen
      <4> QED
        BY <1>1, <4>1, <4>2
    <3> QED
      BY <1>1, <3>1, <3>2 DEF UsesOwnEnd, InCall, Opens
  <2> QED
    BY <1>1, <1>4, <2>1, CallFrame DEF IndInv
<1>9. PageInv' /\ NapInv' /\ ReasonInv'
  BY <1>1, SleepersFrame DEF IndInv, PageInv, IsOpen, Filled
<1> QED
  BY <1>5, <1>6, <1>7, <1>8, <1>9 DEF IndInv

-----------------------------------------------------------------------------
(* Theorems *)

LEMMA InitInv == Init => IndInv
<1> SUFFICES ASSUME Init
             PROVE  IndInv
  OBVIOUS
<1>1. \A p \in Procs, d \in Fds : ofile[p][d] = None
  BY DEF Init
<1>2. /\ \A f \in Files : file[f] = NoFile
      /\ \A p \in Procs : call[p] = Idle /\ nap[p] = Awake
      /\ \A c \in Pages : pipe[c] = FreePage /\ spin[c] = None
      /\ ~panic
  BY DEF Init
<1>3. \A f \in Files : Refs[f] = {} /\ Cardinality(Refs[f]) = 0
  <2>1. \A f \in Files : Refs[f] = {}
    BY <1>1, PipeAssumption, ZenonT(30) DEF Refs
  <2> QED
    BY <2>1, FS_EmptySet
<1>4. CountInv
  BY <1>2, <1>3 DEF CountInv, NoFile
<1>5. TypeOK
  <2>1. TablesShape
    BY <1>2, <1>3 DEF TablesShape, Init, NoFile
  <2>2. PipesType
    BY FreePageFits, PipeAssumption DEF PipesType, PageType, Init
  <2>3. CallsType
    BY PipeAssumption DEF CallsType, Init, Idle
  <2> QED
    BY <2>1, <2>2, <2>3, TablesAre DEF TypeOK, Init
<1>6. /\ \A f \in Files, c \in Pages, e \in Ends : ~Opens(f, c, e)
      /\ \A p \in Procs, c \in Pages, e \in Ends : ~Closing(p, c, e)
      /\ \A c \in Pages, e \in Ends : ~IsOpen(c, e)
  BY <1>2 DEF Opens, Closing, IsOpen, NoFile, Idle, FreePage
<1>7. EndInv
  BY <1>6 DEF EndInv, Ends
<1>8. PageInv
  <2>1. \A c \in Pages : PageFits(pipe[c])
    BY <1>2, FreePageFits
  <2> QED
    BY <2>1 DEF PageInv, PageFits, IsOpen, Filled
<1>9. CallInv
  BY <1>1, <1>2 DEF CallInv, Idle, InCall, Ends
<1>10. NapInv
  <2>1. \A c \in Pages, p \in Procs : spin[c] # p /\ nap[p].stage # "falls"
    BY <1>2, PipeAssumption DEF Awake
  <2>2. nap = [p \in Procs |-> nap[p]]
    BY DEF Init
  <2> QED
    BY <1>2, <2>1, <2>2 DEF NapInv
<1>11. ReasonInv
  BY <1>2 DEF ReasonInv
<1> QED
  BY <1>4, <1>5, <1>7, <1>8, <1>9, <1>10, <1>11 DEF IndInv

LEMMA SameInv == IndInv /\ UNCHANGED vars => IndInv'
<1> SUFFICES ASSUME IndInv, UNCHANGED vars
             PROVE  IndInv'
  OBVIOUS
<1>1. UNCHANGED <<spin, nap, alive, ofile, file, pipe, call, killed, last, panic>>
  BY DEF vars
<1>2. TypeOK' /\ CountInv'
  BY <1>1 DEF IndInv, TypeOK, TablesType, PipesType, CallsType, CountInv, Refs
<1>3. EndInv'
  BY <1>1, EndFrame DEF IndInv, SameOpen, SameClose
<1>4. CallInv' /\ PageInv'
  BY <1>1 DEF IndInv, CallInv, InCall, Opens, PageInv, IsOpen, Filled
<1>5. NapInv' /\ ReasonInv'
  BY <1>1, SleepersFrame DEF IndInv
<1> QED
  BY <1>2, <1>3, <1>4, <1>5 DEF IndInv

LEMMA PipeStep ==
  ASSUME IndInv, NEW p \in Procs, sys_pipe(p)
  PROVE  IndInv'
BY PipeMadeStep, FdallocFailsStep, SameInv DEF sys_pipe, PipeallocFails

LEMMA NextInv == IndInv /\ [Next]_vars => IndInv'
<1> SUFFICES ASSUME IndInv, [Next]_vars
             PROVE  IndInv'
  OBVIOUS
<1>1. CASE UNCHANGED vars
  BY <1>1, SameInv
<1>2. ASSUME NEW p \in Procs, Kernel(p)
      PROVE  IndInv'
  BY <1>2, WriteStep, ReadStep, PipeCloseStep, FallsStep, DiesStep, CloseStep DEF Kernel
<1>3. ASSUME NEW p \in Procs, User(p)
      PROVE  IndInv'
  BY <1>3, PipeStep, ExitStep, ForkStep, KillStep, DupStep, CloseStep, StartsIOStep DEF User
<1> QED
  BY <1>1, <1>2, <1>3 DEF Next

\* Every reachable state satisfies the inductive invariant.
THEOREM PipeInvariant == Spec => []IndInv
BY InitInv, NextInv, PTL DEF Spec

\* Every variable keeps its type.
THEOREM PipeTypeCorrect == Spec => []TypeOK
<1>1. IndInv => TypeOK
  BY DEF IndInv
<1> QED
  BY <1>1, PipeInvariant, PTL

LEMMA EndsMatch == IndInv => EndsMatchDescriptors
<1> SUFFICES ASSUME IndInv
             PROVE  EndsMatchDescriptors
  OBVIOUS
<1>1. ~panic /\ \A f \in Files : file[f].ref = Cardinality({x \in Procs \X Fds : ofile[x[1]][x[2]] = f})
  BY DEF IndInv, CountInv, Refs
<1>2. ASSUME NEW c \in Pages, NEW w \in BOOLEAN
      PROVE  IsOpen(c, End(w)) <=> Referenced(c, w)
  <2>1. End(w) \in Ends
    BY DEF End, Ends
  <2>2. \A f \in Files : Opens(f, c, End(w)) <=> /\ file[f].ref > 0 /\ file[f].type = "PIPE"
                                                 /\ file[f].pipe = c /\ file[f].writable = w
    BY FileType DEF IndInv, CountInv, Opens, End
  <2>3. \A p \in Procs : Closing(p, c, End(w)) <=> call[p].op = "close" /\ call[p].pipe = c /\ (call[p].n = 1) = w
    BY DEF Closing, End
  <2> QED
    BY <2>1, <2>2, <2>3 DEF IndInv, EndInv, Referenced
<1>3. \A c \in Pages : pipe[c].readopen = Referenced(c, FALSE) /\ pipe[c].writeopen = Referenced(c, TRUE)
  <2> SUFFICES ASSUME NEW c \in Pages
               PROVE  pipe[c].readopen = Referenced(c, FALSE) /\ pipe[c].writeopen = Referenced(c, TRUE)
    OBVIOUS
  <2>1. pipe[c].readopen \in BOOLEAN /\ pipe[c].writeopen \in BOOLEAN
    BY DEF IndInv, TypeOK, PipesType
  <2>2. Referenced(c, FALSE) \in BOOLEAN /\ Referenced(c, TRUE) \in BOOLEAN
    BY DEF Referenced
  <2>3. (pipe[c].readopen <=> Referenced(c, FALSE)) /\ (pipe[c].writeopen <=> Referenced(c, TRUE))
    BY <1>2 DEF IsOpen, End
  <2> QED
    BY <2>1, <2>2, <2>3
<1>4. \A p \in Procs : call[p].op \in {"read", "write", "close"} => pipe[call[p].pipe].live
  <2> SUFFICES ASSUME NEW p \in Procs, call[p].op \in {"read", "write", "close"}
               PROVE  pipe[call[p].pipe].live
    OBVIOUS
  <2>1. CASE call[p].op \in Ends
    BY <2>1, HasEnd DEF IndInv, InCall
  <2>2. CASE call[p].op = "close"
    <3>1. call[p].pipe \in Pages /\ End(call[p].n = 1) \in Ends
      BY <2>2, CallType DEF IndInv, CallInv
    <3>2. Closing(p, call[p].pipe, End(call[p].n = 1))
      BY <2>2 DEF Closing
    <3> QED
      BY <3>1, <3>2, Unused DEF IndInv
  <2> QED
    BY <2>1, <2>2 DEF Ends
<1> QED
  BY <1>1, <1>3, <1>4 DEF EndsMatchDescriptors

\* The counts of ftable are the descriptors there are; an end of a pipe is open exactly while
\* an entry of ftable or a process in pipeclose has it; nobody works on a page that kfree has.
THEOREM PipeEndsMatchDescriptors == Spec => []EndsMatchDescriptors
BY EndsMatch, PipeInvariant, PTL

LEMMA Reason == IndInv => SleepersHaveReason
<1> SUFFICES ASSUME IndInv, NEW c \in Pages, NEW p \in Procs, nap[p].stage = "sleeps"
             PROVE  /\ nap[p].chan = <<"nread", c>> => pipe[c].writeopen /\ (Empty(c) \/ pipe[c].silent)
                    /\ nap[p].chan = <<"nwrite", c>> => Filled(c) = PIPESIZE /\ pipe[c].readopen
  BY DEF SleepersHaveReason, Sleepers
<1>1. nap[p] # Awake /\ p \in InCall /\ nap[p].chan = Chan(p)
  BY DEF Awake, IndInv, NapInv
<1>2. IF call[p].op = "read" THEN pipe[call[p].pipe].writeopen /\ (Empty(call[p].pipe) \/ pipe[call[p].pipe].silent)
                             ELSE Filled(call[p].pipe) = PIPESIZE /\ pipe[call[p].pipe].readopen
  BY <1>1 DEF IndInv, ReasonInv
<1> QED
  BY <1>1, <1>2 DEF Chan

\* No wakeup is lost: whoever sleeps beside a pipe still has the reason for which it went to sleep.
THEOREM PipeSleepersHaveReason == Spec => []SleepersHaveReason
BY Reason, PipeInvariant, PTL
-----------------------------------------------------------------------------
(* A pipe is a queue *)

\* The place of the i-th byte after the counter b in the ring, and the bytes in a page.
At(b, i) == (b + i) % PIPESIZE
Fill(r) == (r.nwrite + Wrap - r.nread) % Wrap
Ring(r) == [i \in 1..Fill(r) |-> r.data[At(r.nread, i - 1)]]

LEMMA ModShift ==
  ASSUME NEW a \in Int, NEW b \in Int
  PROVE  ((a % Wrap) + b) % PIPESIZE = (a + b) % PIPESIZE
<1>1. Wrap \in Nat \ {0} /\ PIPESIZE \in Nat \ {0}
  BY PipeAssumption
<1>2. PICK k \in Nat \ {0} : Wrap = k * PIPESIZE
  BY WrapIs
<1>3. PICK j \in Int : a = j * Wrap + (a % Wrap)
  BY <1>1, ModDef
<1> DEFINE w == a % Wrap
<1>4. w \in Int
  BY <1>1, ModDef
<1>5. a = j * (k * PIPESIZE) + w
  BY <1>2, <1>3
<1> HIDE DEF w
<1>6. j * (k * PIPESIZE) = (j * k) * PIPESIZE /\ j * k \in Int
  BY <1>1
<1>7. a + b = (w + b) + (j * k) * PIPESIZE
  BY <1>1, <1>4, <1>5, <1>6
<1> DEFINE u == a + b
           v == w + b
           m == j * k
<1>8. u \in Int /\ v \in Int /\ m \in Int /\ u = v + m * PIPESIZE
  BY <1>4, <1>6, <1>7
<1> HIDE DEF u, v, m
<1>9. u % PIPESIZE = v % PIPESIZE
  BY <1>1, <1>8, ModSame
<1> QED
  BY <1>9 DEF u, v, w

LEMMA AtPlace ==
  ASSUME NEW b \in Int
  PROVE  /\ \A i \in Int : At(b, i) \in 0..PIPESIZE-1
         /\ \A i \in Int : At(b % Wrap, i) = At(b, i)
         /\ \A i, k \in Int : At(b + k, i) = At(b, k + i)
         /\ \A i, j \in Int : At(b, i) = At(b, j) /\ i <= j /\ j < i + PIPESIZE => i = j
<1>1. PIPESIZE \in Nat \ {0}
  BY PipeAssumption
<1>2. ASSUME NEW i \in Int
      PROVE  At(b, i) \in 0..PIPESIZE-1
  <2>1. b + i \in Int
    OBVIOUS
  <2> QED
    BY <1>1, <2>1, ModDef DEF At
<1>3. ASSUME NEW i \in Int
      PROVE  At(b % Wrap, i) = At(b, i)
  BY ModShift DEF At
<1>4. ASSUME NEW i \in Int, NEW k \in Int
      PROVE  At(b + k, i) = At(b, k + i)
  <2>1. b + k + i = b + (k + i)
    OBVIOUS
  <2> QED
    BY <2>1 DEF At
<1>5. ASSUME NEW i \in Int, NEW j \in Int, At(b, i) = At(b, j), i <= j, j < i + PIPESIZE
      PROVE  i = j
  <2> DEFINE x == b + i
             y == b + j
  <2>1. x \in Int /\ y \in Int /\ x <= y /\ y < x + PIPESIZE /\ (x = y => i = j)
    BY <1>1, <1>5
  <2>2. x % PIPESIZE = y % PIPESIZE
    BY <1>5 DEF At
  <2> HIDE DEF x, y
  <2>3. x = y
    BY <1>1, <2>1, <2>2, ModApart
  <2> QED
    BY <2>1, <2>3
<1> QED
  BY <1>2, <1>3, <1>4, <1>5

LEMMA QueuesAre ==
  /\ Queues = [c \in Pages |-> Ring(pipe[c])]
  /\ Queues' = [c \in Pages |-> Ring(pipe'[c])]
BY DEF Queues, Bytes, Ring, Fill, Filled, At

\* Bytes that are written come after those there are, in order.
LEMMA PutRing ==
  ASSUME TypeOK, PageInv, NEW c \in Pages, pipe[c].live, NEW n \in Nat, Filled(c) + n <= PIPESIZE, NEW s \in BOOLEAN
  PROVE  Ring([Stored(c, n) EXCEPT !.silent = s])
           = Ring(pipe[c]) \o [i \in 1..n |-> (pipe[c].sent + i - 1) % Values]
<1> DEFINE r == pipe[c]
           F == Filled(c)
           new == [Stored(c, n) EXCEPT !.silent = s]
           more == [i \in 1..n |-> (r.sent + i - 1) % Values]
           data == [x \in 0..PIPESIZE-1 |->
                      IF \E j \in 0..n-1 : At(r.nwrite, j) = x
                      THEN (r.sent + (CHOOSE j \in 0..n-1 : At(r.nwrite, j) = x)) % Values
                      ELSE r.data[x]]
<1>1. /\ PIPESIZE \in Nat \ {0} /\ F \in Nat /\ F + n <= PIPESIZE
      /\ r.nread \in Nat /\ r.nwrite = (r.nread + F) % Wrap /\ r.sent \in Nat /\ r \in PageType
  BY FilledIs, PipeAssumption, SMTT(30) DEF TypeOK, PipesType, PageType
<1>2. new.data = data /\ new.nread = r.nread /\ Fill(new) = F + n
  <2>1. Fill(new) = F + n /\ new.nread = r.nread
    BY StoredIs DEF Fill
  <2>2. new.data = data
    BY <1>1 DEF Stored, PageType, At
  <2> QED
    BY <2>1, <2>2
<1>3. Ring(r) = [i \in 1..F |-> r.data[At(r.nread, i - 1)]]
  BY DEF Ring, Fill, Filled
<1>4. Ring(new) = [i \in 1..F+n |-> data[At(r.nread, i - 1)]]
  BY <1>2 DEF Ring
<1> HIDE DEF r, F, new, data
<1>5. \A j \in 0..n-1 : At(r.nwrite, j) = At(r.nread, F + j)
  <2> SUFFICES ASSUME NEW j \in 0..n-1
               PROVE  At(r.nwrite, j) = At(r.nread, F + j)
    OBVIOUS
  <2> DEFINE b == r.nread
             d == b + F
  <2>1. b \in Int /\ d \in Int /\ F \in Int /\ j \in Int /\ d = b + F /\ r.nwrite = d % Wrap
    BY <1>1
  <2> HIDE DEF b, d
  <2>2. At(d % Wrap, j) = At(d, j)
    BY <2>1, AtPlace
  <2>3. At(b + F, j) = At(b, F + j)
    BY <2>1, AtPlace
  <2> QED
    BY <2>1, <2>2, <2>3 DEF b
<1>6. /\ \A i \in Int : At(r.nread, i) \in 0..PIPESIZE-1
      /\ \A i, j \in Int : At(r.nread, i) = At(r.nread, j) /\ i <= j /\ j < i + PIPESIZE => i = j
  <2> DEFINE b == r.nread
  <2>1. b \in Int
    BY <1>1
  <2> HIDE DEF b
  <2>2. /\ \A i \in Int : At(b, i) \in 0..PIPESIZE-1
        /\ \A i, j \in Int : At(b, i) = At(b, j) /\ i <= j /\ j < i + PIPESIZE => i = j
    BY <2>1, AtPlace
  <2> QED
    BY <2>2 DEF b
<1>7. ASSUME NEW i \in 1..F
      PROVE  data[At(r.nread, i - 1)] = r.data[At(r.nread, i - 1)]
  <2>1. At(r.nread, i - 1) \in 0..PIPESIZE-1
    BY <1>6
  <2>2. ASSUME NEW j \in 0..n-1, At(r.nwrite, j) = At(r.nread, i - 1)
        PROVE  FALSE
    <3>1. At(r.nread, F + j) = At(r.nread, i - 1)
      BY <1>5, <2>2
    <3>2. i - 1 \in Int /\ F + j \in Int /\ i - 1 < F + j /\ F + j < (i - 1) + PIPESIZE
      BY <1>1
    <3> QED
      BY <1>6, <3>1, <3>2
  <2> QED
    BY <2>1, <2>2 DEF data
<1>8. ASSUME NEW k \in 1..n
      PROVE  data[At(r.nread, F + k - 1)] = (r.sent + k - 1) % Values
  <2> DEFINE x == At(r.nwrite, k - 1)
             j == CHOOSE j \in 0..n-1 : At(r.nwrite, j) = x
  <2>1. k - 1 \in 0..n-1 /\ F + (k - 1) = F + k - 1 /\ F + (k - 1) \in Int
    BY <1>1
  <2>2. x = At(r.nread, F + (k - 1)) /\ x \in 0..PIPESIZE-1
    BY <1>5, <1>6, <2>1
  <2>3. j \in 0..n-1 /\ At(r.nwrite, j) = x
    BY <2>1
  <2>4. data[x] = (r.sent + j) % Values
    BY <2>2, <2>3 DEF data
  <2> HIDE DEF j, x
  <2>5. j = k - 1
    <3>1. At(r.nread, F + j) = At(r.nread, F + (k - 1))
      BY <1>5, <2>2, <2>3
    <3>2. F + j \in Int /\ F + j < F + (k - 1) + PIPESIZE /\ F + (k - 1) < F + j + PIPESIZE
      BY <1>1, <2>3
    <3>3. F + j = F + (k - 1)
      BY <1>1, <1>6, <2>1, <3>1, <3>2
    <3> QED
      BY <1>1, <2>1, <2>3, <3>3
  <2>6. r.sent + (k - 1) = r.sent + k - 1
    BY <1>1
  <2> QED
    BY <2>1, <2>2, <2>4, <2>5, <2>6
<1> DEFINE old == Ring(r)
           whole == old \o more
<1>9. /\ old \in Seq(Int) /\ Len(old) = F /\ \A i \in 1..F : old[i] = r.data[At(r.nread, i - 1)]
      /\ more \in Seq(Int) /\ Len(more) = n /\ \A k \in 1..n : more[k] = (r.sent + k - 1) % Values
  <2>1. \A i \in 1..F : r.data[At(r.nread, i - 1)] \in Int
    <3> SUFFICES ASSUME NEW i \in 1..F
                 PROVE  r.data[At(r.nread, i - 1)] \in Int
      OBVIOUS
    <3>1. At(r.nread, i - 1) \in 0..PIPESIZE-1
      BY <1>1, <1>6
    <3> QED
      BY <1>1, <3>1, PipeAssumption DEF PageType
  <2>2. \A k \in 1..n : (r.sent + k - 1) % Values \in Int
    <3> SUFFICES ASSUME NEW k \in 1..n
                 PROVE  (r.sent + k - 1) % Values \in Int
      OBVIOUS
    <3>1. r.sent + k - 1 \in Int
      BY <1>1
    <3> QED
      BY <3>1, ModDef, PipeAssumption
  <2> QED
    BY <1>1, <1>3, <2>1, <2>2
<1> HIDE DEF old, more
<1>10. /\ whole \in Seq(Int) /\ Len(whole) = F + n
       /\ \A i \in 1..F+n : whole[i] = IF i <= F THEN old[i] ELSE more[i - F]
  BY <1>9, ConcatProperties, ZenonT(30)
<1> HIDE DEF whole
<1>11. \A i \in 1..F+n : data[At(r.nread, i - 1)] = whole[i]
  <2> SUFFICES ASSUME NEW i \in 1..F+n
               PROVE  data[At(r.nread, i - 1)] = whole[i]
    OBVIOUS
  <2>1. CASE i <= F
    <3>1. i \in 1..F
      BY <1>1, <2>1
    <3> QED
      BY <1>7, <1>9, <1>10, <2>1, <3>1
  <2>2. CASE ~(i <= F)
    <3>1. i - F \in 1..n /\ F + (i - F) - 1 = i - 1
      BY <1>1, <2>2
    <3>2. data[At(r.nread, F + (i - F) - 1)] = (r.sent + (i - F) - 1) % Values
      BY <1>8, <3>1
    <3>3. more[i - F] = (r.sent + (i - F) - 1) % Values
      BY <1>9, <3>1
    <3>4. whole[i] = more[i - F]
      BY <1>10, <2>2
    <3> QED
      BY <3>1, <3>2, <3>3, <3>4
  <2> QED
    BY <2>1, <2>2
<1>12. Ring(new) = whole
  <2> DEFINE s1 == [i \in 1..F+n |-> data[At(r.nread, i - 1)]]
  <2>1. F + n \in Nat
    BY <1>1
  <2>2. s1 \in Seq(Int) /\ Len(s1) = F + n /\ \A i \in 1..F+n : s1[i] = whole[i]
    <3>1. \A i \in 1..F+n : data[At(r.nread, i - 1)] \in Int
      BY <1>10, <1>11
    <3> QED
      BY <1>11, <2>1, <3>1
  <2> HIDE DEF s1
  <2>3. s1 = whole
    BY <1>10, <2>2, SeqEqual
  <2> QED
    BY <1>4, <2>3 DEF s1
<1> QED
  BY <1>12 DEF new, r, more, old, whole

LEMMA RingSeq ==
  ASSUME TypeOK, NEW c \in Pages
  PROVE  /\ Ring(pipe[c]) \in Seq(Int) /\ Len(Ring(pipe[c])) = Filled(c)
         /\ \A i \in 1..Filled(c) : Ring(pipe[c])[i] = pipe[c].data[At(pipe[c].nread, i - 1)]
<1> DEFINE r == pipe[c]
<1>1. /\ PIPESIZE \in Nat \ {0} /\ Filled(c) \in Nat
      /\ r.nread \in Int /\ r.data \in [0..PIPESIZE-1 -> 0..Values-1]
  BY FilledIs, PipeAssumption DEF TypeOK, PipesType
<1>2. Ring(r) = [i \in 1..Filled(c) |-> r.data[At(r.nread, i - 1)]]
  BY DEF Ring, Fill, Filled
<1> HIDE DEF r
<1>3. \A i \in 1..Filled(c) : r.data[At(r.nread, i - 1)] \in Int
  <2> SUFFICES ASSUME NEW i \in 1..Filled(c)
               PROVE  r.data[At(r.nread, i - 1)] \in Int
    OBVIOUS
  <2>1. i - 1 \in Int
    BY <1>1
  <2>2. At(r.nread, i - 1) \in 0..PIPESIZE-1
    BY <1>1, <2>1, AtPlace
  <2> QED
    BY <1>1, <2>2, PipeAssumption
<1>4. Ring(r) \in Seq(Int) /\ Len(Ring(r)) = Filled(c) /\ \A i \in 1..Filled(c) : Ring(r)[i] = r.data[At(r.nread, i - 1)]
  BY <1>1, <1>2, <1>3
<1> QED
  BY <1>4 DEF r

LEMMA RestOf ==
  ASSUME NEW s \in Seq(Int), NEW n \in Nat, n <= Len(s)
  PROVE  /\ SubSeq(s, n + 1, Len(s)) \in Seq(Int)
         /\ Len(SubSeq(s, n + 1, Len(s))) = Len(s) - n
         /\ \A i \in 1..Len(s)-n : SubSeq(s, n + 1, Len(s))[i] = s[n + i]
OBVIOUS

\* Bytes that are read are the first ones, in order.
LEMMA TakeRing ==
  ASSUME TypeOK, PageInv, NEW c \in Pages, pipe[c].live, NEW n \in Nat, n <= Filled(c)
  PROVE  /\ Ring(Taken(c, n)) = SubSeq(Ring(pipe[c]), n + 1, Len(Ring(pipe[c])))
         /\ n >= 1 => pipe[c].data[At(pipe[c].nread, n - 1)] = Ring(pipe[c])[n]
<1> DEFINE r == pipe[c]
           F == Filled(c)
           new == Taken(c, n)
           data == [x \in 0..PIPESIZE-1 |-> IF \E j \in 0..n-1 : At(r.nread, j) = x THEN 0 ELSE r.data[x]]
           rest == SubSeq(Ring(r), n + 1, Len(Ring(r)))
<1>1. /\ PIPESIZE \in Nat \ {0} /\ F \in Nat /\ F <= PIPESIZE /\ n <= F
      /\ r.nread \in Int /\ r \in PageType
  BY FilledIs, PipeAssumption DEF TypeOK, PipesType, PageType, PageInv
<1>2. /\ Ring(r) \in Seq(Int) /\ Len(Ring(r)) = F
      /\ \A i \in 1..F : Ring(r)[i] = r.data[At(r.nread, i - 1)]
  BY RingSeq
<1>3. new.data = data /\ new.nread = (r.nread + n) % Wrap /\ Fill(new) = F - n
  <2>1. Fill(new) = F - n
    BY TakenIs DEF Fill
  <2>2. new.data = data /\ new.nread = (r.nread + n) % Wrap
    BY <1>1 DEF Taken, PageType, At
  <2> QED
    BY <2>1, <2>2
<1>4. Ring(new) = [i \in 1..F-n |-> data[At((r.nread + n) % Wrap, i - 1)]]
  BY <1>3 DEF Ring
<1> HIDE DEF r, F, new, data
<1>5. /\ \A i \in Int : At(r.nread, i) \in 0..PIPESIZE-1
      /\ \A i, j \in Int : At(r.nread, i) = At(r.nread, j) /\ i <= j /\ j < i + PIPESIZE => i = j
  <2> DEFINE b == r.nread
  <2>1. b \in Int
    BY <1>1
  <2> HIDE DEF b
  <2>2. /\ \A i \in Int : At(b, i) \in 0..PIPESIZE-1
        /\ \A i, j \in Int : At(b, i) = At(b, j) /\ i <= j /\ j < i + PIPESIZE => i = j
    BY <2>1, AtPlace
  <2> QED
    BY <2>2 DEF b
<1>6. /\ rest \in Seq(Int) /\ Len(rest) = F - n
      /\ \A i \in 1..F-n : rest[i] = Ring(r)[n + i]
  <2> DEFINE s == Ring(r)
  <2>1. s \in Seq(Int) /\ Len(s) = F /\ n <= Len(s)
    BY <1>1, <1>2
  <2>2. rest = SubSeq(s, n + 1, Len(s))
    OBVIOUS
  <2> HIDE DEF s, rest
  <2> QED
    BY <2>1, <2>2, RestOf DEF s
<1> HIDE DEF rest
<1>7. ASSUME NEW i \in 1..F-n
      PROVE  data[At((r.nread + n) % Wrap, i - 1)] = rest[i]
  <2> DEFINE b == r.nread
             d == b + n
  <2>1. b \in Int /\ d \in Int /\ n \in Int /\ i - 1 \in Int /\ d = b + n /\ n + (i - 1) = n + i - 1
        /\ n + i \in 1..F /\ n + (i - 1) \in Int
    BY <1>1
  <2>2. b = r.nread /\ d = r.nread + n
    OBVIOUS
  <2> HIDE DEF b, d
  <2>3. At(d % Wrap, i - 1) = At(d, i - 1)
    BY <2>1, AtPlace
  <2>4. At(b + n, i - 1) = At(b, n + (i - 1))
    <3>1. (b + n) + (i - 1) = b + (n + (i - 1))
      BY <2>1
    <3> QED
      BY <3>1 DEF At
  <2> DEFINE x == At(r.nread, n + (i - 1))
  <2>5. At((r.nread + n) % Wrap, i - 1) = x
    BY <2>1, <2>2, <2>3, <2>4
  <2>6. x \in 0..PIPESIZE-1
    BY <1>5, <2>1
  <2>7. ASSUME NEW j \in 0..n-1, At(r.nread, j) = x
        PROVE  FALSE
    <3>1. j \in Int /\ j < n + (i - 1) /\ n + (i - 1) < j + PIPESIZE
      BY <1>1
    <3> QED
      BY <1>5, <2>1, <2>7, <3>1
  <2>8. data[x] = r.data[x]
    BY <2>6, <2>7 DEF data
  <2>9. rest[i] = r.data[At(r.nread, (n + i) - 1)]
    BY <1>2, <1>6, <2>1
  <2> QED
    BY <2>1, <2>5, <2>8, <2>9
<1>8. Ring(new) = rest
  <2> DEFINE s1 == [i \in 1..F-n |-> data[At((r.nread + n) % Wrap, i - 1)]]
  <2>1. F - n \in Nat
    BY <1>1
  <2>2. s1 \in Seq(Int) /\ Len(s1) = F - n /\ \A i \in 1..F-n : s1[i] = rest[i]
    <3>1. \A i \in 1..F-n : data[At((r.nread + n) % Wrap, i - 1)] \in Int
      BY <1>6, <1>7
    <3> QED
      BY <1>7, <2>1, <3>1
  <2> HIDE DEF s1
  <2>3. s1 = rest
    BY <1>6, <2>2, SeqEqual
  <2> QED
    BY <1>4, <2>3 DEF s1
<1>9. n >= 1 => r.data[At(r.nread, n - 1)] = Ring(r)[n]
  BY <1>1, <1>2
<1> QED
  BY <1>8, <1>9 DEF rest, new, r

\* A page changes, and with it one queue.
LEMMA OneQueue ==
  ASSUME TypeOK, NEW c \in Pages, NEW new, pipe' = [pipe EXCEPT ![c] = new]
  PROVE  /\ Queues' = [Queues EXCEPT ![c] = Ring(new)]
         /\ SentBytes' = [SentBytes EXCEPT ![c] = new.sent]
         /\ OpenEnds' = [OpenEnds EXCEPT ![c] = {e \in Ends : IF e = "read" THEN new.readopen ELSE new.writeopen}]
<1>1. pipe \in [Pages -> PageType]
  BY DEF TypeOK, PipesType, PageType
<1>2. pipe'[c] = new /\ \A x \in Pages \ {c} : pipe'[x] = pipe[x]
  BY <1>1
<1>3. Queues' = [Queues EXCEPT ![c] = Ring(new)]
  <2>1. Queues = [x \in Pages |-> Ring(pipe[x])] /\ Queues' = [x \in Pages |-> Ring(pipe'[x])]
    BY QueuesAre
  <2>2. \A x \in Pages : Ring(pipe'[x]) = IF x = c THEN Ring(new) ELSE Ring(pipe[x])
    BY <1>2
  <2> QED
    BY <2>1, <2>2
<1>4. SentBytes' = [SentBytes EXCEPT ![c] = new.sent]
  <2>1. SentBytes = [x \in Pages |-> pipe[x].sent] /\ SentBytes' = [x \in Pages |-> pipe'[x].sent]
    BY DEF SentBytes
  <2>2. \A x \in Pages : pipe'[x].sent = IF x = c THEN new.sent ELSE pipe[x].sent
    BY <1>2
  <2> QED
    BY <2>1, <2>2
<1>5. OpenEnds' = [OpenEnds EXCEPT ![c] = {e \in Ends : IF e = "read" THEN new.readopen ELSE new.writeopen}]
  <2> DEFINE open(r) == {e \in Ends : IF e = "read" THEN r.readopen ELSE r.writeopen}
  <2>1. OpenEnds = [x \in Pages |-> open(pipe[x])] /\ OpenEnds' = [x \in Pages |-> open(pipe'[x])]
    BY DEF OpenEnds, Ends
  <2> HIDE DEF open
  <2>2. \A x \in Pages : open(pipe'[x]) = IF x = c THEN open(new) ELSE open(pipe[x])
    BY <1>2
  <2>3. OpenEnds' = [OpenEnds EXCEPT ![c] = open(new)]
    BY <2>1, <2>2
  <2> QED
    BY <2>3 DEF open
<1> QED
  BY <1>3, <1>4, <1>5

StreamVars == <<Queues, SentBytes, OpenEnds, last>>

LEMMA SameStreams ==
  ASSUME UNCHANGED <<pipe, last>>
  PROVE  UNCHANGED StreamVars
BY DEF StreamVars, Queues, SentBytes, OpenEnds, Bytes, Filled

\* What a write finds: the writing end is open, and the bytes it puts in have room.
LEMMA WriteFinds ==
  ASSUME IndInv, NEW p \in Procs, pipewrite(p)
  PROVE  \E c \in Pages, n \in Nat, s \in BOOLEAN :
           /\ pipe[c].live /\ pipe[c].writeopen /\ Filled(c) + n <= PIPESIZE
           /\ pipe' = [pipe EXCEPT ![c] = [Stored(c, n) EXCEPT !.silent = s]]
           /\ last' = last
<1> DEFINE n == Min({PIPESIZE - Filled(call[p].pipe), call[p].n - call[p].i})
<1>1. p \in InCall /\ call[p].op = "write"
  BY DEF pipewrite, Runs, InCall, Ends
<1>2. PICK c \in Pages : c = call[p].pipe /\ pipe[c].live /\ IsOpen(c, "write")
  BY <1>1, HasEnd DEF IndInv
<1>3. n \in Nat /\ Filled(c) + n <= PIPESIZE
  <2>1. /\ Filled(c) \in Nat /\ Filled(c) <= PIPESIZE /\ PIPESIZE \in Nat
        /\ call[p].i \in Nat /\ call[p].n \in Nat /\ call[p].i < call[p].n
    BY <1>1, FilledIs, CallType, PipeAssumption DEF IndInv, PageInv, CallInv
  <2> DEFINE S == {PIPESIZE - Filled(c), call[p].n - call[p].i}
  <2>2. n = Min(S) /\ S \in SUBSET Nat /\ S # {}
    BY <1>2, <2>1
  <2>3. Min(S) \in S /\ \A y \in S : Min(S) <= y
    BY <2>2, MinIn
  <2> HIDE DEF n
  <2> QED
    BY <2>1, <2>2, <2>3
<1> DEFINE s == call[p].i + n < call[p].n /\ p \in killed /\ (pipe[c].silent \/ n > 0)
<1>4. s \in BOOLEAN
  BY DEF IndInv, TypeOK, PipesType
<1>5. /\ pipe' = [pipe EXCEPT ![c] = [Stored(c, n) EXCEPT !.silent =
                    call[p].i + n < call[p].n /\ p \in killed /\ (@ \/ n > 0)]]
      /\ last' = last
  BY <1>2 DEF pipewrite
<1>6. [Stored(c, n) EXCEPT !.silent = call[p].i + n < call[p].n /\ p \in killed /\ (@ \/ n > 0)]
        = [Stored(c, n) EXCEPT !.silent = s]
  BY DEF Stored
<1> HIDE DEF n, s
<1>7. pipe[c].writeopen
  BY <1>2 DEF IsOpen
<1>8. pipe' = [pipe EXCEPT ![c] = [Stored(c, n) EXCEPT !.silent = s]]
  BY <1>5, <1>6
<1> QED
  BY <1>2, <1>3, <1>4, <1>5, <1>7, <1>8, Zenon

LEMMA WriteImplements ==
  ASSUME IndInv, NEW p \in Procs, pipewrite(p)
  PROVE  Streams!Next \/ UNCHANGED StreamVars
<1>1. PICK c \in Pages, n \in Nat, s \in BOOLEAN :
        /\ pipe[c].live /\ pipe[c].writeopen /\ Filled(c) + n <= PIPESIZE
        /\ pipe' = [pipe EXCEPT ![c] = [Stored(c, n) EXCEPT !.silent = s]]
        /\ last' = last
  BY WriteFinds
<1>2. TypeOK /\ PageInv /\ PIPESIZE \in Nat /\ Values \in Nat \ {0} /\ Filled(c) \in Nat
  BY FilledIs, PipeAssumption DEF IndInv
<1> DEFINE new == [Stored(c, n) EXCEPT !.silent = s]
           more == [i \in 1..n |-> (SentBytes[c] + i - 1) % Values]
<1>3. /\ SentBytes[c] = pipe[c].sent /\ SentBytes[c] \in 0..Values-1 /\ Queues[c] = Ring(pipe[c])
      /\ "write" \in OpenEnds[c]
      /\ OpenEnds[c] = {e \in Ends : IF e = "read" THEN pipe[c].readopen ELSE pipe[c].writeopen}
  BY <1>1, <1>2, QueuesAre DEF SentBytes, OpenEnds, Ends, TypeOK, PipesType
<1>4. new.sent = (SentBytes[c] + n) % Values /\ new.readopen = pipe[c].readopen /\ new.writeopen = pipe[c].writeopen
  <2>1. pipe[c] \in PageType
    BY <1>2 DEF TypeOK, PipesType, PageType
  <2>2. Stored(c, n).sent = (pipe[c].sent + n) % Values
    BY <2>1 DEF Stored, PageType
  <2>3. new.sent = Stored(c, n).sent
    BY DEF Stored
  <2>4. new.readopen = pipe[c].readopen /\ new.writeopen = pipe[c].writeopen
    BY <2>1 DEF Stored, PageType
  <2> QED
    BY <1>3, <2>2, <2>3, <2>4
<1>5. Ring(new) = Queues[c] \o more
  <2>1. Ring(new) = Ring(pipe[c]) \o [i \in 1..n |-> (pipe[c].sent + i - 1) % Values]
    BY <1>1, <1>2, PutRing, Zenon
  <2>2. Queues[c] = Ring(pipe[c]) /\ more = [i \in 1..n |-> (pipe[c].sent + i - 1) % Values]
    BY <1>3
  <2> HIDE DEF new, more
  <2> QED
    BY <2>1, <2>2
<1>6. Queues[c] \in Seq(Int) /\ Len(Queues[c]) = Filled(c)
  BY <1>2, <1>3, RingSeq
<1> HIDE DEF new
<1>7. /\ Queues' = [Queues EXCEPT ![c] = Queues[c] \o more]
      /\ SentBytes' = [SentBytes EXCEPT ![c] = (SentBytes[c] + n) % Values]
      /\ OpenEnds' = [OpenEnds EXCEPT ![c] = OpenEnds[c]]
  <2>1. pipe' = [pipe EXCEPT ![c] = new]
    BY <1>1 DEF new
  <2>2. /\ Queues' = [Queues EXCEPT ![c] = Ring(new)]
        /\ SentBytes' = [SentBytes EXCEPT ![c] = new.sent]
        /\ OpenEnds' = [OpenEnds EXCEPT ![c] = {e \in Ends : IF e = "read" THEN new.readopen ELSE new.writeopen}]
    BY <1>2, <2>1, OneQueue
  <2> QED
    BY <1>3, <1>4, <1>5, <2>2
<1>8. OpenEnds' = OpenEnds
  BY <1>7 DEF OpenEnds
<1>9. CASE n = 0
  <2>1. Queues[c] \o more = Queues[c]
    BY <1>6, <1>9
  <2>2. (SentBytes[c] + n) % Values = SentBytes[c]
    BY <1>2, <1>3, <1>9, ModUnique
  <2>3. Queues' = Queues /\ SentBytes' = SentBytes
    BY <1>7, <2>1, <2>2 DEF Queues, SentBytes
  <2> QED
    BY <1>1, <1>8, <2>3 DEF StreamVars
<1>10. CASE n # 0
  <2>1. n \in 1..PIPESIZE
    BY <1>1, <1>2, <1>10
  <2>2. Streams!Put(c, n)
    BY <1>1, <1>3, <1>6, <1>7, <1>8 DEF Streams!Put
  <2> QED
    BY <2>1, <2>2 DEF Streams!Next
<1> QED
  BY <1>9, <1>10

\* What a read finds: nothing to take and no change, or the first n bytes, with the reading end open.
LEMMA ReadFinds ==
  ASSUME IndInv, NEW p \in Procs, piperead(p)
  PROVE  \/ UNCHANGED <<pipe, last>>
         \/ \E c \in Pages, n \in Nat :
              /\ pipe[c].live /\ pipe[c].readopen /\ n <= Filled(c)
              /\ pipe' = [pipe EXCEPT ![c] = Taken(c, n)]
              /\ last' = IF n = 0 THEN last ELSE pipe[c].data[(pipe[c].nread + n - 1) % PIPESIZE]
<1> DEFINE n == Min({Filled(call[p].pipe), call[p].n})
<1>1. p \in InCall /\ call[p].op = "read"
  <2>1. Runs(p, "read")
    BY Zenon DEF piperead
  <2> QED
    BY <2>1, Zenon DEF Runs, InCall, Ends
<1>2. PICK c \in Pages : c = call[p].pipe /\ pipe[c].live /\ IsOpen(c, "read")
  BY <1>1, HasEnd DEF IndInv
<1>3. n \in Nat /\ n <= Filled(c)
  <2>1. Filled(c) \in Nat /\ call[p].n \in Nat
    BY FilledIs, CallType DEF IndInv
  <2> DEFINE S == {Filled(c), call[p].n}
  <2>2. n = Min(S) /\ S \in SUBSET Nat /\ S # {}
    BY <1>2, <2>1
  <2>3. Min(S) \in S /\ \A y \in S : Min(S) <= y
    BY <2>2, MinIn
  <2> HIDE DEF n
  <2> QED
    BY <2>1, <2>2, <2>3
<1>4. \/ UNCHANGED <<pipe, last>>
      \/ /\ pipe' = [pipe EXCEPT ![c] = Taken(c, n)]
         /\ last' = IF n = 0 THEN last ELSE pipe[c].data[(pipe[c].nread + n - 1) % PIPESIZE]
  <2>1. c = call[p].pipe
    BY <1>2
  <2> QED
    BY <2>1, Zenon DEF piperead
<1> HIDE DEF n
<1>5. pipe[c].readopen
  BY <1>2 DEF IsOpen
<1> QED
  BY <1>2, <1>3, <1>4, <1>5, Zenon

LEMMA ReadImplements ==
  ASSUME IndInv, NEW p \in Procs, piperead(p)
  PROVE  Streams!Next \/ UNCHANGED StreamVars
<1>1. CASE UNCHANGED <<pipe, last>>
  BY <1>1, SameStreams
<1>2. CASE \E c \in Pages, n \in Nat :
             /\ pipe[c].live /\ pipe[c].readopen /\ n <= Filled(c)
             /\ pipe' = [pipe EXCEPT ![c] = Taken(c, n)]
             /\ last' = IF n = 0 THEN last ELSE pipe[c].data[(pipe[c].nread + n - 1) % PIPESIZE]
  <2>1. PICK c \in Pages, n \in Nat :
          /\ pipe[c].live /\ pipe[c].readopen /\ n <= Filled(c)
          /\ pipe' = [pipe EXCEPT ![c] = Taken(c, n)]
          /\ last' = IF n = 0 THEN last ELSE pipe[c].data[(pipe[c].nread + n - 1) % PIPESIZE]
    BY <1>2
  <2>2. /\ TypeOK /\ PageInv /\ PIPESIZE \in Nat /\ Filled(c) \in Nat /\ Filled(c) <= PIPESIZE
        /\ pipe[c] \in PageType
    <3>1. TypeOK /\ PageInv
      BY DEF IndInv
    <3>2. pipe[c] \in PageType
      BY <3>1 DEF TypeOK, PipesType, PageType
    <3>3. Filled(c) <= PIPESIZE
      BY <3>1 DEF PageInv
    <3>4. Filled(c) \in Nat
      BY <3>1, FilledIs
    <3> QED
      BY <3>1, <3>2, <3>3, <3>4, PipeAssumption
  <2> DEFINE new == Taken(c, n)
             rest == SubSeq(Queues[c], n + 1, Len(Queues[c]))
  <2>3. /\ SentBytes[c] = pipe[c].sent /\ Queues[c] = Ring(pipe[c]) /\ "read" \in OpenEnds[c]
        /\ OpenEnds[c] = {e \in Ends : IF e = "read" THEN pipe[c].readopen ELSE pipe[c].writeopen}
    BY <2>1, QueuesAre DEF SentBytes, OpenEnds, Ends
  <2>4. new.sent = pipe[c].sent /\ new.readopen = pipe[c].readopen /\ new.writeopen = pipe[c].writeopen
    BY <2>2 DEF Taken, PageType
  <2>5. Ring(new) = rest /\ (n >= 1 => pipe[c].data[At(pipe[c].nread, n - 1)] = Queues[c][n])
    BY <2>1, <2>2, <2>3, TakeRing
  <2>6. Queues[c] \in Seq(Int) /\ Len(Queues[c]) = Filled(c)
    BY <2>2, <2>3, RingSeq
  <2> HIDE DEF new
  <2>7. /\ Queues' = [Queues EXCEPT ![c] = rest]
        /\ SentBytes' = [SentBytes EXCEPT ![c] = SentBytes[c]]
        /\ OpenEnds' = [OpenEnds EXCEPT ![c] = OpenEnds[c]]
    <3>1. pipe' = [pipe EXCEPT ![c] = new]
      BY <2>1 DEF new
    <3>2. /\ Queues' = [Queues EXCEPT ![c] = Ring(new)]
          /\ SentBytes' = [SentBytes EXCEPT ![c] = new.sent]
          /\ OpenEnds' = [OpenEnds EXCEPT ![c] = {e \in Ends : IF e = "read" THEN new.readopen ELSE new.writeopen}]
      BY <2>2, <3>1, OneQueue
    <3> QED
      BY <2>3, <2>4, <2>5, <3>2
  <2>8. OpenEnds' = OpenEnds /\ SentBytes' = SentBytes
    BY <2>7 DEF OpenEnds, SentBytes
  <2>9. CASE n = 0
    <3>1. rest = Queues[c]
      BY <2>6, <2>9
    <3>2. Queues' = Queues
      BY <2>7, <3>1 DEF Queues
    <3> QED
      BY <2>1, <2>8, <2>9, <3>2 DEF StreamVars
  <2>10. CASE n # 0
    <3>1. n \in 1..PIPESIZE
      BY <2>1, <2>2, <2>10
    <3>2. last' = Queues[c][n]
      <4>1. pipe[c].nread + n - 1 = pipe[c].nread + (n - 1)
        BY <2>2 DEF PageType
      <4> QED
        BY <2>1, <2>5, <3>1, <4>1 DEF At
    <3>3. Streams!Take(c, n)
      BY <2>1, <2>3, <2>6, <2>7, <2>8, <3>2 DEF Streams!Take
    <3> QED
      BY <3>1, <3>3 DEF Streams!Next
  <2> QED
    BY <2>9, <2>10
<1> QED
  BY <1>1, <1>2, ReadFinds

LEMMA FreeRing == Ring(FreePage) = <<>> /\ FreePage.sent = 0
<1>1. /\ Wrap \in Nat \ {0} /\ FreePage.nread = 0 /\ FreePage.nwrite = 0 /\ FreePage.sent = 0
  BY PipeAssumption DEF FreePage
<1>2. (0 + Wrap - 0) % Wrap = 0
  <2>1. 0 + Wrap - 0 = 1 * Wrap + 0 /\ 0 \in 0..Wrap-1
    BY <1>1
  <2> QED
    BY <1>1, <2>1, ModUnique
<1>3. Fill(FreePage) = 0
  BY <1>1, <1>2 DEF Fill
<1> QED
  BY <1>1, <1>3 DEF Ring

LEMMA CloseImplements ==
  ASSUME IndInv, NEW p \in Procs, pipeclose(p)
  PROVE  Streams!Next
<1> DEFINE c == call[p].pipe
           writable == call[p].n = 1
           e == End(writable)
           new == IF FreedBy(c, writable) THEN FreePage
                  ELSE IF writable THEN [pipe[c] EXCEPT !.writeopen = FALSE, !.silent = FALSE] ELSE [pipe[c] EXCEPT !.readopen = FALSE]
<1>1. call[p].op = "close" /\ pipe' = [pipe EXCEPT ![c] = new] /\ last' = last
  BY DEF pipeclose, Runs
<1>2. c \in Pages /\ e \in Ends /\ Closing(p, c, e)
  BY <1>1 DEF IndInv, CallInv, Ends, Closing, End
<1>3. IsOpen(c, e) /\ TypeOK /\ pipe[c] \in PageType
  BY <1>2 DEF IndInv, EndInv, TypeOK, PipesType, PageType
<1>4. /\ Queues[c] = Ring(pipe[c]) /\ SentBytes[c] = pipe[c].sent
      /\ OpenEnds[c] = {x \in Ends : IF x = "read" THEN pipe[c].readopen ELSE pipe[c].writeopen}
  BY <1>2, QueuesAre DEF SentBytes, OpenEnds, Ends
<1> DEFINE opens == {x \in Ends : IF x = "read" THEN new.readopen ELSE new.writeopen}
<1>5. /\ Queues' = [Queues EXCEPT ![c] = Ring(new)]
      /\ SentBytes' = [SentBytes EXCEPT ![c] = new.sent]
      /\ OpenEnds' = [OpenEnds EXCEPT ![c] = opens]
  <2> HIDE DEF c, new
  <2> QED
    BY <1>1, <1>2, <1>3, OneQueue
<1>6. e \in OpenEnds[c]
  BY <1>2, <1>3, <1>4 DEF IsOpen, Ends
<1>7. opens = OpenEnds[c] \ {e}
  <2>1. /\ new.readopen <=> pipe[c].readopen /\ e # "read"
        /\ new.writeopen <=> pipe[c].writeopen /\ e # "write"
    <3>1. ~FreePage.readopen /\ ~FreePage.writeopen
      BY DEF FreePage
    <3> QED
      BY <1>3, <3>1 DEF FreedBy, IsOpen, End, PageType
  <2> HIDE DEF new, e
  <2> QED
    BY <1>4, <2>1 DEF Ends
<1>8. IF opens = {} THEN Ring(new) = <<>> /\ new.sent = 0
                    ELSE Ring(new) = Queues[c] /\ new.sent = SentBytes[c]
  <2>1. CASE FreedBy(c, writable)
    <3>1. new = FreePage
      BY <2>1
    <3>2. opens = {}
      BY <3>1 DEF FreePage
    <3> QED
      BY <3>1, <3>2, FreeRing
  <2>2. CASE ~FreedBy(c, writable)
    <3>1. /\ new.readopen \/ new.writeopen
          /\ new.data = pipe[c].data /\ new.nread = pipe[c].nread /\ new.nwrite = pipe[c].nwrite
          /\ new.sent = pipe[c].sent
      BY <1>3, <2>2 DEF FreedBy, PageType
    <3> HIDE DEF new
    <3>2. opens # {}
      BY <3>1 DEF Ends
    <3>3. Ring(new) = Ring(pipe[c])
      BY <3>1 DEF Ring, Fill
    <3> QED
      BY <1>4, <3>1, <3>2, <3>3
  <2> QED
    BY <2>1, <2>2
<1> HIDE DEF c, e, new, opens
<1>9. OpenEnds'[c] = opens
  BY <1>2, <1>5 DEF OpenEnds
<1>10. IF OpenEnds'[c] = {} THEN /\ Queues' = [Queues EXCEPT ![c] = <<>>]
                                 /\ SentBytes' = [SentBytes EXCEPT ![c] = 0]
                            ELSE UNCHANGED <<Queues, SentBytes>>
  <2>1. CASE opens = {}
    BY <1>5, <1>8, <1>9, <2>1
  <2>2. CASE opens # {}
    <3>1. Queues' = [Queues EXCEPT ![c] = Queues[c]] /\ SentBytes' = [SentBytes EXCEPT ![c] = SentBytes[c]]
      BY <1>5, <1>8, <2>2
    <3> QED
      BY <1>9, <2>2, <3>1 DEF Queues, SentBytes
  <2> QED
    BY <2>1, <2>2
<1>11. OpenEnds' = [OpenEnds EXCEPT ![c] = @ \ {e}]
  BY <1>5, <1>7
<1>12. Streams!Close(c, e)
  BY <1>1, <1>6, <1>10, <1>11 DEF Streams!Close
<1> QED
  BY <1>2, <1>12 DEF Streams!Next, Ends

LEMMA PipeImplements ==
  ASSUME IndInv, NEW p \in Procs, PipeMade(p)
  PROVE  Streams!Next
<1> DEFINE new == [FreePage EXCEPT !.live = TRUE, !.readopen = TRUE, !.writeopen = TRUE]
<1>1. PICK c \in Pages : ~pipe[c].live /\ pipe' = [pipe EXCEPT ![c] = new]
  BY DEF PipeMade
<1>2. last' = last /\ TypeOK
  BY DEF PipeMade, IndInv
<1>3. pipe[c] = FreePage
  BY <1>1 DEF IndInv, PageInv
<1>4. new.readopen /\ new.writeopen /\ new.sent = 0 /\ Ring(new) = <<>>
  <2>1. /\ new.readopen /\ new.writeopen /\ new.sent = FreePage.sent /\ new.data = FreePage.data
        /\ new.nread = FreePage.nread /\ new.nwrite = FreePage.nwrite
    BY DEF FreePage
  <2> HIDE DEF new
  <2>2. Ring(new) = Ring(FreePage)
    BY <2>1 DEF Ring, Fill
  <2> QED
    BY <2>1, <2>2, FreeRing
<1>5. Queues[c] = <<>> /\ SentBytes[c] = 0 /\ OpenEnds[c] = {}
  <2>1. Queues[c] = Ring(FreePage) /\ SentBytes[c] = FreePage.sent
    BY <1>3, QueuesAre DEF SentBytes
  <2>2. ~FreePage.readopen /\ ~FreePage.writeopen
    BY DEF FreePage
  <2>3. OpenEnds[c] = {}
    BY <1>3, <2>2 DEF OpenEnds
  <2> QED
    BY <2>1, <2>3, FreeRing
<1> HIDE DEF new
<1>6. /\ Queues' = [Queues EXCEPT ![c] = Queues[c]]
      /\ SentBytes' = [SentBytes EXCEPT ![c] = SentBytes[c]]
      /\ OpenEnds' = [OpenEnds EXCEPT ![c] = {x \in Ends : IF x = "read" THEN new.readopen ELSE new.writeopen}]
  <2>1. /\ Queues' = [Queues EXCEPT ![c] = Ring(new)]
        /\ SentBytes' = [SentBytes EXCEPT ![c] = new.sent]
        /\ OpenEnds' = [OpenEnds EXCEPT ![c] = {x \in Ends : IF x = "read" THEN new.readopen ELSE new.writeopen}]
    BY <1>1, <1>2, OneQueue
  <2> QED
    BY <1>4, <1>5, <2>1
<1>7. {x \in Ends : IF x = "read" THEN new.readopen ELSE new.writeopen} = {"read", "write"}
  BY <1>4 DEF Ends
<1>8. Queues' = Queues /\ SentBytes' = SentBytes
  BY <1>6 DEF Queues, SentBytes
<1>9. Streams!Create(c)
  BY <1>2, <1>5, <1>6, <1>7, <1>8 DEF Streams!Create
<1> QED
  BY <1>9 DEF Streams!Next

LEMMA InitImplements == Init => Streams!Init
<1> SUFFICES ASSUME Init
             PROVE  Streams!Init
  OBVIOUS
<1>1. pipe = [c \in Pages |-> FreePage] /\ last = 0
  BY DEF Init
<1>2. Queues = [c \in Pages |-> <<>>] /\ SentBytes = [c \in Pages |-> 0]
  BY <1>1, QueuesAre, FreeRing DEF SentBytes
<1>3. ~FreePage.readopen /\ ~FreePage.writeopen
  BY DEF FreePage
<1>4. OpenEnds = [c \in Pages |-> {}]
  BY <1>1, <1>3 DEF OpenEnds
<1> QED
  BY <1>1, <1>2, <1>4 DEF Streams!Init

LEMMA NextImplements == IndInv /\ [Next]_vars => [Streams!Next]_StreamVars
<1> SUFFICES ASSUME IndInv, [Next]_vars
             PROVE  Streams!Next \/ UNCHANGED StreamVars
  BY DEF StreamVars
<1>1. CASE UNCHANGED vars
  BY <1>1, SameStreams DEF vars
<1>2. ASSUME NEW p \in Procs, Kernel(p)
      PROVE  Streams!Next \/ UNCHANGED StreamVars
  <2>1. CASE pipewrite(p)
    BY <2>1, WriteImplements
  <2>2. CASE piperead(p)
    BY <2>2, ReadImplements
  <2>3. CASE pipeclose(p)
    BY <2>3, CloseImplements
  <2>4. CASE Falls(p) \/ Dies(p) \/ \E d \in Fds : sys_close(p, d)
    <3>1. UNCHANGED <<pipe, last>>
      BY <2>4 DEF Falls, Dies, sys_close
    <3> QED
      BY <3>1, SameStreams
  <2> QED
    BY <1>2, <2>1, <2>2, <2>3, <2>4, Zenon DEF Kernel
<1>3. ASSUME NEW p \in Procs, User(p)
      PROVE  Streams!Next \/ UNCHANGED StreamVars
  <2>1. CASE PipeMade(p)
    BY <2>1, PipeImplements
  <2>2. CASE ~PipeMade(p)
    <3>1. UNCHANGED <<pipe, last>>
      BY <1>3, <2>2 DEF User, sys_pipe, PipeallocFails, FdallocFails, vars, exit, fork, kill, sys_dup, sys_close, StartsIO
    <3> QED
      BY <3>1, SameStreams
  <2> QED
    BY <2>1, <2>2
<1> QED
  BY <1>1, <1>2, <1>3 DEF Next

\* Every pipe is a queue of at most PIPESIZE bytes: a write puts the next bytes at its end, a read takes
\* the first ones, across the wrap of nread and nwrite, an end is closed once, and nothing is
\* lost before both are.
THEOREM PipeImplementsChannel == Spec => ImplementsChannel
<1>1. Init => Streams!Init
  BY InitImplements
<1>2. IndInv /\ [Next]_vars => [Streams!Next]_<<Queues, SentBytes, OpenEnds, last>>
  BY NextImplements DEF StreamVars
<1> QED
  BY <1>1, <1>2, PipeInvariant, PTL DEF Spec, ImplementsChannel, Streams!Spec
=============================================================================
