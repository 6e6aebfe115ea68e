---------------------------- MODULE MemoryProofs ----------------------------
(***************************************************************************)
(* Theorems about Memory, for any number of processes and pages, any size  *)
(* of pages, page tables and memory, and any programs.                     *)
(***************************************************************************)
EXTENDS Memory, FiniteSetTheorems, WellFoundedInduction, TLAPS

-----------------------------------------------------------------------------
(* Numbers: a set of them has a least one, and sizes in pages *)

LEMMA MinIn ==
  ASSUME NEW S \in SUBSET Nat, S # {}
  PROVE  Min(S) \in S /\ \A y \in S : Min(S) <= y
<1>1. PICK x \in S : \A y \in S : ~(<<y, x>> \in OpToRel(<, Nat))
  BY WFMin, NatLessThanWellFounded
<1>2. \A y \in S : x <= y
  <2> SUFFICES ASSUME NEW y \in S, ~(x <= y)
               PROVE  FALSE
    OBVIOUS
  <2>1. <<y, x>> \in Nat \X Nat /\ y < x
    OBVIOUS
  <2>2. <<y, x>> \in OpToRel(<, Nat)
    BY <2>1 DEF OpToRel
  <2> QED
    BY <1>1, <2>2
<1> QED
  BY <1>2 DEF Min

\* A loop of N steps.
LEMMA Upward ==
  ASSUME NEW N \in Nat, NEW S, 0 \in S, \A k \in 1..N : k - 1 \in S => k \in S
  PROVE  \A k \in 0..N : k \in S
<1> DEFINE bad == {k \in 0..N : k \notin S}
           n == Min(bad)
<1> SUFFICES ASSUME bad # {}
             PROVE  FALSE
  OBVIOUS
<1>1. n \in bad /\ \A y \in bad : n <= y
  <2>1. bad \in SUBSET Nat
    OBVIOUS
  <2> HIDE DEF bad
  <2> QED
    BY <2>1, MinIn
<1> HIDE DEF n
<1>2. n # 0 /\ n \in 1..N /\ n - 1 \in 0..N
  BY <1>1
<1>3. n - 1 \in S
  BY <1>1, <1>2
<1> QED
  BY <1>1, <1>2, <1>3

LEMMA Times ==
  ASSUME NEW m \in Nat \ {0}, NEW a \in Int, NEW b \in Int
  PROVE  /\ a * m \in Int /\ (a + 1) * m = a * m + m /\ (a + b) * m = a * m + b * m
         /\ a <= b => a * m <= b * m
         /\ a < b => a * m + m <= b * m
<1>1. a * m \in Int /\ (a + 1) * m = a * m + m /\ (a + b) * m = a * m + b * m
  OBVIOUS
<1>2. ASSUME NEW c \in Int, NEW d \in Int, c <= d
      PROVE  c * m <= d * m
  <2>1. (d - c) * m >= 0
    BY <1>2
  <2>2. (d - c) * m = d * m - c * m
    OBVIOUS
  <2>3. c * m \in Int /\ d * m \in Int
    OBVIOUS
  <2> QED
    BY <2>1, <2>2, <2>3
<1>3. a < b => (a + 1) * m <= b * m
  BY <1>2
<1> QED
  BY <1>1, <1>2, <1>3

LEMMA DivIs ==
  ASSUME NEW m \in Nat \ {0}, NEW a \in Int
  PROVE  /\ a \div m \in Int
         /\ (a \div m) * m <= a /\ a < (a \div m) * m + m
         /\ \A q \in Int : q * m <= a /\ a < q * m + m => a \div m = q
<1> DEFINE d == a \div m
<1>1. d \in Int /\ d * m <= a /\ a < d * m + m
  OBVIOUS
<1> HIDE DEF d
<1>2. ASSUME NEW q \in Int, q * m <= a, a < q * m + m
      PROVE  d = q
  <2>1. d * m \in Int /\ q * m \in Int
    BY <1>1
  <2>2. ~(d < q)
    BY <1>1, <1>2, <2>1, Times
  <2>3. ~(q < d)
    BY <1>1, <1>2, <2>1, Times
  <2> QED
    BY <1>1, <2>2, <2>3
<1> QED
  BY <1>1, <1>2 DEF d

\* A sum of two words wraps at most once.
LEMMA WrapIs ==
  ASSUME NEW m \in Nat \ {0}, NEW a \in Nat, a < 2 * m
  PROVE  a % m = IF a < m THEN a ELSE a - m
<1> DEFINE q == a \div m
           r == a % m
<1>1. a = q * m + r /\ q \in Int /\ r \in Int /\ (a < m => r = a)
  OBVIOUS
<1>2. a >= m => q = 1
  <2>1. 1 * m = m /\ (a >= m => 1 * m <= a) /\ a < 1 * m + m
    OBVIOUS
  <2> HIDE DEF q
  <2> QED
    BY <2>1, DivIs DEF q
<1> HIDE DEF q
<1>3. a >= m => r = a - m
  BY <1>1, <1>2
<1> QED
  BY <1>1, <1>3

\* The pages of memory, and its page tables.
NP == KERNBASE \div PGSIZE

LEMMA MemoryIs ==
  /\ NP \in Nat /\ KERNBASE = NP * PGSIZE /\ VPages = 0..NP-1
  /\ \A v \in VPages : PDX(v) \in Dirs
<1> DEFINE D == KERNBASE \div (PGSIZE * PTSIZE)
<1>1. PGSIZE \in Nat \ {0} /\ PTSIZE \in Nat \ {0} /\ KERNBASE \in Nat /\ PGSIZE * PTSIZE \in Nat \ {0}
  BY MemoryAssumption
<1>2. D \in Int /\ KERNBASE = D * (PGSIZE * PTSIZE)
  <2> DEFINE m == PGSIZE * PTSIZE
  <2>1. m \in Nat \ {0} /\ KERNBASE % m = 0
    BY <1>1, MemoryAssumption
  <2> HIDE DEF m
  <2>2. KERNBASE \div m \in Int /\ KERNBASE = (KERNBASE \div m) * m + (KERNBASE % m)
    BY <1>1, <2>1
  <2> QED
    BY <2>1, <2>2 DEF m
<1> HIDE DEF D
<1>3. D * (PGSIZE * PTSIZE) = (D * PTSIZE) * PGSIZE
  BY <1>1, <1>2
<1> DEFINE n == D * PTSIZE
<1>4. n \in Int /\ KERNBASE = n * PGSIZE
  BY <1>1, <1>2, <1>3
<1> HIDE DEF n
<1>5. NP = n
  <2>1. n * PGSIZE <= KERNBASE /\ KERNBASE < n * PGSIZE + PGSIZE
    BY <1>1, <1>4
  <2> QED
    BY <1>1, <1>4, <2>1, DivIs DEF NP
<1>6. n >= 0
  <2>1. n < 0 => n * PGSIZE + PGSIZE <= 0 * PGSIZE
    BY <1>1, <1>4, Times
  <2>2. 0 * PGSIZE = 0 /\ n * PGSIZE \in Int
    BY <1>1, <1>4
  <2> QED
    BY <1>1, <1>4, <2>1, <2>2
<1>7. n \div PTSIZE = D
  <2>1. n = D * PTSIZE
    BY DEF n
  <2>2. D * PTSIZE <= n /\ n < D * PTSIZE + PTSIZE
    BY <1>1, <1>4, <2>1
  <2> QED
    BY <1>1, <1>2, <1>4, <2>2, DivIs
<1>8. VPages = 0..n-1 /\ Dirs = 0..D-1
  BY <1>5, <1>7 DEF VPages, Dirs, NP
<1>9. ASSUME NEW v \in VPages
      PROVE  PDX(v) \in Dirs
  <2> DEFINE d == v \div PTSIZE
  <2>1. v \in Int /\ 0 <= v /\ v < n
    BY <1>4, <1>8
  <2>2. d \in Int /\ d * PTSIZE <= v /\ v < d * PTSIZE + PTSIZE
    BY <1>1, <2>1, DivIs
  <2> HIDE DEF d
  <2>3. n = D * PTSIZE
    BY DEF n
  <2>4. ~(d < 0)
    <3>1. d < 0 => d * PTSIZE + PTSIZE <= 0 * PTSIZE
      BY <1>1, <2>2, Times
    <3>2. 0 * PTSIZE = 0 /\ d * PTSIZE \in Int
      BY <1>1, <2>2
    <3> QED
      BY <1>1, <2>1, <2>2, <3>1, <3>2
  <2>5. ~(D <= d)
    <3>1. D <= d => D * PTSIZE <= d * PTSIZE
      BY <1>1, <1>2, <2>2, Times
    <3>2. D * PTSIZE \in Int /\ d * PTSIZE \in Int
      BY <1>1, <1>2, <2>2
    <3> QED
      BY <2>1, <2>2, <2>3, <3>1, <3>2
  <2> QED
    BY <1>2, <1>8, <2>2, <2>4, <2>5 DEF d, PDX
<1> QED
  BY <1>4, <1>5, <1>6, <1>8, <1>9

LEMMA PagesInIs ==
  ASSUME NEW z \in Nat
  PROVE  /\ PagesIn(z) \in Nat
         /\ \A v \in Int : v < PagesIn(z) <=> v * PGSIZE < z
<1> DEFINE c == PagesIn(z)
<1>1. PGSIZE \in Nat \ {0}
  BY MemoryAssumption
<1>2. z + PGSIZE - 1 \in Int
  BY <1>1
<1>3. c \in Int /\ c * PGSIZE <= z + PGSIZE - 1 /\ z + PGSIZE - 1 < c * PGSIZE + PGSIZE
  BY <1>1, <1>2, DivIs DEF PagesIn
<1> HIDE DEF c
<1>4. c * PGSIZE \in Int
  BY <1>1, <1>3
<1>5. ASSUME NEW v \in Int
      PROVE  v < c <=> v * PGSIZE < z
  <2>1. v < c => v * PGSIZE + PGSIZE <= c * PGSIZE
    BY <1>1, <1>3, Times
  <2>2. c <= v => c * PGSIZE <= v * PGSIZE
    BY <1>1, <1>3, Times
  <2>3. v * PGSIZE \in Int
    BY <1>1
  <2> QED
    BY <1>1, <1>3, <1>4, <2>1, <2>2, <2>3
<1>6. c >= 0
  <2>1. -1 < c <=> (-1) * PGSIZE < z
    BY <1>5
  <2>2. (-1) * PGSIZE < z
    BY <1>1
  <2> QED
    BY <1>3, <2>1, <2>2
<1> QED
  BY <1>3, <1>5, <1>6 DEF c

LEMMA RoundUp ==
  ASSUME NEW z \in 0..KERNBASE
  PROVE  /\ PGROUNDUP(z) = PagesIn(z) * PGSIZE /\ PGROUNDUP(z) \in 0..KERNBASE /\ z <= PGROUNDUP(z)
         /\ PagesIn(z) \in 0..NP /\ PagesIn(PGROUNDUP(z)) = PagesIn(z)
<1> DEFINE c == PagesIn(z)
<1>1. PGSIZE \in Nat \ {0} /\ KERNBASE \in Nat /\ z \in Nat /\ KERNBASE > 2 * PGSIZE
  BY MemoryAssumption
<1>2. PGROUNDUP(z) = c * PGSIZE
  <2>1. z + PGSIZE - 1 \in 0..Word-1 /\ Word \in Nat \ {0}
    BY <1>1 DEF Word
  <2> DEFINE y == z + PGSIZE - 1
  <2> HIDE DEF y
  <2>2. y \in 0..Word-1 => y % Word = y
    BY <2>1
  <2>3. (z + PGSIZE - 1) % Word = z + PGSIZE - 1
    BY <2>1, <2>2 DEF y
  <2> QED
    BY <2>3 DEF PGROUNDUP, PagesIn
<1>3. c \in Nat /\ \A v \in Int : v < c <=> v * PGSIZE < z
  BY <1>1, PagesInIs
<1> HIDE DEF c
<1>4. c * PGSIZE \in Nat /\ z <= c * PGSIZE
  BY <1>1, <1>3
<1>5. NP \in Nat /\ KERNBASE = NP * PGSIZE
  BY MemoryIs
<1>6. c <= NP
  <2>1. NP < c <=> NP * PGSIZE < z
    BY <1>3, <1>5
  <2> QED
    BY <1>1, <1>3, <1>5, <2>1
<1>7. c * PGSIZE <= KERNBASE
  BY <1>1, <1>3, <1>5, <1>6, Times
<1>8. PagesIn(c * PGSIZE) = c
  <2> DEFINE d == PagesIn(c * PGSIZE)
  <2>1. d \in Nat /\ \A v \in Int : v < d <=> v * PGSIZE < c * PGSIZE
    BY <1>4, PagesInIs
  <2> HIDE DEF d
  <2>2. ~(c < d)
    BY <1>3, <1>4, <2>1
  <2>3. ~(d < c)
    <3>1. d < c => d * PGSIZE + PGSIZE <= c * PGSIZE
      BY <1>1, <1>3, <2>1, Times
    <3>2. ~(d * PGSIZE < c * PGSIZE)
      BY <2>1
    <3>3. d * PGSIZE \in Int
      BY <1>1, <2>1
    <3> QED
      BY <1>1, <1>4, <3>1, <3>2, <3>3
  <2> QED
    BY <1>3, <2>1, <2>2, <2>3 DEF d
<1> QED
  BY <1>1, <1>2, <1>3, <1>4, <1>6, <1>7, <1>8 DEF c

\* The pages a growing process gets: those behind the ones it has.
LEMMA SpanIs ==
  ASSUME NEW old \in 0..KERNBASE, NEW new \in 0..KERNBASE, old <= new
  PROVE  LET s == Span(PGROUNDUP(old), new) IN
         /\ PagesIn(old) <= PagesIn(new)
         /\ Len(s) = PagesIn(new) - PagesIn(old)
         /\ \A i \in 1..Len(s) : s[i] = PagesIn(old) + i - 1 /\ s[i] \in VPages
<1> DEFINE P == PGSIZE
           a == PagesIn(old)
           b == PagesIn(new)
           s == Span(PGROUNDUP(old), new)
           n == IF new > PGROUNDUP(old) THEN ((new - PGROUNDUP(old)) + PGSIZE - 1) \div PGSIZE ELSE 0
<1>1. P \in Nat \ {0} /\ old \in Nat /\ new \in Nat /\ KERNBASE \in Nat
  BY MemoryAssumption
<1>2. /\ a \in Nat /\ b \in Nat
      /\ \A v \in Int : v < a <=> v * P < old
      /\ \A v \in Int : v < b <=> v * P < new
  BY <1>1, PagesInIs
<1>3. PGROUNDUP(old) = a * P /\ b <= NP /\ NP \in Nat /\ VPages = 0..NP-1
  BY RoundUp, MemoryIs
<1>4. s = [i \in 1..n |-> PGROUNDUP(old) \div P + i - 1]
  BY DEF Span
<1>5. b * P <= new + P - 1 /\ new + P - 1 < b * P + P
  <2>1. new + P - 1 \in Int
    BY <1>1
  <2> QED
    BY <1>1, <2>1, DivIs DEF PagesIn
<1>6. (a * P) \div P = a
  <2>1. a * P \in Int /\ a * P <= a * P /\ a * P < a * P + P
    BY <1>1, <1>2
  <2> HIDE DEF a, P
  <2> QED
    BY <1>1, <1>2, <2>1, DivIs
<1>7. a <= b
  <2>1. b < a <=> b * P < old
    BY <1>2
  <2>2. ~(b * P < new)
    BY <1>2
  <2>3. b * P \in Int
    BY <1>1, <1>2
  <2> QED
    BY <1>1, <1>2, <2>1, <2>2, <2>3
<1> HIDE DEF a, b, P
<1>8. n = b - a
  <2>1. CASE new > a * P
    <3> DEFINE y == (new - a * P) + P - 1
    <3>1. (b - a) * P = b * P - a * P /\ a * P \in Int /\ b * P \in Int /\ b - a \in Int
      BY <1>1, <1>2
    <3>2. y \in Int /\ (b - a) * P <= y /\ y < (b - a) * P + P
      BY <1>1, <1>5, <3>1
    <3> HIDE DEF y
    <3>3. y \div P = b - a
      BY <1>1, <3>1, <3>2, DivIs
    <3> QED
      BY <1>3, <2>1, <3>3 DEF y, P
  <2>2. CASE ~(new > a * P)
    <3>1. a < b <=> a * P < new
      BY <1>2
    <3> QED
      BY <1>1, <1>2, <1>3, <1>7, <2>2, <3>1
  <2> QED
    BY <2>1, <2>2
<1> HIDE DEF n
<1>9. s = [i \in 1..n |-> a + i - 1] /\ n \in Nat
  BY <1>2, <1>3, <1>4, <1>6, <1>7, <1>8
<1> HIDE DEF s
<1>10. Len(s) = n /\ \A i \in 1..n : s[i] = a + i - 1 /\ s[i] \in VPages
  BY <1>2, <1>3, <1>8, <1>9
<1> QED
  BY <1>7, <1>8, <1>10 DEF a, b, s

-----------------------------------------------------------------------------
(* Page tables under construction *)

Made == [free : SUBSET Pages, ok : BOOLEAN, panic : BOOLEAN, kernel : SUBSET Pages,
         table : [Dirs -> Pages \cup {None}], pte : [VPages -> Pages \cup {None}], user : SUBSET VPages]

\* The pages F there were at the start are free or in m, each once.
Has(m, F) == m.free \cup Freed(m) = F /\ m.free \cap Freed(m) = {} /\ Neat(m)

\* What a step of the construction leaves alone.
Grows(m, c) == c.panic = m.panic /\ c.kernel = m.kernel /\ c.user = m.user

LEMMA FreedIs ==
  ASSUME NEW m \in Made
  PROVE  \A x : x \in Freed(m) <=> \/ x \in m.kernel
                                   \/ x # None /\ \E d \in Dirs : m.table[d] = x
                                   \/ x # None /\ \E v \in VPages : m.pte[v] = x
BY DEF Freed, Tables, UserPages

LEMMA SameTables ==
  ASSUME NEW m, NEW c, c.free = m.free, c.table = m.table, c.pte = m.pte, c.kernel = m.kernel
  PROVE  /\ Freed(c) = Freed(m)
         /\ \A F : Has(m, F) => Has(c, F)
         /\ \A n : Upto(m, n) => Upto(c, n)
<1>1. Tables(c) = Tables(m) /\ UserPages(c) = UserPages(m)
  BY DEF Tables, UserPages
<1>2. Freed(c) = Freed(m)
  BY <1>1 DEF Freed
<1>3. Neat(m) => Neat(c)
  BY <1>1 DEF Neat
<1> QED
  BY <1>2, <1>3 DEF Has, Upto

\* A free page becomes a user page.
LEMMA MapsUser ==
  ASSUME NEW m \in Made, NEW c \in Made, NEW F, Has(m, F), NEW v \in VPages, m.pte[v] = None,
         NEW x \in m.free, c.free = m.free \ {x}, c.pte = [m.pte EXCEPT ![v] = x],
         c.table = m.table, c.kernel = m.kernel
  PROVE  Has(c, F)
<1>1. x \notin Freed(m) /\ x \in Pages /\ x # None
  BY MemoryAssumption DEF Has, Made
<1>2. UserPages(c) = UserPages(m) \cup {x} /\ Tables(c) = Tables(m)
  BY <1>1 DEF Made, UserPages, Tables
<1>3. Freed(c) = Freed(m) \cup {x}
  BY <1>2 DEF Freed
<1>4. c.free \cup Freed(c) = F /\ c.free \cap Freed(c) = {}
  BY <1>1, <1>3 DEF Has
<1>5. x \notin m.kernel /\ (\A d \in Dirs : m.table[d] # x) /\ \A w \in VPages : m.pte[w] # x
  BY <1>1, FreedIs
<1>6. \A w \in VPages : c.pte[w] = IF w = v THEN x ELSE m.pte[w]
  BY DEF Made
<1>7. Neat(c)
  BY <1>2, <1>5, <1>6 DEF Neat, Has
<1> QED
  BY <1>4, <1>7 DEF Has

\* A free page becomes a page table.
LEMMA MapsTable ==
  ASSUME NEW m \in Made, NEW c \in Made, NEW F, Has(m, F), NEW d \in Dirs, m.table[d] = None,
         NEW x \in m.free, c.free = m.free \ {x}, c.table = [m.table EXCEPT ![d] = x],
         c.pte = m.pte, c.kernel = m.kernel
  PROVE  Has(c, F)
<1>1. x \notin Freed(m) /\ x \in Pages /\ x # None
  BY MemoryAssumption DEF Has, Made
<1>2. Tables(c) = Tables(m) \cup {x} /\ UserPages(c) = UserPages(m)
  BY <1>1 DEF Made, UserPages, Tables
<1>3. Freed(c) = Freed(m) \cup {x}
  BY <1>2 DEF Freed
<1>4. c.free \cup Freed(c) = F /\ c.free \cap Freed(c) = {}
  BY <1>1, <1>3 DEF Has
<1>5. x \notin m.kernel /\ (\A e \in Dirs : m.table[e] # x) /\ \A w \in VPages : m.pte[w] # x
  BY <1>1, FreedIs
<1>6. \A e \in Dirs : c.table[e] = IF e = d THEN x ELSE m.table[e]
  BY DEF Made
<1>7. Neat(c)
  BY <1>2, <1>5, <1>6 DEF Neat, Has
<1> QED
  BY <1>4, <1>7 DEF Has

\* kalloc and mappages for the next page of the process, and their failures.
LEMMA MapsPageIs ==
  ASSUME NEW m \in Made, NEW F, Has(m, F), m.ok, ~m.panic, NEW v \in VPages, Upto(m, v)
  PROVE  LET c == MapsPage(m, v) IN
         /\ c \in Made /\ Has(c, F) /\ Grows(m, c)
         /\ Upto(c, IF c.ok THEN v + 1 ELSE v)
<1> DEFINE mem == Min(m.free)
           rest == m.free \ {mem}
           tab == Min(rest)
           d == PDX(v)
           c == MapsPage(m, v)
           failed == [m EXCEPT !.ok = FALSE]
           user == [m EXCEPT !.free = rest, !.pte[v] = mem, !.panic = @ \/ m.pte[v] # None]
           both == [m EXCEPT !.free = rest \ {tab}, !.table[d] = tab, !.pte[v] = mem]
<1>1. /\ m.free \subseteq Nat /\ m.free \subseteq Pages /\ d \in Dirs /\ m.pte[v] = None
      /\ v \in Nat /\ VPages \subseteq Nat /\ None \notin Pages
  <2>1. d \in Dirs /\ v \in Nat /\ VPages \subseteq Nat
    BY MemoryIs
  <2>2. m.free \subseteq Pages /\ Pages \subseteq Nat /\ None \notin Pages
    BY MemoryAssumption DEF Made
  <2>3. m.pte[v] = None
    BY <2>1 DEF Upto
  <2> QED
    BY <2>1, <2>2, <2>3
<1>2. CASE m.free = {}
  <2>1. c = failed
    BY <1>2 DEF MapsPage
  <2>2. /\ failed \in Made /\ failed.free = m.free /\ failed.table = m.table /\ failed.pte = m.pte
        /\ failed.kernel = m.kernel /\ failed.panic = m.panic /\ failed.user = m.user /\ ~failed.ok
    BY DEF Made
  <2> HIDE DEF failed
  <2>3. Has(failed, F) /\ Upto(failed, v)
    BY <2>2, SameTables
  <2> QED
    BY <2>1, <2>2, <2>3 DEF Grows
<1>3. CASE m.free # {} /\ m.table[d] # None
  <2>1. c = user
    BY <1>3 DEF MapsPage
  <2>2. mem \in m.free
    BY <1>1, <1>3, MinIn
  <2> HIDE DEF mem, d
  <2>3. /\ user \in Made /\ user.free = m.free \ {mem} /\ user.pte = [m.pte EXCEPT ![v] = mem]
        /\ user.table = m.table /\ user.kernel = m.kernel /\ user.ok /\ user.panic = m.panic /\ user.user = m.user
    BY <1>1, <2>2 DEF Made
  <2> HIDE DEF user
  <2>4. Has(user, F)
    BY <1>1, <2>2, <2>3, MapsUser
  <2>5. Upto(user, v + 1)
    <3> SUFFICES ASSUME NEW w \in VPages
                 PROVE  /\ user.pte[w] # None <=> w < v + 1
                        /\ w < v + 1 => user.table[PDX(w)] # None
      BY DEF Upto
    <3>1. user.pte[w] = IF w = v THEN mem ELSE m.pte[w]
      BY <2>3 DEF Made
    <3>2. mem # None
      BY <1>1, <2>2
    <3>3. (m.pte[w] # None <=> w < v) /\ (w < v => m.table[PDX(w)] # None)
      BY DEF Upto
    <3>4. w < v + 1 <=> w < v \/ w = v
      BY <1>1
    <3> QED
      BY <1>3, <2>3, <3>1, <3>2, <3>3, <3>4 DEF d
  <2> QED
    BY <2>1, <2>3, <2>4, <2>5 DEF Grows
<1>4. CASE m.free # {} /\ m.table[d] = None /\ rest = {}
  <2>1. c = failed
    BY <1>4 DEF MapsPage
  <2>2. /\ failed \in Made /\ failed.free = m.free /\ failed.table = m.table /\ failed.pte = m.pte
        /\ failed.kernel = m.kernel /\ failed.panic = m.panic /\ failed.user = m.user /\ ~failed.ok
    BY DEF Made
  <2> HIDE DEF failed
  <2>3. Has(failed, F) /\ Upto(failed, v)
    BY <2>2, SameTables
  <2> QED
    BY <2>1, <2>2, <2>3 DEF Grows
<1>5. CASE m.free # {} /\ m.table[d] = None /\ rest # {}
  <2>1. c = both
    BY <1>5 DEF MapsPage
  <2>2. mem \in m.free
    BY <1>1, <1>5, MinIn
  <2>3. tab \in rest
    <3>1. rest \subseteq Nat
      BY <1>1
    <3> QED
      BY <1>5, <3>1, MinIn
  <2> HIDE DEF mem, tab, d
  <2> DEFINE half == [m EXCEPT !.free = m.free \ {tab}, !.table[d] = tab]
  <2>4. /\ half \in Made /\ half.free = m.free \ {tab} /\ half.table = [m.table EXCEPT ![d] = tab]
        /\ half.pte = m.pte /\ half.kernel = m.kernel /\ half.panic = m.panic
    BY <1>1, <2>2, <2>3 DEF Made
  <2>5. /\ both \in Made /\ both.free = half.free \ {mem} /\ both.table = half.table
        /\ both.pte = [half.pte EXCEPT ![v] = mem] /\ both.kernel = half.kernel
        /\ both.ok /\ both.panic = m.panic /\ both.user = m.user /\ both.kernel = m.kernel
    BY <1>1, <2>2, <2>3 DEF Made
  <2> HIDE DEF half, both
  <2>6. Has(half, F)
    BY <1>1, <1>5, <2>3, <2>4, MapsTable
  <2>7. Has(both, F)
    BY <1>1, <2>2, <2>3, <2>4, <2>5, <2>6, MapsUser
  <2>8. Upto(both, v + 1)
    <3> SUFFICES ASSUME NEW w \in VPages
                 PROVE  /\ both.pte[w] # None <=> w < v + 1
                        /\ w < v + 1 => both.table[PDX(w)] # None
      BY DEF Upto
    <3>1. both.pte[w] = IF w = v THEN mem ELSE m.pte[w]
      BY <2>4, <2>5 DEF Made
    <3>2. both.table[PDX(w)] = IF PDX(w) = d THEN tab ELSE m.table[PDX(w)]
      BY <2>4, <2>5, MemoryIs DEF Made
    <3>3. mem # None /\ tab # None
      BY <1>1, <2>2, <2>3
    <3>4. (m.pte[w] # None <=> w < v) /\ (w < v => m.table[PDX(w)] # None)
      BY DEF Upto
    <3>5. w < v + 1 <=> w < v \/ w = v
      BY <1>1
    <3> QED
      BY <3>1, <3>2, <3>3, <3>4, <3>5 DEF d
  <2> QED
    BY <2>1, <2>5, <2>7, <2>8 DEF Grows
<1> QED
  BY <1>2, <1>3, <1>4, <1>5

\* The loop over pages, as a recurrence: f has what each round starts from.
Mapping(f, m, s) == /\ f[0] = m
                    /\ \A k \in 1..Len(s) : f[k] = MapsPage(f[k - 1], s[k])
                    /\ Maps(m, s) = f[Len(s)]

LEMMA MapsIs ==
  ASSUME NEW m, NEW s, Len(s) \in Nat
  PROVE  \E f : Mapping(f, m, s)
<1> DEFINE L == Len(s)
           Rec(g, n) == g = [k \in 0..n |-> IF k = 0 THEN m ELSE MapsPage(g[k - 1], s[k])]
           good == {n \in 0..L : \E g : Rec(g, n)}
           f == CHOOSE g : Rec(g, L)
<1>1. 0 \in good
  <2> DEFINE h == [k \in 0..0 |-> m]
  <2>1. Rec(h, 0)
    OBVIOUS
  <2> HIDE DEF h, Rec
  <2> QED
    BY <2>1
<1>2. ASSUME NEW n \in 1..L, n - 1 \in good
      PROVE  n \in good
  <2>1. PICK g : Rec(g, n - 1)
    BY <1>2
  <2> DEFINE h == [k \in 0..n |-> IF k = n THEN MapsPage(g[n - 1], s[n]) ELSE g[k]]
  <2>2. ASSUME NEW k \in 0..n
        PROVE  h[k] = IF k = 0 THEN m ELSE MapsPage(h[k - 1], s[k])
    <3>1. CASE k = n
      BY <3>1
    <3>2. CASE k # n
      <4>1. k \in 0..(n - 1) /\ h[k] = g[k] /\ (k # 0 => h[k - 1] = g[k - 1])
        BY <3>2
      <4>2. g[k] = IF k = 0 THEN m ELSE MapsPage(g[k - 1], s[k])
        BY <2>1, <4>1
      <4> QED
        BY <4>1, <4>2
    <3> QED
      BY <3>1, <3>2
  <2>3. Rec(h, n)
    BY <2>2
  <2> HIDE DEF h, Rec
  <2> QED
    BY <2>3
<1>3. L \in good
  <2> HIDE DEF good
  <2>1. \A k \in 0..L : k \in good
    BY <1>1, <1>2, Upward
  <2> QED
    BY <2>1
<1>4. Rec(f, L)
  BY <1>3
<1>5. Maps(m, s) = f[L]
  BY DEF Maps
<1> HIDE DEF f
<1>6. f[0] = m /\ \A k \in 1..L : f[k] = MapsPage(f[k - 1], s[k])
  BY <1>4
<1> QED
  BY <1>5, <1>6 DEF Mapping

\* The whole loop: as many pages as it could get, from the A-th on.
LEMMA MapsAll ==
  ASSUME NEW m \in Made, NEW F, Has(m, F), ~m.panic, NEW A \in Nat, Upto(m, A),
         NEW s, Len(s) \in Nat, \A i \in 1..Len(s) : s[i] = A + i - 1 /\ s[i] \in VPages
  PROVE  LET c == Maps(m, s) IN
         /\ c \in Made /\ Has(c, F) /\ Grows(m, c)
         /\ \E B \in A..A + Len(s) : Upto(c, B) /\ (c.ok => B = A + Len(s))
<1>1. PICK f : Mapping(f, m, s)
  BY MapsIs
<1> DEFINE Good(k) == /\ f[k] \in Made /\ Has(f[k], F) /\ Grows(m, f[k])
                      /\ \E B \in A..A + k : Upto(f[k], B) /\ (f[k].ok => B = A + k)
           good == {k \in 0..Len(s) : Good(k)}
<1>2. 0 \in good
  BY <1>1 DEF Grows, Mapping
<1>3. ASSUME NEW n \in 1..Len(s), n - 1 \in good
      PROVE  n \in good
  <2> DEFINE j == n - 1
  <2>1. j \in Nat /\ Good(j) /\ n = j + 1
    BY <1>3
  <2> HIDE DEF j
  <2> DEFINE a == f[j]
             c == MapsPage(a, s[n])
  <2>2. f[n] = c
    BY <1>1, <2>1 DEF Mapping
  <2>3. a \in Made /\ Has(a, F) /\ Grows(m, a)
    BY <2>1
  <2>4. PICK B \in A..A + j : Upto(a, B) /\ (a.ok => B = A + j)
    BY <2>1
  <2>5. s[n] = A + j /\ s[n] \in VPages
    BY <2>1
  <2> HIDE DEF a
  <2>6. CASE a.ok
    <3>1. ~a.panic /\ Upto(a, s[n])
      BY <2>3, <2>4, <2>5, <2>6 DEF Grows
    <3>2. /\ c \in Made /\ Has(c, F) /\ Grows(a, c)
          /\ Upto(c, IF c.ok THEN s[n] + 1 ELSE s[n])
      BY <2>3, <2>5, <2>6, <3>1, MapsPageIs
    <3> HIDE DEF c
    <3>3. Grows(m, c)
      BY <2>3, <3>2 DEF Grows
    <3>4. A + j \in A..A + n /\ A + n = A + j + 1 /\ A + n \in A..A + n
      BY <2>1
    <3>5. \E D \in A..A + n : Upto(c, D) /\ (c.ok => D = A + n)
      <4>1. CASE c.ok
        BY <2>5, <3>2, <3>4, <4>1
      <4>2. CASE ~c.ok
        BY <2>5, <3>2, <3>4, <4>2
      <4> QED
        BY <4>1, <4>2
    <3>6. Good(n)
      BY <2>2, <3>2, <3>3, <3>5
    <3> HIDE DEF Good
    <3> QED
      BY <3>6
  <2>7. CASE ~a.ok
    <3>1. c = a
      BY <2>7 DEF MapsPage
    <3>2. B \in A..A + n
      BY <2>1, <2>4
    <3>3. Good(n)
      BY <2>2, <2>3, <2>4, <2>7, <3>1, <3>2
    <3> HIDE DEF Good
    <3> QED
      BY <3>3
  <2> QED
    BY <2>6, <2>7
<1>4. Good(Len(s))
  <2> HIDE DEF Good
  <2>1. \A k \in 0..Len(s) : k \in good
    <3> HIDE DEF good
    <3> QED
      BY <1>2, <1>3, Upward
  <2> QED
    BY <2>1
<1> QED
  BY <1>1, <1>4 DEF Mapping

-----------------------------------------------------------------------------
(* Growing and shrinking *)

LEMMA PagesInOrder ==
  ASSUME NEW y \in Nat, NEW z \in Nat, y <= z
  PROVE  PagesIn(y) <= PagesIn(z)
<1> DEFINE a == PagesIn(y)
           b == PagesIn(z)
<1>1. /\ a \in Nat /\ b \in Nat
      /\ b < a <=> b * PGSIZE < y
      /\ b < b <=> b * PGSIZE < z
  BY PagesInIs
<1> HIDE DEF a, b
<1>2. b * PGSIZE \in Int
  BY <1>1, MemoryAssumption
<1> QED
  BY <1>1, <1>2 DEF a, b

\* The pages from new to old are given back.
LEMMA Unmaps ==
  ASSUME NEW m \in Made, NEW F, Has(m, F), NEW old \in 0..KERNBASE, NEW new \in 0..KERNBASE, new < old
  PROVE  LET x == deallocuvm(m, old, new) IN
         /\ x[2] = new /\ x[1] \in Made /\ Has(x[1], F) /\ Grows(m, x[1]) /\ x[1].ok = m.ok
         /\ \A B \in Nat : Upto(m, B) /\ B <= PagesIn(old)
                => Upto(x[1], IF B < PagesIn(new) THEN B ELSE PagesIn(new))
<1> DEFINE gone == {v \in VPages : PGROUNDUP(new) <= v * PGSIZE /\ v * PGSIZE < old}
           back == {m.pte[v] : v \in gone} \ {None}
           c == [m EXCEPT !.free = @ \cup back,
                          !.pte = [v \in VPages |-> IF v \in gone THEN None ELSE @[v]]]
           a == PagesIn(new)
           b == PagesIn(old)
<1>1. old \in Nat /\ new \in Nat /\ PGSIZE \in Nat \ {0} /\ KERNBASE \in Nat
  BY MemoryAssumption
<1>2. deallocuvm(m, old, new) = <<c, new>>
  BY <1>1 DEF deallocuvm
<1>3. a \in Nat /\ b \in Nat /\ VPages \subseteq Nat
  BY <1>1, PagesInIs, MemoryIs
<1>4. \A v \in VPages : v \in gone <=> a <= v /\ v < b
  <2> TAKE v \in VPages
  <2>1. PGROUNDUP(new) = a * PGSIZE
    BY RoundUp
  <2>2. v \in Int /\ (v < a <=> v * PGSIZE < new) /\ (v < b <=> v * PGSIZE < old)
    BY <1>1, <1>3, PagesInIs
  <2> HIDE DEF a, b
  <2>3. a <= v => a * PGSIZE <= v * PGSIZE
    BY <1>1, <1>3, <2>2, Times
  <2>4. v < a => v * PGSIZE + PGSIZE <= a * PGSIZE
    BY <1>1, <1>3, <2>2, Times
  <2>5. v * PGSIZE \in Int /\ a * PGSIZE \in Int
    BY <1>1, <1>3, <2>2
  <2> QED
    BY <1>1, <1>3, <2>1, <2>2, <2>3, <2>4, <2>5
<1>5. gone \subseteq VPages
  OBVIOUS
<1> HIDE DEF gone, a, b
<1>6. back \subseteq Pages
  BY <1>5 DEF Made
<1>7. /\ c \in Made /\ c.free = m.free \cup back /\ c.table = m.table /\ c.kernel = m.kernel
      /\ c.pte = [v \in VPages |-> IF v \in gone THEN None ELSE m.pte[v]]
      /\ c.user = m.user /\ c.panic = m.panic /\ c.ok = m.ok
  BY <1>6 DEF Made
<1> HIDE DEF c
<1>8. Tables(c) = Tables(m)
  BY <1>7 DEF Tables
<1>9. UserPages(m) = UserPages(c) \cup back
  <2>1. \A v \in VPages : c.pte[v] = IF v \in gone THEN None ELSE m.pte[v]
    BY <1>7
  <2>2. UserPages(c) = {m.pte[v] : v \in VPages \ gone} \ {None}
    BY <2>1, <1>5 DEF UserPages
  <2> QED
    BY <1>5, <2>2 DEF UserPages
<1>10. back \cap UserPages(c) = {}
  <2> SUFFICES ASSUME NEW v \in gone, NEW w \in VPages, m.pte[v] # None, c.pte[w] = m.pte[v]
               PROVE  FALSE
    BY DEF UserPages
  <2>1. w \notin gone /\ m.pte[w] = m.pte[v]
    BY <1>7, MemoryAssumption
  <2>2. w = v
    BY <1>5, <2>1 DEF Has, Neat
  <2> QED
    BY <2>1, <2>2
<1>11. back \cap (m.kernel \cup Tables(m)) = {}
  <2> SUFFICES ASSUME NEW v \in gone, m.pte[v] # None, m.pte[v] \in m.kernel \cup Tables(m)
               PROVE  FALSE
    OBVIOUS
  <2>1. m.pte[v] \in UserPages(m)
    BY <1>5 DEF UserPages
  <2>2. m.pte[v] \notin m.kernel
    BY <2>1 DEF Has, Neat
  <2>3. m.pte[v] \notin Tables(m)
    BY <1>5 DEF Has, Neat, Tables
  <2> QED
    BY <2>2, <2>3
<1>12. Has(c, F)
  <2>1. c.free \cup Freed(c) = F
    BY <1>7, <1>8, <1>9 DEF Has, Freed
  <2>2. c.free \cap Freed(c) = {}
    BY <1>7, <1>8, <1>9, <1>10, <1>11 DEF Has, Freed
  <2>3. \A v \in VPages : c.pte[v] = None \/ c.pte[v] = m.pte[v]
    BY <1>7
  <2>4. Neat(c)
    <3>1. /\ \A d, e \in Dirs : c.table[d] = c.table[e] /\ c.table[d] # None => d = e
          /\ \A v, w \in VPages : c.pte[v] = c.pte[w] /\ c.pte[v] # None => v = w
          /\ \A d \in Dirs, v \in VPages : c.table[d] = c.pte[v] => c.table[d] = None
      BY <1>7, <2>3 DEF Has, Neat
    <3>2. c.kernel \cap (Tables(c) \cup UserPages(c)) = {}
      BY <1>7, <1>8, <1>9 DEF Has, Neat
    <3> QED
      BY <3>1, <3>2 DEF Neat
  <2> QED
    BY <2>1, <2>2, <2>4 DEF Has
<1>13. ASSUME NEW B \in Nat, Upto(m, B), B <= b
       PROVE  Upto(c, IF B < a THEN B ELSE a)
  <2> SUFFICES ASSUME NEW v \in VPages
               PROVE  LET n == IF B < a THEN B ELSE a IN
                      (c.pte[v] # None <=> v < n) /\ (v < n => c.table[PDX(v)] # None)
    BY DEF Upto
  <2>1. (m.pte[v] # None <=> v < B) /\ (v < B => m.table[PDX(v)] # None)
    BY <1>13 DEF Upto
  <2>2. c.pte[v] = IF v \in gone THEN None ELSE m.pte[v]
    BY <1>7
  <2>3. v \in Nat
    BY <1>3
  <2> QED
    BY <1>3, <1>4, <1>7, <1>13, <2>1, <2>2, <2>3
<1> QED
  BY <1>2, <1>7, <1>12, <1>13 DEF Grows, a, b

\* The process has the pages below its new size, or those below the old one.
LEMMA Allocs ==
  ASSUME NEW m \in Made, NEW F, Has(m, F), m.ok, ~m.panic,
         NEW old \in 0..KERNBASE, NEW new \in Nat, Upto(m, PagesIn(old))
  PROVE  LET x == allocuvm(m, old, new) IN
         /\ x[1] \in Made /\ Has(x[1], F) /\ Grows(m, x[1])
         /\ x[1].ok => /\ x[2] = IF new < old THEN old ELSE new
                       /\ new >= old => new < KERNBASE
                       /\ Upto(x[1], PagesIn(x[2]))
         /\ ~x[1].ok => x[2] = 0 /\ Upto(x[1], PagesIn(old))
<1> DEFINE x == allocuvm(m, old, new)
           failed == [m EXCEPT !.ok = FALSE]
           s == Span(PGROUNDUP(old), new)
           c == Maps(m, s)
<1>1. KERNBASE \in Nat /\ old \in Nat
  BY MemoryAssumption
<1>2. CASE new >= KERNBASE
  <2>1. x = <<failed, 0>>
    BY <1>2 DEF allocuvm
  <2>2. /\ failed \in Made /\ failed.free = m.free /\ failed.table = m.table /\ failed.pte = m.pte
        /\ failed.kernel = m.kernel /\ failed.panic = m.panic /\ failed.user = m.user /\ ~failed.ok
    BY DEF Made
  <2> HIDE DEF failed
  <2>3. Has(failed, F) /\ Upto(failed, PagesIn(old))
    BY <2>2, SameTables
  <2> QED
    BY <2>1, <2>2, <2>3 DEF Grows
<1>3. CASE ~(new >= KERNBASE) /\ new < old
  <2>1. x = <<m, old>>
    BY <1>3 DEF allocuvm
  <2> QED
    BY <1>1, <1>3, <2>1 DEF Grows
<1>4. CASE ~(new >= KERNBASE) /\ ~(new < old)
  <2>1. new \in 0..KERNBASE /\ old <= new
    BY <1>1, <1>4
  <2>2. /\ PagesIn(old) <= PagesIn(new) /\ Len(s) = PagesIn(new) - PagesIn(old)
        /\ \A i \in 1..Len(s) : s[i] = PagesIn(old) + i - 1 /\ s[i] \in VPages
    BY <2>1, SpanIs
  <2> DEFINE a == PagesIn(old)
             b == PagesIn(new)
  <2>3. a \in Nat /\ b \in Nat
    BY <1>1, PagesInIs
  <2> HIDE DEF a, b, s
  <2>4. Len(s) \in Nat /\ a + Len(s) = b /\ \A i \in 1..Len(s) : s[i] = a + i - 1 /\ s[i] \in VPages
    BY <2>2, <2>3 DEF a, b
  <2>5. Upto(m, a)
    BY DEF a
  <2>6. /\ c \in Made /\ Has(c, F) /\ Grows(m, c)
        /\ \E B \in a..b : Upto(c, B) /\ (c.ok => B = b)
    BY <2>3, <2>4, <2>5, MapsAll
  <2>7. PICK B \in a..b : Upto(c, B) /\ (c.ok => B = b)
    BY <2>6
  <2> DEFINE back == deallocuvm(c, new, old)
  <2>8. x = IF c.ok THEN <<c, new>> ELSE <<back[1], 0>>
    BY <1>4 DEF allocuvm, s
  <2> HIDE DEF c, x
  <2>9. CASE c.ok
    <3>1. x[1] = c /\ x[2] = new /\ x[2] = (IF new < old THEN old ELSE new) /\ new < KERNBASE
      BY <1>1, <1>4, <2>8, <2>9
    <3>2. Upto(c, PagesIn(x[2]))
      BY <2>7, <2>9, <3>1 DEF b
    <3> QED
      BY <2>6, <2>9, <3>1, <3>2 DEF x
  <2>10. CASE ~c.ok /\ old < new
    <3>1. back[1] \in Made /\ Has(back[1], F) /\ Grows(c, back[1]) /\ back[1].ok = c.ok
      BY <2>1, <2>6, <2>10, Unmaps
    <3>2. Upto(back[1], IF B < a THEN B ELSE a)
      BY <2>1, <2>3, <2>6, <2>7, <2>10, Unmaps DEF a, b
    <3> HIDE DEF back
    <3>3. Upto(back[1], a) /\ Grows(m, back[1])
      BY <2>3, <2>6, <3>1, <3>2 DEF Grows
    <3> QED
      BY <2>8, <2>10, <3>1, <3>3 DEF a, x
  <2>11. CASE ~c.ok /\ old = new
    <3>1. back[1] = c
      BY <2>11 DEF deallocuvm
    <3>2. B = a
      BY <2>3, <2>11 DEF a, b
    <3> QED
      BY <2>6, <2>7, <2>8, <2>11, <3>1, <3>2 DEF a, x
  <2> QED
    BY <1>1, <2>1, <2>9, <2>10, <2>11
<1> QED
  BY <1>1, <1>2, <1>3, <1>4

-----------------------------------------------------------------------------
(* New address spaces *)

LEMMA NoPages == PagesIn(0) = 0 /\ PGROUNDUP(0) = 0
<1> DEFINE a == PagesIn(0)
<1>1. a \in Nat /\ (0 < a <=> 0 * PGSIZE < 0)
  BY PagesInIs
<1>2. PGSIZE \in Nat \ {0} /\ 0 \in 0..KERNBASE
  BY MemoryAssumption
<1>3. PGROUNDUP(0) = a * PGSIZE
  BY <1>2, RoundUp
<1> HIDE DEF a
<1>4. a = 0
  BY <1>1, <1>2
<1> QED
  BY <1>2, <1>3, <1>4 DEF a

LEMMA SetupIs ==
  ASSUME NEW pages \in SUBSET Pages
  PROVE  LET d == setupkvm(pages) IN
         d \in Made /\ Has(d, pages) /\ ~d.panic /\ Upto(d, 0)
<1> DEFINE d == setupkvm(pages)
           n == 1 + KernelTables
           mine == {x \in pages : Cardinality({y \in pages : y < x}) < n}
           own == IF Cardinality(pages) < n THEN {} ELSE mine
<1>1. own \subseteq pages
  OBVIOUS
<1>2. /\ d.free = pages \ own /\ d.kernel = own /\ d.ok \in BOOLEAN /\ d.panic = FALSE
      /\ d.table = [e \in Dirs |-> None] /\ d.pte = [v \in VPages |-> None] /\ d.user = VPages
      /\ d = [free |-> d.free, ok |-> d.ok, panic |-> d.panic, kernel |-> d.kernel,
              table |-> d.table, pte |-> d.pte, user |-> d.user]
  <2>1. CASE Cardinality(pages) < n
    <3>1. d = [Building(pages, NoSpace) EXCEPT !.ok = FALSE] /\ own = {}
      BY <2>1 DEF setupkvm
    <3> QED
      BY <3>1 DEF Building, NoSpace
  <2>2. CASE ~(Cardinality(pages) < n)
    <3>1. d = [Building(pages \ mine, NoSpace) EXCEPT !.kernel = mine] /\ own = mine
      BY <2>2 DEF setupkvm
    <3> HIDE DEF mine
    <3> QED
      BY <3>1 DEF Building, NoSpace
  <2> QED
    BY <2>1, <2>2
<1> HIDE DEF own, d
<1>3. d \in Made
  BY <1>1, <1>2 DEF Made
<1>4. Tables(d) = {} /\ UserPages(d) = {}
  BY <1>2 DEF Tables, UserPages
<1>5. Has(d, pages)
  BY <1>1, <1>2, <1>4 DEF Has, Freed, Neat
<1>6. Upto(d, 0)
  BY <1>2, MemoryIs DEF Upto
<1> QED
  BY <1>2, <1>3, <1>5, <1>6 DEF d

\* The pages a loop of Span(a, b) visits, for an aligned a.
LEMMA SpanBelow ==
  ASSUME NEW a \in Nat, NEW b \in 0..KERNBASE, a <= b, a % PGSIZE = 0
  PROVE  \A i \in DOMAIN Span(a, b) : Span(a, b)[i] \in VPages /\ Span(a, b)[i] < PagesIn(b)
<1> DEFINE P == PGSIZE
           k == a \div P
<1>1. P \in Nat \ {0} /\ KERNBASE \in Nat /\ b \in Nat
  BY MemoryAssumption
<1>2. k \in Int /\ a = k * P
  BY <1>1
<1> HIDE DEF k, P
<1>3. PagesIn(a) = k
  <2>1. k * P <= a + P - 1 /\ a + P - 1 < k * P + P /\ a + P - 1 \in Int
    BY <1>1, <1>2
  <2>2. (a + P - 1) \div P = k
    BY <1>1, <1>2, <2>1, DivIs
  <2> QED
    BY <2>2 DEF PagesIn, P
<1>4. a \in 0..KERNBASE
  BY <1>1
<1>5. PGROUNDUP(a) = a
  BY <1>2, <1>3, <1>4, RoundUp DEF P
<1>6. LET s == Span(a, b) IN
      /\ PagesIn(a) <= PagesIn(b)
      /\ Len(s) = PagesIn(b) - PagesIn(a)
      /\ \A i \in 1..Len(s) : s[i] = PagesIn(a) + i - 1 /\ s[i] \in VPages
  BY <1>4, <1>5, SpanIs
<1> DEFINE s == Span(a, b)
           q == PagesIn(a)
           r == PagesIn(b)
<1>7. q \in Nat /\ r \in Nat
  BY <1>1, PagesInIs
<1>8. DOMAIN s = 1..Len(s)
  <2> DEFINE n == IF b > a THEN ((b - a) + PGSIZE - 1) \div PGSIZE ELSE 0
  <2>1. s = [i \in 1..n |-> a \div PGSIZE + i - 1]
    BY DEF Span
  <2>2. n \in Nat
    <3>1. CASE b > a
      <4>1. (b - a) + PGSIZE - 1 \in Nat
        BY <1>1, <3>1 DEF P
      <4> QED
        BY <1>1, <3>1, <4>1 DEF P
    <3> QED
      BY <3>1
  <2> HIDE DEF n
  <2> QED
    BY <2>1, <2>2
<1> HIDE DEF s, q, r
<1>9. \A i \in DOMAIN s : s[i] \in VPages /\ s[i] < r
  BY <1>6, <1>7, <1>8 DEF s, q, r
<1> QED
  BY <1>9 DEF s, r

\* A copy with the size of the original, or nothing.
LEMMA CopyIs ==
  ASSUME NEW pages \in SUBSET Pages, NEW s, s.sz \in 0..KERNBASE - 1, Upto(s, PagesIn(s.sz)),
         s.user \subseteq VPages
  PROVE  LET c == copyuvm(pages, s) IN
         /\ c.panic = FALSE
         /\ c.ok => c \in Made /\ Has(c, pages) /\ Upto(c, PagesIn(s.sz))
         /\ ~c.ok => c.free = pages
<1> DEFINE d == setupkvm(pages)
           n == Span(0, s.sz)
           c == Maps(d, n)
           b == PagesIn(s.sz)
           copy == [c EXCEPT !.user = s.user, !.panic = \E i \in DOMAIN n : s.pte[n[i]] = None]
           back == [c EXCEPT !.free = @ \cup Freed(c)]
<1>1. KERNBASE \in Nat /\ s.sz \in 0..KERNBASE /\ 0 \in 0..KERNBASE /\ s.sz \in Nat /\ 0 <= s.sz /\ PGSIZE \in Nat \ {0}
  BY MemoryAssumption
<1>2. d \in Made /\ Has(d, pages) /\ ~d.panic /\ Upto(d, 0)
  BY SetupIs
<1>3. /\ Len(n) = PagesIn(s.sz) - PagesIn(0)
      /\ \A i \in 1..Len(n) : n[i] = PagesIn(0) + i - 1 /\ n[i] \in VPages
  <2>1. LET w == Span(PGROUNDUP(0), s.sz) IN
        /\ Len(w) = PagesIn(s.sz) - PagesIn(0)
        /\ \A i \in 1..Len(w) : w[i] = PagesIn(0) + i - 1 /\ w[i] \in VPages
    BY <1>1, SpanIs
  <2> QED
    BY <2>1, NoPages
<1>4. b \in Nat
  BY <1>1, PagesInIs
<1>5. \A i \in DOMAIN n : n[i] \in VPages /\ n[i] < b
  <2>1. 0 % PGSIZE = 0
    BY <1>1
  <2> QED
    BY <1>1, <2>1, SpanBelow
<1>6. ~\E i \in DOMAIN n : s.pte[n[i]] = None
  BY <1>5 DEF Upto
<1>7. copyuvm(pages, s) = IF c.ok THEN copy ELSE back
  BY DEF copyuvm
<1> HIDE DEF d, n, b
<1>8. Len(n) \in Nat /\ 0 + Len(n) = b /\ \A i \in 1..Len(n) : n[i] = 0 + i - 1 /\ n[i] \in VPages
  BY <1>3, <1>4, NoPages DEF b
<1>9. /\ c \in Made /\ Has(c, pages) /\ Grows(d, c)
      /\ \E B \in 0..b : Upto(c, B) /\ (c.ok => B = b)
  BY <1>2, <1>8, MapsAll
<1> HIDE DEF c
<1>10. CASE c.ok
  <2>1. /\ copy \in Made /\ copy.free = c.free /\ copy.table = c.table /\ copy.pte = c.pte
        /\ copy.kernel = c.kernel /\ copy.ok = c.ok /\ copy.panic = FALSE
    BY <1>6, <1>9 DEF Made
  <2> HIDE DEF copy
  <2>2. Has(copy, pages) /\ Upto(copy, b)
    BY <1>9, <1>10, <2>1, SameTables
  <2>3. copyuvm(pages, s) = copy
    BY <1>7, <1>10 DEF copy
  <2> QED
    BY <1>10, <2>1, <2>2, <2>3 DEF b
<1>11. CASE ~c.ok
  <2>1. back.free = c.free \cup Freed(c) /\ back.ok = c.ok /\ back.panic = c.panic /\ back.panic \in BOOLEAN
    BY <1>9 DEF Made
  <2> HIDE DEF back
  <2>2. back.free = pages /\ back.panic = FALSE
    BY <1>2, <1>9, <2>1 DEF Has, Grows
  <2>3. copyuvm(pages, s) = back
    BY <1>7, <1>11
  <2> QED
    BY <1>11, <2>1, <2>2, <2>3
<1> QED
  BY <1>10, <1>11

-----------------------------------------------------------------------------
(* exec *)

\* An image under construction: a page table and the size of what it maps.
Image(x, F) ==
    /\ x = <<x[1], x[2]>> /\ x[1] \in Made /\ Has(x[1], F) /\ ~x[1].panic
    /\ x[1].ok => x[2] \in 0..KERNBASE - 1 /\ Upto(x[1], PagesIn(x[2]))

LEMMA FailedIs ==
  ASSUME NEW m \in Made, NEW F, Has(m, F), ~m.panic, NEW z
  PROVE  Image(<<[m EXCEPT !.ok = FALSE], z>>, F)
<1> DEFINE c == [m EXCEPT !.ok = FALSE]
<1>1. /\ c \in Made /\ c.free = m.free /\ c.table = m.table /\ c.pte = m.pte
      /\ c.kernel = m.kernel /\ ~c.panic /\ ~c.ok
  BY DEF Made
<1> HIDE DEF c
<1>2. Has(c, F)
  BY <1>1, SameTables
<1>3. Image(<<c, z>>, F)
  BY <1>1, <1>2 DEF Image
<1> QED
  BY <1>3 DEF c

Header == [vaddr : 0..Word - 1, memsz : 0..Word - 1, filesz : 0..Word - 1]

\* One program header.
LEMMA SegmentIs ==
  ASSUME NEW x, NEW F, Image(x, F), NEW ph \in Header
  PROVE  Image(LoadsSegment(x, ph), F)
<1> DEFINE m == x[1]
           end == (ph.vaddr + ph.memsz) % Word
           grown == allocuvm(m, x[2], end)
           c == grown[1]
           s == Span(ph.vaddr, ph.vaddr + ph.filesz)
           lost == \E i \in DOMAIN s : c.pte[s[i]] = None
           new == [c EXCEPT !.panic = @ \/ lost]
           y == LoadsSegment(x, ph)
<1>1. /\ KERNBASE \in Nat /\ Word = 2 * KERNBASE /\ Word \in Nat \ {0} /\ PGSIZE \in Nat \ {0}
      /\ ph.vaddr \in 0..Word - 1 /\ ph.memsz \in 0..Word - 1 /\ ph.filesz \in 0..Word - 1
  BY MemoryAssumption DEF Word, Header
<1>2. m \in Made /\ Has(m, F) /\ ~m.panic
  BY DEF Image
<1>3. CASE ~m.ok
  BY <1>3 DEF LoadsSegment
<1>4. CASE m.ok /\ (ph.memsz < ph.filesz \/ end < ph.vaddr)
  <2>1. y = <<[m EXCEPT !.ok = FALSE], 0>>
    BY <1>4 DEF LoadsSegment
  <2> QED
    BY <1>2, <2>1, FailedIs
<1>5. CASE m.ok /\ ~(ph.memsz < ph.filesz) /\ ~(end < ph.vaddr)
  <2>1. end \in Nat /\ end = ph.vaddr + ph.memsz
    <3> DEFINE v == ph.vaddr + ph.memsz
    <3>1. v \in Nat /\ v < 2 * Word
      BY <1>1
    <3>2. v % Word = IF v < Word THEN v ELSE v - Word
      BY <1>1, <3>1, WrapIs
    <3> QED
      BY <1>1, <1>5, <3>1, <3>2
  <2>2. x[2] \in 0..KERNBASE /\ Upto(m, PagesIn(x[2]))
    BY <1>1, <1>5 DEF Image
  <2>3. /\ c \in Made /\ Has(c, F) /\ Grows(m, c)
        /\ c.ok => /\ grown[2] = IF end < x[2] THEN x[2] ELSE end
                   /\ end >= x[2] => end < KERNBASE
                   /\ Upto(c, PagesIn(grown[2]))
        /\ ~c.ok => grown[2] = 0
    <3> HIDE DEF end
    <3> QED
      BY <1>2, <1>5, <2>1, <2>2, Allocs
  <2>4. ~c.panic
    BY <1>2, <2>3 DEF Grows
  <2>5. CASE grown[2] = 0 \/ ph.vaddr % PGSIZE # 0
    <3>1. y = <<[c EXCEPT !.ok = FALSE], 0>>
      BY <1>5, <2>5 DEF LoadsSegment
    <3> HIDE DEF c
    <3> QED
      BY <2>3, <2>4, <3>1, FailedIs
  <2>6. CASE ~(grown[2] = 0 \/ ph.vaddr % PGSIZE # 0)
    <3>1. y = <<new, grown[2]>>
      BY <1>5, <2>6 DEF LoadsSegment
    <3> HIDE DEF grown
    <3>2. c.ok /\ end <= grown[2] /\ grown[2] \in 0..KERNBASE - 1 /\ Upto(c, PagesIn(grown[2]))
      <4>1. c.ok
        BY <2>3, <2>6
      <4>2. x[2] \in 0..KERNBASE - 1
        BY <1>5 DEF Image
      <4> HIDE DEF end, c
      <4> QED
        BY <1>1, <2>1, <2>3, <4>1, <4>2
    <3>3. ph.vaddr + ph.filesz \in 0..KERNBASE /\ ph.vaddr + ph.filesz <= grown[2]
      BY <1>1, <1>5, <2>1, <3>2
    <3>4. \A i \in DOMAIN s : s[i] \in VPages /\ s[i] < PagesIn(ph.vaddr + ph.filesz)
      BY <1>1, <2>6, <3>3, SpanBelow
    <3>5. PagesIn(ph.vaddr + ph.filesz) <= PagesIn(grown[2])
      BY <1>1, <3>2, <3>3, PagesInOrder
    <3> DEFINE a == PagesIn(ph.vaddr + ph.filesz)
               b == PagesIn(grown[2])
    <3>6. a \in Nat /\ b \in Nat /\ VPages \subseteq Nat
      <4>1. ph.vaddr + ph.filesz \in Nat /\ grown[2] \in Nat
        BY <1>1, <3>2, <3>3
      <4>2. a \in Nat
        BY <4>1, PagesInIs
      <4>3. b \in Nat
        BY <4>1, PagesInIs
      <4>4. VPages \subseteq Nat
        BY MemoryIs
      <4> QED
        BY <4>2, <4>3, <4>4
    <3> HIDE DEF c, s, end
    <3>7. ~lost
      <4> SUFFICES ASSUME NEW i \in DOMAIN s
                   PROVE  c.pte[s[i]] # None
        OBVIOUS
      <4>1. s[i] \in VPages /\ s[i] < a /\ a <= b
        BY <3>4, <3>5
      <4>2. s[i] < b
        <5>1. s[i] \in Nat
          BY <3>6, <4>1
        <5> HIDE DEF a, b
        <5> QED
          BY <3>6, <4>1, <5>1
      <4> QED
        BY <3>2, <4>1, <4>2 DEF Upto
    <3> HIDE DEF lost, a, b
    <3>8. /\ new \in Made /\ new.free = c.free /\ new.table = c.table /\ new.pte = c.pte
          /\ new.kernel = c.kernel /\ new.ok = c.ok /\ ~new.panic
      BY <2>3, <2>4, <3>7 DEF Made
    <3> HIDE DEF new
    <3>9. Has(new, F) /\ Upto(new, PagesIn(grown[2]))
      BY <2>3, <3>2, <3>8, SameTables
    <3>10. Image(<<new, grown[2]>>, F)
      BY <3>2, <3>8, <3>9 DEF Image
    <3> QED
      BY <3>1, <3>10
  <2> QED
    BY <2>5, <2>6
<1> QED
  BY <1>3, <1>4, <1>5

\* The loop over program headers, as a recurrence.
Loading(f, x, s) == /\ f[0] = x
                    /\ \A k \in 1..Len(s) : f[k] = LoadsSegment(f[k - 1], s[k])
                    /\ Loads(x, s) = f[Len(s)]

LEMMA LoadsIs ==
  ASSUME NEW x, NEW s, Len(s) \in Nat
  PROVE  \E f : Loading(f, x, s)
<1> DEFINE L == Len(s)
           Rec(g, n) == g = [k \in 0..n |-> IF k = 0 THEN x ELSE LoadsSegment(g[k - 1], s[k])]
           good == {n \in 0..L : \E g : Rec(g, n)}
           f == CHOOSE g : Rec(g, L)
<1>1. 0 \in good
  <2> DEFINE h == [k \in 0..0 |-> x]
  <2>1. Rec(h, 0)
    OBVIOUS
  <2> HIDE DEF h, Rec
  <2> QED
    BY <2>1
<1>2. ASSUME NEW n \in 1..L, n - 1 \in good
      PROVE  n \in good
  <2>1. PICK g : Rec(g, n - 1)
    BY <1>2
  <2> DEFINE h == [k \in 0..n |-> IF k = n THEN LoadsSegment(g[n - 1], s[n]) ELSE g[k]]
  <2>2. ASSUME NEW k \in 0..n
        PROVE  h[k] = IF k = 0 THEN x ELSE LoadsSegment(h[k - 1], s[k])
    <3>1. CASE k = n
      BY <3>1
    <3>2. CASE k # n
      <4>1. k \in 0..(n - 1) /\ h[k] = g[k] /\ (k # 0 => h[k - 1] = g[k - 1])
        BY <3>2
      <4>2. g[k] = IF k = 0 THEN x ELSE LoadsSegment(g[k - 1], s[k])
        BY <2>1, <4>1
      <4> QED
        BY <4>1, <4>2
    <3> QED
      BY <3>1, <3>2
  <2>3. Rec(h, n)
    BY <2>2
  <2> HIDE DEF h, Rec
  <2> QED
    BY <2>3
<1>3. L \in good
  <2> HIDE DEF good
  <2>1. \A k \in 0..L : k \in good
    BY <1>1, <1>2, Upward
  <2> QED
    BY <2>1
<1>4. Rec(f, L)
  BY <1>3
<1>5. Loads(x, s) = f[L]
  BY DEF Loads
<1> HIDE DEF f
<1>6. f[0] = x /\ \A k \in 1..L : f[k] = LoadsSegment(f[k - 1], s[k])
  BY <1>4
<1> QED
  BY <1>5, <1>6 DEF Loading

LEMMA LoadsAll ==
  ASSUME NEW x, NEW F, Image(x, F), NEW s \in Seq(Header)
  PROVE  Image(Loads(x, s), F)
<1>1. Len(s) \in Nat /\ \A k \in 1..Len(s) : s[k] \in Header
  OBVIOUS
<1>2. PICK f : Loading(f, x, s)
  BY <1>1, LoadsIs
<1> DEFINE good == {k \in 0..Len(s) : Image(f[k], F)}
<1>3. 0 \in good
  BY <1>1, <1>2 DEF Loading
<1>4. ASSUME NEW k \in 1..Len(s), k - 1 \in good
      PROVE  k \in good
  <2>1. Image(LoadsSegment(f[k - 1], s[k]), F)
    BY <1>1, <1>4, SegmentIs
  <2> QED
    BY <1>1, <1>2, <2>1 DEF Loading
<1>5. Len(s) \in good
  <2> HIDE DEF good
  <2>1. \A k \in 0..Len(s) : k \in good
    BY <1>1, <1>3, <1>4, Upward
  <2> QED
    BY <1>1, <2>1
<1> QED
  BY <1>2, <1>5 DEF Loading

LEMMA PushIs ==
  ASSUME NEW x, NEW F, Image(x, F), NEW len
  PROVE  Image(PushesArguments(x, len), F)
<1> DEFINE m == x[1]
           sz == PGROUNDUP(x[2])
           grown == allocuvm(m, sz, (sz + 2 * PGSIZE) % Word)
           c == grown[1]
           guarded == [c EXCEPT !.user = @ \ {(grown[2] - 2 * PGSIZE) \div PGSIZE}]
           fits == len <= grown[2] /\ Copies(guarded, grown[2] - len, len)
           new == [guarded EXCEPT !.ok = fits]
           y == PushesArguments(x, len)
<1>1. KERNBASE \in Nat /\ PGSIZE \in Nat \ {0} /\ KERNBASE > 2 * PGSIZE /\ Word \in Nat \ {0} /\ Word = 2 * KERNBASE
  BY MemoryAssumption DEF Word
<1>2. m \in Made /\ Has(m, F) /\ ~m.panic
  BY DEF Image
<1>3. CASE ~m.ok
  BY <1>3 DEF PushesArguments
<1>4. CASE m.ok
  <2>1. x[2] \in 0..KERNBASE /\ Upto(m, PagesIn(x[2]))
    BY <1>1, <1>4 DEF Image
  <2>2. sz \in 0..KERNBASE /\ Upto(m, PagesIn(sz))
    BY <2>1, RoundUp
  <2>3. (sz + 2 * PGSIZE) % Word = sz + 2 * PGSIZE
    <3> DEFINE b == sz + 2 * PGSIZE
    <3> HIDE DEF sz
    <3>1. b \in Nat /\ b < Word /\ b < 2 * Word
      BY <1>1, <2>2
    <3> HIDE DEF b
    <3>2. b % Word = b
      BY <1>1, <3>1, WrapIs
    <3> QED
      BY <3>2 DEF b
  <2>4. /\ c \in Made /\ Has(c, F) /\ Grows(m, c)
        /\ c.ok => /\ grown[2] = sz + 2 * PGSIZE
                   /\ grown[2] < KERNBASE
                   /\ Upto(c, PagesIn(grown[2]))
        /\ ~c.ok => grown[2] = 0
    <3> HIDE DEF sz
    <3>1. sz + 2 * PGSIZE \in Nat /\ ~(sz + 2 * PGSIZE < sz)
      BY <1>1, <2>2
    <3> QED
      BY <1>2, <1>4, <2>2, <2>3, <3>1, Allocs
  <2>5. ~c.panic
    BY <1>2, <2>4 DEF Grows
  <2>6. CASE grown[2] = 0
    <3>1. y = <<[c EXCEPT !.ok = FALSE], 0>>
      BY <1>4, <2>6 DEF PushesArguments
    <3> HIDE DEF c
    <3> QED
      BY <2>4, <2>5, <3>1, FailedIs
  <2>7. CASE grown[2] # 0
    <3>1. y = <<new, grown[2]>>
      BY <1>4, <2>7 DEF PushesArguments
    <3>2. grown[2] \in 0..KERNBASE - 1 /\ Upto(c, PagesIn(grown[2]))
      <4> HIDE DEF sz, grown
      <4> QED
        BY <1>1, <2>2, <2>4, <2>7
    <3>3. fits \in BOOLEAN
      BY DEF Copies
    <3> HIDE DEF grown, c, fits
    <3>4. /\ new \in Made /\ new.free = c.free /\ new.table = c.table /\ new.pte = c.pte
          /\ new.kernel = c.kernel /\ ~new.panic
      BY <2>4, <2>5, <3>3 DEF Made
    <3> HIDE DEF new
    <3>5. Has(new, F) /\ Upto(new, PagesIn(grown[2]))
      BY <2>4, <3>2, <3>4, SameTables
    <3>6. Image(<<new, grown[2]>>, F)
      BY <3>2, <3>4, <3>5 DEF Image
    <3> QED
      BY <3>1, <3>6
  <2> QED
    BY <2>6, <2>7
<1> QED
  BY <1>3, <1>4

\* The image of exec, or all the pages back.
LEMMA NewImageIs ==
  ASSUME NEW pages \in SUBSET Pages, NEW s \in Programs, NEW len
  PROVE  LET x == NewImage(pages, s, len) IN
         /\ x[1].panic = FALSE
         /\ x[1].ok => Image(x, pages)
         /\ ~x[1].ok => x[1].free = pages
<1> DEFINE d == setupkvm(pages)
           x == PushesArguments(Loads(<<d, 0>>, s), len)
           back == [x[1] EXCEPT !.free = @ \cup Freed(x[1])]
<1>1. s \in Seq(Header)
  BY MemoryAssumption DEF Header
<1>2. d \in Made /\ Has(d, pages) /\ ~d.panic /\ Upto(d, 0)
  BY SetupIs
<1> HIDE DEF d
<1>3. Image(<<d, 0>>, pages)
  <2>1. 0 \in 0..KERNBASE - 1
    BY MemoryAssumption
  <2> QED
    BY <1>2, <2>1, NoPages DEF Image
<1>4. Image(x, pages)
  BY <1>1, <1>3, LoadsAll, PushIs
<1>5. NewImage(pages, s, len) = IF x[1].ok THEN x ELSE <<back, 0>>
  BY DEF NewImage, d
<1> HIDE DEF x
<1>6. CASE x[1].ok
  BY <1>4, <1>5, <1>6 DEF Image, Made
<1>7. CASE ~x[1].ok
  <2>1. back.free = x[1].free \cup Freed(x[1]) /\ back.panic = FALSE /\ ~back.ok
    BY <1>4, <1>7 DEF Made, Image
  <2> HIDE DEF back
  <2>2. back.free = pages
    BY <1>4, <2>1 DEF Has, Image
  <2> QED
    BY <1>5, <1>7, <2>1, <2>2
<1> QED
  BY <1>6, <1>7

-----------------------------------------------------------------------------
(* Steps *)

Space == [state : {"unused", "runs", "zombie"}, sz : 0..KERNBASE - 1,
          kstack : SUBSET Pages, kernel : SUBSET Pages,
          table : [Dirs -> Pages \cup {None}], pte : [VPages -> Pages \cup {None}],
          user : SUBSET VPages]

\* What a process must be for the invariant.
Sized(s) == /\ s.state = "unused" => s = NoSpace
            /\ Upto(s, 0) \/ Upto(s, PagesIn(s.sz))

LEMMA NoSpaceIs == NoSpace \in Space /\ Sized(NoSpace) /\ Neat(NoSpace) /\ Freed(NoSpace) = {}
<1>1. 0 \in 0..KERNBASE - 1
  BY MemoryAssumption
<1>2. NoSpace \in Space
  BY <1>1 DEF NoSpace, Space
<1>3. Tables(NoSpace) = {} /\ UserPages(NoSpace) = {}
  BY DEF Tables, UserPages, NoSpace
<1>4. Freed(NoSpace) = {} /\ Neat(NoSpace)
  BY <1>3 DEF Freed, Neat, NoSpace
<1>5. Upto(NoSpace, 0)
  BY MemoryIs DEF Upto, NoSpace
<1> QED
  BY <1>2, <1>4, <1>5 DEF Sized

\* The page table a process has, and the free pages.
LEMMA BuildingIs ==
  ASSUME NEW pages \in SUBSET Pages, NEW s \in Space, Neat(s), pages \cap Freed(s) = {}
  PROVE  LET m == Building(pages, s) IN
         /\ m \in Made /\ m.ok /\ ~m.panic
         /\ Has(m, pages \cup Freed(s))
         /\ \A n : Upto(s, n) => Upto(m, n)
<1> DEFINE m == Building(pages, s)
<1>1. /\ m \in Made /\ m.free = pages /\ m.ok /\ ~m.panic /\ m.kernel = s.kernel /\ m.table = s.table
      /\ m.pte = s.pte
  BY DEF Building, Made, Space
<1> HIDE DEF m
<1>2. Tables(m) = Tables(s) /\ UserPages(m) = UserPages(s)
  BY <1>1 DEF Tables, UserPages
<1>3. Freed(m) = Freed(s)
  BY <1>1, <1>2 DEF Freed
<1>4. Neat(m)
  BY <1>1, <1>2 DEF Neat
<1>5. \A n : Upto(s, n) => Upto(m, n)
  BY <1>1 DEF Upto
<1> QED
  BY <1>1, <1>3, <1>4, <1>5 DEF Has, m

\* The same table in a process.
LEMMA InstalledIs ==
  ASSUME NEW m \in Made, NEW F, Has(m, F), NEW s, s.kernel = m.kernel, s.table = m.table, s.pte = m.pte
  PROVE  /\ Neat(s) /\ m.free \cup Freed(s) = F /\ m.free \cap Freed(s) = {}
         /\ \A n : Upto(m, n) => Upto(s, n)
<1>1. Tables(m) = Tables(s) /\ UserPages(m) = UserPages(s)
  BY DEF Tables, UserPages
<1>2. Freed(m) = Freed(s)
  BY <1>1 DEF Freed
<1>3. Neat(s)
  BY <1>1 DEF Neat, Has
<1>4. \A n : Upto(m, n) => Upto(s, n)
  BY DEF Upto
<1> QED
  BY <1>2, <1>3, <1>4 DEF Has

\* One process trades pages with the free list.
LEMMA Trades ==
  ASSUME IndInv, NEW p \in Procs, NEW s \in Space, space' = [space EXCEPT ![p] = s],
         other' = other, panic' = FALSE, free' \subseteq Pages,
         Sized(s), Neat(s), s.kstack \cap Freed(s) = {},
         free' \cup Freed(s) \cup s.kstack = free \cup Owned(p),
         free' \cap (Freed(s) \cup s.kstack) = {}
  PROVE  IndInv'
<1>1. space \in [Procs -> Space] /\ free \subseteq Pages /\ other \subseteq Pages
  BY DEF IndInv, TypeOK, Space
<1>2. /\ \A q \in Procs : space'[q] = IF q = p THEN s ELSE space[q]
      /\ space' \in [Procs -> Space]
  BY <1>1
<1>3. TypeOK' /\ NoPanic'
  BY <1>1, <1>2 DEF TypeOK, NoPanic, Space
<1>4. SizeInv'
  <2> SUFFICES ASSUME NEW q \in Procs
               PROVE  Sized(space'[q])
    BY DEF SizeInv, Sized
  <2>1. Sized(space[q])
    BY DEF IndInv, SizeInv, Sized
  <2> QED
    BY <1>2, <2>1
<1> DEFINE own(q) == Freed(space'[q]) \cup space'[q].kstack
<1>5. \A q \in Procs : Owned(q)' = own(q)
  BY DEF Owned
<1>6. own(p) = Freed(s) \cup s.kstack /\ \A q \in Procs : q # p => own(q) = Owned(q)
  BY <1>2 DEF Owned
<1> HIDE DEF own
<1>7. \A x \in Pages : x \in free' \/ x \in other' \/ \E q \in Procs : x \in own(q)
  <2> TAKE x \in Pages
  <2>1. x \in free \/ x \in other \/ \E q \in Procs : x \in Owned(q)
    BY DEF IndInv, OwnInv
  <2> QED
    BY <1>6, <2>1
<1>8. free' \cap other' = {} /\ own(p) \cap other' = {}
  BY <1>6 DEF IndInv, OwnInv
<1>9. ASSUME NEW q \in Procs, q # p
      PROVE  own(q) \cap (free' \cup other') = {} /\ own(q) \cap own(p) = {}
  <2>1. own(q) = Owned(q) /\ Owned(q) \cap Owned(p) = {} /\ Owned(q) \cap (free \cup other) = {}
    BY <1>6, <1>9 DEF IndInv, OwnInv
  <2> QED
    BY <1>6, <2>1
<1>10. \A q \in Procs : own(q) \cap (free' \cup other') = {}
  BY <1>6, <1>8, <1>9
<1>11. \A q, r \in Procs : q # r => own(q) \cap own(r) = {}
  <2> TAKE q, r \in Procs
  <2>1. CASE q # p /\ r # p
    BY <1>6, <2>1 DEF IndInv, OwnInv
  <2>2. CASE q = p \/ r = p
    BY <1>9, <2>2
  <2> QED
    BY <2>1, <2>2
<1>12. \A q \in Procs : Neat(space'[q]) /\ space'[q].kstack \cap Freed(space'[q]) = {}
  BY <1>2 DEF IndInv, OwnInv
<1>13. OwnInv'
  BY <1>5, <1>7, <1>8, <1>10, <1>11, <1>12 DEF OwnInv
<1> QED
  BY <1>3, <1>4, <1>13 DEF IndInv

LEMMA ProcIs ==
  ASSUME IndInv, NEW p \in Procs
  PROVE  /\ space[p] \in Space /\ Sized(space[p]) /\ Neat(space[p])
         /\ free \cap Freed(space[p]) = {} /\ free \cap space[p].kstack = {}
         /\ space[p].kstack \cap Freed(space[p]) = {}
         /\ free \subseteq Pages /\ ~panic
<1>1. space[p] \in Space /\ free \subseteq Pages /\ ~panic
  BY DEF IndInv, TypeOK, NoPanic, Space
<1>2. Sized(space[p])
  BY DEF IndInv, SizeInv, Sized
<1>3. Neat(space[p]) /\ Owned(p) \cap free = {} /\ space[p].kstack \cap Freed(space[p]) = {}
  BY DEF IndInv, OwnInv
<1> QED
  BY <1>1, <1>2, <1>3 DEF Owned

LEMMA RunsIs ==
  ASSUME IndInv, NEW p \in Procs, Runs(p)
  PROVE  Upto(space[p], PagesIn(space[p].sz))
<1>1. 0 \in VPages
  <2>1. PGSIZE \in Nat \ {0} /\ KERNBASE \in Nat /\ KERNBASE > 2 * PGSIZE
    BY MemoryAssumption
  <2>2. NP \in Nat /\ KERNBASE = NP * PGSIZE /\ VPages = 0..NP-1
    BY MemoryIs
  <2>3. NP # 0
    BY <2>1, <2>2
  <2> QED
    BY <2>2, <2>3
<1>2. ~Upto(space[p], 0)
  <2>1. space[p].pte[0] # None
    BY DEF Runs, Faults
  <2> QED
    BY <1>1, <2>1 DEF Upto
<1> QED
  BY <1>2, ProcIs DEF Sized

LEMMA InstallsIs ==
  ASSUME NEW p \in Procs, space[p] \in Space, NEW m \in Made, NEW sz \in 0..KERNBASE - 1,
         Installs(p, m, sz), space \in [Procs -> Space]
  PROVE  \E s \in Space : /\ space' = [space EXCEPT ![p] = s]
                          /\ s.kernel = m.kernel /\ s.table = m.table /\ s.pte = m.pte
                          /\ s.sz = sz /\ s.state = space[p].state /\ s.kstack = space[p].kstack
<1> DEFINE s == [space[p] EXCEPT !.kernel = m.kernel, !.table = m.table, !.pte = m.pte,
                                 !.user = m.user, !.sz = sz]
<1>1. space' = [space EXCEPT ![p] = s]
  BY DEF Installs
<1>2. /\ s \in Space /\ s.kernel = m.kernel /\ s.table = m.table /\ s.pte = m.pte
      /\ s.sz = sz /\ s.state = space[p].state /\ s.kstack = space[p].kstack
  BY DEF Made, Space
<1> QED
  BY <1>1, <1>2

\* The new table has the pages of the old one and the free ones, but for those now free.
LEMMA InstallsInv ==
  ASSUME IndInv, NEW p \in Procs, Runs(p), NEW m \in Made, NEW F, Has(m, F), NEW sz \in 0..KERNBASE - 1,
         Installs(p, m, sz), other' = other, panic' = FALSE, Upto(m, 0) \/ Upto(m, PagesIn(sz)),
         free' \in SUBSET Pages,
         \/ F = free /\ free' = m.free \cup Freed(space[p])
         \/ F = free \cup Freed(space[p]) /\ free' = m.free
  PROVE  IndInv'
<1>1. space \in [Procs -> Space]
  BY DEF IndInv, TypeOK, Space
<1>2. /\ space[p] \in Space
      /\ free \cap Freed(space[p]) = {} /\ free \cap space[p].kstack = {}
      /\ space[p].kstack \cap Freed(space[p]) = {}
  BY ProcIs
<1>3. PICK s \in Space : /\ space' = [space EXCEPT ![p] = s]
                         /\ s.kernel = m.kernel /\ s.table = m.table /\ s.pte = m.pte
                         /\ s.sz = sz /\ s.state = space[p].state /\ s.kstack = space[p].kstack
  BY <1>1, <1>2, InstallsIs
<1>4. /\ Neat(s) /\ m.free \cup Freed(s) = F /\ m.free \cap Freed(s) = {}
      /\ \A n : Upto(m, n) => Upto(s, n)
  BY <1>3, InstalledIs
<1>5. Sized(s)
  BY <1>3, <1>4 DEF Sized, Runs
<1>6. /\ s.kstack \cap Freed(s) = {}
      /\ free' \cup Freed(s) \cup s.kstack = free \cup Owned(p)
      /\ free' \cap (Freed(s) \cup s.kstack) = {}
  BY <1>2, <1>3, <1>4 DEF Owned
<1> QED
  BY <1>3, <1>4, <1>5, <1>6, Trades

LEMMA ExecInv ==
  ASSUME IndInv, NEW p \in Procs, NEW headers \in Programs, NEW len, exec(p, headers, len)
  PROVE  IndInv'
<1> DEFINE x == NewImage(free, headers, len)
<1>1. /\ Runs(p) /\ panic' = x[1].panic /\ other' = other
      /\ \/ x[1].ok /\ Installs(p, x[1], x[2]) /\ free' = x[1].free \cup Freed(space[p])
         \/ ~x[1].ok /\ free' = x[1].free /\ space' = space
  BY DEF exec
<1>2. free \subseteq Pages /\ ~panic /\ space[p] \in Space
  BY ProcIs
<1>3. /\ x[1].panic = FALSE
      /\ x[1].ok => Image(x, free)
      /\ ~x[1].ok => x[1].free = free
  <2>1. free \in SUBSET Pages
    BY <1>2
  <2> QED
    BY <2>1, NewImageIs, Zenon
<1> HIDE DEF x
<1>4. panic' = FALSE
  BY <1>1, <1>3
<1>5. CASE x[1].ok
  <2>1. /\ x[1] \in Made /\ Has(x[1], free) /\ x[2] \in 0..KERNBASE - 1 /\ Upto(x[1], PagesIn(x[2]))
    BY <1>3, <1>5 DEF Image
  <2>2. Freed(space[p]) \subseteq Pages
    BY <1>2 DEF Freed, Tables, UserPages, Space
  <2>3. free' \in SUBSET Pages
    BY <1>1, <1>5, <2>1, <2>2 DEF Made
  <2> QED
    BY <1>1, <1>4, <1>5, <2>1, <2>3, InstallsInv
<1>6. CASE ~x[1].ok
  <2>1. free' = free /\ space' = space /\ other' = other
    BY <1>1, <1>3, <1>6
  <2> QED
    BY <1>4, <2>1 DEF IndInv, TypeOK, NoPanic, OwnInv, SizeInv, Owned, Freed
<1> QED
  BY <1>5, <1>6

LEMMA GrowprocInv ==
  ASSUME IndInv, NEW p \in Procs, NEW n \in Amounts, growproc(p, n)
  PROVE  IndInv'
<1> DEFINE s == space[p]
           new == (s.sz + n) % Word
           m == Building(free, s)
           F == free \cup Freed(s)
           up == allocuvm(m, s.sz, new)
           down == deallocuvm(m, s.sz, new)
           x == IF n > 0 THEN up ELSE down
           sz == IF x[2] = 0 THEN s.sz ELSE x[2]
<1>1. Runs(p) /\ free' = x[1].free /\ panic' = x[1].panic /\ Installs(p, x[1], sz) /\ other' = other
  BY DEF growproc
<1>2. s \in Space /\ Neat(s) /\ free \cap Freed(s) = {} /\ free \subseteq Pages
  BY ProcIs
<1>3. KERNBASE \in Nat /\ s.sz \in 0..KERNBASE - 1 /\ s.sz \in 0..KERNBASE /\ n \in Int
  BY <1>2, MemoryAssumption DEF Space
<1>4. new \in Nat
  <2>1. Word \in Nat \ {0}
    BY MemoryAssumption DEF Word
  <2> QED
    BY <1>3, <2>1
<1>5. Upto(s, PagesIn(s.sz))
  BY <1>1, RunsIs
<1> HIDE DEF s, new
<1>6. m \in Made /\ m.ok /\ ~m.panic /\ Has(m, F) /\ Upto(m, PagesIn(s.sz))
  BY <1>2, <1>5, BuildingIs
<1> HIDE DEF m
<1>7. /\ x[1] \in Made /\ Has(x[1], F) /\ Grows(m, x[1])
      /\ sz \in 0..KERNBASE - 1
      /\ Upto(x[1], 0) \/ Upto(x[1], PagesIn(sz))
  <2>1. CASE n > 0
    <3>1. /\ up[1] \in Made /\ Has(up[1], F) /\ Grows(m, up[1])
          /\ up[1].ok => /\ up[2] = IF new < s.sz THEN s.sz ELSE new
                         /\ new >= s.sz => new < KERNBASE
                         /\ Upto(up[1], PagesIn(up[2]))
          /\ ~up[1].ok => up[2] = 0 /\ Upto(up[1], PagesIn(s.sz))
      BY <1>3, <1>4, <1>6, Allocs
    <3> HIDE DEF up
    <3>2. x = up
      BY <2>1
    <3>3. CASE up[1].ok
      <4>1. sz = up[2] /\ up[2] \in 0..KERNBASE - 1
        BY <1>3, <1>4, <3>1, <3>2, <3>3
      <4> QED
        BY <3>1, <3>2, <3>3, <4>1
    <3>4. CASE ~up[1].ok
      BY <1>3, <3>1, <3>2, <3>4
    <3> QED
      BY <3>3, <3>4
  <2>2. CASE ~(n > 0) /\ new >= s.sz
    <3>1. down = <<m, s.sz>>
      BY <2>2 DEF deallocuvm
    <3>2. x[1] = m /\ sz = s.sz
      BY <2>2, <3>1
    <3> QED
      BY <1>3, <1>6, <3>2 DEF Grows
  <2>3. CASE ~(n > 0) /\ ~(new >= s.sz)
    <3>1. new \in 0..KERNBASE /\ new < s.sz
      BY <1>3, <1>4, <2>3
    <3> DEFINE a == PagesIn(new)
               b == PagesIn(s.sz)
    <3>2. a \in Nat /\ b \in Nat /\ a <= b
      <4>1. new \in Nat /\ s.sz \in Nat /\ new <= s.sz
        BY <1>3, <3>1
      <4>2. a \in Nat
        BY <4>1, PagesInIs
      <4>3. b \in Nat
        BY <4>1, PagesInIs
      <4> QED
        BY <4>1, <4>2, <4>3, PagesInOrder
    <3>3. /\ down[2] = new /\ down[1] \in Made /\ Has(down[1], F) /\ Grows(m, down[1])
          /\ \A B \in Nat : Upto(m, B) /\ B <= b => Upto(down[1], IF B < a THEN B ELSE a)
      BY <1>3, <1>6, <3>1, Unmaps
    <3> HIDE DEF down
    <3>4. Upto(down[1], a)
      <4>1. Upto(m, b) /\ b <= b /\ ~(b < a)
        BY <1>6, <3>2
      <4> HIDE DEF a, b
      <4> QED
        BY <3>2, <3>3, <4>1
    <3>5. x = down
      BY <2>3
    <3>6. CASE new = 0
      <4>1. a = 0
        BY <3>6, NoPages
      <4> QED
        BY <1>3, <3>3, <3>4, <3>5, <3>6, <4>1
    <3>7. CASE new # 0
      BY <1>3, <3>1, <3>3, <3>4, <3>5, <3>7
    <3> QED
      BY <3>6, <3>7
  <2> QED
    BY <2>1, <2>2, <2>3
<1> HIDE DEF x, sz
<1>8. panic' = FALSE
  BY <1>1, <1>6, <1>7 DEF Grows, Made
<1>9. free' \in SUBSET Pages
  BY <1>1, <1>7 DEF Made
<1> QED
  BY <1>1, <1>7, <1>8, <1>9, InstallsInv DEF s

LEMMA ForkInv ==
  ASSUME IndInv, NEW p \in Procs, NEW q \in Procs, fork(p, q)
  PROVE  IndInv'
<1> DEFINE kstack == Min(free)
           pages == free \ {kstack}
           m == copyuvm(pages, space[p])
           s == [state |-> "runs", sz |-> space[p].sz, kstack |-> {kstack},
                 kernel |-> m.kernel, table |-> m.table, pte |-> m.pte, user |-> m.user]
<1>1. /\ Runs(p) /\ space[q].state = "unused" /\ free # {} /\ panic' = m.panic /\ other' = other
      /\ \/ m.ok /\ free' = m.free /\ space' = [space EXCEPT ![q] = s]
         \/ ~m.ok /\ free' = m.free \cup {kstack} /\ space' = space
  BY DEF fork
<1>2. space[p] \in Space /\ free \in SUBSET Pages
  BY ProcIs
<1>3. kstack \in free
  <2>1. free \in SUBSET Nat
    BY <1>2, MemoryAssumption
  <2> QED
    BY <1>1, <2>1, MinIn
<1>4. Upto(space[p], PagesIn(space[p].sz)) /\ space[p].sz \in 0..KERNBASE - 1 /\ space[p].user \subseteq VPages
  BY <1>1, <1>2, RunsIs DEF Space
<1>5. /\ m.panic = FALSE
      /\ m.ok => m \in Made /\ Has(m, pages) /\ Upto(m, PagesIn(space[p].sz))
      /\ ~m.ok => m.free = pages
  <2>1. pages \in SUBSET Pages
    BY <1>2
  <2> HIDE DEF pages
  <2> QED
    BY <1>4, <2>1, CopyIs
<1> HIDE DEF m, kstack
<1>6. CASE m.ok
  <2>1. /\ s \in Space /\ s.kernel = m.kernel /\ s.table = m.table /\ s.pte = m.pte
        /\ s.sz = space[p].sz /\ s.state = "runs" /\ s.kstack = {kstack}
    BY <1>2, <1>3, <1>4, <1>5, <1>6 DEF Made, Space
  <2> HIDE DEF s
  <2>2. /\ Neat(s) /\ m.free \cup Freed(s) = pages /\ m.free \cap Freed(s) = {}
        /\ \A n : Upto(m, n) => Upto(s, n)
    BY <1>5, <1>6, <2>1, InstalledIs
  <2>3. Sized(s)
    BY <1>5, <1>6, <2>1, <2>2 DEF Sized
  <2>4. Owned(q) = {}
    <3>1. space[q] = NoSpace
      BY <1>1, ProcIs DEF Sized
    <3> QED
      BY <3>1, NoSpaceIs DEF Owned, NoSpace
  <2>5. free' = m.free /\ space' = [space EXCEPT ![q] = s]
    BY <1>1, <1>6
  <2>6. /\ s.kstack \cap Freed(s) = {}
        /\ free' \cup Freed(s) \cup s.kstack = free \cup Owned(q)
        /\ free' \cap (Freed(s) \cup s.kstack) = {}
        /\ free' \subseteq Pages
    BY <1>2, <1>3, <2>1, <2>2, <2>4, <2>5
  <2> QED
    BY <1>1, <1>5, <2>1, <2>2, <2>3, <2>5, <2>6, Trades
<1>7. CASE ~m.ok
  <2>1. free' = free /\ space' = space /\ other' = other /\ panic' = FALSE
    BY <1>1, <1>3, <1>5, <1>7
  <2> QED
    BY <2>1 DEF IndInv, TypeOK, NoPanic, OwnInv, SizeInv, Owned, Freed
<1> QED
  BY <1>6, <1>7

LEMMA ExitInv ==
  ASSUME IndInv, NEW p \in Procs, exit(p)
  PROVE  IndInv'
<1> DEFINE s == [space[p] EXCEPT !.state = "zombie"]
<1>1. /\ space[p].state = "runs" /\ space' = [space EXCEPT ![p] = s]
      /\ free' = free /\ other' = other /\ panic' = panic
  BY DEF exit
<1>2. /\ space[p] \in Space /\ Sized(space[p]) /\ Neat(space[p])
      /\ free \cap Freed(space[p]) = {} /\ free \cap space[p].kstack = {}
      /\ space[p].kstack \cap Freed(space[p]) = {}
      /\ free \subseteq Pages /\ ~panic
  BY ProcIs
<1>3. /\ s \in Space /\ s.state = "zombie" /\ s.sz = space[p].sz /\ s.kstack = space[p].kstack
      /\ s.kernel = space[p].kernel /\ s.table = space[p].table /\ s.pte = space[p].pte
  BY <1>2 DEF Space
<1> HIDE DEF s
<1>4. Tables(s) = Tables(space[p]) /\ UserPages(s) = UserPages(space[p])
  BY <1>3 DEF Tables, UserPages
<1>5. Freed(s) = Freed(space[p]) /\ Neat(s)
  BY <1>2, <1>3, <1>4 DEF Freed, Neat
<1>6. Sized(s)
  BY <1>1, <1>2, <1>3 DEF Sized, Upto
<1>7. panic' = FALSE
  BY <1>1 DEF IndInv, NoPanic, TypeOK
<1>8. /\ free' \cup Freed(s) \cup s.kstack = free \cup Owned(p)
      /\ free' \cap (Freed(s) \cup s.kstack) = {}
      /\ s.kstack \cap Freed(s) = {} /\ free' \subseteq Pages
  BY <1>1, <1>2, <1>3, <1>5 DEF Owned
<1> QED
  BY <1>1, <1>3, <1>5, <1>6, <1>7, <1>8, Trades

LEMMA WaitInv ==
  ASSUME IndInv, NEW p \in Procs, wait(p)
  PROVE  IndInv'
<1>1. /\ space' = [space EXCEPT ![p] = NoSpace] /\ free' = free \cup Owned(p)
      /\ other' = other /\ panic' = panic
  BY DEF wait, Owned
<1>2. space[p] \in Space /\ free \subseteq Pages
  BY ProcIs
<1>3. NoSpace \in Space /\ Sized(NoSpace) /\ Neat(NoSpace) /\ Freed(NoSpace) = {} /\ NoSpace.kstack = {}
  BY NoSpaceIs DEF NoSpace
<1>4. Owned(p) \subseteq Pages
  BY <1>2 DEF Owned, Freed, Tables, UserPages, Space
<1>5. panic' = FALSE
  BY <1>1 DEF IndInv, NoPanic, TypeOK
<1>6. /\ free' \cup Freed(NoSpace) \cup NoSpace.kstack = free \cup Owned(p)
      /\ free' \cap (Freed(NoSpace) \cup NoSpace.kstack) = {}
      /\ NoSpace.kstack \cap Freed(NoSpace) = {} /\ free' \subseteq Pages
  BY <1>1, <1>2, <1>3, <1>4
<1> QED
  BY <1>1, <1>3, <1>5, <1>6, Trades

LEMMA InitInv ==
  ASSUME Init
  PROVE  IndInv
<1> DEFINE kstack == Min(Pages)
           pages == Pages \ (other \cup {kstack})
           d == setupkvm(pages)
           m == MapsPage(d, 0)
           s == [state |-> "runs", sz |-> PGSIZE, kstack |-> {kstack}, kernel |-> m.kernel,
                 table |-> m.table, pte |-> m.pte, user |-> m.user]
<1>1. /\ other \in {{x \in Pages : x > n} : n \in Pages}
      /\ m.ok /\ free = m.free
      /\ space = [q \in Procs |-> IF q # initproc THEN NoSpace ELSE s]
      /\ panic = FALSE
  BY DEF Init
<1>2. PICK n \in Pages : other = {x \in Pages : x > n}
  BY <1>1
<1>3. kstack \in Pages /\ kstack \notin other /\ Pages \subseteq Nat
  <2>1. Pages \in SUBSET Nat
    BY MemoryAssumption
  <2>2. kstack \in Pages /\ \A y \in Pages : kstack <= y
    BY <1>2, <2>1, MinIn
  <2> HIDE DEF kstack
  <2>3. kstack <= n /\ kstack \in Nat /\ n \in Nat
    BY <2>1, <2>2
  <2> QED
    BY <1>2, <2>1, <2>2, <2>3
<1>4. pages \in SUBSET Pages
  OBVIOUS
<1> HIDE DEF kstack, pages
<1>5. d \in Made /\ Has(d, pages) /\ ~d.panic /\ Upto(d, 0)
  BY <1>4, SetupIs
<1> HIDE DEF d
<1>6. d.ok
  <2>1. ~d.ok => m = d
    BY DEF MapsPage
  <2> QED
    BY <1>1, <2>1
<1>7. /\ 0 \in VPages /\ PagesIn(PGSIZE) = 1 /\ PGSIZE \in 0..KERNBASE - 1 /\ initproc \in Procs
  <2>1. PGSIZE \in Nat \ {0} /\ KERNBASE \in Nat /\ KERNBASE > 2 * PGSIZE
    BY MemoryAssumption
  <2>2. NP \in Nat /\ KERNBASE = NP * PGSIZE /\ VPages = 0..NP-1
    BY MemoryIs
  <2>3. NP # 0
    BY <2>1, <2>2
  <2>4. (PGSIZE + PGSIZE - 1) \div PGSIZE = 1
    <3>1. PGSIZE + PGSIZE - 1 \in Int /\ 1 * PGSIZE <= PGSIZE + PGSIZE - 1 /\ PGSIZE + PGSIZE - 1 < 1 * PGSIZE + PGSIZE
      BY <2>1
    <3> QED
      BY <2>1, <3>1, DivIs
  <2> QED
    BY <2>1, <2>2, <2>3, <2>4, MemoryAssumption DEF PagesIn
<1>8. /\ m \in Made /\ Has(m, pages) /\ Grows(d, m) /\ Upto(m, 1)
  <2>1. /\ m \in Made /\ Has(m, pages) /\ Grows(d, m) /\ Upto(m, IF m.ok THEN 0 + 1 ELSE 0)
    BY <1>5, <1>6, <1>7, MapsPageIs
  <2> HIDE DEF m
  <2> QED
    BY <1>1, <2>1
<1> HIDE DEF m
<1>9. /\ s \in Space /\ s.kernel = m.kernel /\ s.table = m.table /\ s.pte = m.pte
      /\ s.sz = PGSIZE /\ s.state = "runs" /\ s.kstack = {kstack}
  BY <1>3, <1>7, <1>8 DEF Made, Space
<1> HIDE DEF s
<1>10. /\ Neat(s) /\ m.free \cup Freed(s) = pages /\ m.free \cap Freed(s) = {}
       /\ \A k : Upto(m, k) => Upto(s, k)
  BY <1>8, <1>9, InstalledIs
<1>11. Sized(s)
  BY <1>7, <1>8, <1>9, <1>10 DEF Sized
<1>12. \A q \in Procs : space[q] = IF q # initproc THEN NoSpace ELSE s
  BY <1>1
<1>13. other \subseteq Pages /\ free \subseteq Pages
  BY <1>1, <1>2, <1>8 DEF Made
<1>14. TypeOK /\ NoPanic
  <2>1. space \in [Procs -> Space]
    BY <1>1, <1>9, NoSpaceIs
  <2> QED
    BY <1>1, <1>13, <2>1 DEF TypeOK, NoPanic, Space
<1>15. SizeInv
  BY <1>11, <1>12, NoSpaceIs DEF SizeInv, Sized
<1>16. OwnInv
  <2>1. Owned(initproc) = Freed(s) \cup {kstack} /\ \A q \in Procs : q # initproc => Owned(q) = {}
    BY <1>7, <1>9, <1>12, NoSpaceIs DEF Owned, NoSpace
  <2>2. free \cup Owned(initproc) \cup other = Pages
    <3>1. free \cup Owned(initproc) = (free \cup Freed(s)) \cup {kstack}
      BY <2>1
    <3>2. free \cup Freed(s) = Pages \ (other \cup {kstack})
      BY <1>1, <1>10 DEF pages
    <3> QED
      BY <1>3, <1>13, <3>1, <3>2
  <2>3. free \cap other = {} /\ Owned(initproc) \cap (free \cup other) = {} /\ {kstack} \cap Freed(s) = {}
    BY <1>1, <1>3, <1>10, <2>1 DEF pages
  <2>4. \A q \in Procs : Neat(space[q]) /\ space[q].kstack \cap Freed(space[q]) = {}
    BY <1>9, <1>10, <1>12, <2>3, NoSpaceIs DEF NoSpace
  <2>5. \A q \in Procs : Owned(q) \cap (free \cup other) = {}
    BY <2>1, <2>3
  <2>6. \A q, r \in Procs : q # r => Owned(q) \cap Owned(r) = {}
    BY <2>1
  <2>7. \A x \in Pages : x \in free \/ x \in other \/ \E q \in Procs : x \in Owned(q)
    BY <1>7, <2>2
  <2> QED
    BY <2>3, <2>4, <2>5, <2>6, <2>7 DEF OwnInv
<1> QED
  BY <1>14, <1>15, <1>16 DEF IndInv

LEMMA NextInv ==
  ASSUME IndInv, [Next]_vars
  PROVE  IndInv'
<1>1. ASSUME NEW p \in Procs, NEW prog \in Programs, NEW len \in Arguments, exec(p, prog, len)
      PROVE  IndInv'
  BY <1>1, ExecInv
<1>2. ASSUME NEW p \in Procs, NEW n \in Amounts, growproc(p, n)
      PROVE  IndInv'
  BY <1>2, GrowprocInv
<1>3. ASSUME NEW p \in Procs, NEW q \in Procs, fork(p, q)
      PROVE  IndInv'
  BY <1>3, ForkInv
<1>4. ASSUME NEW p \in Procs, exit(p)
      PROVE  IndInv'
  BY <1>4, ExitInv
<1>5. ASSUME NEW p \in Procs, wait(p)
      PROVE  IndInv'
  BY <1>5, WaitInv
<1>6. CASE UNCHANGED vars
  BY <1>6 DEF vars, IndInv, TypeOK, NoPanic, OwnInv, SizeInv, Owned, Freed
<1> QED
  BY <1>1, <1>2, <1>3, <1>4, <1>5, <1>6 DEF Next

-----------------------------------------------------------------------------
(* The properties *)

LEMMA SingleUse ==
  ASSUME NEW x, NEW u, Uses(x) = {u}
  PROVE  Cardinality(Uses(x)) = 1
BY FS_Singleton

LEMMA OneOwner ==
  ASSUME IndInv
  PROVE  PageHasOneOwner
<1> SUFFICES ASSUME NEW x \in Pages
             PROVE  Cardinality(Uses(x)) = 1
  BY DEF PageHasOneOwner
<1> DEFINE K == {u \in {"kstack"} \X Procs : x \in space[u[2]].kstack}
           N == {u \in {"kernel"} \X Procs : x \in space[u[2]].kernel}
           T == {u \in {"table"} \X Procs \X Dirs : space[u[2]].table[u[3]] = x}
           V == {u \in {"pte"} \X Procs \X VPages : space[u[2]].pte[u[3]] = x}
<1>1. Uses(x) = (IF x \in free THEN {<<"free">>} ELSE {}) \cup (IF x \in other THEN {<<"other">>} ELSE {})
                \cup K \cup N \cup T \cup V
  BY DEF Uses
<1>2. x # None
  BY MemoryAssumption
<1>3. ASSUME NEW p \in Procs
      PROVE  x \in Owned(p) <=> \/ x \in space[p].kstack \/ x \in space[p].kernel
                                \/ \E d \in Dirs : space[p].table[d] = x
                                \/ \E v \in VPages : space[p].pte[v] = x
  BY <1>2 DEF Owned, Freed, Tables, UserPages
<1>4. \A u \in K \cup N \cup T \cup V : u[2] \in Procs /\ x \in Owned(u[2])
  BY <1>3
<1>5. CASE x \in free \cup other
  <2>1. K \cup N \cup T \cup V = {}
    <3> SUFFICES ASSUME NEW u \in K \cup N \cup T \cup V
                 PROVE  FALSE
      OBVIOUS
    <3> QED
      BY <1>4, <1>5 DEF IndInv, OwnInv
  <2>2. free \cap other = {}
    BY DEF IndInv, OwnInv
  <2> HIDE DEF K, N, T, V
  <2>3. Uses(x) = {<<"free">>} \/ Uses(x) = {<<"other">>}
    BY <1>1, <1>5, <2>1, <2>2
  <2> QED
    BY <2>3, SingleUse
<1>6. CASE x \notin free \cup other
  <2>1. PICK p \in Procs : x \in Owned(p)
    BY <1>6 DEF IndInv, OwnInv
  <2>2. \A q \in Procs : x \in Owned(q) => q = p
    BY <2>1 DEF IndInv, OwnInv
  <2>3. \A u \in K \cup N \cup T \cup V : u[2] = p
    BY <1>4, <2>2
  <2>4. /\ K = IF x \in space[p].kstack THEN {<<"kstack", p>>} ELSE {}
        /\ N = IF x \in space[p].kernel THEN {<<"kernel", p>>} ELSE {}
    BY <2>3
  <2>5. /\ T = {<<"table", p, d>> : d \in {d \in Dirs : space[p].table[d] = x}}
        /\ V = {<<"pte", p, v>> : v \in {v \in VPages : space[p].pte[v] = x}}
    BY <2>3
  <2> HIDE DEF K, N, T, V
  <2>6. Uses(x) = K \cup N \cup T \cup V
    BY <1>1, <1>6
  <2>7. Neat(space[p]) /\ space[p].kstack \cap Freed(space[p]) = {}
    BY DEF IndInv, OwnInv
  <2>8. x \in Freed(space[p]) <=> \/ x \in space[p].kernel
                                  \/ \E d \in Dirs : space[p].table[d] = x
                                  \/ \E v \in VPages : space[p].pte[v] = x
    BY <1>2 DEF Freed, Tables, UserPages
  <2>9. x \in space[p].kernel => /\ \A d \in Dirs : space[p].table[d] # x
                                 /\ \A v \in VPages : space[p].pte[v] # x
    BY <1>2, <2>7 DEF Neat, Tables, UserPages
  <2>10. CASE x \in space[p].kstack
    <3>1. Uses(x) = {<<"kstack", p>>}
      BY <2>4, <2>5, <2>6, <2>7, <2>8, <2>10
    <3> QED
      BY <3>1, SingleUse
  <2>11. CASE x \in space[p].kernel
    <3>1. x \notin space[p].kstack
      BY <2>7, <2>8, <2>11
    <3>2. Uses(x) = {<<"kernel", p>>}
      BY <2>4, <2>5, <2>6, <2>9, <2>11, <3>1
    <3> QED
      BY <3>2, SingleUse
  <2>12. ASSUME NEW d \in Dirs, space[p].table[d] = x
         PROVE  Cardinality(Uses(x)) = 1
    <3>1. x \notin space[p].kstack /\ x \notin space[p].kernel
      BY <2>7, <2>8, <2>9, <2>12
    <3>2. {e \in Dirs : space[p].table[e] = x} = {d} /\ {v \in VPages : space[p].pte[v] = x} = {}
      BY <1>2, <2>7, <2>12 DEF Neat
    <3>3. Uses(x) = {<<"table", p, d>>}
      BY <2>4, <2>5, <2>6, <3>1, <3>2
    <3> QED
      BY <3>3, SingleUse
  <2>13. ASSUME NEW v \in VPages, space[p].pte[v] = x
         PROVE  Cardinality(Uses(x)) = 1
    <3>1. x \notin space[p].kstack /\ x \notin space[p].kernel
      BY <2>7, <2>8, <2>9, <2>13
    <3>2. {w \in VPages : space[p].pte[w] = x} = {v} /\ {d \in Dirs : space[p].table[d] = x} = {}
      BY <1>2, <2>7, <2>13 DEF Neat
    <3>3. Uses(x) = {<<"pte", p, v>>}
      BY <2>4, <2>5, <2>6, <3>1, <3>2
    <3> QED
      BY <3>3, SingleUse
  <2> QED
    BY <1>3, <2>1, <2>10, <2>11, <2>12, <2>13
<1> QED
  BY <1>5, <1>6

LEMMA SizeMapped ==
  ASSUME IndInv
  PROVE  SizeIsMapped
<1> SUFFICES ASSUME NEW p \in Procs, space[p].state # "unused"
             PROVE  LET mapped == {v \in VPages : space[p].pte[v] # None} IN
                    /\ mapped \in {{}, {v \in VPages : v * PGSIZE < space[p].sz}}
                    /\ \A v \in mapped : space[p].table[PDX(v)] # None
  BY DEF SizeIsMapped
<1> DEFINE mapped == {v \in VPages : space[p].pte[v] # None}
<1>1. space[p].sz \in Nat /\ VPages \subseteq Nat
  <2>1. space[p].sz \in 0..KERNBASE - 1
    BY ProcIs DEF Space
  <2> QED
    BY <2>1, MemoryIs, MemoryAssumption
<1>2. \A v \in VPages : v < PagesIn(space[p].sz) <=> v * PGSIZE < space[p].sz
  BY <1>1, PagesInIs
<1>3. CASE Upto(space[p], 0)
  <2>1. mapped = {}
    <3>1. \A v \in VPages : ~(v < 0)
      BY <1>1
    <3> QED
      BY <1>3, <3>1 DEF Upto
  <2> QED
    BY <2>1
<1>4. CASE Upto(space[p], PagesIn(space[p].sz))
  <2>1. mapped = {v \in VPages : v * PGSIZE < space[p].sz}
    BY <1>2, <1>4 DEF Upto
  <2>2. \A v \in mapped : space[p].table[PDX(v)] # None
    BY <1>4 DEF Upto
  <2> QED
    BY <2>1, <2>2
<1> QED
  BY <1>3, <1>4, ProcIs DEF Sized

\* The inductive invariant holds of every reachable state: fork, exec, sbrk, exit and wait, with
\* kalloc failing anywhere in them, keep the page tables and the free list in step.
THEOREM MemoryInvariant == Spec => []IndInv
<1>1. Init => IndInv
  BY InitInv
<1>2. IndInv /\ [Next]_vars => IndInv'
  BY NextInv
<1> QED
  BY <1>1, <1>2, PTL DEF Spec

\* The type invariant: in particular no process ever has a size in the kernel half.
THEOREM MemoryTypeCorrect == Spec => []TypeOK
<1>1. IndInv => TypeOK
  BY DEF IndInv
<1> QED
  BY <1>1, MemoryInvariant, PTL

\* Every page has exactly one use (kalloc.c, vm.c, exec.c, proc.c): none is lost when a handler
\* fails in the middle, none is mapped twice, and none is free and mapped.
THEOREM MemoryPageHasOneOwner == Spec => []PageHasOneOwner
<1>1. IndInv => PageHasOneOwner
  BY OneOwner
<1> QED
  BY <1>1, MemoryInvariant, PTL

\* The pages below the size of a process are mapped, and no others, or none is (vm.c:253-289).
THEOREM MemorySizeIsMapped == Spec => []SizeIsMapped
<1>1. IndInv => SizeIsMapped
  BY SizeMapped
<1> QED
  BY <1>1, MemoryInvariant, PTL

\* mappages never meets a mapped page, and copyuvm and loaduvm find every page they look for.
THEOREM MemoryNoPanic == Spec => []NoPanic
<1>1. IndInv => NoPanic
  BY DEF IndInv
<1> QED
  BY <1>1, MemoryInvariant, PTL
=============================================================================
