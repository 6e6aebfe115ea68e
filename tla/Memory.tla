------------------------------- MODULE Memory -------------------------------
(***************************************************************************)
(* Who owns each page of physical memory: the free list (kalloc.c), page   *)
(* tables and user pages of processes (vm.c), their kernel stacks, through *)
(* fork, exec, sbrk, exit and wait (proc.c, exec.c, sysproc.c) and every   *)
(* failure of kalloc on the way.  A handler is one step: pages of a        *)
(* process are touched by that process only, and the free list under its   *)
(* lock.  Addresses are those of a machine with Word of them, the upper    *)
(* half kernel, PGSIZE to a page and PTSIZE pages to a page table.         *)
(***************************************************************************)
EXTENDS Integers, Sequences, FiniteSets, FiniteSetsExt

CONSTANTS Procs, initproc, None,
          Pages,       \* the physical pages kinit1 and kinit2 put on the free list
          PGSIZE, PTSIZE, KERNBASE,
          KernelTables, \* page tables of the kernel half, in every page directory
          Programs,    \* what exec finds in files: sequences of program headers
          Arguments,   \* how many bytes exec pushes
          Amounts      \* arguments of sbrk

Word == 2 * KERNBASE
VPages == 0..(KERNBASE \div PGSIZE) - 1
Dirs == 0..((KERNBASE \div PGSIZE) \div PTSIZE) - 1

ASSUME MemoryAssumption ==
    /\ Pages \subseteq Nat /\ IsFiniteSet(Pages) /\ None \notin Pages /\ initproc \in Procs
    /\ PGSIZE \in Nat \ {0} /\ PTSIZE \in Nat \ {0} /\ KERNBASE \in Nat
    /\ KERNBASE % (PGSIZE * PTSIZE) = 0 /\ KERNBASE > 2 * PGSIZE
    /\ KernelTables \in Nat /\ Arguments \subseteq Nat /\ Amounts \subseteq Int
    /\ Programs \subseteq Seq([vaddr : 0..Word - 1, memsz : 0..Word - 1, filesz : 0..Word - 1])

VARIABLES
    free,    \* kmem.freelist, as a set
    other,   \* pages held by the rest of the kernel (pipes, other processes)
    space,   \* the page directory and size of each process
    panic    \* a panic of the code was reached

vars == <<free, other, space, panic>>

\* kernel: the directory, the tables of the kernel half, and the kernel stack.
NoSpace == [state |-> "unused", sz |-> 0, kstack |-> {}, kernel |-> {},
            table |-> [d \in Dirs |-> None], pte |-> [v \in VPages |-> None], user |-> VPages]
-----------------------------------------------------------------------------
(* vm.c, as functions of a page table under construction: m has the table,  *)
(* the free pages, and whether everything so far succeeded.                 *)

PDX(v) == v \div PTSIZE
\* The first form is a slip in the second.
PGROUNDDOWN(a) == (a \div PGSIZE) * PGSIZE
PGROUNDUP(a) == (((a + PGSIZE - 1) % Word) \div PGSIZE) * PGSIZE
\* The pages of a loop over addresses from the aligned a below b.
Span(a, b) == [i \in 1..(IF b > a THEN ((b - a) + PGSIZE - 1) \div PGSIZE ELSE 0) |-> a \div PGSIZE + i - 1]

Building(pages, s) == [free |-> pages, ok |-> TRUE, panic |-> FALSE, kernel |-> s.kernel,
                       table |-> s.table, pte |-> s.pte, user |-> s.user]

\* kalloc and mappages for one user page; walkpgdir may need a page for a table.  If that
\* one is missing the page itself goes back.
MapsPage(m, v) ==
    IF ~m.ok THEN m
    ELSE IF m.free = {} THEN [m EXCEPT !.ok = FALSE]
    ELSE LET mem == Min(m.free) rest == m.free \ {mem} IN
         IF m.table[PDX(v)] # None
         THEN [m EXCEPT !.free = rest, !.pte[v] = mem, !.panic = @ \/ m.pte[v] # None]
         ELSE IF rest = {} THEN [m EXCEPT !.ok = FALSE]
         ELSE [m EXCEPT !.free = rest \ {Min(rest)}, !.table[PDX(v)] = Min(rest), !.pte[v] = mem]

\* The loops of allocuvm and copyuvm over pages.
Maps(m, pages) ==
    LET f[k \in 0..Len(pages)] == IF k = 0 THEN m ELSE MapsPage(f[k - 1], pages[k]) IN f[Len(pages)]

\* The new size is the second component.
deallocuvm(m, old, new) ==
    IF new >= old THEN <<m, old>>
    ELSE LET gone == {v \in VPages : PGROUNDUP(new) <= v * PGSIZE /\ v * PGSIZE < old} IN
         <<[m EXCEPT !.free = @ \cup ({m.pte[v] : v \in gone} \ {None}),
                     !.pte = [v \in VPages |-> IF v \in gone THEN None ELSE @[v]]], new>>

allocuvm(m, old, new) ==
    IF new >= KERNBASE THEN <<[m EXCEPT !.ok = FALSE], 0>>
    ELSE IF new < old THEN <<m, old>>
    ELSE LET grown == Maps(m, Span(PGROUNDUP(old), new)) IN
         IF grown.ok THEN <<grown, new>> ELSE <<deallocuvm(grown, new, old)[1], 0>>

\* A page directory with the kernel half, or the pages back.
setupkvm(pages) ==
    LET n == 1 + KernelTables
        mine == {x \in pages : Cardinality({y \in pages : y < x}) < n} IN
    IF Cardinality(pages) < n THEN [Building(pages, NoSpace) EXCEPT !.ok = FALSE]
    ELSE [Building(pages \ mine, NoSpace) EXCEPT !.kernel = mine]

Tables(m) == {m.table[d] : d \in Dirs} \ {None}
UserPages(m) == {m.pte[v] : v \in VPages} \ {None}

\* What freevm gives back; a slip forgets the page tables of the user half.
FreevmKeepsTables(m) == UserPages(m) \cup m.kernel
Freed(m) == UserPages(m) \cup Tables(m) \cup m.kernel

copyuvm(pages, s) ==
    LET d == setupkvm(pages)
        n == Span(0, s.sz)
        c == Maps(d, n) IN
    IF c.ok THEN [c EXCEPT !.user = s.user, !.panic = \E i \in DOMAIN n : s.pte[n[i]] = None]
    ELSE [c EXCEPT !.free = @ \cup Freed(c)]
-----------------------------------------------------------------------------
(* exec.c *)

\* copyout(pgdir, va, len): every page it touches is there and the user's.
Copies(m, va, len) ==
    \A a \in va..(va + len - 1) :
        a \div PGSIZE \in VPages /\ m.pte[a \div PGSIZE] # None /\ a \div PGSIZE \in m.user

\* One program header: the tests in the order of the code, allocuvm, loaduvm.
LoadsSegment(x, ph) ==
    LET m == x[1]
        grown == allocuvm(m, x[2], (ph.vaddr + ph.memsz) % Word)
        bad == <<[m EXCEPT !.ok = FALSE], 0>> IN
    IF ~m.ok THEN x
    ELSE IF ph.memsz < ph.filesz \/ (ph.vaddr + ph.memsz) % Word < ph.vaddr THEN bad
    ELSE IF grown[2] = 0 \/ ph.vaddr % PGSIZE # 0 THEN <<[grown[1] EXCEPT !.ok = FALSE], 0>>
    ELSE <<[grown[1] EXCEPT !.panic = @ \/ \E i \in DOMAIN Span(ph.vaddr, ph.vaddr + ph.filesz) :
                grown[1].pte[Span(ph.vaddr, ph.vaddr + ph.filesz)[i]] = None], grown[2]>>

Loads(x, headers) ==
    LET f[k \in 0..Len(headers)] == IF k = 0 THEN x ELSE LoadsSegment(f[k - 1], headers[k]) IN f[Len(headers)]

\* The guard page and the stack, and len bytes of arguments pushed on it.
PushesArguments(x, len) ==
    LET sz == PGROUNDUP(x[2])
        grown == allocuvm(x[1], sz, (sz + 2 * PGSIZE) % Word)
        guarded == [grown[1] EXCEPT !.user = @ \ {(grown[2] - 2 * PGSIZE) \div PGSIZE}] IN
    IF ~x[1].ok THEN x
    ELSE IF grown[2] = 0 THEN <<[grown[1] EXCEPT !.ok = FALSE], 0>>
    ELSE <<[guarded EXCEPT !.ok = len <= grown[2] /\ Copies(guarded, grown[2] - len, len)], grown[2]>>

\* The new image of exec: its page table and size, all its pages freed if it fails.
NewImage(pages, headers, len) ==
    LET x == PushesArguments(Loads(<<setupkvm(pages), 0>>, headers), len) IN
    IF x[1].ok THEN x ELSE <<[x[1] EXCEPT !.free = @ \cup Freed(x[1])], 0>>

\* A process that has lost its first page can only fault, and exit.
Faults(p) == space[p].pte[0] = None
Runs(p) == space[p].state = "runs" /\ ~Faults(p) /\ ~panic

\* m becomes the address space of p.
Installs(p, m, sz) ==
    space' = [space EXCEPT ![p].kernel = m.kernel, ![p].table = m.table, ![p].pte = m.pte,
                           ![p].user = m.user, ![p].sz = sz]

exec(p, headers, len) ==
    LET x == NewImage(free, headers, len) IN
    /\ Runs(p)
    /\ panic' = x[1].panic
    /\ \/ x[1].ok /\ Installs(p, x[1], x[2]) /\ free' = x[1].free \cup Freed(space[p])
       \/ ~x[1].ok /\ free' = x[1].free /\ UNCHANGED space
    /\ UNCHANGED other
-----------------------------------------------------------------------------
(* proc.c, sysproc.c, pipe.c *)

\* inituvm: the first process has one page.  The rest of the kernel holds some of the pages, so
\* that kalloc may fail anywhere.
Init ==
    LET kstack == Min(Pages)
        m == MapsPage(setupkvm(Pages \ (other \cup {kstack})), 0) IN
    /\ other \in {{x \in Pages : x > n} : n \in Pages}
    /\ m.ok /\ free = m.free
    /\ space = [q \in Procs |-> IF q # initproc THEN NoSpace ELSE
         [state |-> "runs", sz |-> PGSIZE, kstack |-> {kstack}, kernel |-> m.kernel,
          table |-> m.table, pte |-> m.pte, user |-> m.user]]
    /\ panic = FALSE

\* sys_sbrk and growproc: failure of either call shows as a size of 0.
growproc(p, n) ==
    LET s == space[p]
        new == (s.sz + n) % Word
        x == IF n > 0 THEN allocuvm(Building(free, s), s.sz, new)
             ELSE deallocuvm(Building(free, s), s.sz, new) IN
    /\ Runs(p) /\ p # initproc
    /\ free' = x[1].free /\ panic' = x[1].panic
    /\ Installs(p, x[1], IF x[2] = 0 THEN s.sz ELSE x[2])
    /\ UNCHANGED other

\* allocproc takes a kernel stack, fork copies the memory; without it the stack goes back.
fork(p, q) ==
    LET kstack == Min(free)
        m == copyuvm(free \ {kstack}, space[p]) IN
    /\ Runs(p) /\ space[q].state = "unused" /\ free # {}
    /\ panic' = m.panic
    /\ \/ /\ m.ok /\ free' = m.free
          /\ space' = [space EXCEPT ![q] = [state |-> "runs", sz |-> space[p].sz, kstack |-> {kstack},
                kernel |-> m.kernel, table |-> m.table, pte |-> m.pte, user |-> m.user]]
       \/ ~m.ok /\ free' = m.free \cup {kstack} /\ UNCHANGED space
    /\ UNCHANGED other

exit(p) ==
    /\ space[p].state = "runs" /\ p # initproc /\ ~panic
    /\ space' = [space EXCEPT ![p].state = "zombie"]
    /\ UNCHANGED <<free, other, panic>>

\* wait frees the stack and the memory of a zombie.
wait(p) ==
    /\ space[p].state = "zombie" /\ ~panic
    /\ free' = free \cup Freed(space[p]) \cup space[p].kstack
    /\ space' = [space EXCEPT ![p] = NoSpace]
    /\ UNCHANGED <<other, panic>>

Next ==
    \/ \E p \in Procs : \/ \E prog \in Programs, len \in Arguments : exec(p, prog, len)
                        \/ \E n \in Amounts : growproc(p, n)
                        \/ \E q \in Procs : fork(p, q)
                        \/ exit(p)
                        \/ wait(p)

Spec == Init /\ [][Next]_vars
-----------------------------------------------------------------------------
\* The uses of page x: on the free list, in a pipe, and for each process its kernel stack,
\* page directory, page tables and user pages.
Uses(x) ==
    (IF x \in free THEN {<<"free">>} ELSE {}) \cup (IF x \in other THEN {<<"other">>} ELSE {})
    \cup {u \in {"kstack"} \X Procs : x \in space[u[2]].kstack}
    \cup {u \in {"kernel"} \X Procs : x \in space[u[2]].kernel}
    \cup {u \in {"table"} \X Procs \X Dirs : space[u[2]].table[u[3]] = x}
    \cup {u \in {"pte"} \X Procs \X VPages : space[u[2]].pte[u[3]] = x}

\* Every page of memory has exactly one use at any time, whatever failed in the middle: no
\* page is lost, mapped twice, or still mapped when it is free (kalloc.c, vm.c, exec.c).
PageHasOneOwner == \A x \in Pages : Cardinality(Uses(x)) = 1

\* The memory a process may use is the memory it has: the pages below its size are mapped, no
\* other, and their tables exist; or none is, after sbrk took all (deallocuvm returns 0, which
\* growproc takes for a failure).  copyuvm, loaduvm and clearpteu rely on it.
SizeIsMapped ==
    \A p \in Procs : space[p].state = "unused" \/
        LET mapped == {v \in VPages : space[p].pte[v] # None} IN
        /\ mapped \in {{}, {v \in VPages : v * PGSIZE < space[p].sz}}
        /\ \A v \in mapped : space[p].table[PDX(v)] # None

\* No page is mapped over another ("remap"), and copyuvm and loaduvm find the pages they want.
NoPanic == ~panic

TypeOK ==
    /\ free \subseteq Pages /\ other \subseteq Pages /\ panic \in BOOLEAN
    /\ space \in [Procs -> [state : {"unused", "runs", "zombie"}, sz : 0..KERNBASE - 1,
                            kstack : SUBSET Pages, kernel : SUBSET Pages,
                            table : [Dirs -> Pages \cup {None}], pte : [VPages -> Pages \cup {None}],
                            user : SUBSET VPages]]
-----------------------------------------------------------------------------
(* Why it holds: an inductive invariant *)

\* The page tables of the user half are there where they are needed, and the first n pages are
\* mapped.
Upto(m, n) == \A v \in VPages : /\ m.pte[v] # None <=> v < n
                                /\ v < n => m.table[PDX(v)] # None
PagesIn(sz) == (sz + PGSIZE - 1) \div PGSIZE

\* No page has two uses in one address space.
Neat(m) ==
    /\ \A d, e \in Dirs : m.table[d] = m.table[e] /\ m.table[d] # None => d = e
    /\ \A v, w \in VPages : m.pte[v] = m.pte[w] /\ m.pte[v] # None => v = w
    /\ \A d \in Dirs, v \in VPages : m.table[d] = m.pte[v] => m.table[d] = None
    /\ m.kernel \cap (Tables(m) \cup UserPages(m)) = {}

Owned(p) == Freed(space[p]) \cup space[p].kstack

OwnInv ==
    /\ \A x \in Pages : x \in free \/ x \in other \/ \E p \in Procs : x \in Owned(p)
    /\ free \cap other = {}
    /\ \A p \in Procs : Owned(p) \cap (free \cup other) = {}
    /\ \A p, q \in Procs : p # q => Owned(p) \cap Owned(q) = {}
    /\ \A p \in Procs : Neat(space[p]) /\ space[p].kstack \cap Freed(space[p]) = {}

SizeInv == \A p \in Procs :
    /\ space[p].state = "unused" => space[p] = NoSpace
    /\ Upto(space[p], 0) \/ Upto(space[p], PagesIn(space[p].sz))

IndInv == TypeOK /\ NoPanic /\ OwnInv /\ SizeInv
=============================================================================
