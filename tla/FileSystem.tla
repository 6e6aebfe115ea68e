----------------------------- MODULE FileSystem -----------------------------
(***************************************************************************)
(* The inode layer of fs.c and the name-space calls of sysfile.c, as       *)
(* operators on a file system: what each does when nothing interleaves     *)
(* with it.  A cell is the unit of a block: a byte of a file, a directory  *)
(* entry <<name, inum>>, or a block number <<b>> of an indirect block; <<>>*)
(* is zero.  An operator that the code lets panic sets fs.panic.           *)
(***************************************************************************)
EXTENDS Integers, Sequences, FiniteSets, FiniteSetsExt, SequencesExt

CONSTANTS NINODES,  \* inodes on the disk
          NINODE,   \* entries of the inode cache
          NBLOCKS,  \* data blocks
          BSIZE,    \* cells in a block
          NDIRECT, DIRSIZ,
          NoHandler \* major numbers without an entry in devsw

ASSUME FileSystemAssumption ==
    {NINODES, NINODE, NBLOCKS, BSIZE, NDIRECT, DIRSIZ} \subseteq Nat \ {0}

Inums == 1..NINODES
ROOTINO == 1
MAXFILE == NDIRECT + BSIZE
ZeroBlock == [c \in 0..BSIZE - 1 |-> <<>>]
NoInode == [type |-> "none", major |-> 0, nlink |-> 0, size |-> 0, addrs |-> [b \in 0..NDIRECT |-> 0]]

\* disk: the inodes on the disk; inode: the cache, where an inode that is valid has its copy.
EmptyDisk == [disk |-> [i \in Inums |-> NoInode], inode |-> [i \in Inums |-> NoInode],
              ref |-> [i \in Inums |-> 0], valid |-> {},
              block |-> [b \in 1..NBLOCKS |-> ZeroBlock], used |-> {}, panic |-> FALSE]
-----------------------------------------------------------------------------
\* Blocks: balloc zeroes what it gives.
Panics(fs) == [fs EXCEPT !.panic = TRUE]

FreeBlocks(fs) == (1..NBLOCKS) \ fs.used
Takes(fs, b) == <<[fs EXCEPT !.used = @ \cup {b}, !.block[b] = ZeroBlock], b>>
balloc(fs) == IF FreeBlocks(fs) = {} THEN <<Panics(fs), 1>> ELSE Takes(fs, Min(FreeBlocks(fs)))

\* Each of these blocks.
bfree(fs, blocks) == IF blocks \subseteq fs.used THEN [fs EXCEPT !.used = @ \ blocks] ELSE Panics(fs)

\* The block that addrs[bn] of inode i gives, and the one that entry c of the list at block at gives;
\* new is the file system with a block allocated, which is used if there is none.
Address(fs, i, bn, new) ==
    IF fs.inode[i].addrs[bn] # 0 THEN <<fs, fs.inode[i].addrs[bn]>>
    ELSE <<[new[1] EXCEPT !.inode[i].addrs[bn] = new[2]], new[2]>>
ListEntry(fs, at, c, new) ==
    IF fs.block[at][c] # <<>> THEN <<fs, fs.block[at][c][1]>>
    ELSE <<[new[1] EXCEPT !.block[at][c] = <<new[2]>>], new[2]>>
InList(list, c) == ListEntry(list[1], list[2], c, balloc(list[1]))

\* The block that holds block bn of inode i, allocated if need be.
bmap(fs, i, bn) ==
    IF bn < NDIRECT THEN Address(fs, i, bn, balloc(fs))
    ELSE IF bn - NDIRECT >= BSIZE THEN <<Panics(fs), 1>>
    ELSE InList(Address(fs, i, NDIRECT, balloc(fs)), bn - NDIRECT)

\* The blocks of an inode: what it holds, and the block that lists the rest.
BlocksOf(fs, inode) ==
    LET a == inode.addrs IN
    ({a[b] : b \in 0..NDIRECT}
     \cup (IF a[NDIRECT] = 0 THEN {}
           ELSE {fs.block[a[NDIRECT]][c][1] : c \in {d \in 0..BSIZE - 1 : fs.block[a[NDIRECT]][d] # <<>>}})) \ {0}

iupdate(fs, i) == [fs EXCEPT !.disk[i] = fs.inode[i]]

\* A slip gives back the direct blocks and the list, and forgets the blocks on it.
itruncDirect(fs, i) ==
    iupdate([fs EXCEPT !.used = @ \ {fs.inode[i].addrs[b] : b \in 0..NDIRECT},
                       !.inode[i].addrs = NoInode.addrs, !.inode[i].size = 0], i)

itrunc(fs, i) ==
    iupdate([bfree(fs, BlocksOf(fs, fs.inode[i])) EXCEPT !.inode[i].addrs = NoInode.addrs, !.inode[i].size = 0], i)
-----------------------------------------------------------------------------
\* The inode cache: reference counts, and which of the entries have been read.
idup(fs, i) == [fs EXCEPT !.ref[i] = @ + 1]

iget(fs, i) ==
    IF fs.ref[i] > 0 THEN idup(fs, i)
    ELSE IF Cardinality({j \in Inums : fs.ref[j] > 0}) = NINODE THEN Panics(fs)
    ELSE [fs EXCEPT !.ref[i] = 1, !.valid = @ \ {i}]

\* ilock reads an inode that is not valid.
ilock(fs, i) ==
    LET f == IF i \in fs.valid THEN fs ELSE [fs EXCEPT !.valid = @ \cup {i}, !.inode[i] = fs.disk[i]] IN
    IF fs.ref[i] < 1 \/ f.inode[i].type = "none" THEN Panics(fs) ELSE f

Drops(fs, i) == [fs EXCEPT !.ref[i] = @ - 1]
Frees(fs, i) == [iupdate([itrunc(fs, i) EXCEPT !.inode[i].type = "none"], i) EXCEPT !.valid = @ \ {i}]

\* The last reference to an inode without links frees it.
iput(fs, i) ==
    IF i \in fs.valid /\ fs.inode[i].nlink = 0 /\ fs.ref[i] = 1 THEN Drops(Frees(fs, i), i) ELSE Drops(fs, i)

ialloc(fs, type) ==
    LET free == {i \in Inums : fs.disk[i].type = "none"} IN
    IF free = {} THEN <<Panics(fs), 1>>
    ELSE <<iget([fs EXCEPT !.disk[Min(free)] = [NoInode EXCEPT !.type = type]], Min(free)), Min(free)>>
-----------------------------------------------------------------------------
\* The blocks below cell off + n of inode i, from that of off on; all of them are allocated.
Span(off, n) == [k \in 1..((off + n - 1) \div BSIZE) - (off \div BSIZE) + 1 |-> off \div BSIZE + k - 1]
MapsAll(fs, i, off, n) ==
    LET bns == Span(off, n)
        f[k \in 0..Len(bns)] == IF k = 0 THEN fs ELSE bmap(f[k - 1], i, bns[k])[1] IN
    f[Len(bns)]
\* bmap changes nothing else.
Allocates(fs, g) == [fs EXCEPT !.inode = g.inode, !.block = g.block, !.used = g.used, !.panic = g.panic \/ @]
Mapped(fs, i, off, n) == IF n = 0 THEN fs ELSE Allocates(fs, MapsAll(fs, i, off, n))
CellOf(m, c) == m[1].block[m[2]][c]
CellAt(fs, i, k) == CellOf(bmap(fs, i, k \div BSIZE), k % BSIZE)

\* A read of n cells at off: how many, or -1, and which.  It allocates a block that is missing.
Read(fs, i, off, n) == [fs |-> fs, n |-> n, cells |-> [k \in 1..n |-> CellAt(fs, i, off + k - 1)]]
readi(fs, i, off, n) ==
    LET m == Min({n, fs.inode[i].size - off}) IN
    IF fs.inode[i].type = "dev" THEN [fs |-> fs, n |-> IF fs.inode[i].major \in NoHandler THEN -1 ELSE 0, cells |-> <<>>]
    ELSE IF off > fs.inode[i].size THEN [fs |-> fs, n |-> -1, cells |-> <<>>]
    ELSE Read(Mapped(fs, i, off, m), i, off, m)

\* Block bn of a file, which was old, with the cells at off.
Overlaid(old, bn, off, cells) ==
    [c \in 0..BSIZE - 1 |-> LET k == bn * BSIZE + c - off + 1 IN IF k \in DOMAIN cells THEN cells[k] ELSE old[c]]

\* The cells written at off, whose blocks are there.
Written(fs, i, off, cells) ==
    LET bns == off \div BSIZE .. (off + Len(cells) - 1) \div BSIZE
        home == [bn \in bns |-> bmap(fs, i, bn)[2]] IN
    [fs EXCEPT !.block = [b \in 1..NBLOCKS |->
        IF \E bn \in bns : home[bn] = b THEN Overlaid(@[b], CHOOSE bn \in bns : home[bn] = b, off, cells) ELSE @[b]]]

\* The size when cells have been written up to it.  A slip leaves the new size in memory.
GrowsInMemory(fs, i, size) == [fs EXCEPT !.inode[i].size = Max({@, size})]

Grows(fs, i, size) ==
    IF size > fs.inode[i].size THEN iupdate([fs EXCEPT !.inode[i].size = size], i) ELSE fs

\* The file system and the result of writing cells at off.
writei(fs, i, off, cells) ==
    LET n == Len(cells) IN
    IF fs.inode[i].type = "dev" THEN <<fs, IF fs.inode[i].major \in NoHandler THEN -1 ELSE n>>
    ELSE IF off > fs.inode[i].size \/ off + n > MAXFILE * BSIZE THEN <<fs, -1>>
    ELSE IF n = 0 THEN <<fs, n>>
    ELSE <<Grows(Written(Mapped(fs, i, off, n), i, off, cells), i, off + n), n>>
-----------------------------------------------------------------------------
\* Directories.  Names are compared and kept up to DIRSIZ characters.
Stored(name) == IF Len(name) > DIRSIZ THEN SubSeq(name, 1, DIRSIZ) ELSE name
Entries(fs, dp) == {k \in 0..fs.inode[dp].size - 1 : CellAt(fs, dp, k) # <<>>}

\* The inode found, referenced, or 0, and the place of its entry.  A search that fails has read
\* the whole directory.
Found(fs, dp, k) ==
    LET ip == CellAt(fs, dp, k)[2] IN
    [fs |-> iget(readi(fs, dp, 0, k + 1).fs, ip), ip |-> ip, off |-> k]
AmongEntries(fs, dp, places) ==
    IF places = {} THEN [fs |-> readi(fs, dp, 0, fs.inode[dp].size).fs, ip |-> 0, off |-> 0]
    ELSE Found(fs, dp, Min(places))

dirlookup(fs, dp, name) ==
    IF fs.inode[dp].type # "dir" THEN [fs |-> Panics(fs), ip |-> 0, off |-> 0]
    ELSE AmongEntries(fs, dp, {k \in Entries(fs, dp) : CellAt(fs, dp, k)[1] = Stored(name)})

\* A new entry at the first place that is empty, or at the end.
Checked(fs, w) == IF w[2] # 1 THEN <<Panics(fs), 0>> ELSE <<w[1], 0>>
NewEntry(fs, dp, name, inum) ==
    Checked(fs, writei(fs, dp, Min((0..fs.inode[dp].size) \ Entries(fs, dp)), <<<<Stored(name), inum>>>>))

\* What dirlink makes of its search d for the name.  A slip does not care about it.
EntersTwice(d, dp, name, inum) == NewEntry(d.fs, dp, name, inum)
Enters(d, dp, name, inum) == IF d.ip # 0 THEN <<iput(d.fs, d.ip), -1>> ELSE NewEntry(d.fs, dp, name, inum)

dirlink(fs, dp, name, inum) == Enters(dirlookup(fs, dp, name), dp, name, inum)

isdirempty(fs, dp) == \A k \in Entries(fs, dp) : k < 2

\* A path is a sequence of names, after "/" if it is absolute.
Absolute(path) == path # <<>> /\ path[1] = "/"
Names(path) == IF Absolute(path) THEN Tail(path) ELSE path

\* One path element: x.last says that nameiparent stops at the directory reached.
Descends(d, dp) == [fs |-> iput(d.fs, dp), ip |-> d.ip, last |-> FALSE]
InDirectory(fs, dp, name, last) ==
    IF fs.inode[dp].type # "dir" THEN [fs |-> iput(fs, dp), ip |-> 0, last |-> FALSE]
    ELSE IF last THEN [fs |-> fs, ip |-> dp, last |-> TRUE]
    ELSE Descends(dirlookup(fs, dp, name), dp)
Element(x, name, last) == IF x.ip = 0 THEN x ELSE InDirectory(ilock(x.fs, x.ip), x.ip, name, last)

\* The result of a walk: nameiparent of a path without names has none.
Reached(x, parent) == IF parent /\ x.ip # 0 /\ ~x.last THEN <<iput(x.fs, x.ip), 0>> ELSE <<x.fs, x.ip>>

namex(fs, cwd, path, parent) ==
    LET names == Names(path)
        start == IF Absolute(path) THEN [fs |-> iget(fs, ROOTINO), ip |-> ROOTINO, last |-> FALSE]
                 ELSE [fs |-> idup(fs, cwd), ip |-> cwd, last |-> FALSE] IN
    Reached(FoldLeft(LAMBDA x, k : Element(x, names[k], parent /\ k = Len(names)), start, [k \in DOMAIN names |-> k]), parent)

namei(fs, cwd, path) == namex(fs, cwd, path, FALSE)
nameiparent(fs, cwd, path) == namex(fs, cwd, path, TRUE)
-----------------------------------------------------------------------------
\* The calls of sysfile.c that change names.  Each gives the file system and a result; an operator
\* stands for what is left of a call after one of its tests.

AddLinks(fs, ip, n) == iupdate([fs EXCEPT !.inode[ip].nlink = @ + n], ip)

\* link: the label bad.  A slip keeps the reference.
LinkBadKeepsRef(fs, ip) == <<AddLinks(fs, ip, -1), -1>>
LinkBad(fs, ip) == <<iput(AddLinks(fs, ip, -1), ip), -1>>

LinkEntered(e, dp, ip) == IF e[2] = 0 THEN <<iput(iput(e[1], dp), ip), 0>> ELSE LinkBad(iput(e[1], dp), ip)
LinkInto(d, name, ip) ==
    IF d[2] = 0 THEN LinkBad(d[1], ip) ELSE LinkEntered(dirlink(ilock(d[1], d[2]), d[2], name, ip), d[2], ip)
LinkTo(fs, cwd, ip, new) ==
    IF fs.inode[ip].type = "dir" THEN <<iput(fs, ip), -1>>
    ELSE LinkInto(nameiparent(AddLinks(fs, ip, 1), cwd, new), Last(new), ip)
LinkFrom(o, cwd, new) == IF o[2] = 0 THEN <<o[1], -1>> ELSE LinkTo(ilock(o[1], o[2]), cwd, o[2], new)

link(fs, cwd, old, new) == LinkFrom(namei(fs, cwd, old), cwd, new)

\* unlink: a directory that goes takes its ".." with it.
WithoutChild(fs, dp, isdir) == IF isdir THEN AddLinks(fs, dp, -1) ELSE fs
Erased(fs, dp, ip, off) == WithoutChild(writei(fs, dp, off, <<<<>>>>)[1], dp, fs.inode[ip].type = "dir")
UnlinkEntry(fs, dp, ip, off) ==
    IF fs.inode[ip].nlink < 1 THEN <<Panics(fs), -1>>
    ELSE IF fs.inode[ip].type = "dir" /\ ~isdirempty(fs, ip) THEN <<iput(iput(fs, ip), dp), -1>>
    ELSE <<iput(AddLinks(iput(Erased(fs, dp, ip, off), dp), ip, -1), ip), 0>>
UnlinkFound(d, dp) == IF d.ip = 0 THEN <<iput(d.fs, dp), -1>> ELSE UnlinkEntry(ilock(d.fs, d.ip), dp, d.ip, d.off)
UnlinkIn(fs, dp, name) ==
    IF name \in {".", ".."} THEN <<iput(fs, dp), -1>> ELSE UnlinkFound(dirlookup(fs, dp, name), dp)
UnlinkFrom(n, name) == IF n[2] = 0 THEN <<n[1], -1>> ELSE UnlinkIn(ilock(n[1], n[2]), n[2], name)

unlink(fs, cwd, path) == UnlinkFrom(nameiparent(fs, cwd, path), Last(path))

\* The inode created or opened, referenced; 0 if that fails.
Born(fs, ip, major) == iupdate([ilock(fs, ip) EXCEPT !.inode[ip].nlink = 1, !.inode[ip].major = major], ip)
Dots(fs, dp, ip) == dirlink(dirlink(fs, ip, ".", ip)[1], ip, "..", dp)[1]
Furnished(fs, dp, ip, type) == IF type = "dir" THEN Dots(AddLinks(fs, dp, 1), dp, ip) ELSE fs
CreateNew(a, dp, name, type, major) ==
    <<iput(dirlink(Furnished(Born(a[1], a[2], major), dp, a[2], type), dp, name, a[2])[1], dp), a[2]>>
CreateOld(fs, ip, type) ==
    IF type = "file" /\ fs.inode[ip].type = "file" THEN <<fs, ip>> ELSE <<iput(fs, ip), 0>>
CreateIn(d, dp, name, type, major) ==
    IF d.ip # 0 THEN CreateOld(ilock(iput(d.fs, dp), d.ip), d.ip, type)
    ELSE CreateNew(ialloc(d.fs, type), dp, name, type, major)
CreateFrom(n, name, type, major) ==
    IF n[2] = 0 THEN <<n[1], 0>>
    ELSE CreateIn(dirlookup(ilock(n[1], n[2]), n[2], name), n[2], name, type, major)

create(fs, cwd, path, type, major) == CreateFrom(nameiparent(fs, cwd, path), Last(path), type, major)
-----------------------------------------------------------------------------
\* mkfs.c: inodes have one link from the start.  A file is its name and its cells; they are
\* appended a block at a time, until the disk is full: then mkfs stops, which panic stands for.
MkfsAppends(fs, i, cells) ==
    LET w == writei(fs, i, fs.inode[i].size, cells)[1] IN
    IF fs.panic \/ w.panic THEN Panics(fs) ELSE iupdate(w, i)

MkfsAllocates(fs, type) ==
    LET i == Min({j \in Inums : fs.inode[j].type = "none"}) IN
    IF fs.panic THEN <<fs, i>> ELSE <<iupdate([fs EXCEPT !.inode[i].type = type, !.inode[i].nlink = 1], i), i>>

Chunks(cells) == [k \in 1..(Len(cells) + BSIZE - 1) \div BSIZE |-> SubSeq(cells, (k - 1) * BSIZE + 1, Min({k * BSIZE, Len(cells)}))]

MkfsAdds(fs, name, cells) ==
    LET a == MkfsAllocates(fs, "file") IN
    FoldLeft(LAMBDA f, chunk : MkfsAppends(f, a[2], chunk), MkfsAppends(a[1], ROOTINO, <<<<Stored(name), a[2]>>>>), Chunks(cells))

\* In the end the size of the root directory is rounded up, to one block more if its last is full,
\* and the map of the blocks in use is written.
mkfs(files) ==
    LET root == MkfsAllocates(EmptyDisk, "dir")[1]
        dots == MkfsAppends(MkfsAppends(root, ROOTINO, <<<<".", ROOTINO>>>>), ROOTINO, <<<<"..", ROOTINO>>>>)
        full == FoldLeft(LAMBDA fs, f : MkfsAdds(fs, f[1], f[2]), dots, files) IN
    IF full.panic THEN [full EXCEPT !.panic = FALSE, !.used = {}]
    ELSE iupdate([full EXCEPT !.inode[ROOTINO].size = ((@ \div BSIZE) + 1) * BSIZE], ROOTINO)
-----------------------------------------------------------------------------
\* What a check of a disk looks at, as if it were in memory.
OnDisk(fs) == [fs EXCEPT !.inode = fs.disk, !.valid = {}]

Allocated(fs) == {i \in Inums : fs.inode[i].type # "none"}
Directories(fs) == {i \in Inums : fs.inode[i].type = "dir"}

\* Directories without a name, which somebody is still in.
Removed(fs) == {i \in Directories(fs) : fs.inode[i].nlink = 0}

\* The entries that name inode i: not ".", nor the ".." of the root or of a removed directory.
NamesOf(fs, i) ==
    {at \in UNION {{dp} \X Entries(fs, dp) : dp \in Directories(fs)} :
        LET e == CellAt(fs, at[1], at[2]) IN
        e[2] = i /\ e[1] # "." /\ ~(e[1] = ".." /\ at[1] \in Removed(fs) \cup {ROOTINO})}

\* All blocks of inodes are in use and nothing else is, none by two.
BlocksApart(fs) ==
    /\ fs.used = UNION {BlocksOf(fs, fs.inode[i]) : i \in Allocated(fs)}
    /\ \A i, j \in Allocated(fs) : i # j => BlocksOf(fs, fs.inode[i]) \cap BlocksOf(fs, fs.inode[j]) = {}

\* An inode has as many links as names (the root has one more), entries name inodes that there are,
\* and no inode is without names but those in users.
Consistent(fs, users) ==
    /\ \A i \in Allocated(fs) :
        fs.inode[i].nlink = Cardinality(NamesOf(fs, i)) + (IF i = ROOTINO THEN 1 ELSE 0)
    /\ \A dp \in Directories(fs) \ Removed(fs) : \A k \in Entries(fs, dp) : CellAt(fs, dp, k)[2] \in Allocated(fs)
    /\ \A i \in Allocated(fs) : fs.inode[i].nlink = 0 => i \in users
    /\ BlocksApart(fs)
=============================================================================
