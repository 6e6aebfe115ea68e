------------------------------- MODULE Inodes -------------------------------
(***************************************************************************)
(* Calls on names by several processes at once: fs.c and sysfile.c, in the *)
(* sections that icache.lock and the sleep locks of inodes make atomic.    *)
(* Between two of them other processes go on.  FileSystem has the data and *)
(* what a section does to it.  A process has a list of steps to take, each *)
(* with the inodes i and j it is about, which it has a reference to.       *)
(***************************************************************************)
EXTENDS FileSystem

CONSTANTS Procs,
          Calls,     \* the calls they make: [op, path] and, for link, new
          MaxCalls,  \* of each
          Disk       \* the file system they find; nobody uses it

\* Inodes, and block bn of one, or 0; the last is the block that lists the others.
Inode == [type : {"none", "file", "dir", "dev"}, major : Int, nlink : Int, size : 0..MAXFILE * BSIZE, addrs : [0..NDIRECT -> 0..NBLOCKS]]
BlockAt(inode, block, bn) ==
    LET list == inode.addrs[NDIRECT] IN
    IF bn < NDIRECT THEN inode.addrs[bn]
    ELSE IF bn = MAXFILE THEN list
    ELSE IF list = 0 \/ block[list][bn - NDIRECT] = <<>> THEN 0 ELSE block[list][bn - NDIRECT][1]

\* The blocks in use are those of the inodes, and each is in one place.
Apart(disk, block, used) ==
    /\ \A i \in Inums, bn \in 0..MAXFILE : BlockAt(disk[i], block, bn) \in 0..NBLOCKS
    /\ used = {BlockAt(disk[i], block, bn) : i \in Inums, bn \in 0..MAXFILE} \ {0}
    /\ \A i, j \in Inums : \A a, b \in 0..MAXFILE :
        BlockAt(disk[i], block, a) = BlockAt(disk[j], block, b) /\ BlockAt(disk[i], block, a) # 0 => i = j /\ a = b

\* What a cell of a directory may be, and the cells of a list of blocks.
MayLead(cell) == cell = <<>> \/ cell[2] \in Inums
IsList(cells) == \A c \in 0..BSIZE - 1 : cells[c] = <<>> \/ \E b \in 1..NBLOCKS : cells[c] = <<b>>

\* A free inode has no blocks, another one has a block wherever it has cells; directories lead to inodes.
InodeInOrder(inode, block) ==
    /\ inode.type = "none" => \A bn \in 0..MAXFILE : BlockAt(inode, block, bn) = 0
    /\ \A bn \in 0..MAXFILE - 1 : bn * BSIZE < inode.size => BlockAt(inode, block, bn) # 0
    /\ inode.addrs[NDIRECT] # 0 => IsList(block[inode.addrs[NDIRECT]])
    /\ inode.type = "dir" => \A bn \in 0..MAXFILE - 1 : BlockAt(inode, block, bn) # 0 =>
                                \A c \in 0..BSIZE - 1 : MayLead(block[BlockAt(inode, block, bn)][c])

InOrder(disk, block, used) ==
    /\ disk \in [Inums -> Inode]
    /\ block = [b \in 1..NBLOCKS |-> [c \in 0..BSIZE - 1 |-> block[b][c]]]
    /\ Apart(disk, block, used)
    /\ \A i \in Inums : InodeInOrder(disk[i], block)

ASSUME InodesAssumption ==
    /\ IsFiniteSet(Procs) /\ 0 \notin Procs
    /\ \A c \in Calls : c.op \in {"close", "open", "link", "unlink", "file", "dir"}
    /\ Disk \in [disk : {Disk.disk}, inode : {Disk.inode}, ref : {[i \in Inums |-> 0]}, valid : {Disk.valid},
                 block : {Disk.block}, used : {Disk.used}, panic : {FALSE}]

\* Nothing has been read of the disk, and it is in order.
ASSUME DiskAssumption == Disk.valid = {} /\ Disk.inode \in [Inums -> Inode] /\ InOrder(Disk.disk, Disk.block, Disk.used)

VARIABLES fs,
          owner,     \* who holds the sleep lock of an inode; 0 is nobody
          todo,      \* the steps a process has left of its call
          call,      \* its call
          open,      \* the inode of the file it has open, or 0
          calls      \* how many calls it has begun

vars == <<fs, owner, todo, call, open, calls>>
cwd == ROOTINO

S(do, i) == [do |-> do, i |-> i, j |-> 0, names |-> <<>>]
S2(do, i, j) == [S(do, i) EXCEPT !.j = j]
Idle(p) == todo[p] = <<>>
Head1(p, do) == todo[p] # <<>> /\ todo[p][1].do = do /\ ~fs.panic
Rest(p) == Tail(todo[p])

\* A slip keeps the reference, another the lock.
JustUnlocks(i) == <<S("unlock", i)>>
JustPuts(i) == <<S("put", i)>>

iunlockput(i) == <<S("unlock", i), S("put", i)>>

\* Steps that begin with ilock or acquiresleep.
Locking == {"walk", "put", "opened", "linkOld", "linkNew", "bad", "unlinkDir", "unlinkEntry", "createIn", "createNew", "createOld"}

\* p takes the lock of i and keeps it, or lets go of it in the same step.
Locks(p, i) == owner[i] = 0 /\ owner' = [owner EXCEPT ![i] = p]
Visits(i) == owner[i] = 0 /\ UNCHANGED owner

\* What is left when a walk has given ip to the step that waits for it, or 0.
Given(rest, ip) ==
    IF ip # 0 THEN <<[rest[1] EXCEPT !.i = ip]>> \o Tail(rest)
    ELSE IF rest[1].do = "linkNew" THEN <<S("bad", rest[1].j)>> ELSE <<>>

Parent == {"linkNew", "unlinkDir", "createIn"}

\* namex goes on from i with these names: the step after it says whether it wants the parent.
Goes(i, names, rest) ==
    IF names # <<>> THEN <<[S("walk", i) EXCEPT !.names = names]>> \o rest
    ELSE IF rest[1].do \in Parent THEN <<S("put", i)>> \o Given(rest, 0) ELSE Given(rest, i)

Start(path) == IF Absolute(path) THEN ROOTINO ELSE cwd

Does(p, newfs, steps) ==
    /\ fs' = newfs
    /\ todo' = [todo EXCEPT ![p] = steps]
    /\ UNCHANGED <<call, calls>>
-----------------------------------------------------------------------------
\* One element of a path.
namex1(p) ==
    LET i == todo[p][1].i
        names == todo[p][1].names
        f == ilock(fs, i)
        d == dirlookup(f, i, names[1]) IN
    /\ Head1(p, "walk")
    /\ UNCHANGED open
    /\ \/ /\ f.panic \/ f.inode[i].type # "dir"
          /\ Locks(p, i) /\ Does(p, f, iunlockput(i) \o Given(Rest(p), 0))
       \/ /\ ~f.panic /\ f.inode[i].type = "dir" /\ Rest(p)[1].do \in Parent /\ Len(names) = 1
          /\ Visits(i) /\ Does(p, f, Given(Rest(p), i))
       \/ /\ ~f.panic /\ f.inode[i].type = "dir" /\ ~(Rest(p)[1].do \in Parent /\ Len(names) = 1)
          /\ Locks(p, i)
          /\ Does(p, d.fs, iunlockput(i) \o IF d.ip = 0 THEN Given(Rest(p), 0) ELSE Goes(d.ip, Tail(names), Rest(p)))

\* iunlock panics if p does not have the lock, or nobody has a reference.
Unlocked(p, i) == IF owner[i] = p /\ fs.ref[i] > 0 THEN fs ELSE Panics(fs)

iunlock(p) ==
    LET i == todo[p][1].i IN
    /\ Head1(p, "unlock")
    /\ owner' = [owner EXCEPT ![i] = 0]
    /\ Does(p, Unlocked(p, i), Rest(p)) /\ UNCHANGED open

\* iput: under the sleep lock it looks at the links, and under icache.lock at the count.  A slip
\* does not look at the count.
NoLinks(f, i) == i \in f.valid /\ f.inode[i].nlink = 0
LastUse(f, i) == NoLinks(f, i) /\ f.ref[i] = 1

IputLooks(p) ==
    LET i == todo[p][1].i IN
    /\ Head1(p, "put")
    /\ UNCHANGED open
    /\ IF LastUse(fs, i) THEN Locks(p, i) /\ Does(p, fs, <<S("free", i)>> \o Rest(p))
       ELSE Visits(i) /\ Does(p, fs, <<S("drop", i)>> \o Rest(p))

IputFrees(p) ==
    LET i == todo[p][1].i IN
    /\ Head1(p, "free")
    /\ owner' = [owner EXCEPT ![i] = 0]
    /\ Does(p, Frees(fs, i), <<S("drop", i)>> \o Rest(p)) /\ UNCHANGED open

IputDrops(p) ==
    /\ Head1(p, "drop")
    /\ Does(p, Drops(fs, todo[p][1].i), Rest(p)) /\ UNCHANGED <<owner, open>>
-----------------------------------------------------------------------------
\* open of a file that is there, to read; and close.
sys_open(p) ==
    LET i == todo[p][1].i IN
    /\ Head1(p, "opened")
    /\ Visits(i) /\ Does(p, ilock(fs, i), <<>>)
    /\ open' = [open EXCEPT ![p] = i]

\* link: the count goes up before the name is there, and down again if it cannot be.
LinkCounts(p) ==
    LET i == todo[p][1].i
        f == ilock(fs, i) IN
    /\ Head1(p, "linkOld")
    /\ UNCHANGED open
    /\ IF f.inode[i].type = "dir" THEN Locks(p, i) /\ Does(p, f, iunlockput(i))
       ELSE /\ Visits(i)
            /\ Does(p, idup(AddLinks(f, i, 1), Start(call[p].new)),
                    Goes(Start(call[p].new), Names(call[p].new), <<S2("linkNew", 0, i)>>))

LinkEnters(p) ==
    LET i == todo[p][1].i
        ip == todo[p][1].j
        d == dirlookup(ilock(fs, i), i, Last(call[p].new)) IN
    /\ Head1(p, "linkNew")
    /\ Locks(p, i) /\ UNCHANGED open
    /\ IF d.ip # 0 THEN Does(p, d.fs, <<S("put", d.ip)>> \o iunlockput(i) \o <<S("bad", ip)>>)
       ELSE Does(p, Enters(d, i, Last(call[p].new), ip)[1], iunlockput(i) \o <<S("put", ip)>>)

\* One slip forgets to, another does it in memory only.
LinkFailsCounted(p) ==
    LET i == todo[p][1].i IN
    /\ Head1(p, "bad")
    /\ Visits(i) /\ Does(p, ilock(fs, i), <<S("put", i)>>) /\ UNCHANGED open

LinkFailsInMemory(p) ==
    LET i == todo[p][1].i IN
    /\ Head1(p, "bad")
    /\ Visits(i) /\ Does(p, [ilock(fs, i) EXCEPT !.inode[i].nlink = @ - 1], <<S("put", i)>>) /\ UNCHANGED open

LinkFails(p) ==
    LET i == todo[p][1].i IN
    /\ Head1(p, "bad")
    /\ Visits(i) /\ Does(p, AddLinks(ilock(fs, i), i, -1), <<S("put", i)>>) /\ UNCHANGED open

\* unlink: the directory is locked first, then the inode; the directory is let go before the
\* count of links goes down.
UnlinkLooks(p) ==
    LET i == todo[p][1].i
        f == ilock(fs, i)
        d == dirlookup(f, i, Last(call[p].path)) IN
    /\ Head1(p, "unlinkDir")
    /\ Locks(p, i) /\ UNCHANGED open
    /\ IF Last(call[p].path) \in {".", ".."} THEN Does(p, f, iunlockput(i))
       ELSE Does(p, d.fs, IF d.ip = 0 THEN iunlockput(i) ELSE <<S2("unlinkEntry", d.ip, i)>>)

UnlinkErases(p) ==
    LET i == todo[p][1].i
        dp == todo[p][1].j
        f == ilock(fs, i)
        isdir == f.inode[i].type = "dir"
        d == dirlookup(f, dp, Last(call[p].path)) IN
    /\ Head1(p, "unlinkEntry")
    /\ Locks(p, i) /\ UNCHANGED open
    /\ IF f.inode[i].nlink < 1 THEN Does(p, Panics(f), <<>>)
       ELSE IF isdir /\ ~isdirempty(f, i) THEN Does(p, f, iunlockput(i) \o iunlockput(dp))
       ELSE Does(p, Erased(f, dp, i, d.off), iunlockput(dp) \o <<S("unlinked", i)>> \o iunlockput(i))

UnlinkCounts(p) ==
    /\ Head1(p, "unlinked")
    /\ Does(p, AddLinks(fs, todo[p][1].i, -1), Rest(p)) /\ UNCHANGED <<owner, open>>

\* create, for open with O_CREATE and for mkdir.  An inode that is there is locked after the
\* directory has been let go; a new one before.
CreateLooks(p) ==
    LET i == todo[p][1].i
        f == ilock(fs, i)
        d == dirlookup(f, i, Last(call[p].path))
        a == ialloc(d.fs, call[p].op) IN
    /\ Head1(p, "createIn")
    /\ Locks(p, i) /\ UNCHANGED open
    /\ IF d.ip # 0 THEN Does(p, d.fs, iunlockput(i) \o <<S("createOld", d.ip)>>)
       ELSE Does(p, a[1], <<S2("createNew", a[2], i)>>)

CreateEnters(p) ==
    LET i == todo[p][1].i
        dp == todo[p][1].j
        new == Furnished(Born(fs, i, 0), dp, i, call[p].op) IN
    /\ Head1(p, "createNew")
    /\ Locks(p, i) /\ UNCHANGED open
    /\ Does(p, dirlink(new, dp, Last(call[p].path), i)[1],
            iunlockput(dp) \o IF call[p].op = "dir" THEN iunlockput(i) ELSE <<S("made", i)>>)

CreateFinds(p) ==
    LET i == todo[p][1].i
        f == ilock(fs, i) IN
    /\ Head1(p, "createOld")
    /\ Locks(p, i) /\ UNCHANGED open
    /\ Does(p, f, IF call[p].op = "file" /\ f.inode[i].type = "file" THEN <<S("made", i)>> ELSE iunlockput(i))

CreateOpens(p) ==
    LET i == todo[p][1].i IN
    /\ Head1(p, "made")
    /\ owner' = [owner EXCEPT ![i] = 0] /\ open' = [open EXCEPT ![p] = i]
    /\ Does(p, Unlocked(p, i), <<>>)
-----------------------------------------------------------------------------
First == [open |-> "opened", link |-> "linkOld", unlink |-> "unlinkDir", file |-> "createIn", dir |-> "createIn"]

\* A process has one file open at a time, which a call "close" closes.
Begins(p) ==
    /\ Idle(p) /\ calls[p] < MaxCalls /\ ~fs.panic
    /\ calls' = [calls EXCEPT ![p] = @ + 1]
    /\ \E c \in Calls :
        /\ call' = [call EXCEPT ![p] = c]
        /\ \/ /\ c.op = "close" /\ open[p] # 0
              /\ todo' = [todo EXCEPT ![p] = <<S("put", open[p])>>]
              /\ open' = [open EXCEPT ![p] = 0] /\ UNCHANGED fs
           \/ /\ c.op # "close" /\ (c.op \in {"open", "file"} => open[p] = 0)
              /\ fs' = idup(fs, Start(c.path))
              /\ todo' = [todo EXCEPT ![p] = Goes(Start(c.path), Names(c.path), <<S(First[c.op], 0)>>)]
              /\ UNCHANGED open
    /\ UNCHANGED owner

Steps(p) ==
    \/ namex1(p) \/ iunlock(p) \/ IputLooks(p) \/ IputFrees(p) \/ IputDrops(p) \/ sys_open(p)
    \/ LinkCounts(p) \/ LinkEnters(p) \/ LinkFails(p) \/ UnlinkLooks(p) \/ UnlinkErases(p) \/ UnlinkCounts(p)
    \/ CreateLooks(p) \/ CreateEnters(p) \/ CreateFinds(p) \/ CreateOpens(p)

\* Nobody has a call to make or to finish.
Ends == (\A p \in Procs : Idle(p) /\ calls[p] = MaxCalls) /\ UNCHANGED vars

Init ==
    /\ fs = idup(Disk, cwd)
    /\ owner = [i \in Inums |-> 0]
    /\ todo = [p \in Procs |-> <<>>] /\ call = [p \in Procs |-> [op |-> "none"]]
    /\ open = [p \in Procs |-> 0] /\ calls = [p \in Procs |-> 0]

Next == (\E p \in Procs : Begins(p) \/ Steps(p)) \/ Ends
Spec == Init /\ [][Next]_vars
-----------------------------------------------------------------------------
\* No interleaving reaches a panic of fs.c: an inode that is referenced is not freed, a block that
\* is free is not freed again, the cache does not run out of entries.
NoPanic == ~fs.panic

\* The places where steps hold a reference to inode i; and those of p, its file among them.  A step
\* that waits keeps its place as others go by before it: places are counted from the end.
Needs(step, i) == step.i = i /\ step.do \notin {"unlock", "unlinked"}
Places(steps, i) == {<<"i", k>> : k \in {k \in DOMAIN steps : Needs(steps[k], i)}}
                    \cup {<<"j", k>> : k \in {k \in DOMAIN steps : steps[k].j = i}}
Held(p, i) == Places(Reverse(todo[p]), i) \cup (IF open[p] = i THEN {<<"open", 0>>} ELSE {})

\* No reference is lost and none is left over, at any step of any call.
ReferencesHeld ==
    ~fs.panic => \A i \in Inums :
        fs.ref[i] = Cardinality(UNION {{p} \X Held(p, i) : p \in Procs}) + (IF i = cwd THEN 1 ELSE 0)

\* A process has the lock of an inode for one of its steps and only one, which lets it go or leaves
\* that to the next: no lock is let go twice, and none is left by a call that has returned.
Releases(step, i) ==
    \/ step.i = i /\ step.do \in {"unlock", "free", "made"}
    \/ step.j = i /\ step.do \in {"unlinkEntry", "createNew"}
LocksHeld ==
    ~fs.panic => \A p \in Procs, i \in Inums :
        Cardinality({k \in DOMAIN todo[p] : Releases(todo[p][k], i)}) = IF owner[i] = p THEN 1 ELSE 0

\* When no call is under way, which is when the log commits, the disk is in order: each inode has
\* as many links as names, and the blocks in use are those of the inodes.
QuietConsistent == (\A p \in Procs : Idle(p)) => Consistent(OnDisk(fs), Inums)

\* Then, too, an inode without links is used by somebody: iput freed it otherwise.
NothingLeaks == (\A p \in Procs : Idle(p)) => \A i \in Inums : fs.disk[i].type # "none" /\ fs.disk[i].nlink = 0 => fs.ref[i] > 0

\* The cache is write-through: an inode that nobody has locked is the same in the cache and on
\* the disk.
CacheIsDisk == ~fs.panic => \A i \in fs.valid : fs.ref[i] > 0 /\ owner[i] = 0 => fs.inode[i] = fs.disk[i]

\* The process that holds the lock p waits for, if any.
WaitsFor(p) == IF todo[p] # <<>> /\ todo[p][1].do \in Locking THEN owner[todo[p][1].i] ELSE 0

\* Processes do not wait for each other in a circle, nor one for itself.
NoCircularWait == ~ \E circle \in SUBSET Procs \ {{}} : \A p \in circle : WaitsFor(p) \in circle

=============================================================================
