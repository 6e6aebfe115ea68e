----------------------------- MODULE InodesProofs -----------------------------
(* Proofs about Inodes for any finite set of processes, any calls on any       *)
(* paths and any size of the file system and of the cache.  For the references *)
(* and the locks what the directories hold does not matter: a name may lead    *)
(* anywhere.  That the disk stays in order, and the cache with it, takes a     *)
(* disk that is in order to begin with.                                        *)
EXTENDS Inodes, FiniteSetTheorems, FunctionTheorems, SequenceTheorems, WellFoundedInduction, TLAPS

-----------------------------------------------------------------------------
(* What an operator of FileSystem does to the counts of references *)

IsFS(f) ==
  f \in [disk : {f.disk}, inode : {f.inode}, ref : [Inums -> Int], valid : {f.valid},
         block : {f.block}, used : {f.used}, panic : BOOLEAN]

\* n references more to inode i, unless it panics.
Moves(f, g, i, n) ==
  /\ IsFS(g) /\ (f.panic => g.panic)
  /\ ~g.panic => g.ref = [f.ref EXCEPT ![i] = @ + n]

Keeps(f, g) == IsFS(g) /\ (f.panic => g.panic) /\ (~g.panic => g.ref = f.ref)

\* References are not owed.
Counted(f) == IsFS(f) /\ (~f.panic => f.ref \in [Inums -> Nat])

LEMMA PanicsKeeps ==
  ASSUME NEW f, IsFS(f)
  PROVE  Keeps(f, Panics(f)) /\ Panics(f).panic
BY DEF Keeps, IsFS, Panics

LEMMA iupdateKeeps ==
  ASSUME NEW f, IsFS(f), NEW i
  PROVE  Keeps(f, iupdate(f, i))
BY DEF Keeps, IsFS, iupdate

LEMMA AddLinksKeeps ==
  ASSUME NEW f, IsFS(f), NEW i, NEW n
  PROVE  Keeps(f, AddLinks(f, i, n))
BY DEF Keeps, IsFS, iupdate, AddLinks

LEMMA bfreeKeeps ==
  ASSUME NEW f, IsFS(f), NEW B
  PROVE  Keeps(f, bfree(f, B))
BY PanicsKeeps DEF Keeps, IsFS, bfree

LEMMA itruncKeeps ==
  ASSUME NEW f, IsFS(f), NEW i
  PROVE  Keeps(f, itrunc(f, i))
<1> DEFINE g == bfree(f, BlocksOf(f, f.inode[i]))
<1>1. Keeps(f, g)
  BY bfreeKeeps
<1> HIDE DEF g
<1>2. Keeps(f, iupdate([g EXCEPT !.inode[i].addrs = NoInode.addrs, !.inode[i].size = 0], i))
  BY <1>1 DEF Keeps, IsFS, iupdate
<1> QED
  BY <1>2 DEF itrunc, g

LEMMA FreesKeeps ==
  ASSUME NEW f, IsFS(f), NEW i
  PROVE  Keeps(f, Frees(f, i))
<1> DEFINE g == itrunc(f, i)
<1>1. Keeps(f, g)
  BY itruncKeeps
<1> HIDE DEF g
<1> QED
  BY <1>1 DEF Keeps, IsFS, iupdate, Frees, g

LEMMA ilockKeeps ==
  ASSUME NEW f, IsFS(f), NEW i
  PROVE  Keeps(f, ilock(f, i))
BY DEF Keeps, IsFS, ilock, Panics

LEMMA idupMoves ==
  ASSUME NEW f, IsFS(f), NEW i
  PROVE  Moves(f, idup(f, i), i, 1)
BY DEF Moves, IsFS, idup

LEMMA DropsMoves ==
  ASSUME NEW f, IsFS(f), NEW i
  PROVE  Moves(f, Drops(f, i), i, -1)
BY DEF Moves, IsFS, Drops

LEMMA igetMoves ==
  ASSUME NEW f, Counted(f), NEW i
  PROVE  Moves(f, iget(f, i), i, 1)
<1>1. CASE f.ref[i] > 0
  BY <1>1, idupMoves DEF Counted, iget
<1>2. CASE ~(f.ref[i] > 0) /\ Cardinality({j \in Inums : f.ref[j] > 0}) = NINODE
  BY <1>2, PanicsKeeps DEF Counted, Keeps, Moves, iget
<1>3. CASE ~(f.ref[i] > 0) /\ Cardinality({j \in Inums : f.ref[j] > 0}) # NINODE
  <2> DEFINE g == [f EXCEPT !.ref[i] = 1, !.valid = @ \ {i}]
  <2>0. IsFS(f)
    BY DEF Counted
  <2>1. IsFS(g) /\ g.panic = f.panic /\ g.ref = [f.ref EXCEPT ![i] = 1]
    <3> DEFINE h == [f EXCEPT !.ref[i] = 1]
    <3>1. IsFS(h) /\ h.panic = f.panic /\ h.ref = [f.ref EXCEPT ![i] = 1] /\ h.valid = f.valid
      BY <2>0 DEF IsFS
    <3> HIDE DEF h
    <3>2. g = [h EXCEPT !.valid = @ \ {i}]
      BY <2>0, <3>1 DEF h
    <3> QED
      BY <3>1, <3>2 DEF IsFS
  <2>2. ASSUME ~f.panic
        PROVE  [f.ref EXCEPT ![i] = 1] = [f.ref EXCEPT ![i] = @ + 1]
    BY <1>3, <2>2 DEF Counted, IsFS
  <2>3. iget(f, i) = g
    BY <1>3 DEF iget
  <2> QED
    BY <2>1, <2>2, <2>3 DEF Moves
<1> QED
  BY <1>1, <1>2, <1>3

LEMMA iputMoves ==
  ASSUME NEW f, IsFS(f), NEW i
  PROVE  Moves(f, iput(f, i), i, -1)
<1>1. Keeps(f, Frees(f, i))
  BY FreesKeeps
<1>2. Moves(Frees(f, i), Drops(Frees(f, i), i), i, -1)
  BY <1>1, DropsMoves DEF Keeps
<1>3. Moves(f, Drops(f, i), i, -1)
  BY DropsMoves
<1> QED
  BY <1>1, <1>2, <1>3 DEF Keeps, Moves, iput

LEMMA iallocMoves ==
  ASSUME NEW f, Counted(f), NEW type
  PROVE  Moves(f, ialloc(f, type)[1], ialloc(f, type)[2], 1)
<1> DEFINE free == {i \in Inums : f.disk[i].type = "none"}
           new == [f EXCEPT !.disk[Min(free)] = [NoInode EXCEPT !.type = type]]
<1>1. CASE free = {}
  BY <1>1, PanicsKeeps DEF Counted, Keeps, Moves, ialloc
<1>2. CASE free # {}
  <2>1. Counted(new) /\ new.ref = f.ref /\ new.panic = f.panic
    BY DEF Counted, IsFS
  <2>2. Moves(new, iget(new, Min(free)), Min(free), 1)
    BY <2>1, igetMoves
  <2>3. ialloc(f, type)[1] = iget(new, Min(free)) /\ ialloc(f, type)[2] = Min(free)
    BY <1>2 DEF ialloc
  <2> QED
    BY <2>1, <2>2, <2>3 DEF Moves
<1> QED
  BY <1>1, <1>2

LEMMA MappedKeeps ==
  ASSUME NEW f, IsFS(f), NEW i, NEW off, NEW n
  PROVE  Keeps(f, Mapped(f, i, off, n))
<1>1. \A g : Keeps(f, Allocates(f, g))
  BY DEF Keeps, IsFS, Allocates
<1> QED
  BY <1>1 DEF Mapped, Keeps

LEMMA readiKeeps ==
  ASSUME NEW f, IsFS(f), NEW i, NEW off, NEW n
  PROVE  Keeps(f, readi(f, i, off, n).fs)
<1> DEFINE m == Min({n, f.inode[i].size - off})
           g == Mapped(f, i, off, m)
<1>1. Keeps(f, g)
  BY MappedKeeps
<1>2. Read(g, i, off, m).fs = g
  BY DEF Read
<1>3. Keeps(f, f)
  BY DEF Keeps
<1> HIDE DEF g, m
<1>4. readi(f, i, off, n).fs \in {f, g}
  BY <1>2 DEF readi, g, m
<1> QED
  BY <1>1, <1>3, <1>4

LEMMA writeiKeeps ==
  ASSUME NEW f, IsFS(f), NEW i, NEW off, NEW cells
  PROVE  Keeps(f, writei(f, i, off, cells)[1])
<1> DEFINE n == Len(cells)
           g == Mapped(f, i, off, n)
           w == Written(g, i, off, cells)
           h == Grows(w, i, off + n)
<1>1. Keeps(f, g)
  BY MappedKeeps
<1>2. Keeps(g, w)
  BY <1>1 DEF Keeps, IsFS, Written
<1>3. Keeps(w, h)
  BY <1>2, iupdateKeeps DEF Keeps, IsFS, Grows, iupdate
<1>4. Keeps(f, f) /\ Keeps(f, h)
  BY <1>1, <1>2, <1>3 DEF Keeps
<1>5. writei(f, i, off, cells)[1] \in {f, h}
  BY DEF writei
<1> QED
  BY <1>4, <1>5

LEMMA NewEntryKeeps ==
  ASSUME NEW f, IsFS(f), NEW dp, NEW name, NEW inum
  PROVE  Keeps(f, NewEntry(f, dp, name, inum)[1])
<1> DEFINE w == writei(f, dp, Min((0..f.inode[dp].size) \ Entries(f, dp)), <<<<Stored(name), inum>>>>)
<1>1. Keeps(f, w[1])
  BY writeiKeeps
<1> HIDE DEF w
<1>2. Keeps(f, Checked(f, w)[1])
  BY <1>1, PanicsKeeps DEF Checked
<1> QED
  BY <1>2 DEF NewEntry, w

\* The inode found is referenced.
LEMMA dirlookupMoves ==
  ASSUME NEW f, Counted(f), NEW dp, NEW name
  PROVE  Moves(f, dirlookup(f, dp, name).fs, dirlookup(f, dp, name).ip, 1)
<1> DEFINE places == {k \in Entries(f, dp) : CellAt(f, dp, k)[1] = Stored(name)}
           k == Min(places)
           ip == CellAt(f, dp, k)[2]
           r == readi(f, dp, 0, k + 1).fs
           all == readi(f, dp, 0, f.inode[dp].size).fs
<1>1. Keeps(f, r) /\ Keeps(f, all)
  BY readiKeeps DEF Counted
<1>2. CASE f.inode[dp].type # "dir"
  BY <1>2, PanicsKeeps DEF Counted, Keeps, Moves, dirlookup
<1>3. CASE f.inode[dp].type = "dir" /\ places = {}
  <2>1. dirlookup(f, dp, name).fs = all /\ dirlookup(f, dp, name).ip = 0
    BY <1>3 DEF dirlookup, AmongEntries
  <2>2. 0 \notin Inums
    BY DEF Inums
  <2> QED
    BY <1>1, <2>1, <2>2 DEF Keeps, Moves, IsFS, Counted
<1>4. CASE f.inode[dp].type = "dir" /\ places # {}
  <2>1. dirlookup(f, dp, name).fs = iget(r, ip) /\ dirlookup(f, dp, name).ip = ip
    BY <1>4 DEF dirlookup, AmongEntries, Found
  <2>2. Counted(r)
    BY <1>1 DEF Keeps, Counted
  <2>3. Moves(r, iget(r, ip), ip, 1)
    BY <2>2, igetMoves
  <2> QED
    BY <1>1, <2>1, <2>3 DEF Keeps, Moves
<1> QED
  BY <1>2, <1>3, <1>4

\* An entry is made, or the inode found is let go.
LEMMA dirlinkKeeps ==
  ASSUME NEW f, Counted(f), NEW dp, NEW name, NEW inum
  PROVE  Keeps(f, dirlink(f, dp, name, inum)[1])
<1> DEFINE d == dirlookup(f, dp, name)
<1>1. Moves(f, d.fs, d.ip, 1)
  BY dirlookupMoves
<1> HIDE DEF d
<1>2. CASE d.ip # 0
  <2>1. Moves(d.fs, iput(d.fs, d.ip), d.ip, -1)
    BY <1>1, iputMoves DEF Moves
  <2>2. Keeps(f, iput(d.fs, d.ip))
    BY <1>1, <2>1 DEF Moves, Keeps, IsFS, Counted
  <2> QED
    BY <1>2, <2>2 DEF dirlink, Enters, d
<1>3. CASE d.ip = 0
  <2>1. Keeps(d.fs, NewEntry(d.fs, dp, name, inum)[1])
    BY <1>1, NewEntryKeeps DEF Moves
  <2>2. 0 \notin Inums
    BY DEF Inums
  <2>3. Keeps(f, NewEntry(d.fs, dp, name, inum)[1])
    BY <1>1, <1>3, <2>1, <2>2 DEF Moves, Keeps, IsFS, Counted
  <2> QED
    BY <1>3, <2>3 DEF dirlink, Enters, d
<1> QED
  BY <1>2, <1>3

LEMMA ErasedKeeps ==
  ASSUME NEW f, IsFS(f), NEW dp, NEW ip, NEW off
  PROVE  Keeps(f, Erased(f, dp, ip, off))
<1> DEFINE w == writei(f, dp, off, <<<<>>>>)[1]
<1>1. Keeps(f, w)
  BY writeiKeeps
<1>2. Keeps(w, AddLinks(w, dp, -1))
  BY <1>1, AddLinksKeeps DEF Keeps
<1> HIDE DEF w
<1> QED
  BY <1>1, <1>2 DEF Keeps, Erased, WithoutChild, w

LEMMA BornKeeps ==
  ASSUME NEW f, IsFS(f), NEW ip, NEW major
  PROVE  Keeps(f, Born(f, ip, major))
<1> DEFINE g == ilock(f, ip)
<1>1. Keeps(f, g)
  BY ilockKeeps
<1> HIDE DEF g
<1> QED
  BY <1>1 DEF Keeps, IsFS, iupdate, Born, g

LEMMA FurnishedKeeps ==
  ASSUME NEW f, Counted(f), NEW dp, NEW ip, NEW type
  PROVE  Keeps(f, Furnished(f, dp, ip, type))
<1> DEFINE g == AddLinks(f, dp, 1)
           h == dirlink(g, ip, ".", ip)[1]
<1>1. Keeps(f, g)
  BY AddLinksKeeps DEF Counted
<1>2. Keeps(g, h)
  BY <1>1, dirlinkKeeps DEF Keeps, Counted
<1>3. Keeps(h, dirlink(h, ip, "..", dp)[1])
  BY <1>1, <1>2, dirlinkKeeps DEF Keeps, Counted
<1> HIDE DEF g, h
<1>4. Keeps(f, Dots(g, dp, ip)) /\ Keeps(f, f)
  BY <1>1, <1>2, <1>3 DEF Keeps, Counted, Dots, g, h
<1> QED
  BY <1>4 DEF Furnished, g

-----------------------------------------------------------------------------
(* Sequences of anything *)

IsSeq(s) == \E D : s \in Seq(D)

LEMMA SeqConsIs ==
  ASSUME NEW s, IsSeq(s), NEW x
  PROVE  IsSeq(<<x>> \o s)
<1>1. PICK D : s \in Seq(D)
  BY DEF IsSeq
<1>2. s \in Seq(D \cup {x}) /\ <<x>> \in Seq(D \cup {x})
  BY <1>1
<1>3. <<x>> \o s \in Seq(D \cup {x})
  BY <1>2
<1> QED
  BY <1>3 DEF IsSeq

LEMMA SeqConsAt ==
  ASSUME NEW s, IsSeq(s), NEW x
  PROVE  /\ Len(s) \in Nat /\ Len(<<x>> \o s) = Len(s) + 1 /\ (<<x>> \o s)[1] = x
         /\ \A k \in 1..Len(s) : (<<x>> \o s)[k + 1] = s[k]
<1>1. PICK D : s \in Seq(D)
  BY DEF IsSeq
<1>2. s \in Seq(D \cup {x}) /\ <<x>> \in Seq(D \cup {x}) /\ Len(s) \in Nat
  BY <1>1
<1> QED
  BY <1>2, ConcatProperties

LEMMA SeqConsTail ==
  ASSUME NEW s, IsSeq(s), NEW x
  PROVE  Tail(<<x>> \o s) = s /\ <<x>> \o s # <<>>
<1>1. PICK D : s \in Seq(D)
  BY DEF IsSeq
<1> DEFINE E == D \cup {x}
           t == <<x>> \o s
<1>2. s \in Seq(E) /\ <<x>> \in Seq(E) /\ Len(s) \in Nat
  BY <1>1
<1>3. t \in Seq(E)
  BY <1>2
<1>4. Len(t) = Len(s) + 1 /\ \A k \in 1..Len(s) : t[k + 1] = s[k]
  BY <1>2, ConcatProperties
<1>5. t # <<>>
  BY <1>2, <1>3, <1>4
<1>6. Tail(t) \in Seq(E) /\ Len(Tail(t)) = Len(s) /\ \A k \in 1..Len(s) : Tail(t)[k] = s[k]
  BY <1>2, <1>3, <1>4, <1>5
<1>7. Tail(t) = s
  BY <1>2, <1>6, SeqEqual
<1> QED
  BY <1>5, <1>7

LEMMA SeqUncons ==
  ASSUME NEW s, IsSeq(s), s # <<>>
  PROVE  /\ IsSeq(Tail(s)) /\ s = <<s[1]>> \o Tail(s)
<1>1. PICK D : s \in Seq(D)
  BY DEF IsSeq
<1>2. Tail(s) \in Seq(D) /\ s[1] \in D /\ <<s[1]>> \in Seq(D) /\ Len(Tail(s)) = Len(s) - 1 /\ Len(s) \in Nat
  BY <1>1
<1>3. \A k \in 1..Len(s) - 1 : Tail(s)[k] = s[k + 1]
  BY <1>1
<1> DEFINE t == <<s[1]>> \o Tail(s)
<1>4. t \in Seq(D) /\ Len(t) = Len(s) /\ \A k \in 1..Len(s) : t[k] = s[k]
  BY <1>2, <1>3, ConcatProperties
<1>5. s = t
  BY <1>1, <1>4, SeqEqual
<1> QED
  BY <1>2, <1>5 DEF IsSeq

LEMMA ReverseCons ==
  ASSUME NEW s, IsSeq(s), NEW x
  PROVE  /\ Len(Reverse(s)) = Len(s)
         /\ Reverse(<<x>> \o s) = Append(Reverse(s), x)
<1>1. PICK D : s \in Seq(D)
  BY DEF IsSeq
<1> DEFINE E == D \cup {x}
  t == <<x>> \o s
<1>2. s \in Seq(E) /\ <<x>> \in Seq(E) /\ Len(s) \in Nat
  BY <1>1
<1>3. t \in Seq(E) /\ Len(t) = Len(s) + 1 /\ t[1] = x /\ \A k \in 1..Len(s) : t[k + 1] = s[k]
  BY <1>2, ConcatProperties
<1>4. Reverse(s) \in Seq(E) /\ Len(Reverse(s)) = Len(s) 
  BY <1>2 DEF Reverse
<1> HIDE DEF E, t
<1>5. Reverse(t) \in Seq(E) /\ Len(Reverse(t)) = Len(s)+1 /\ \A k \in 1..Len(s)+1 : Reverse(t)[k] = t[Len(s)+2-k]
  BY <1>2, <1>3 DEF Reverse
<1>6. Append(Reverse(s), x) \in Seq(E) /\ Len(Append(Reverse(s), x)) = Len(s)+1
  BY <1>2, <1>4 DEF E
<1>7. ASSUME NEW k \in 1..Len(s)+1 PROVE Append(Reverse(s), x)[k] = Reverse(t)[k]
  <2>1. CASE k = Len(s)+1
    BY <2>1, <1>2, <1>3, <1>4, <1>5 DEF E
  <2>2. CASE k \in 1..Len(s)
    <3>1. Reverse(s)[k] = s[Len(s)-k+1]
      BY <2>2, <1>2 DEF Reverse
    <3>2. Append(Reverse(s), x)[k] = Reverse(s)[k]
      BY <2>2, <1>2, <1>4
    <3> DEFINE m == Len(s) - k + 1
    <3>3. m \in 1..Len(s) /\ Len(s) + 2 - k = m + 1
      BY <2>2, <1>2
    <3>4. Reverse(t)[k] = t[m + 1]
      BY <3>3, <1>5
    <3> HIDE DEF m
    <3>5. Reverse(t)[k] = s[m]
      BY <3>3, <3>4, <1>3
    <3> QED
      BY <3>1, <3>2, <3>5 DEF m
  <2>3. Len(s) \in Nat
    BY <1>2
  <2>4. k = Len(s) + 1 \/ k \in 1..Len(s)
    BY <2>3
  <2> QED
    BY <2>1, <2>2, <2>4
<1>8. Append(Reverse(s), x) = Reverse(t)
  BY <1>5, <1>6, <1>7, SeqEqual
<1> QED
  BY <1>4, <1>8 DEF t

LEMMA SeqLiterals ==
  /\ IsSeq(<<>>) /\ Len(<<>>) = 0
  /\ \A x : IsSeq(<<x>>) /\ Len(<<x>>) = 1 /\ <<x>>[1] = x /\ <<x>> \o <<>> = <<x>> /\ Tail(<<x>>) = <<>> /\ <<x>> # <<>>
<1>1. <<>> \in Seq({}) /\ Len(<<>>) = 0
  OBVIOUS
<1>2. ASSUME NEW x
      PROVE  IsSeq(<<x>>) /\ Len(<<x>>) = 1 /\ <<x>>[1] = x /\ <<x>> \o <<>> = <<x>> /\ Tail(<<x>>) = <<>> /\ <<x>> # <<>>
  <2>1. <<x>> \in Seq({x})
    OBVIOUS
  <2>2. <<x>> \o <<>> = <<x>>
    BY <2>1, ConcatEmptySeq
  <2>3. Len(<<x>>) = 1 /\ <<x>>[1] = x /\ <<x>> # <<>>
    OBVIOUS
  <2>4. Tail(<<x>>) = <<>>
    OBVIOUS
  <2>5. IsSeq(<<x>>)
    BY <2>1 DEF IsSeq
  <2> QED
    BY <2>2, <2>3, <2>4, <2>5
<1> QED
  BY <1>1, <1>2 DEF IsSeq

LEMMA SeqAssoc ==
  ASSUME NEW s, IsSeq(s), NEW t, IsSeq(t), NEW u, IsSeq(u)
  PROVE  (s \o t) \o u = s \o (t \o u)
<1>1. PICK A : s \in Seq(A)
  BY DEF IsSeq
<1>2. PICK B : t \in Seq(B)
  BY DEF IsSeq
<1>3. PICK C : u \in Seq(C)
  BY DEF IsSeq
<1> DEFINE D == A \cup B \cup C
<1>4. s \in Seq(D) /\ t \in Seq(D) /\ u \in Seq(D)
  BY <1>1, <1>2, <1>3
<1> QED
  BY <1>4, ConcatAssociative

\* Two steps before others.
LEMMA SeqPair ==
  ASSUME NEW x, NEW y, NEW s, IsSeq(s)
  PROVE  <<x, y>> \o s = <<x>> \o (<<y>> \o s)
<1>1. <<x, y>> = <<x>> \o <<y>>
  <2>1. <<x>> \in Seq({x, y}) /\ <<y>> \in Seq({x, y}) /\ <<x, y>> \in Seq({x, y})
    OBVIOUS
  <2>2. /\ <<x>> \o <<y>> \in Seq({x, y}) /\ Len(<<x>> \o <<y>>) = 2
        /\ (<<x>> \o <<y>>)[1] = x /\ (<<x>> \o <<y>>)[2] = y
    BY <2>1, ConcatProperties
  <2>3. /\ Len(<<x, y>>) = 2 /\ <<x, y>>[1] = x /\ <<x, y>>[2] = y
    OBVIOUS
  <2> DEFINE t == <<x>> \o <<y>>
             u == <<x, y>>
  <2> HIDE DEF t, u
  <2>4. \A k \in 1..Len(u) : u[k] = t[k]
    BY <2>2, <2>3 DEF t, u
  <2>5. t = u
    BY <2>1, <2>2, <2>3, <2>4, SeqEqual DEF t, u
  <2> QED
    BY <2>5 DEF t, u
<1>2. (<<x>> \o <<y>>) \o s = <<x>> \o (<<y>> \o s)
  <2>1. IsSeq(<<x>>) /\ IsSeq(<<y>>)
    BY SeqLiterals
  <2> QED
    BY <2>1, SeqAssoc
<1> QED
  BY <1>1, <1>2

-----------------------------------------------------------------------------
(* How many references steps hold *)

Count(s, i) == Cardinality(Places(Reverse(s), i))
One(x, i) == (IF Needs(x, i) THEN 1 ELSE 0) + (IF x.j = i THEN 1 ELSE 0)

LEMMA PlacesFinite ==
  ASSUME NEW s, IsSeq(s), NEW i
  PROVE  /\ Places(Reverse(s), i) \subseteq {"i", "j"} \X (1..Len(s))
         /\ IsFiniteSet(Places(Reverse(s), i)) /\ Count(s, i) \in Nat
<1>1. Len(s) \in Nat
  BY DEF IsSeq
<1>2. DOMAIN Reverse(s) = 1..Len(s)
  BY DEF Reverse
<1>3. Places(Reverse(s), i) \subseteq {"i", "j"} \X (1..Len(s))
  BY <1>2 DEF Places
<1>4. IsFiniteSet(1..Len(s)) /\ IsFiniteSet({"i", "j"})
  <2>1. IsFiniteSet({"i"} \cup {"j"})
    BY FS_Singleton, FS_AddElement
  <2>2. {"i", "j"} = {"i"} \cup {"j"}
    OBVIOUS
  <2>3. IsFiniteSet(1..Len(s))
    BY <1>1, FS_Interval
  <2> QED
    BY <2>1, <2>2, <2>3
<1>5. IsFiniteSet({"i", "j"} \X (1..Len(s)))
  BY <1>4, FS_Product
<1>6. IsFiniteSet(Places(Reverse(s), i))
  BY <1>3, <1>5, FS_Subset
<1> QED
  BY <1>3, <1>6, FS_CardinalityType DEF Count

LEMMA CountEmpty ==
  ASSUME NEW i
  PROVE  Count(<<>>, i) = 0
<1>1. Places(Reverse(<<>>), i) = {}
  BY PlacesFinite, SeqLiterals
<1> QED
  BY <1>1, FS_EmptySet DEF Count

LEMMA CountCons ==
  ASSUME NEW s, IsSeq(s), NEW x, NEW i
  PROVE  Count(<<x>> \o s, i) = One(x, i) + Count(s, i)
<1> DEFINE r == Reverse(s)
           n == Len(s)
           A == IF Needs(x, i) THEN {<<"i", n + 1>>} ELSE {}
           B == IF x.j = i THEN {<<"j", n + 1>>} ELSE {}
           P == Places(r, i)
<1>1. n \in Nat /\ Len(r) = n /\ DOMAIN r = 1..n /\ Reverse(<<x>> \o s) = Append(r, x)
  BY ReverseCons DEF IsSeq, Reverse
<1>2. /\ DOMAIN Append(r, x) = 1..n + 1 /\ Append(r, x)[n + 1] = x
      /\ \A k \in 1..n : Append(r, x)[k] = r[k]
  BY <1>1
<1>3. P \subseteq {"i", "j"} \X (1..n) /\ IsFiniteSet(P) /\ Cardinality(P) \in Nat
  BY PlacesFinite DEF Count
<1> HIDE DEF r, n
<1>4. Places(Append(r, x), i) = (P \cup A) \cup B
  BY <1>1, <1>2 DEF Places
<1>5. <<"i", n + 1>> \notin P /\ <<"j", n + 1>> \notin P \cup A
  BY <1>1, <1>3
<1>6. IsFiniteSet(P \cup A) /\ Cardinality(P \cup A) = Cardinality(P) + (IF Needs(x, i) THEN 1 ELSE 0)
  <2>1. IsFiniteSet(P \cup {<<"i", n + 1>>}) /\ Cardinality(P \cup {<<"i", n + 1>>}) = Cardinality(P) + 1
    BY <1>3, <1>5, FS_AddElement
  <2>2. CASE Needs(x, i)
    BY <2>1, <2>2
  <2>3. CASE ~Needs(x, i)
    BY <2>3, <1>3
  <2> QED
    BY <2>2, <2>3
<1>7. Cardinality((P \cup A) \cup B) = Cardinality(P \cup A) + (IF x.j = i THEN 1 ELSE 0)
  <2>1. CASE x.j = i
    <3>1. Cardinality((P \cup A) \cup {<<"j", n + 1>>}) = Cardinality(P \cup A) + 1
      BY <1>5, <1>6, FS_AddElement
    <3> QED
      BY <3>1, <2>1
  <2>2. CASE x.j # i
    BY <2>2, <1>3, <1>6
  <2> QED
    BY <2>1, <2>2
<1>8. Count(<<x>> \o s, i) = Cardinality((P \cup A) \cup B) /\ Count(s, i) = Cardinality(P)
  BY <1>1, <1>4 DEF Count, r
<1> HIDE DEF A, B, P
<1> QED
  BY <1>3, <1>6, <1>7, <1>8 DEF One

-----------------------------------------------------------------------------
(* The steps that a call has left *)

IsStep(x) == x \in [do : {x.do}, i : {x.i}, j : {x.j}, names : {x.names}]

\* Steps that others follow.
Passing == {"unlock", "put", "free", "drop", "walk", "unlinked"}

\* A step that waits for the walk before it to find its inode.
Waits(x) == x.i = 0 /\ x.do \in {"opened", "linkOld", "linkNew", "unlinkDir", "createIn"}

\* Steps that may end with a file open.
Opens(do, op) == do \in {"opened", "made"} \/ (do \in {"createIn", "createOld", "createNew"} /\ op # "dir")

\* Steps left of a call op by a process whose file is o.
Planned(s, op, o) ==
  /\ IsSeq(s)
  /\ \A k \in 1..Len(s) :
       /\ IsStep(s[k])
       /\ k < Len(s) => s[k].do \in Passing
       /\ s[k].do = "walk" => k = Len(s) - 1 /\ Waits(s[k + 1])
       /\ s[k].j # 0 => s[k].do \in {"linkNew", "unlinkEntry", "createNew"}
       /\ Opens(s[k].do, op) => o = 0

LEMMA StepFields ==
  ASSUME NEW do, NEW x
  PROVE  IsStep(S(do, x)) /\ S(do, x).do = do /\ S(do, x).i = x /\ S(do, x).j = 0
BY DEF IsStep, S

LEMMA Step2Fields ==
  ASSUME NEW do, NEW x, NEW y
  PROVE  IsStep(S2(do, x, y)) /\ S2(do, x, y).do = do /\ S2(do, x, y).i = x /\ S2(do, x, y).j = y
BY DEF IsStep, S, S2

\* References of inodes, not of what else a name leads to.
LEMMA OneField ==
  ASSUME NEW do, NEW x, NEW i \in Inums
  PROVE  One(S(do, x), i) = IF x = i /\ do \notin {"unlock", "unlinked"} THEN 1 ELSE 0
BY DEF One, Needs, S, Inums

LEMMA OneField2 ==
  ASSUME NEW do, NEW x, NEW y, NEW i \in Inums
  PROVE  One(S2(do, x, y), i) = (IF x = i /\ do \notin {"unlock", "unlinked"} THEN 1 ELSE 0) + (IF y = i THEN 1 ELSE 0)
<1> DEFINE t == S2(do, x, y)
<1>1. t.do = do /\ t.i = x /\ t.j = y
  BY Step2Fields
<1> HIDE DEF t
<1>2. One(t, i) = (IF x = i /\ do \notin {"unlock", "unlinked"} THEN 1 ELSE 0) + (IF y = i THEN 1 ELSE 0)
  BY <1>1 DEF One, Needs
<1> QED
  BY <1>2 DEF t

LEMMA PlannedEmpty ==
  ASSUME NEW op, NEW o
  PROVE  Planned(<<>>, op, o) /\ \A i \in Inums : Count(<<>>, i) = 0
BY SeqLiterals, CountEmpty DEF Planned

LEMMA PlannedOne ==
  ASSUME NEW op, NEW o, NEW x, IsStep(x), x.do # "walk",
         x.j # 0 => x.do \in {"linkNew", "unlinkEntry", "createNew"}, Opens(x.do, op) => o = 0
  PROVE  Planned(<<x>>, op, o) /\ \A i \in Inums : Count(<<x>>, i) = One(x, i)
<1>1. IsSeq(<<x>>) /\ Len(<<x>>) = 1 /\ <<x>>[1] = x
  BY SeqLiterals
<1>2. ASSUME NEW i \in Inums
      PROVE  Count(<<x>>, i) = One(x, i)
  <2>1. Count(<<x>> \o <<>>, i) = One(x, i) + Count(<<>>, i)
    BY SeqLiterals, CountCons
  <2>2. <<x>> \o <<>> = <<x>>
    BY SeqLiterals
  <2>3. One(x, i) \in Nat
    BY DEF One
  <2> QED
    BY <2>1, <2>2, <2>3, CountEmpty
<1> DEFINE s == <<x>>
<1> HIDE DEF s
<1>3. IsSeq(s) /\ Len(s) = 1 /\ s[1] = x
  BY <1>1 DEF s
<1>4. Planned(s, op, o)
  BY <1>3 DEF Planned
<1> QED
  BY <1>2, <1>4 DEF s

LEMMA PlannedCons ==
  ASSUME NEW op, NEW o, NEW s, Planned(s, op, o), NEW x, IsStep(x), x.do \in Passing \ {"walk"}, x.j = 0
  PROVE  Planned(<<x>> \o s, op, o) /\ \A i \in Inums : Count(<<x>> \o s, i) = One(x, i) + Count(s, i)
<1> DEFINE t == <<x>> \o s
<1>1. IsSeq(s)
  BY DEF Planned
<1>2. /\ IsSeq(t) /\ Len(s) \in Nat /\ Len(t) = Len(s) + 1
      /\ t[1] = x /\ \A k \in 1..Len(s) : t[k + 1] = s[k]
  BY <1>1, SeqConsAt, SeqConsIs
<1>3. \A i : Count(t, i) = One(x, i) + Count(s, i)
  BY <1>1, CountCons
<1> HIDE DEF t
<1>4. ~Opens(x.do, op)
  BY DEF Opens, Passing
<1>5. ASSUME NEW k \in 1..Len(t)
      PROVE  /\ IsStep(t[k])
             /\ k < Len(t) => t[k].do \in Passing
             /\ t[k].do = "walk" => k = Len(t) - 1 /\ Waits(t[k + 1])
             /\ t[k].j # 0 => t[k].do \in {"linkNew", "unlinkEntry", "createNew"}
             /\ Opens(t[k].do, op) => o = 0
  <2>1. CASE k = 1
    BY <2>1, <1>2, <1>4
  <2>2. CASE k # 1
    <3> DEFINE m == k - 1
    <3>1. m \in 1..Len(s) /\ k = m + 1 /\ (k < Len(t) <=> m < Len(s)) /\ (m = Len(s) - 1 => k = Len(t) - 1 /\ m + 1 \in 1..Len(s))
      BY <2>2, <1>2
    <3> HIDE DEF m
    <3>2. t[k] = s[m]
      BY <3>1, <1>2
    <3>3. m = Len(s) - 1 => t[k + 1] = s[m + 1]
      BY <3>1, <1>2
    <3> QED
      BY <3>1, <3>2, <3>3 DEF Planned
  <2> QED
    BY <2>1, <2>2
<1>6. Planned(t, op, o)
  BY <1>2, <1>5 DEF Planned
<1> QED
  BY <1>3, <1>6 DEF t

LEMMA PlannedWalk ==
  ASSUME NEW op, NEW o, NEW s, Planned(s, op, o), Len(s) = 1, Waits(s[1]), NEW x, IsStep(x), x.do = "walk", x.j = 0
  PROVE  Planned(<<x>> \o s, op, o) /\ \A i \in Inums : Count(<<x>> \o s, i) = One(x, i) + Count(s, i)
<1> DEFINE t == <<x>> \o s
<1>1. IsSeq(s)
  BY DEF Planned
<1>2. IsSeq(t) /\ t[1] = x /\ Len(t) = Len(s) + 1 /\ \A k \in 1..Len(s) : t[k + 1] = s[k]
  BY <1>1, SeqConsAt, SeqConsIs
<1>3. \A i : Count(t, i) = One(x, i) + Count(s, i)
  BY <1>1, CountCons
<1> HIDE DEF t
<1>4. t[1 + 1] = s[1] /\ Len(t) = 2
  BY <1>2
<1>5. /\ IsStep(s[1]) /\ s[1].do # "walk" /\ (s[1].j # 0 => s[1].do \in {"linkNew", "unlinkEntry", "createNew"})
      /\ (Opens(s[1].do, op) => o = 0) /\ ~Opens(x.do, op)
  BY DEF Planned, Waits, Opens
<1>6. Planned(t, op, o)
  BY <1>2, <1>4, <1>5 DEF Planned, Passing
<1> QED
  BY <1>3, <1>6 DEF t

LEMMA PlannedHead ==
  ASSUME NEW op, NEW o, NEW s, Planned(s, op, o), s # <<>>
  PROVE  /\ IsStep(s[1]) /\ Planned(Tail(s), op, o)
         /\ \A i \in Inums : Count(s, i) = One(s[1], i) + Count(Tail(s), i)
         /\ s[1].do \notin Passing => Tail(s) = <<>>
         /\ s[1].do = "walk" => Tail(s) = <<Tail(s)[1]>> /\ Waits(Tail(s)[1])
         /\ s[1].j # 0 => s[1].do \in {"linkNew", "unlinkEntry", "createNew"}
         /\ Opens(s[1].do, op) => o = 0
<1> DEFINE t == Tail(s)
           x == s[1]
<1>1. IsSeq(s) /\ IsSeq(t) /\ s = <<x>> \o t
  BY SeqUncons DEF Planned
<1> HIDE DEF t, x
<1>2. Len(t) \in Nat /\ Len(s) = Len(t) + 1 /\ s[1] = x /\ \A k \in 1..Len(t) : s[k + 1] = t[k]
  BY <1>1, SeqConsAt
<1>3. \A i : Count(s, i) = One(x, i) + Count(t, i)
  BY <1>1, CountCons
<1>4. Planned(t, op, o)
  <2> SUFFICES ASSUME NEW k \in 1..Len(t)
               PROVE  /\ IsStep(t[k])
                      /\ k < Len(t) => t[k].do \in Passing
                      /\ t[k].do = "walk" => k = Len(t) - 1 /\ Waits(t[k + 1])
                      /\ t[k].j # 0 => t[k].do \in {"linkNew", "unlinkEntry", "createNew"}
                      /\ Opens(t[k].do, op) => o = 0
    BY <1>1 DEF Planned
  <2>1. k + 1 \in 1..Len(s) /\ s[k + 1] = t[k] /\ (k < Len(t) <=> k + 1 < Len(s)) /\ (k + 1 = Len(s) - 1 => k = Len(t) - 1 /\ s[k + 1 + 1] = t[k + 1])
    BY <1>2
  <2> QED
    BY <2>1 DEF Planned
<1>5. /\ IsStep(x) /\ (1 < Len(s) => x.do \in Passing) /\ (x.do = "walk" => 1 = Len(s) - 1 /\ Waits(s[1 + 1]))
      /\ (x.j # 0 => x.do \in {"linkNew", "unlinkEntry", "createNew"}) /\ (Opens(x.do, op) => o = 0)
  <2>1. 1 \in 1..Len(s) /\ s[1] = x
    BY <1>2
  <2> QED
    BY <2>1 DEF Planned
<1>6. Len(t) = 0 => t = <<>>
  BY <1>1 DEF IsSeq
<1>7. Len(t) = 1 => t = <<t[1]>>
  BY <1>1 DEF IsSeq
<1>8. x.do \notin Passing => t = <<>>
  BY <1>2, <1>5, <1>6
<1>9. x.do = "walk" => t = <<t[1]>> /\ Waits(t[1])
  BY <1>2, <1>5, <1>7
<1> QED
  BY <1>3, <1>4, <1>5, <1>8, <1>9 DEF t, x

\* The lock and the reference of an inode are let go before what is left.
LEMMA UnlocksPlanned ==
  ASSUME NEW op, NEW o, NEW s, Planned(s, op, o), NEW x
  PROVE  /\ Planned(iunlockput(x) \o s, op, o)
         /\ \A i \in Inums : Count(iunlockput(x) \o s, i) = (IF x = i THEN 1 ELSE 0) + Count(s, i)
<1>0. IsSeq(s)
  BY DEF Planned
<1>1. iunlockput(x) \o s = <<S("unlock", x)>> \o (<<S("put", x)>> \o s)
  <2>1. <<S("unlock", x), S("put", x)>> \o s = <<S("unlock", x)>> \o (<<S("put", x)>> \o s)
    BY <1>0, SeqPair
  <2> QED
    BY <2>1 DEF iunlockput
<1> DEFINE t == <<S("put", x)>> \o s
<1>2. Planned(t, op, o) /\ \A i \in Inums : Count(t, i) = One(S("put", x), i) + Count(s, i)
  <2>1. IsStep(S("put", x)) /\ S("put", x).do = "put" /\ S("put", x).j = 0
    BY StepFields
  <2> QED
    BY <2>1, PlannedCons DEF Passing
<1> HIDE DEF t
<1>3. /\ Planned(<<S("unlock", x)>> \o t, op, o)
      /\ \A i \in Inums : Count(<<S("unlock", x)>> \o t, i) = One(S("unlock", x), i) + Count(t, i)
  <2>1. IsStep(S("unlock", x)) /\ S("unlock", x).do = "unlock" /\ S("unlock", x).j = 0
    BY StepFields
  <2> QED
    BY <1>2, <2>1, PlannedCons DEF Passing
<1>4. ASSUME NEW i \in Inums
      PROVE  Count(<<S("unlock", x)>> \o t, i) = (IF x = i THEN 1 ELSE 0) + Count(s, i)
  <2>1. One(S("unlock", x), i) = 0 /\ One(S("put", x), i) = IF x = i THEN 1 ELSE 0
    BY OneField
  <2>2. Count(s, i) \in Nat
    BY <1>0, PlacesFinite
  <2>3. Count(t, i) = One(S("put", x), i) + Count(s, i) /\ Count(<<S("unlock", x)>> \o t, i) = One(S("unlock", x), i) + Count(t, i)
    BY <1>2, <1>3
  <2> QED
    BY <2>1, <2>2, <2>3
<1> QED
  BY <1>1, <1>3, <1>4 DEF t

LEMMA UnlocksLast ==
  ASSUME NEW op, NEW o, NEW x
  PROVE  /\ Planned(iunlockput(x), op, o)
         /\ \A i \in Inums : Count(iunlockput(x), i) = IF x = i THEN 1 ELSE 0
<1>1. iunlockput(x) \o <<>> = iunlockput(x)
  <2>1. iunlockput(x) \in Seq({S("unlock", x), S("put", x)})
    BY DEF iunlockput
  <2> QED
    BY <2>1, ConcatEmptySeq
<1>2. Planned(<<>>, op, o) /\ \A i \in Inums : Count(<<>>, i) = 0
  BY PlannedEmpty
<1>3. /\ Planned(iunlockput(x) \o <<>>, op, o)
      /\ \A i \in Inums : Count(iunlockput(x) \o <<>>, i) = (IF x = i THEN 1 ELSE 0) + Count(<<>>, i)
  <2> DEFINE s == <<>>
  <2>1. Planned(s, op, o)
    BY <1>2
  <2> HIDE DEF s
  <2>2. /\ Planned(iunlockput(x) \o s, op, o)
        /\ \A i \in Inums : Count(iunlockput(x) \o s, i) = (IF x = i THEN 1 ELSE 0) + Count(s, i)
    BY <2>1, UnlocksPlanned
  <2> QED
    BY <2>2 DEF s
<1> QED
  BY <1>1, <1>2, <1>3

\* The step that waited has the inode that the walk has found, or the call has failed.
LEMMA GivenPlanned ==
  ASSUME NEW op, NEW o, NEW w, Planned(<<w>>, op, o), Waits(w), NEW ip
  PROVE  /\ Planned(Given(<<w>>, ip), op, o)
         /\ \A i \in Inums : Count(Given(<<w>>, ip), i) = (IF ip = i THEN 1 ELSE 0) + Count(<<w>>, i)
<1>1. /\ IsStep(w) /\ w.do # "walk"
      /\ w.j # 0 => w.do \in {"linkNew", "unlinkEntry", "createNew"}
      /\ Opens(w.do, op) => o = 0
  <2> DEFINE s == <<w>>
  <2>1. Planned(s, op, o) /\ IsSeq(s) /\ Len(s) = 1 /\ s[1] = w
    BY SeqLiterals
  <2> HIDE DEF s
  <2> QED
    BY <2>1 DEF Planned, Waits
<1>2. \A i \in Inums : Count(<<w>>, i) = One(w, i)
  BY <1>1, PlannedOne
<1>3. \A i \in Inums : One(w, i) = IF w.j = i THEN 1 ELSE 0
  BY DEF Inums, One, Needs, Waits
<1>4. CASE ip # 0
  <2> DEFINE v == [w EXCEPT !.i = ip]
  <2>1. IsStep(v) /\ v.do = w.do /\ v.i = ip /\ v.j = w.j
    BY <1>1 DEF IsStep
  <2>2. Given(<<w>>, ip) = <<v>>
    <3>1. <<w>>[1] = w /\ Tail(<<w>>) = <<>> /\ <<v>> \o <<>> = <<v>>
      BY SeqLiterals
    <3> QED
      BY <3>1, <1>4 DEF Given
  <2> HIDE DEF v
  <2>3. Planned(<<v>>, op, o) /\ \A i \in Inums : Count(<<v>>, i) = One(v, i)
    BY <1>1, <2>1, PlannedOne
  <2>4. \A i \in Inums : One(v, i) = (IF ip = i THEN 1 ELSE 0) + (IF w.j = i THEN 1 ELSE 0)
    BY <2>1 DEF One, Needs, Waits
  <2> QED
    BY <1>2, <1>3, <2>2, <2>3, <2>4
<1>5. CASE ip = 0 /\ w.do = "linkNew"
  <2> DEFINE v == S("bad", w.j)
  <2>1. IsStep(v) /\ v.do = "bad" /\ v.j = 0
    BY StepFields
  <2>2. Given(<<w>>, ip) = <<v>>
    BY <1>5 DEF Given
  <2>3. \A i \in Inums : One(v, i) = IF w.j = i THEN 1 ELSE 0
    BY OneField
  <2> HIDE DEF v
  <2>4. Planned(<<v>>, op, o) /\ \A i \in Inums : Count(<<v>>, i) = One(v, i)
    BY <2>1, PlannedOne DEF Opens
  <2>5. \A i \in Inums : ip # i
    BY <1>5 DEF Inums
  <2> QED
    BY <1>2, <1>3, <2>2, <2>3, <2>4, <2>5
<1>6. CASE ip = 0 /\ w.do # "linkNew"
  <2>1. Given(<<w>>, ip) = <<>>
    BY <1>6 DEF Given
  <2>2. \A i \in Inums : ip # i /\ w.j # i
    BY <1>1, <1>6 DEF Inums, Waits
  <2> QED
    BY <1>2, <1>3, <2>1, <2>2, PlannedEmpty
<1> QED
  BY <1>4, <1>5, <1>6

\* The walk goes on, or it is at its end.
LEMMA GoesPlanned ==
  ASSUME NEW op, NEW o, NEW w, Planned(<<w>>, op, o), Waits(w), NEW ip, NEW names
  PROVE  /\ Planned(Goes(ip, names, <<w>>), op, o)
         /\ \A i \in Inums : Count(Goes(ip, names, <<w>>), i) = (IF ip = i THEN 1 ELSE 0) + Count(<<w>>, i)
<1>0. \A i \in Inums : Count(<<w>>, i) \in Nat
  BY SeqLiterals, PlacesFinite
<1>1. CASE names # <<>>
  <2> DEFINE v == [S("walk", ip) EXCEPT !.names = names]
  <2>1. IsStep(v) /\ v.do = "walk" /\ v.i = ip /\ v.j = 0
    BY DEF IsStep, S
  <2>2. Goes(ip, names, <<w>>) = <<v>> \o <<w>>
    BY <1>1 DEF Goes
  <2> HIDE DEF v
  <2>3. /\ Planned(<<v>> \o <<w>>, op, o)
        /\ \A i \in Inums : Count(<<v>> \o <<w>>, i) = One(v, i) + Count(<<w>>, i)
    <3> DEFINE s == <<w>>
    <3>1. Planned(s, op, o) /\ Len(s) = 1 /\ Waits(s[1])
      BY SeqLiterals
    <3> HIDE DEF s
    <3>2. Planned(<<v>> \o s, op, o) /\ \A i \in Inums : Count(<<v>> \o s, i) = One(v, i) + Count(s, i)
      BY <2>1, <3>1, PlannedWalk
    <3> QED
      BY <3>2 DEF s
  <2>4. \A i \in Inums : One(v, i) = IF ip = i THEN 1 ELSE 0
    BY <2>1 DEF One, Needs, Inums
  <2> QED
    BY <2>2, <2>3, <2>4
<1>2. CASE names = <<>> /\ w.do \in Parent
  <2> DEFINE v == S("put", ip)
             s == Given(<<w>>, 0)
  <2>1. IsStep(v) /\ v.do = "put" /\ v.j = 0
    BY StepFields
  <2>2. Goes(ip, names, <<w>>) = <<v>> \o s
    BY <1>2 DEF Goes
  <2>3. /\ Planned(s, op, o)
        /\ \A i \in Inums : Count(s, i) = (IF 0 = i THEN 1 ELSE 0) + Count(<<w>>, i)
    BY GivenPlanned
  <2>4. \A i \in Inums : One(v, i) = (IF ip = i THEN 1 ELSE 0) /\ i # 0
    BY OneField DEF Inums
  <2> HIDE DEF v, s
  <2>5. Planned(<<v>> \o s, op, o) /\ \A i \in Inums : Count(<<v>> \o s, i) = One(v, i) + Count(s, i)
    BY <2>1, <2>3, PlannedCons DEF Passing
  <2>6. ASSUME NEW i \in Inums
        PROVE  Count(<<v>> \o s, i) = (IF ip = i THEN 1 ELSE 0) + Count(<<w>>, i)
    <3>1. Count(<<v>> \o s, i) = One(v, i) + Count(s, i) /\ Count(s, i) = (IF 0 = i THEN 1 ELSE 0) + Count(<<w>>, i)
      BY <2>3, <2>5
    <3> QED
      BY <3>1, <1>0, <2>4
  <2> QED
    BY <2>2, <2>5, <2>6
<1>3. CASE names = <<>> /\ w.do \notin Parent
  <2>1. Goes(ip, names, <<w>>) = Given(<<w>>, ip)
    BY <1>3 DEF Goes
  <2> QED
    BY <2>1, GivenPlanned
<1> QED
  BY <1>1, <1>2, <1>3

\* A step before others; the last step; and one with two inodes.
LEMMA StepPlanned ==
  ASSUME NEW op, NEW o, NEW s, Planned(s, op, o), NEW do \in Passing \ {"walk"}, NEW x
  PROVE  /\ Planned(<<S(do, x)>> \o s, op, o)
         /\ \A i \in Inums : Count(<<S(do, x)>> \o s, i) = (IF x = i /\ do \notin {"unlock", "unlinked"} THEN 1 ELSE 0) + Count(s, i)
<1> DEFINE v == S(do, x)
<1>1. IsStep(v) /\ v.do = do /\ v.j = 0
  BY StepFields
<1>2. \A i \in Inums : One(v, i) = IF x = i /\ do \notin {"unlock", "unlinked"} THEN 1 ELSE 0
  BY OneField
<1> HIDE DEF v
<1>3. Planned(<<v>> \o s, op, o) /\ \A i \in Inums : Count(<<v>> \o s, i) = One(v, i) + Count(s, i)
  BY <1>1, PlannedCons
<1> QED
  BY <1>2, <1>3 DEF v

LEMMA LastPlanned ==
  ASSUME NEW op, NEW o, NEW do, do # "walk", Opens(do, op) => o = 0, NEW x
  PROVE  /\ Planned(<<S(do, x)>>, op, o)
         /\ \A i \in Inums : Count(<<S(do, x)>>, i) = IF x = i /\ do \notin {"unlock", "unlinked"} THEN 1 ELSE 0
<1> DEFINE v == S(do, x)
<1>1. IsStep(v) /\ v.do = do /\ v.j = 0
  BY StepFields
<1>2. \A i \in Inums : One(v, i) = IF x = i /\ do \notin {"unlock", "unlinked"} THEN 1 ELSE 0
  BY OneField
<1> HIDE DEF v
<1>3. Planned(<<v>>, op, o) /\ \A i \in Inums : Count(<<v>>, i) = One(v, i)
  BY <1>1, PlannedOne
<1> QED
  BY <1>2, <1>3 DEF v

LEMMA LastPlanned2 ==
  ASSUME NEW op, NEW o, NEW do \in {"linkNew", "unlinkEntry", "createNew"}, Opens(do, op) => o = 0, NEW x, NEW y
  PROVE  /\ Planned(<<S2(do, x, y)>>, op, o)
         /\ \A i \in Inums : Count(<<S2(do, x, y)>>, i) = (IF x = i THEN 1 ELSE 0) + (IF y = i THEN 1 ELSE 0)
<1> DEFINE v == S2(do, x, y)
<1>1. IsStep(v) /\ v.do = do
  BY Step2Fields
<1>2. \A i \in Inums : One(v, i) = (IF x = i THEN 1 ELSE 0) + (IF y = i THEN 1 ELSE 0)
  BY OneField2
<1> HIDE DEF v
<1>3. Planned(<<v>>, op, o) /\ \A i \in Inums : Count(<<v>>, i) = One(v, i)
  BY <1>1, PlannedOne
<1> QED
  BY <1>2, <1>3 DEF v

-----------------------------------------------------------------------------
(* The references of all processes *)

\* What a process holds that has these steps left and this file.
HeldBy(s, o, i) == Places(Reverse(s), i) \cup (IF o = i THEN {<<"open", 0>>} ELSE {})
Own(s, o, i) == Count(s, i) + (IF o = i THEN 1 ELSE 0)

LEMMA HeldByCount ==
  ASSUME NEW s, IsSeq(s), NEW o, NEW i
  PROVE  IsFiniteSet(HeldBy(s, o, i)) /\ Own(s, o, i) \in Nat /\ Cardinality(HeldBy(s, o, i)) = Own(s, o, i)
<1> DEFINE P == Places(Reverse(s), i)
<1>1. P \subseteq {"i", "j"} \X (1..Len(s)) /\ IsFiniteSet(P) /\ Cardinality(P) \in Nat /\ Count(s, i) = Cardinality(P)
  BY PlacesFinite DEF Count
<1> HIDE DEF P
<1>2. <<"open", 0>> \notin P
  BY <1>1
<1>3. IsFiniteSet(P \cup {<<"open", 0>>}) /\ Cardinality(P \cup {<<"open", 0>>}) = Cardinality(P) + 1
  BY <1>1, <1>2, FS_AddElement
<1>4. CASE o = i
  BY <1>1, <1>3, <1>4 DEF HeldBy, Own, P
<1>5. CASE o # i
  <2>1. HeldBy(s, o, i) = P
    BY <1>5 DEF HeldBy, P
  <2> QED
    BY <1>1, <1>5, <2>1 DEF Own
<1> QED
  BY <1>4, <1>5

\* The references of one process, and those of the others.
LEMMA Split ==
  ASSUME NEW F, \A q \in Procs : IsFiniteSet(F[q]), NEW p \in Procs
  PROVE  /\ Cardinality(UNION {{q} \X F[q] : q \in Procs}) \in Nat
         /\ Cardinality(UNION {{q} \X F[q] : q \in Procs \ {p}}) \in Nat
         /\ Cardinality(F[p]) \in Nat
         /\ Cardinality(UNION {{q} \X F[q] : q \in Procs}) = Cardinality(UNION {{q} \X F[q] : q \in Procs \ {p}}) + Cardinality(F[p])
<1> DEFINE U == UNION {{q} \X F[q] : q \in Procs}
           V == UNION {{q} \X F[q] : q \in Procs \ {p}}
           W == {p} \X F[p]
<1>1. U = V \cup W /\ V \cap W = {}
  OBVIOUS
<1>2. \A q \in Procs : IsFiniteSet({q} \X F[q]) /\ Cardinality({q} \X F[q]) = Cardinality(F[q]) /\ Cardinality(F[q]) \in Nat
  <2> TAKE q \in Procs
  <2>1. IsFiniteSet({q}) /\ Cardinality({q}) = 1 /\ IsFiniteSet(F[q])
    BY FS_Singleton
  <2>2. IsFiniteSet({q} \X F[q]) /\ Cardinality({q} \X F[q]) = Cardinality({q}) * Cardinality(F[q]) /\ Cardinality(F[q]) \in Nat
    BY <2>1, FS_Product, FS_CardinalityType
  <2> QED
    BY <2>1, <2>2
<1>3. IsFiniteSet(V)
  <2> DEFINE f == [q \in Procs \ {p} |-> {q} \X F[q]]
             T == {{q} \X F[q] : q \in Procs \ {p}}
  <2>1. IsFiniteSet(Procs \ {p})
    BY InodesAssumption, FS_RemoveElement
  <2>2. f \in Surjection(Procs \ {p}, T)
    BY DEF Surjection
  <2>3. IsFiniteSet(T)
    BY <2>1, <2>2, FS_Surjection
  <2>4. \A A \in T : IsFiniteSet(A)
    BY <1>2
  <2> HIDE DEF T
  <2>5. IsFiniteSet(UNION T)
    BY <2>3, <2>4, FS_UNION
  <2> QED
    BY <2>5 DEF T
<1>4. IsFiniteSet(W) /\ Cardinality(W) = Cardinality(F[p]) /\ Cardinality(F[p]) \in Nat
  BY <1>2
<1> HIDE DEF U, V, W
<1>5. IsFiniteSet(U) /\ Cardinality(U) = Cardinality(V) + Cardinality(W) - Cardinality(V \cap W)
  BY <1>1, <1>3, <1>4, FS_Union
<1>6. Cardinality(V \cap W) = 0
  BY <1>1, FS_EmptySet
<1>7. Cardinality(U) \in Nat /\ Cardinality(V) \in Nat
  BY <1>3, <1>5, FS_CardinalityType
<1>8. Cardinality(U) = Cardinality(V) + Cardinality(F[p])
  BY <1>4, <1>5, <1>6, <1>7
<1> QED
  BY <1>4, <1>7, <1>8 DEF U, V

LEMMA Moved ==
  ASSUME NEW F, \A q \in Procs : IsFiniteSet(F[q]), NEW G, \A q \in Procs : IsFiniteSet(G[q]),
         NEW p \in Procs, \A q \in Procs \ {p} : G[q] = F[q]
  PROVE  Cardinality(UNION {{q} \X G[q] : q \in Procs})
           = Cardinality(UNION {{q} \X F[q] : q \in Procs}) - Cardinality(F[p]) + Cardinality(G[p])
<1> DEFINE V(H) == UNION {{q} \X H[q] : q \in Procs \ {p}}
           U(H) == UNION {{q} \X H[q] : q \in Procs}
<1>1. V(F) = V(G)
  OBVIOUS
<1>2. Cardinality(V(F)) \in Nat /\ Cardinality(F[p]) \in Nat /\ Cardinality(U(F)) = Cardinality(V(F)) + Cardinality(F[p])
  BY Split
<1>3. Cardinality(V(G)) \in Nat /\ Cardinality(G[p]) \in Nat /\ Cardinality(U(G)) = Cardinality(V(G)) + Cardinality(G[p])
  BY Split
<1> HIDE DEF U, V
<1>4. Cardinality(U(G)) = Cardinality(U(F)) - Cardinality(F[p]) + Cardinality(G[p])
  BY <1>1, <1>2, <1>3
<1> QED
  BY <1>4 DEF U

-----------------------------------------------------------------------------
(* The inductive invariant *)

ControlInv ==
  /\ IsFS(fs)
  /\ todo = [p \in Procs |-> todo[p]] /\ call = [p \in Procs |-> call[p]] /\ open = [p \in Procs |-> open[p]]
  /\ ~fs.panic => \A p \in Procs : Planned(todo[p], call[p].op, open[p])

IndInv == ControlInv /\ ReferencesHeld

\* The references of all, as ReferencesHeld counts them.
LEMMA HeldIs ==
  ASSUME NEW i
  PROVE  /\ \A p \in Procs : Held(p, i) = HeldBy(todo[p], open[p], i) /\ Held(p, i)' = HeldBy(todo'[p], open'[p], i)
BY DEF Held, HeldBy

\* A process moves: what it holds changes as the counts do.
LEMMA Step ==
  ASSUME IndInv, ~fs.panic, NEW p \in Procs, NEW s, NEW o, NEW c,
         todo' = [todo EXCEPT ![p] = s], open' = [open EXCEPT ![p] = o], call' = [call EXCEPT ![p] = c],
         IsFS(fs'),
         ~fs'.panic => /\ Planned(s, c.op, o)
                       /\ \A i \in Inums : fs'.ref[i] = fs.ref[i] - Own(todo[p], open[p], i) + Own(s, o, i)
  PROVE  IndInv'
<1>1. /\ todo' = [q \in Procs |-> todo'[q]] /\ call' = [q \in Procs |-> call'[q]] /\ open' = [q \in Procs |-> open'[q]]
      /\ todo'[p] = s /\ call'[p] = c /\ open'[p] = o
      /\ \A q \in Procs \ {p} : todo'[q] = todo[q] /\ call'[q] = call[q] /\ open'[q] = open[q]
  BY DEF IndInv, ControlInv
<1>2. \A q \in Procs : Planned(todo[q], call[q].op, open[q])
  BY DEF IndInv, ControlInv
<1>3. ~fs'.panic => \A q \in Procs : Planned(todo'[q], call'[q].op, open'[q])
  BY <1>1, <1>2
<1>4. ASSUME ~fs'.panic, NEW i \in Inums
      PROVE  fs'.ref[i] = Cardinality(UNION {{q} \X Held(q, i)' : q \in Procs}) + (IF i = cwd THEN 1 ELSE 0)
  <2> DEFINE F == [q \in Procs |-> HeldBy(todo[q], open[q], i)]
             G == [q \in Procs |-> HeldBy(todo'[q], open'[q], i)]
             u == Cardinality(UNION {{q} \X F[q] : q \in Procs})
             v == Cardinality(UNION {{q} \X G[q] : q \in Procs})
  <2>1. \A q \in Procs : IsSeq(todo[q]) /\ IsSeq(todo'[q])
    BY <1>2, <1>3, <1>4 DEF Planned
  <2>2. \A q \in Procs : IsFiniteSet(F[q]) /\ IsFiniteSet(G[q])
    BY <2>1, HeldByCount
  <2>3. \A q \in Procs \ {p} : G[q] = F[q]
    BY <1>1
  <2>4. /\ Cardinality(F[p]) = Own(todo[p], open[p], i) /\ Cardinality(G[p]) = Own(s, o, i)
        /\ Own(todo[p], open[p], i) \in Nat /\ Own(s, o, i) \in Nat
    BY <1>1, <2>1, HeldByCount
  <2>5. UNION {{q} \X F[q] : q \in Procs} = UNION {{q} \X Held(q, i) : q \in Procs}
    BY HeldIs
  <2>6. UNION {{q} \X G[q] : q \in Procs} = UNION {{q} \X Held(q, i)' : q \in Procs}
    BY HeldIs
  <2>7. fs.ref[i] = u + (IF i = cwd THEN 1 ELSE 0)
    BY <2>5 DEF IndInv, ReferencesHeld
  <2>8. fs'.ref[i] = fs.ref[i] - Own(todo[p], open[p], i) + Own(s, o, i)
    BY <1>4
  <2>9. u \in Nat
    BY <2>2, Split
  <2> HIDE DEF F, G
  <2>10. v = u - Cardinality(F[p]) + Cardinality(G[p])
    BY <2>2, <2>3, Moved
  <2>11. fs'.ref[i] = v + (IF i = cwd THEN 1 ELSE 0)
    <3> HIDE DEF u, v
    <3> QED
      BY <2>4, <2>7, <2>8, <2>9, <2>10
  <2> QED
    BY <2>6, <2>11
<1>5. ReferencesHeld'
  BY <1>4 DEF ReferencesHeld
<1>6. ControlInv'
  BY <1>1, <1>3 DEF ControlInv
<1> QED
  BY <1>5, <1>6 DEF IndInv

\* A step of a call that opens and closes no file.
LEMMA Act ==
  ASSUME IndInv, ~fs.panic, NEW p \in Procs, NEW f, NEW s, Does(p, f, s), UNCHANGED open, IsFS(f),
         ~f.panic => /\ Planned(s, call[p].op, open[p])
                     /\ \A i \in Inums : f.ref[i] = fs.ref[i] - Count(todo[p], i) + Count(s, i)
  PROVE  IndInv'
<1>1. fs' = f /\ todo' = [todo EXCEPT ![p] = s] /\ call' = [call EXCEPT ![p] = call[p]] /\ open' = [open EXCEPT ![p] = open[p]]
  BY DEF Does, IndInv, ControlInv
<1>2. ASSUME ~f.panic, NEW i \in Inums
      PROVE  f.ref[i] = fs.ref[i] - Own(todo[p], open[p], i) + Own(s, open[p], i)
  <2>1. IsSeq(todo[p]) /\ IsSeq(s)
    BY <1>2 DEF Planned, IndInv, ControlInv
  <2>2. Count(todo[p], i) \in Nat /\ Count(s, i) \in Nat /\ fs.ref[i] \in Int
    BY <2>1, PlacesFinite DEF IndInv, ControlInv, IsFS
  <2>3. f.ref[i] = fs.ref[i] - Count(todo[p], i) + Count(s, i)
    BY <1>2
  <2> QED
    BY <2>2, <2>3 DEF Own
<1> QED
  BY <1>1, <1>2, Step

\* The last step of a call that opens a file: what the step held, the process does.
LEMMA ActOpens ==
  ASSUME IndInv, ~fs.panic, NEW p \in Procs, NEW f, Does(p, f, <<>>), NEW x, open' = [open EXCEPT ![p] = x],
         open[p] = 0, IsFS(f),
         \A i \in Inums : Count(todo[p], i) = IF x = i THEN 1 ELSE 0,
         ~f.panic => f.ref = fs.ref
  PROVE  IndInv'
<1>1. fs' = f /\ todo' = [todo EXCEPT ![p] = <<>>] /\ call' = [call EXCEPT ![p] = call[p]]
  BY DEF Does, IndInv, ControlInv
<1> DEFINE s == <<>>
<1>2. Planned(s, call[p].op, x) /\ \A i \in Inums : Count(s, i) = 0
  BY PlannedEmpty
<1>3. todo' = [todo EXCEPT ![p] = s]
  BY <1>1
<1> HIDE DEF s
<1>4. ASSUME ~f.panic, NEW i \in Inums
      PROVE  f.ref[i] = fs.ref[i] - Own(todo[p], open[p], i) + Own(s, x, i)
  <2>1. i # 0 /\ fs.ref[i] \in Int /\ f.ref[i] = fs.ref[i]
    <3>1. IsFS(fs) /\ f.ref = fs.ref
      BY <1>4 DEF IndInv, ControlInv
    <3>2. fs.ref \in [Inums -> Int]
      BY <3>1 DEF IsFS
    <3>3. f.ref[i] = fs.ref[i]
      BY <3>1
    <3>4. i # 0
      BY DEF Inums
    <3> QED
      BY <3>2, <3>3, <3>4
  <2>2. Own(todo[p], open[p], i) = Own(s, x, i) /\ Own(s, x, i) \in Nat
    BY <1>2, <2>1 DEF Own
  <2> QED
    BY <2>1, <2>2
<1> QED
  BY <1>1, <1>2, <1>3, <1>4, Step

\* Nobody owes a reference.
LEMMA CountedNow ==
  ASSUME IndInv
  PROVE  Counted(fs)
<1>1. IsFS(fs)
  BY DEF IndInv, ControlInv
<1>2. ASSUME ~fs.panic
      PROVE  fs.ref \in [Inums -> Nat]
  <2>1. ASSUME NEW i \in Inums
        PROVE  fs.ref[i] \in Nat
    <3> DEFINE F == [q \in Procs |-> HeldBy(todo[q], open[q], i)]
               u == Cardinality(UNION {{q} \X Held(q, i) : q \in Procs})
    <3>1. fs.ref[i] = u + (IF i = cwd THEN 1 ELSE 0)
      BY <1>2 DEF IndInv, ReferencesHeld
    <3>2. \A q \in Procs : IsSeq(todo[q])
      BY <1>2 DEF IndInv, ControlInv, Planned
    <3>3. \A q \in Procs : IsFiniteSet(F[q])
      BY <3>2, HeldByCount
    <3>4. CASE Procs = {}
      <4>1. UNION {{q} \X Held(q, i) : q \in Procs} = {}
        BY <3>4
      <4>2. u = 0
        BY <4>1, FS_EmptySet
      <4> HIDE DEF u
      <4> QED
        BY <3>1, <4>2
    <3>5. CASE Procs # {}
      <4>1. UNION {{q} \X F[q] : q \in Procs} = UNION {{q} \X Held(q, i) : q \in Procs}
        BY HeldIs
      <4>2. Cardinality(UNION {{q} \X F[q] : q \in Procs}) \in Nat
        BY <3>3, <3>5, Split
      <4>3. u \in Nat
        BY <4>1, <4>2
      <4> HIDE DEF u
      <4> QED
        BY <3>1, <4>3
    <3> QED
      BY <3>4, <3>5
  <2> QED
    BY <1>1, <2>1 DEF IsFS
<1> QED
  BY <1>1, <1>2 DEF Counted

\* What is known of a process whose next step is do.
LEMMA Heads ==
  ASSUME IndInv, NEW p \in Procs, NEW do, Head1(p, do)
  PROVE  /\ ~fs.panic /\ IsFS(fs) /\ Counted(fs) /\ todo[p][1].do = do
         /\ Planned(Rest(p), call[p].op, open[p])
         /\ \A i \in Inums : Count(todo[p], i) = One(todo[p][1], i) + Count(Rest(p), i) /\ Count(Rest(p), i) \in Nat /\ fs.ref[i] \in Int
         /\ do \notin Passing => Rest(p) = <<>>
         /\ do = "walk" => Rest(p) = <<Rest(p)[1]>> /\ Waits(Rest(p)[1])
         /\ todo[p][1].j # 0 => do \in {"linkNew", "unlinkEntry", "createNew"}
         /\ Opens(do, call[p].op) => open[p] = 0
<1>1. ~fs.panic /\ todo[p] # <<>> /\ todo[p][1].do = do
  BY DEF Head1
<1>2. Planned(todo[p], call[p].op, open[p]) /\ IsFS(fs)
  BY <1>1 DEF IndInv, ControlInv
<1>3. Counted(fs)
  BY CountedNow
<1> DEFINE t == todo[p]
           op == call[p].op
           o == open[p]
<1>4. t # <<>> /\ Planned(t, op, o)
  BY <1>1, <1>2
<1> HIDE DEF t, op, o
<1>5. /\ IsStep(t[1]) /\ Planned(Tail(t), op, o)
      /\ \A i \in Inums : Count(t, i) = One(t[1], i) + Count(Tail(t), i)
      /\ t[1].do \notin Passing => Tail(t) = <<>>
      /\ t[1].do = "walk" => Tail(t) = <<Tail(t)[1]>> /\ Waits(Tail(t)[1])
      /\ t[1].j # 0 => t[1].do \in {"linkNew", "unlinkEntry", "createNew"}
      /\ Opens(t[1].do, op) => o = 0
  BY <1>4, PlannedHead
<1>6. \A i \in Inums : Count(Tail(t), i) \in Nat /\ fs.ref[i] \in Int
  BY <1>2, <1>5, PlacesFinite DEF Planned, IsFS
<1> QED
  BY <1>1, <1>2, <1>3, <1>5, <1>6 DEF t, op, o, Rest

\* A step of one inode, that others follow or that is the last.
LEMMA HeadPasses ==
  ASSUME IndInv, NEW p \in Procs, NEW do \in Passing, Head1(p, do)
  PROVE  \A i \in Inums : Count(todo[p], i) = (IF todo[p][1].i = i /\ do \notin {"unlock", "unlinked"} THEN 1 ELSE 0) + Count(Rest(p), i)
<1>1. /\ todo[p][1].do = do
      /\ \A i \in Inums : Count(todo[p], i) = One(todo[p][1], i) + Count(Rest(p), i)
      /\ todo[p][1].j # 0 => do \in {"linkNew", "unlinkEntry", "createNew"}
  BY Heads
<1>2. todo[p][1].j = 0
  BY <1>1 DEF Passing
<1>3. \A i \in Inums : One(todo[p][1], i) = IF todo[p][1].i = i /\ do \notin {"unlock", "unlinked"} THEN 1 ELSE 0
  BY <1>1, <1>2 DEF One, Needs, Inums
<1> QED
  BY <1>1, <1>3

LEMMA HeadLast ==
  ASSUME IndInv, NEW p \in Procs, NEW do, do \notin Passing, Head1(p, do)
  PROVE  /\ \A i \in Inums : Count(todo[p], i) = (IF todo[p][1].i = i THEN 1 ELSE 0) + (IF todo[p][1].j = i THEN 1 ELSE 0)
         /\ do \notin {"linkNew", "unlinkEntry", "createNew"} => \A i \in Inums : Count(todo[p], i) = IF todo[p][1].i = i THEN 1 ELSE 0
<1>1. /\ todo[p][1].do = do
      /\ \A i \in Inums : Count(todo[p], i) = One(todo[p][1], i) + Count(Rest(p), i)
      /\ Rest(p) = <<>>
      /\ todo[p][1].j # 0 => do \in {"linkNew", "unlinkEntry", "createNew"}
  BY Heads
<1>2. \A i \in Inums : Count(Rest(p), i) = 0 /\ i # 0
  BY <1>1, PlannedEmpty DEF Inums
<1>3. \A i \in Inums : One(todo[p][1], i) = (IF todo[p][1].i = i THEN 1 ELSE 0) + (IF todo[p][1].j = i THEN 1 ELSE 0)
  BY <1>1 DEF One, Needs, Passing
<1> QED
  BY <1>1, <1>2, <1>3

\* A count that has moved.
LEMMA MovesAt ==
  ASSUME NEW f, NEW g, NEW x, NEW n \in Int, IsFS(f), Moves(f, g, x, n), ~g.panic, NEW i \in Inums
  PROVE  g.ref[i] = f.ref[i] + (IF x = i THEN n ELSE 0)
BY DEF Moves, IsFS

LEMMA MovesCounted ==
  ASSUME NEW f, NEW g, NEW x, Counted(f), Moves(f, g, x, 1)
  PROVE  Counted(g)
<1>1. IsFS(g) /\ (~g.panic => ~f.panic)
  BY DEF Moves
<1>2. ASSUME ~g.panic
      PROVE  g.ref \in [Inums -> Nat]
  <2>1. f.ref \in [Inums -> Nat] /\ IsFS(f)
    BY <1>1, <1>2 DEF Counted
  <2>2. ASSUME NEW k \in Inums
        PROVE  g.ref[k] \in Nat
    <3>1. g.ref[k] = f.ref[k] + (IF x = k THEN 1 ELSE 0)
      BY <1>2, <2>1, MovesAt
    <3> QED
      BY <2>1, <3>1
  <2>3. g.ref \in [Inums -> Int]
    BY <1>1 DEF IsFS
  <2> QED
    BY <2>2, <2>3
<1> QED
  BY <1>1, <1>2 DEF Counted

-----------------------------------------------------------------------------
(* The steps *)

\* A walk lets go of a directory when it has the inode of the next one.
LEMMA WalkSteps ==
  ASSUME IndInv, NEW p \in Procs, namex1(p)
  PROVE  IndInv'
<1> DEFINE i == todo[p][1].i
           names == todo[p][1].names
           f == ilock(fs, i)
           d == dirlookup(f, i, names[1])
           w == Rest(p)[1]
           op == call[p].op
           o == open[p]
<1>1. Head1(p, "walk") /\ UNCHANGED open
  BY DEF namex1
<1>2. /\ ~fs.panic /\ IsFS(fs) /\ Counted(fs)
      /\ Planned(Rest(p), op, o) /\ Rest(p) = <<w>> /\ Waits(w)
      /\ \A k \in Inums : Count(Rest(p), k) \in Nat /\ fs.ref[k] \in Int
  BY <1>1, Heads
<1>3. \A k \in Inums : Count(todo[p], k) = (IF i = k THEN 1 ELSE 0) + Count(Rest(p), k)
  BY <1>1, HeadPasses DEF Passing
<1>4. IsFS(f) /\ Counted(f) /\ (~f.panic => f.ref = fs.ref)
  BY <1>2, ilockKeeps DEF Keeps, Counted
<1> HIDE DEF w, op, o
<1>5. /\ \A ip : Planned(Given(Rest(p), ip), op, o) /\ Planned(Goes(ip, Tail(names), Rest(p)), op, o)
      /\ \A ip : \A k \in Inums : /\ Count(Given(Rest(p), ip), k) = (IF ip = k THEN 1 ELSE 0) + Count(Rest(p), k)
                                  /\ Count(Goes(ip, Tail(names), Rest(p)), k) = (IF ip = k THEN 1 ELSE 0) + Count(Rest(p), k)
  BY <1>2, GivenPlanned, GoesPlanned
<1>6. CASE Does(p, f, iunlockput(i) \o Given(Rest(p), 0))
  <2> DEFINE s == iunlockput(i) \o Given(Rest(p), 0)
  <2>1. Planned(s, op, o) /\ \A k \in Inums : Count(s, k) = (IF i = k THEN 1 ELSE 0) + Count(Given(Rest(p), 0), k)
    BY <1>5, UnlocksPlanned
  <2>2. \A k \in Inums : 0 # k
    BY DEF Inums
  <2> HIDE DEF s, f
  <2>3. ~f.panic => \A k \in Inums : f.ref[k] = fs.ref[k] - Count(todo[p], k) + Count(s, k)
    BY <1>2, <1>3, <1>4, <1>5, <2>1, <2>2
  <2>4. Does(p, f, s)
    BY <1>6 DEF s, f
  <2> QED
    BY <1>1, <1>2, <1>4, <2>1, <2>3, <2>4, Act DEF op, o
<1>7. CASE Does(p, f, Given(Rest(p), i))
  <2> DEFINE s == Given(Rest(p), i)
  <2>1. Planned(s, op, o) /\ \A k \in Inums : Count(s, k) = (IF i = k THEN 1 ELSE 0) + Count(Rest(p), k)
    BY <1>5
  <2> HIDE DEF s, f
  <2>3. ~f.panic => \A k \in Inums : f.ref[k] = fs.ref[k] - Count(todo[p], k) + Count(s, k)
    BY <1>2, <1>3, <1>4, <2>1
  <2>4. Does(p, f, s)
    BY <1>7 DEF s, f
  <2> QED
    BY <1>1, <1>2, <1>4, <2>1, <2>3, <2>4, Act DEF op, o
<1>8. CASE Does(p, d.fs, iunlockput(i) \o IF d.ip = 0 THEN Given(Rest(p), 0) ELSE Goes(d.ip, Tail(names), Rest(p)))
  <2> DEFINE t == IF d.ip = 0 THEN Given(Rest(p), 0) ELSE Goes(d.ip, Tail(names), Rest(p))
             s == iunlockput(i) \o t
             g == d.fs
  <2>1. Moves(f, g, d.ip, 1)
    BY <1>4, dirlookupMoves
  <2>2. Planned(t, op, o) /\ \A k \in Inums : Count(t, k) = (IF d.ip = k THEN 1 ELSE 0) + Count(Rest(p), k)
    BY <1>5
  <2>3. Does(p, g, s)
    BY <1>8
  <2> HIDE DEF t, f, d, g
  <2>4. Planned(s, op, o) /\ \A k \in Inums : Count(s, k) = (IF i = k THEN 1 ELSE 0) + Count(t, k)
    BY <2>2, UnlocksPlanned
  <2>5. IsFS(g) /\ (~g.panic => ~f.panic)
    BY <2>1 DEF Moves
  <2>6. ASSUME ~g.panic, NEW k \in Inums
        PROVE  g.ref[k] = f.ref[k] + (IF d.ip = k THEN 1 ELSE 0)
    BY <1>4, <2>1, <2>6, MovesAt
  <2> HIDE DEF s
  <2>7. ASSUME ~g.panic, NEW k \in Inums
        PROVE  g.ref[k] = fs.ref[k] - Count(todo[p], k) + Count(s, k)
    BY <1>2, <1>3, <1>4, <2>2, <2>4, <2>5, <2>6, <2>7
  <2> QED
    BY <1>1, <1>2, <2>3, <2>4, <2>5, <2>7, Act DEF op, o
<1> QED
  BY <1>6, <1>7, <1>8 DEF namex1

LEMMA UnlockedKeeps ==
  ASSUME IsFS(fs), NEW p, NEW i
  PROVE  Keeps(fs, Unlocked(p, i))
<1>1. Keeps(fs, fs) /\ Keeps(fs, Panics(fs))
  BY PanicsKeeps DEF Keeps
<1> QED
  BY <1>1 DEF Unlocked

\* iunlock, and the steps of iput.
LEMMA PutSteps ==
  ASSUME IndInv, NEW p \in Procs, iunlock(p) \/ IputLooks(p) \/ IputFrees(p) \/ IputDrops(p)
  PROVE  IndInv'
<1> DEFINE i == todo[p][1].i
           op == call[p].op
           o == open[p]
           r == Rest(p)
<1>1. ASSUME NEW do \in Passing, Head1(p, do)
      PROVE  /\ ~fs.panic /\ IsFS(fs) /\ Planned(r, op, o)
             /\ \A k \in Inums : Count(r, k) \in Nat /\ fs.ref[k] \in Int
             /\ \A k \in Inums : Count(todo[p], k) = (IF i = k /\ do \notin {"unlock", "unlinked"} THEN 1 ELSE 0) + Count(r, k)
  BY <1>1, Heads, HeadPasses
<1>2. CASE iunlock(p)
  <2> DEFINE f == Unlocked(p, i)
  <2>1. Head1(p, "unlock") /\ Does(p, f, r) /\ UNCHANGED open
    BY <1>2 DEF iunlock
  <2>2. /\ ~fs.panic /\ IsFS(fs) /\ Planned(r, op, o)
        /\ \A k \in Inums : Count(r, k) \in Nat /\ fs.ref[k] \in Int /\ Count(todo[p], k) = Count(r, k)
    BY <1>1, <2>1 DEF Passing
  <2>3. IsFS(f) /\ (~f.panic => f.ref = fs.ref)
    BY <2>2, UnlockedKeeps DEF Keeps
  <2> HIDE DEF r, f
  <2>4. ~f.panic => \A k \in Inums : f.ref[k] = fs.ref[k] - Count(todo[p], k) + Count(r, k)
    BY <2>2, <2>3
  <2> QED
    BY <2>1, <2>2, <2>3, <2>4, Act
<1>3. CASE IputLooks(p)
  <2>1. Head1(p, "put") /\ UNCHANGED open
    BY <1>3 DEF IputLooks
  <2>2. PICK do \in {"free", "drop"} : Does(p, fs, <<S(do, i)>> \o r)
    BY <1>3 DEF IputLooks
  <2> DEFINE s == <<S(do, i)>> \o r
  <2>3. /\ ~fs.panic /\ IsFS(fs) /\ Planned(r, op, o)
        /\ \A k \in Inums : Count(r, k) \in Nat /\ fs.ref[k] \in Int /\ Count(todo[p], k) = (IF i = k THEN 1 ELSE 0) + Count(r, k)
    BY <1>1, <2>1 DEF Passing
  <2>4. Planned(s, op, o) /\ \A k \in Inums : Count(s, k) = (IF i = k THEN 1 ELSE 0) + Count(r, k)
    BY <2>3, StepPlanned DEF Passing
  <2> HIDE DEF s, r
  <2>5. \A k \in Inums : fs.ref[k] = fs.ref[k] - Count(todo[p], k) + Count(s, k)
    BY <2>3, <2>4
  <2> QED
    BY <2>1, <2>2, <2>3, <2>4, <2>5, Act DEF s, r
<1>4. CASE IputFrees(p)
  <2> DEFINE f == Frees(fs, i)
             s == <<S("drop", i)>> \o r
  <2>1. Head1(p, "free") /\ UNCHANGED open /\ Does(p, f, s)
    BY <1>4 DEF IputFrees
  <2>3. /\ ~fs.panic /\ IsFS(fs) /\ Planned(r, op, o)
        /\ \A k \in Inums : Count(r, k) \in Nat /\ fs.ref[k] \in Int /\ Count(todo[p], k) = (IF i = k THEN 1 ELSE 0) + Count(r, k)
    BY <1>1, <2>1 DEF Passing
  <2>4. Planned(s, op, o) /\ \A k \in Inums : Count(s, k) = (IF i = k THEN 1 ELSE 0) + Count(r, k)
    BY <2>3, StepPlanned DEF Passing
  <2>5. IsFS(f) /\ (~f.panic => f.ref = fs.ref)
    BY <2>3, FreesKeeps DEF Keeps
  <2> HIDE DEF s, r, f
  <2>6. ~f.panic => \A k \in Inums : f.ref[k] = fs.ref[k] - Count(todo[p], k) + Count(s, k)
    BY <2>3, <2>4, <2>5
  <2> QED
    BY <2>1, <2>3, <2>4, <2>5, <2>6, Act
<1>5. CASE IputDrops(p)
  <2> DEFINE f == Drops(fs, i)
  <2>1. Head1(p, "drop") /\ UNCHANGED open /\ Does(p, f, r)
    BY <1>5 DEF IputDrops
  <2>3. /\ ~fs.panic /\ IsFS(fs) /\ Planned(r, op, o)
        /\ \A k \in Inums : Count(r, k) \in Nat /\ fs.ref[k] \in Int /\ Count(todo[p], k) = (IF i = k THEN 1 ELSE 0) + Count(r, k)
    BY <1>1, <2>1 DEF Passing
  <2>4. Moves(fs, f, i, -1) /\ IsFS(f)
    BY <2>3, DropsMoves DEF Moves
  <2> HIDE DEF r, f
  <2>5. ASSUME ~f.panic, NEW k \in Inums
        PROVE  f.ref[k] = fs.ref[k] + (IF i = k THEN -1 ELSE 0)
    BY <2>3, <2>4, <2>5, MovesAt
  <2>6. ASSUME ~f.panic, NEW k \in Inums
        PROVE  f.ref[k] = fs.ref[k] - Count(todo[p], k) + Count(r, k)
    BY <2>3, <2>5, <2>6
  <2> QED
    BY <2>1, <2>3, <2>4, <2>6, Act
<1> QED
  BY <1>2, <1>3, <1>4, <1>5

\* The last step of a call that has one inode.
LEMMA LastStep ==
  ASSUME IndInv, NEW p \in Procs, NEW do, do \notin Passing \cup {"linkNew", "unlinkEntry", "createNew"}, Head1(p, do)
  PROVE  /\ ~fs.panic /\ IsFS(fs) /\ Counted(fs) /\ (Opens(do, call[p].op) => open[p] = 0)
         /\ \A k \in Inums : fs.ref[k] \in Int /\ Count(todo[p], k) = IF todo[p][1].i = k THEN 1 ELSE 0
         /\ LET f == ilock(fs, todo[p][1].i) IN IsFS(f) /\ Counted(f) /\ (~f.panic => f.ref = fs.ref)
<1>1. /\ ~fs.panic /\ IsFS(fs) /\ Counted(fs) /\ (Opens(do, call[p].op) => open[p] = 0)
      /\ \A k \in Inums : fs.ref[k] \in Int
  BY Heads
<1>2. \A k \in Inums : Count(todo[p], k) = IF todo[p][1].i = k THEN 1 ELSE 0
  BY HeadLast
<1> DEFINE f == ilock(fs, todo[p][1].i)
<1>3. Keeps(fs, f)
  BY <1>1, ilockKeeps
<1> HIDE DEF f
<1>4. IsFS(f) /\ Counted(f) /\ (~f.panic => f.ref = fs.ref)
  BY <1>1, <1>3 DEF Keeps, Counted
<1> QED
  BY <1>1, <1>2, <1>4 DEF f

\* Nothing but the inode's lock and reference is left to let go.
LEMMA ActUnlocks ==
  ASSUME IndInv, ~fs.panic, NEW p \in Procs, NEW f, NEW i, Does(p, f, iunlockput(i)), UNCHANGED open, IsFS(f),
         \A k \in Inums : fs.ref[k] \in Int /\ Count(todo[p], k) = IF i = k THEN 1 ELSE 0,
         ~f.panic => f.ref = fs.ref
  PROVE  IndInv'
<1> DEFINE s == iunlockput(i)
<1>1. Planned(s, call[p].op, open[p]) /\ \A k \in Inums : Count(s, k) = IF i = k THEN 1 ELSE 0
  BY UnlocksLast
<1> HIDE DEF s
<1>2. ~f.panic => \A k \in Inums : f.ref[k] = fs.ref[k] - Count(todo[p], k) + Count(s, k)
  BY <1>1
<1> QED
  BY <1>1, <1>2, Act DEF s

\* The call fails, and has that inode left.
LEMMA ActPuts ==
  ASSUME IndInv, ~fs.panic, NEW p \in Procs, NEW f, NEW i, Does(p, f, <<S("put", i)>>), UNCHANGED open, IsFS(f),
         \A k \in Inums : fs.ref[k] \in Int /\ Count(todo[p], k) = IF i = k THEN 1 ELSE 0,
         ~f.panic => f.ref = fs.ref
  PROVE  IndInv'
<1> DEFINE s == <<S("put", i)>>
<1>1. Planned(s, call[p].op, open[p]) /\ \A k \in Inums : Count(s, k) = IF i = k THEN 1 ELSE 0
  BY LastPlanned DEF Opens
<1> HIDE DEF s
<1>2. ~f.panic => \A k \in Inums : f.ref[k] = fs.ref[k] - Count(todo[p], k) + Count(s, k)
  BY <1>1
<1> QED
  BY <1>1, <1>2, Act DEF s

\* open: the reference of the walk becomes the file's.
LEMMA OpenSteps ==
  ASSUME IndInv, NEW p \in Procs, sys_open(p)
  PROVE  IndInv'
<1> DEFINE i == todo[p][1].i
           f == ilock(fs, i)
<1>1. Head1(p, "opened") /\ Does(p, f, <<>>) /\ open' = [open EXCEPT ![p] = i]
  BY DEF sys_open
<1>2. /\ ~fs.panic /\ open[p] = 0 /\ (\A k \in Inums : Count(todo[p], k) = IF i = k THEN 1 ELSE 0)
      /\ IsFS(f) /\ (~f.panic => f.ref = fs.ref)
  BY <1>1, LastStep DEF Passing, Opens
<1> HIDE DEF f
<1> QED
  BY <1>1, <1>2, ActOpens

\* link: the inode of the old name waits for the directory of the new one.
LEMMA LinkCountsStep ==
  ASSUME IndInv, NEW p \in Procs, LinkCounts(p)
  PROVE  IndInv'
<1> DEFINE i == todo[p][1].i
           f == ilock(fs, i)
           x == Start(call[p].new)
           names == Names(call[p].new)
           op == call[p].op
           o == open[p]
<1>1. Head1(p, "linkOld") /\ UNCHANGED open
  BY DEF LinkCounts
<1>2. /\ ~fs.panic /\ (\A k \in Inums : fs.ref[k] \in Int /\ Count(todo[p], k) = IF i = k THEN 1 ELSE 0)
      /\ IsFS(f) /\ (~f.panic => f.ref = fs.ref)
  BY <1>1, LastStep DEF Passing, Opens
<1>3. CASE Does(p, f, iunlockput(i))
  BY <1>1, <1>2, <1>3, ActUnlocks
<1>4. CASE Does(p, idup(AddLinks(f, i, 1), x), Goes(x, names, <<S2("linkNew", 0, i)>>))
  <2> DEFINE a == AddLinks(f, i, 1)
             g == idup(a, x)
             w == S2("linkNew", 0, i)
             s == Goes(x, names, <<w>>)
  <2>1. Keeps(f, a)
    BY <1>2, AddLinksKeeps
  <2>2. Moves(a, g, x, 1)
    BY <2>1, idupMoves DEF Keeps
  <2>3. Planned(<<w>>, op, o) /\ \A k \in Inums : Count(<<w>>, k) = IF i = k THEN 1 ELSE 0
    BY LastPlanned2 DEF Inums, Opens
  <2>4. Waits(w)
    BY Step2Fields DEF Waits
  <2>5. Does(p, g, s)
    BY <1>4
  <2> HIDE DEF w, a, g
  <2>6. Planned(s, op, o) /\ \A k \in Inums : Count(s, k) = (IF x = k THEN 1 ELSE 0) + Count(<<w>>, k)
    BY <2>3, <2>4, GoesPlanned
  <2>7. IsFS(g) /\ (~g.panic => ~a.panic /\ a.ref = fs.ref) /\ IsFS(a)
    BY <1>2, <2>1, <2>2 DEF Moves, Keeps
  <2>8. ASSUME ~g.panic, NEW k \in Inums
        PROVE  g.ref[k] = a.ref[k] + (IF x = k THEN 1 ELSE 0)
    BY <2>2, <2>7, <2>8, MovesAt
  <2> HIDE DEF s
  <2>9. ASSUME ~g.panic, NEW k \in Inums
        PROVE  g.ref[k] = fs.ref[k] - Count(todo[p], k) + Count(s, k)
    BY <1>2, <2>3, <2>6, <2>7, <2>8, <2>9
  <2> QED
    BY <1>1, <1>2, <2>5, <2>6, <2>7, <2>9, Act
<1> QED
  BY <1>3, <1>4 DEF LinkCounts

\* The name is entered, or the count of links goes down again.
LEMMA LinkEntersStep ==
  ASSUME IndInv, NEW p \in Procs, LinkEnters(p)
  PROVE  IndInv'
<1> DEFINE i == todo[p][1].i
           ip == todo[p][1].j
           f == ilock(fs, i)
           name == Last(call[p].new)
           d == dirlookup(f, i, name)
           op == call[p].op
           o == open[p]
<1>1. Head1(p, "linkNew") /\ UNCHANGED open
  BY DEF LinkEnters
<1>2. /\ ~fs.panic /\ IsFS(fs) /\ Counted(fs)
      /\ \A k \in Inums : fs.ref[k] \in Int
  BY <1>1, Heads
<1>3. \A k \in Inums : Count(todo[p], k) = (IF i = k THEN 1 ELSE 0) + (IF ip = k THEN 1 ELSE 0)
  BY <1>1, HeadLast DEF Passing
<1>4. Counted(f) /\ (~f.panic => f.ref = fs.ref)
  BY <1>2, ilockKeeps DEF Keeps, Counted
<1>5. Moves(f, d.fs, d.ip, 1)
  BY <1>4, dirlookupMoves
<1> HIDE DEF f, d
<1>6. CASE d.ip # 0 /\ Does(p, d.fs, <<S("put", d.ip)>> \o iunlockput(i) \o <<S("bad", ip)>>)
  <2> DEFINE b == <<S("bad", ip)>>
             u == iunlockput(i) \o b
             s == <<S("put", d.ip)>> \o u
             g == d.fs
  <2>1. Planned(b, op, o) /\ \A k \in Inums : Count(b, k) = IF ip = k THEN 1 ELSE 0
    BY LastPlanned DEF Opens
  <2>2. <<S("put", d.ip)>> \o iunlockput(i) \o <<S("bad", ip)>> = s
    <3>1. IsSeq(<<S("put", d.ip)>>) /\ IsSeq(iunlockput(i)) /\ IsSeq(<<S("bad", ip)>>)
      BY UnlocksLast, SeqLiterals DEF Planned
    <3> QED
      BY <3>1, SeqAssoc
  <2> HIDE DEF b
  <2>3. Planned(u, op, o) /\ \A k \in Inums : Count(u, k) = (IF i = k THEN 1 ELSE 0) + Count(b, k)
    BY <2>1, UnlocksPlanned
  <2> HIDE DEF u
  <2>4. Planned(s, op, o) /\ \A k \in Inums : Count(s, k) = (IF d.ip = k THEN 1 ELSE 0) + Count(u, k)
    BY <2>3, StepPlanned DEF Passing
  <2>5. Does(p, g, s)
    BY <1>6, <2>2
  <2> HIDE DEF s
  <2>6. IsFS(g) /\ IsFS(f) /\ (~g.panic => ~f.panic)
    BY <1>4, <1>5 DEF Moves, Counted
  <2>7. ASSUME ~g.panic, NEW k \in Inums
        PROVE  g.ref[k] = fs.ref[k] - Count(todo[p], k) + Count(s, k)
    <3>1. g.ref[k] = f.ref[k] + (IF d.ip = k THEN 1 ELSE 0)
      BY <1>5, <2>6, <2>7, MovesAt
    <3> HIDE DEF g
    <3> QED
      BY <1>2, <1>3, <1>4, <2>1, <2>3, <2>4, <2>6, <2>7, <3>1
  <2> QED
    BY <1>1, <1>2, <2>4, <2>5, <2>6, <2>7, Act
<1>7. CASE d.ip = 0 /\ Does(p, Enters(d, i, name, ip)[1], iunlockput(i) \o <<S("put", ip)>>)
  <2> DEFINE b == <<S("put", ip)>>
             s == iunlockput(i) \o b
             g == Enters(d, i, name, ip)[1]
  <2>1. Planned(b, op, o) /\ \A k \in Inums : Count(b, k) = IF ip = k THEN 1 ELSE 0
    BY LastPlanned DEF Opens
  <2>2. Does(p, g, s)
    BY <1>7
  <2>3. g = NewEntry(d.fs, i, name, ip)[1]
    BY <1>7 DEF Enters
  <2> HIDE DEF b, g
  <2>4. Planned(s, op, o) /\ \A k \in Inums : Count(s, k) = (IF i = k THEN 1 ELSE 0) + Count(b, k)
    BY <2>1, UnlocksPlanned
  <2>5. Keeps(d.fs, g) /\ IsFS(d.fs) /\ IsFS(f)
    BY <1>4, <1>5, <2>3, NewEntryKeeps DEF Moves, Counted
  <2> HIDE DEF s
  <2>6. ASSUME ~g.panic, NEW k \in Inums
        PROVE  g.ref[k] = fs.ref[k] - Count(todo[p], k) + Count(s, k)
    <3>1. ~d.fs.panic /\ g.ref = d.fs.ref /\ ~f.panic
      BY <1>5, <2>5, <2>6 DEF Keeps, Moves
    <3>2. d.fs.ref[k] = f.ref[k] + (IF d.ip = k THEN 1 ELSE 0)
      BY <1>5, <2>5, <3>1, MovesAt
    <3>3. d.ip # k
      BY <1>7 DEF Inums
    <3> QED
      BY <1>2, <1>3, <1>4, <2>1, <2>4, <3>1, <3>2, <3>3
  <2> QED
    BY <1>1, <1>2, <2>2, <2>4, <2>5, <2>6, Act DEF Keeps
<1> QED
  BY <1>6, <1>7 DEF LinkEnters, f, d

LEMMA LinkFailsStep ==
  ASSUME IndInv, NEW p \in Procs, LinkFails(p)
  PROVE  IndInv'
<1> DEFINE i == todo[p][1].i
           f == ilock(fs, i)
           g == AddLinks(f, i, -1)
<1>1. Head1(p, "bad") /\ Does(p, g, <<S("put", i)>>) /\ UNCHANGED open
  BY DEF LinkFails
<1>2. /\ ~fs.panic /\ (\A k \in Inums : fs.ref[k] \in Int /\ Count(todo[p], k) = IF i = k THEN 1 ELSE 0)
      /\ IsFS(f) /\ (~f.panic => f.ref = fs.ref)
  BY <1>1, LastStep DEF Passing, Opens
<1> HIDE DEF f
<1>3. IsFS(g) /\ (~g.panic => g.ref = fs.ref)
  BY <1>2, AddLinksKeeps DEF Keeps
<1> HIDE DEF g
<1> QED
  BY <1>1, <1>2, <1>3, ActPuts

\* unlink: the inode found waits with its directory.
LEMMA UnlinkLooksStep ==
  ASSUME IndInv, NEW p \in Procs, UnlinkLooks(p)
  PROVE  IndInv'
<1> DEFINE i == todo[p][1].i
           f == ilock(fs, i)
           d == dirlookup(f, i, Last(call[p].path))
           op == call[p].op
           o == open[p]
<1>1. Head1(p, "unlinkDir") /\ UNCHANGED open
  BY DEF UnlinkLooks
<1>2. /\ ~fs.panic /\ (\A k \in Inums : fs.ref[k] \in Int /\ Count(todo[p], k) = IF i = k THEN 1 ELSE 0)
      /\ IsFS(f) /\ Counted(f) /\ (~f.panic => f.ref = fs.ref)
  BY <1>1, LastStep DEF Passing, Opens
<1>3. CASE Does(p, f, iunlockput(i))
  BY <1>1, <1>2, <1>3, ActUnlocks
<1>4. CASE Does(p, d.fs, IF d.ip = 0 THEN iunlockput(i) ELSE <<S2("unlinkEntry", d.ip, i)>>)
  <2> DEFINE s == IF d.ip = 0 THEN iunlockput(i) ELSE <<S2("unlinkEntry", d.ip, i)>>
             g == d.fs
  <2>1. Moves(f, g, d.ip, 1)
    BY <1>2, dirlookupMoves
  <2>2. Does(p, g, s)
    BY <1>4
  <2> HIDE DEF f, d
  <2>3. Planned(s, op, o) /\ \A k \in Inums : Count(s, k) = (IF d.ip = k THEN 1 ELSE 0) + (IF i = k THEN 1 ELSE 0)
    <3>1. CASE d.ip = 0
      <4>1. Planned(iunlockput(i), op, o) /\ \A k \in Inums : Count(iunlockput(i), k) = IF i = k THEN 1 ELSE 0
        BY UnlocksLast
      <4>2. \A k \in Inums : d.ip # k
        BY <3>1 DEF Inums
      <4> QED
        BY <3>1, <4>1, <4>2
    <3>2. CASE d.ip # 0
      <4> DEFINE w == <<S2("unlinkEntry", d.ip, i)>>
      <4>1. Planned(w, op, o) /\ \A k \in Inums : Count(w, k) = (IF d.ip = k THEN 1 ELSE 0) + (IF i = k THEN 1 ELSE 0)
        <5>1. ~Opens("unlinkEntry", op)
          BY DEF Opens
        <5> QED
          BY <5>1, LastPlanned2
      <4>2. s = w
        BY <3>2
      <4> HIDE DEF w, s
      <4> QED
        BY <4>1, <4>2
    <3> QED
      BY <3>1, <3>2
  <2>4. IsFS(g) /\ (~g.panic => ~f.panic)
    BY <2>1 DEF Moves
  <2> HIDE DEF s
  <2>5. ASSUME ~g.panic, NEW k \in Inums
        PROVE  g.ref[k] = fs.ref[k] - Count(todo[p], k) + Count(s, k)
    <3>1. g.ref[k] = f.ref[k] + (IF d.ip = k THEN 1 ELSE 0)
      BY <1>2, <2>1, <2>5, MovesAt
    <3> HIDE DEF g
    <3> QED
      BY <1>2, <2>3, <2>4, <2>5, <3>1
  <2> QED
    BY <1>1, <1>2, <2>2, <2>3, <2>4, <2>5, Act
<1> QED
  BY <1>3, <1>4 DEF UnlinkLooks

\* The entry is erased; both inodes are let go.
LEMMA UnlinkErasesStep ==
  ASSUME IndInv, NEW p \in Procs, UnlinkErases(p)
  PROVE  IndInv'
<1> DEFINE i == todo[p][1].i
           dp == todo[p][1].j
           f == ilock(fs, i)
           off == dirlookup(f, dp, Last(call[p].path)).off
           e == Erased(f, dp, i, off)
           op == call[p].op
           o == open[p]
<1>1. Head1(p, "unlinkEntry") /\ UNCHANGED open
  BY DEF UnlinkErases
<1>2. /\ ~fs.panic /\ IsFS(fs) /\ \A k \in Inums : fs.ref[k] \in Int
  BY <1>1, Heads
<1>3. \A k \in Inums : Count(todo[p], k) = (IF i = k THEN 1 ELSE 0) + (IF dp = k THEN 1 ELSE 0)
  BY <1>1, HeadLast DEF Passing
<1>4. IsFS(f) /\ (~f.panic => f.ref = fs.ref)
  BY <1>2, ilockKeeps DEF Keeps
<1>5. IsFS(e) /\ (~e.panic => e.ref = fs.ref)
  BY <1>4, ErasedKeeps DEF Keeps
<1>6. IsFS(Panics(f)) /\ Panics(f).panic
  BY <1>4, PanicsKeeps DEF Keeps
<1>7. CASE Does(p, Panics(f), <<>>)
  BY <1>1, <1>2, <1>6, <1>7, Act
<1>8. CASE Does(p, f, iunlockput(i) \o iunlockput(dp))
  <2> DEFINE t == iunlockput(dp)
             s == iunlockput(i) \o t
  <2>1. Planned(t, op, o) /\ \A k \in Inums : Count(t, k) = IF dp = k THEN 1 ELSE 0
    BY UnlocksLast
  <2> HIDE DEF t
  <2>2. Planned(s, op, o) /\ \A k \in Inums : Count(s, k) = (IF i = k THEN 1 ELSE 0) + Count(t, k)
    BY <2>1, UnlocksPlanned
  <2>3. Does(p, f, s)
    BY <1>8 DEF t
  <2> HIDE DEF s, f
  <2>4. ~f.panic => \A k \in Inums : f.ref[k] = fs.ref[k] - Count(todo[p], k) + Count(s, k)
    BY <1>2, <1>3, <1>4, <2>1, <2>2
  <2> QED
    BY <1>1, <1>2, <1>4, <2>2, <2>3, <2>4, Act
<1>9. CASE Does(p, e, iunlockput(dp) \o <<S("unlinked", i)>> \o iunlockput(i))
  <2> DEFINE t == iunlockput(i)
             u == <<S("unlinked", i)>> \o t
             s == iunlockput(dp) \o u
  <2>1. Planned(t, op, o) /\ \A k \in Inums : Count(t, k) = IF i = k THEN 1 ELSE 0
    BY UnlocksLast
  <2>2. iunlockput(dp) \o <<S("unlinked", i)>> \o iunlockput(i) = s
    <3>1. IsSeq(iunlockput(dp)) /\ IsSeq(<<S("unlinked", i)>>) /\ IsSeq(iunlockput(i))
      BY UnlocksLast, SeqLiterals DEF Planned
    <3> QED
      BY <3>1, SeqAssoc
  <2> HIDE DEF t
  <2>3. Planned(u, op, o) /\ \A k \in Inums : Count(u, k) = Count(t, k)
    <3>1. Planned(u, op, o) /\ \A k \in Inums : Count(u, k) = 0 + Count(t, k)
      BY <2>1, StepPlanned DEF Passing
    <3> QED
      BY <2>1, <3>1
  <2> HIDE DEF u
  <2>4. Planned(s, op, o) /\ \A k \in Inums : Count(s, k) = (IF dp = k THEN 1 ELSE 0) + Count(u, k)
    BY <2>3, UnlocksPlanned
  <2>5. Does(p, e, s)
    BY <1>9, <2>2
  <2> HIDE DEF s, e
  <2>6. ~e.panic => \A k \in Inums : e.ref[k] = fs.ref[k] - Count(todo[p], k) + Count(s, k)
    BY <1>2, <1>3, <1>5, <2>1, <2>3, <2>4
  <2> QED
    BY <1>1, <1>2, <1>5, <2>4, <2>5, <2>6, Act
<1> QED
  BY <1>7, <1>8, <1>9 DEF UnlinkErases

LEMMA UnlinkCountsStep ==
  ASSUME IndInv, NEW p \in Procs, UnlinkCounts(p)
  PROVE  IndInv'
<1> DEFINE f == AddLinks(fs, todo[p][1].i, -1)
           r == Rest(p)
<1>1. Head1(p, "unlinked") /\ Does(p, f, r) /\ UNCHANGED open
  BY DEF UnlinkCounts
<1>2. /\ ~fs.panic /\ IsFS(fs) /\ Planned(r, call[p].op, open[p])
      /\ \A k \in Inums : fs.ref[k] \in Int /\ Count(r, k) \in Nat
  BY <1>1, Heads
<1>3. \A k \in Inums : Count(todo[p], k) = Count(r, k)
  <2>1. \A k \in Inums : Count(todo[p], k) = 0 + Count(r, k)
    BY <1>1, HeadPasses DEF Passing
  <2> HIDE DEF r
  <2> QED
    BY <1>2, <2>1
<1>4. IsFS(f) /\ (~f.panic => f.ref = fs.ref)
  BY <1>2, AddLinksKeeps DEF Keeps
<1> HIDE DEF f, r
<1>5. ~f.panic => \A k \in Inums : f.ref[k] = fs.ref[k] - Count(todo[p], k) + Count(r, k)
  BY <1>2, <1>3, <1>4
<1> QED
  BY <1>1, <1>2, <1>4, <1>5, Act

\* create: the inode is there, or it is new and has a reference.
LEMMA CreateLooksStep ==
  ASSUME IndInv, NEW p \in Procs, CreateLooks(p)
  PROVE  IndInv'
<1> DEFINE i == todo[p][1].i
           f == ilock(fs, i)
           d == dirlookup(f, i, Last(call[p].path))
           g == d.fs
           op == call[p].op
           a == ialloc(g, op)
           o == open[p]
<1>1. Head1(p, "createIn") /\ UNCHANGED open
  BY DEF CreateLooks
<1>2. /\ ~fs.panic /\ (\A k \in Inums : fs.ref[k] \in Int /\ Count(todo[p], k) = IF i = k THEN 1 ELSE 0)
      /\ IsFS(f) /\ Counted(f) /\ (~f.panic => f.ref = fs.ref)
      /\ (Opens("createIn", op) => o = 0)
  BY <1>1, LastStep DEF Passing
<1>3. Opens("createOld", op) => o = 0
  BY <1>2 DEF Opens
<1>4. Opens("createNew", op) => o = 0
  BY <1>2 DEF Opens
<1>5. Moves(f, g, d.ip, 1)
  BY <1>2, dirlookupMoves
<1>6. Counted(g) /\ (~g.panic => ~f.panic)
  <2>1. ~g.panic => ~f.panic
    BY <1>5 DEF Moves
  <2> HIDE DEF f, g
  <2> QED
    BY <1>2, <1>5, <2>1, MovesCounted
<1>7. Moves(g, a[1], a[2], 1)
  BY <1>6, iallocMoves
<1>8. ASSUME ~g.panic, NEW k \in Inums
      PROVE  g.ref[k] = fs.ref[k] + (IF d.ip = k THEN 1 ELSE 0)
  <2>1. g.ref[k] = f.ref[k] + (IF d.ip = k THEN 1 ELSE 0)
    BY <1>2, <1>5, <1>8, MovesAt
  <2> QED
    BY <1>2, <1>6, <1>8, <2>1
<1>9. CASE d.ip # 0 /\ Does(p, g, iunlockput(i) \o <<S("createOld", d.ip)>>)
  <2> DEFINE t == <<S("createOld", d.ip)>>
             s == iunlockput(i) \o t
  <2>1. Planned(t, op, o) /\ \A k \in Inums : Count(t, k) = IF d.ip = k THEN 1 ELSE 0
    <3>1. "createOld" # "walk" /\ "createOld" \notin {"unlock", "unlinked"}
      OBVIOUS
    <3> HIDE DEF op, o, d
    <3> QED
      BY <1>3, <3>1, LastPlanned
  <2> HIDE DEF t
  <2>2. Planned(s, op, o) /\ \A k \in Inums : Count(s, k) = (IF i = k THEN 1 ELSE 0) + Count(t, k)
    BY <2>1, UnlocksPlanned
  <2>3. Does(p, g, s)
    BY <1>9 DEF t
  <2> HIDE DEF s, g
  <2>4. ~g.panic => \A k \in Inums : g.ref[k] = fs.ref[k] - Count(todo[p], k) + Count(s, k)
    BY <1>2, <1>8, <2>1, <2>2
  <2> QED
    BY <1>1, <1>2, <1>6, <2>2, <2>3, <2>4, Act DEF Counted
<1>10. CASE d.ip = 0 /\ Does(p, a[1], <<S2("createNew", a[2], i)>>)
  <2> DEFINE s == <<S2("createNew", a[2], i)>>
             h == a[1]
  <2> HIDE DEF g
  <2>1. Planned(s, op, o) /\ \A k \in Inums : Count(s, k) = (IF a[2] = k THEN 1 ELSE 0) + (IF i = k THEN 1 ELSE 0)
    <3> DEFINE x == a[2]
    <3> HIDE DEF op, o, x
    <3>1. /\ Planned(<<S2("createNew", x, i)>>, op, o)
          /\ \A k \in Inums : Count(<<S2("createNew", x, i)>>, k) = (IF x = k THEN 1 ELSE 0) + (IF i = k THEN 1 ELSE 0)
      BY <1>4, LastPlanned2
    <3> QED
      BY <3>1 DEF x
  <2>2. Does(p, h, s)
    BY <1>10
  <2>3. IsFS(h) /\ IsFS(g) /\ (~h.panic => ~g.panic)
    BY <1>6, <1>7 DEF Moves, Counted
  <2>4. \A k \in Inums : d.ip # k
    BY <1>10 DEF Inums
  <2> HIDE DEF s, a
  <2>5. ASSUME ~h.panic, NEW k \in Inums
        PROVE  h.ref[k] = fs.ref[k] - Count(todo[p], k) + Count(s, k)
    <3>1. h.ref[k] = g.ref[k] + (IF a[2] = k THEN 1 ELSE 0)
      BY <1>7, <2>3, <2>5, MovesAt
    <3>2. g.ref[k] = fs.ref[k]
      <4>1. g.ref[k] = fs.ref[k] + (IF d.ip = k THEN 1 ELSE 0) /\ fs.ref[k] \in Int
        BY <1>2, <1>8, <2>3, <2>5
      <4> HIDE DEF d
      <4> QED
        BY <2>4, <4>1
    <3> HIDE DEF h
    <3> QED
      BY <1>2, <2>1, <3>1, <3>2
  <2> QED
    BY <1>1, <1>2, <2>1, <2>2, <2>3, <2>5, Act
<1> QED
  BY <1>9, <1>10 DEF CreateLooks

\* The new inode gets its name, and "." and ".." if it is a directory.
LEMMA CreateEntersStep ==
  ASSUME IndInv, NEW p \in Procs, CreateEnters(p)
  PROVE  IndInv'
<1> DEFINE i == todo[p][1].i
           dp == todo[p][1].j
           b == Born(fs, i, 0)
           new == Furnished(b, dp, i, call[p].op)
           e == dirlink(new, dp, Last(call[p].path), i)[1]
           op == call[p].op
           o == open[p]
           t == IF op = "dir" THEN iunlockput(i) ELSE <<S("made", i)>>
           s == iunlockput(dp) \o t
<1>1. Head1(p, "createNew") /\ UNCHANGED open /\ Does(p, e, s)
  BY DEF CreateEnters
<1>2. /\ ~fs.panic /\ IsFS(fs) /\ Counted(fs) /\ (Opens("createNew", op) => o = 0)
      /\ \A k \in Inums : fs.ref[k] \in Int
  BY <1>1, Heads
<1>3. \A k \in Inums : Count(todo[p], k) = (IF i = k THEN 1 ELSE 0) + (IF dp = k THEN 1 ELSE 0)
  BY <1>1, HeadLast DEF Passing
<1>4. Keeps(fs, b) /\ Counted(b)
  BY <1>2, BornKeeps DEF Keeps, Counted
<1>5. Keeps(b, new) /\ Counted(new)
  BY <1>4, FurnishedKeeps DEF Keeps, Counted
<1>6. Keeps(new, e)
  BY <1>5, dirlinkKeeps
<1>7. IsFS(e) /\ (~e.panic => e.ref = fs.ref)
  BY <1>4, <1>5, <1>6 DEF Keeps
<1>8. Planned(t, op, o) /\ \A k \in Inums : Count(t, k) = IF i = k THEN 1 ELSE 0
  <2>1. CASE op = "dir"
    <3>1. Planned(iunlockput(i), op, o) /\ \A k \in Inums : Count(iunlockput(i), k) = IF i = k THEN 1 ELSE 0
      BY UnlocksLast
    <3> QED
      BY <2>1, <3>1
  <2>2. CASE op # "dir"
    <3>1. o = 0
      BY <1>2, <2>2 DEF Opens
    <3> DEFINE m == <<S("made", i)>>
    <3>2. Planned(m, op, o) /\ \A k \in Inums : Count(m, k) = IF i = k THEN 1 ELSE 0
      <4>1. "made" # "walk" /\ "made" \notin {"unlock", "unlinked"}
        OBVIOUS
      <4> HIDE DEF op, o
      <4> QED
        BY <3>1, <4>1, LastPlanned
    <3>3. t = m
      BY <2>2
    <3> HIDE DEF t, m
    <3> QED
      BY <3>2, <3>3
  <2> QED
    BY <2>1, <2>2
<1> HIDE DEF t
<1>9. Planned(s, op, o) /\ \A k \in Inums : Count(s, k) = (IF dp = k THEN 1 ELSE 0) + Count(t, k)
  BY <1>8, UnlocksPlanned
<1> HIDE DEF s, e
<1>10. ~e.panic => \A k \in Inums : e.ref[k] = fs.ref[k] - Count(todo[p], k) + Count(s, k)
  BY <1>2, <1>3, <1>7, <1>8, <1>9
<1> QED
  BY <1>1, <1>2, <1>7, <1>9, <1>10, Act

LEMMA CreateFindsStep ==
  ASSUME IndInv, NEW p \in Procs, CreateFinds(p)
  PROVE  IndInv'
<1> DEFINE i == todo[p][1].i
           f == ilock(fs, i)
           op == call[p].op
           o == open[p]
<1>1. Head1(p, "createOld") /\ UNCHANGED open
  BY DEF CreateFinds
<1>2. /\ ~fs.panic /\ (\A k \in Inums : fs.ref[k] \in Int /\ Count(todo[p], k) = IF i = k THEN 1 ELSE 0)
      /\ IsFS(f) /\ (~f.panic => f.ref = fs.ref) /\ (Opens("createOld", op) => o = 0)
  BY <1>1, LastStep DEF Passing
<1>3. CASE op = "file" /\ Does(p, f, <<S("made", i)>>)
  <2> DEFINE s == <<S("made", i)>>
  <2>1. o = 0
    BY <1>2, <1>3 DEF Opens
  <2>2. Planned(s, op, o) /\ \A k \in Inums : Count(s, k) = IF i = k THEN 1 ELSE 0
    <3>1. "made" # "walk" /\ "made" \notin {"unlock", "unlinked"}
      OBVIOUS
    <3> HIDE DEF op, o
    <3> QED
      BY <2>1, <3>1, LastPlanned
  <2>3. Does(p, f, s)
    BY <1>3
  <2> HIDE DEF s, f
  <2>4. ~f.panic => \A k \in Inums : f.ref[k] = fs.ref[k] - Count(todo[p], k) + Count(s, k)
    BY <1>2, <2>2
  <2> QED
    BY <1>1, <1>2, <2>2, <2>3, <2>4, Act
<1>4. CASE Does(p, f, iunlockput(i))
  BY <1>1, <1>2, <1>4, ActUnlocks
<1> QED
  BY <1>3, <1>4 DEF CreateFinds

\* The file of open with O_CREATE.
LEMMA CreateOpensStep ==
  ASSUME IndInv, NEW p \in Procs, CreateOpens(p)
  PROVE  IndInv'
<1> DEFINE i == todo[p][1].i
<1>1. Head1(p, "made") /\ Does(p, Unlocked(p, i), <<>>) /\ open' = [open EXCEPT ![p] = i]
  BY DEF CreateOpens
<1>2. /\ ~fs.panic /\ IsFS(fs) /\ open[p] = 0 /\ (\A k \in Inums : Count(todo[p], k) = IF i = k THEN 1 ELSE 0)
  BY <1>1, LastStep DEF Passing, Opens
<1>3. IsFS(Unlocked(p, i)) /\ (~Unlocked(p, i).panic => Unlocked(p, i).ref = fs.ref)
  BY <1>2, UnlockedKeeps DEF Keeps
<1> QED
  BY <1>1, <1>2, <1>3, ActOpens

\* A call begins.
LEMMA BeginsStep ==
  ASSUME IndInv, NEW p \in Procs, Begins(p)
  PROVE  IndInv'
<1>1. ~fs.panic /\ todo[p] = <<>>
  BY DEF Begins, Idle
<1>2. IsFS(fs) /\ \A k \in Inums : fs.ref[k] \in Int /\ k # 0 /\ Count(todo[p], k) = 0
  <2>1. IsFS(fs)
    BY DEF IndInv, ControlInv
  <2>2. \A k \in Inums : fs.ref[k] \in Int
    BY <2>1 DEF IsFS
  <2>3. \A k \in Inums : k # 0
    BY DEF Inums
  <2> QED
    BY <1>1, <2>1, <2>2, <2>3, PlannedEmpty
<1>3. PICK c \in Calls :
        /\ call' = [call EXCEPT ![p] = c]
        /\ \/ /\ c.op = "close" /\ open[p] # 0
              /\ todo' = [todo EXCEPT ![p] = <<S("put", open[p])>>]
              /\ open' = [open EXCEPT ![p] = 0] /\ UNCHANGED fs
           \/ /\ c.op # "close" /\ (c.op \in {"open", "file"} => open[p] = 0)
              /\ fs' = idup(fs, Start(c.path))
              /\ todo' = [todo EXCEPT ![p] = Goes(Start(c.path), Names(c.path), <<S(First[c.op], 0)>>)]
              /\ UNCHANGED open
  BY DEF Begins
<1>4. CASE /\ todo' = [todo EXCEPT ![p] = <<S("put", open[p])>>]
           /\ open' = [open EXCEPT ![p] = 0] /\ UNCHANGED fs
  <2> DEFINE s == <<S("put", open[p])>>
             o == open[p]
             op == c.op
             z == 0
  <2>1. Planned(s, op, z) /\ \A k \in Inums : Count(s, k) = IF o = k THEN 1 ELSE 0
    <3>1. "put" # "walk" /\ "put" \notin {"unlock", "unlinked"}
      OBVIOUS
    <3> HIDE DEF o, op
    <3> QED
      BY <3>1, LastPlanned DEF o
  <2>2. todo' = [todo EXCEPT ![p] = s] /\ open' = [open EXCEPT ![p] = z] /\ fs' = fs
    BY <1>4
  <2> HIDE DEF s
  <2>3. \A k \in Inums : fs'.ref[k] = fs.ref[k] - Own(todo[p], open[p], k) + Own(s, z, k)
    BY <1>2, <2>1, <2>2 DEF Own
  <2> QED
    BY <1>1, <1>2, <1>3, <2>1, <2>2, <2>3, Step
<1>5. CASE /\ c.op # "close" /\ (c.op \in {"open", "file"} => open[p] = 0)
           /\ fs' = idup(fs, Start(c.path))
           /\ todo' = [todo EXCEPT ![p] = Goes(Start(c.path), Names(c.path), <<S(First[c.op], 0)>>)]
           /\ UNCHANGED open
  <2> DEFINE x == Start(c.path)
             op == c.op
             do == First[op]
             w == S(do, 0)
             s == Goes(x, Names(c.path), <<w>>)
             g == idup(fs, x)
             o == open[p]
  <2>1. op \in {"open", "link", "unlink", "file", "dir"}
    BY <1>5, InodesAssumption
  <2>2. do \in {"opened", "linkOld", "unlinkDir", "createIn"} /\ (Opens(do, op) => o = 0)
    BY <1>5, <2>1 DEF First, Opens
  <2> HIDE DEF do, op, o, x
  <2>3. w.i = 0 /\ w.do = do
    BY StepFields
  <2>4. Waits(w)
    BY <2>2, <2>3 DEF Waits
  <2>5. Planned(<<w>>, op, o) /\ \A k \in Inums : Count(<<w>>, k) = 0
    <3>1. do # "walk"
      BY <2>2
    <3>2. /\ Planned(<<S(do, 0)>>, op, o)
          /\ \A k \in Inums : Count(<<S(do, 0)>>, k) = IF 0 = k /\ do \notin {"unlock", "unlinked"} THEN 1 ELSE 0
      BY <2>2, <3>1, LastPlanned
    <3> QED
      BY <1>2, <3>2
  <2> HIDE DEF w
  <2>6. Planned(s, op, o) /\ \A k \in Inums : Count(s, k) = (IF x = k THEN 1 ELSE 0) + Count(<<w>>, k)
    BY <2>4, <2>5, GoesPlanned
  <2>7. fs' = g /\ todo' = [todo EXCEPT ![p] = s] /\ open' = [open EXCEPT ![p] = o]
    BY <1>5 DEF w, do, op, o, x, IndInv, ControlInv
  <2>8. Moves(fs, g, x, 1) /\ IsFS(g)
    BY <1>2, idupMoves DEF Moves
  <2> HIDE DEF s, g
  <2>9. ASSUME ~g.panic, NEW k \in Inums
        PROVE  g.ref[k] = fs.ref[k] - Own(todo[p], open[p], k) + Own(s, o, k)
    <3>1. g.ref[k] = fs.ref[k] + (IF x = k THEN 1 ELSE 0)
      BY <1>2, <2>8, <2>9, MovesAt
    <3>2. Count(todo[p], k) = 0 /\ Count(s, k) = (IF x = k THEN 1 ELSE 0) /\ fs.ref[k] \in Int
      BY <1>2, <2>5, <2>6
    <3> QED
      BY <3>1, <3>2 DEF Own, o
  <2> QED
    BY <1>1, <1>3, <2>6, <2>7, <2>8, <2>9, Step DEF op
<1> QED
  BY <1>3, <1>4, <1>5

-----------------------------------------------------------------------------
(* The theorems *)

LEMMA InitInv ==
  ASSUME Init
  PROVE  IndInv
<1>1. IsFS(Disk) /\ ~Disk.panic /\ Disk.ref = [i \in Inums |-> 0]
  <2>1. Disk \in [disk : {Disk.disk}, inode : {Disk.inode}, ref : {[i \in Inums |-> 0]}, valid : {Disk.valid},
                  block : {Disk.block}, used : {Disk.used}, panic : {FALSE}]
    BY InodesAssumption
  <2>2. Disk.ref = [i \in Inums |-> 0] /\ Disk.panic = FALSE
    BY <2>1
  <2>3. [i \in Inums |-> 0] \in [Inums -> Int]
    OBVIOUS
  <2>4. IsFS(Disk)
    BY <2>1, <2>2, <2>3 DEF IsFS
  <2> QED
    BY <2>2, <2>4
<1>2. Moves(Disk, fs, cwd, 1) /\ IsFS(fs)
  BY <1>1, idupMoves DEF Moves, Init
<1>3. ASSUME NEW p \in Procs
      PROVE  todo[p] = <<>> /\ open[p] = 0
  BY DEF Init
<1>4. ControlInv
  <2>1. \A p \in Procs : Planned(todo[p], call[p].op, open[p])
    BY <1>3, PlannedEmpty
  <2>2. todo = [p \in Procs |-> todo[p]] /\ call = [p \in Procs |-> call[p]] /\ open = [p \in Procs |-> open[p]]
    BY DEF Init
  <2> QED
    BY <1>2, <2>1, <2>2 DEF ControlInv
<1>5. ASSUME ~fs.panic, NEW i \in Inums
      PROVE  fs.ref[i] = Cardinality(UNION {{p} \X Held(p, i) : p \in Procs}) + (IF i = cwd THEN 1 ELSE 0)
  <2>1. \A p \in Procs : Held(p, i) = {}
    <3>1. Places(Reverse(<<>>), i) = {}
      BY PlacesFinite, SeqLiterals
    <3>2. i # 0
      BY DEF Inums
    <3> QED
      BY <1>3, <3>1, <3>2 DEF Held
  <2>2. UNION {{p} \X Held(p, i) : p \in Procs} = {}
    BY <2>1
  <2>3. Cardinality(UNION {{p} \X Held(p, i) : p \in Procs}) = 0
    BY <2>2, FS_EmptySet
  <2>4. fs.ref[i] = Disk.ref[i] + (IF cwd = i THEN 1 ELSE 0)
    BY <1>1, <1>2, <1>5, MovesAt
  <2>5. Disk.ref[i] = 0
    BY <1>1
  <2> QED
    BY <2>3, <2>4, <2>5
<1> QED
  BY <1>4, <1>5 DEF IndInv, ReferencesHeld

LEMMA NextInv ==
  ASSUME IndInv, [Next]_vars
  PROVE  IndInv'
<1>1. CASE UNCHANGED vars
  <2>1. UNCHANGED <<fs, todo, call, open>>
    BY <1>1 DEF vars
  <2>2. \A p \in Procs, i \in Inums : Held(p, i)' = Held(p, i)
    BY <2>1 DEF Held
  <2>3. ControlInv'
    BY <2>1 DEF IndInv, ControlInv
  <2>4. ReferencesHeld'
    BY <2>1, <2>2 DEF IndInv, ReferencesHeld
  <2> QED
    BY <2>3, <2>4 DEF IndInv
<1>2. ASSUME NEW p \in Procs, Begins(p) \/ Steps(p)
      PROVE  IndInv'
  <2>1. CASE Begins(p)
    BY <2>1, BeginsStep
  <2>2. CASE namex1(p)
    BY <2>2, WalkSteps
  <2>3. CASE iunlock(p) \/ IputLooks(p) \/ IputFrees(p) \/ IputDrops(p)
    BY <2>3, PutSteps
  <2>4. CASE sys_open(p)
    BY <2>4, OpenSteps
  <2>5. CASE LinkCounts(p) \/ LinkEnters(p) \/ LinkFails(p)
    BY <2>5, LinkCountsStep, LinkEntersStep, LinkFailsStep
  <2>6. CASE UnlinkLooks(p) \/ UnlinkErases(p) \/ UnlinkCounts(p)
    BY <2>6, UnlinkLooksStep, UnlinkErasesStep, UnlinkCountsStep
  <2>7. CASE CreateLooks(p) \/ CreateEnters(p) \/ CreateFinds(p) \/ CreateOpens(p)
    BY <2>7, CreateLooksStep, CreateEntersStep, CreateFindsStep, CreateOpensStep
  <2> QED
    BY <1>2, <2>1, <2>2, <2>3, <2>4, <2>5, <2>6, <2>7 DEF Steps
<1>3. CASE Next
  BY <1>1, <1>2, <1>3 DEF Next, Ends
<1> QED
  BY <1>1, <1>3

\* The invariant is inductive: a step that follows others lets go of what it is about, one that
\* waits has nothing yet, and a file is only opened by a process that has none open.
THEOREM InodesInvariant == Spec => []IndInv
BY InitInv, NextInv, PTL DEF Spec

\* ReferencesHeld: as long as nothing has panicked, ip->ref of every inode is the number of the
\* references that steps under way and open files hold, however the calls interleave.
THEOREM InodesReferencesHeld == Spec => []ReferencesHeld
<1>1. IndInv => ReferencesHeld
  BY DEF IndInv
<1> QED
  BY <1>1, InodesInvariant, PTL

-----------------------------------------------------------------------------
(* The locks that steps let go of *)

Lets(s, i) == Cardinality({k \in DOMAIN s : Releases(s[k], i)})

LEMMA LetsFinite ==
  ASSUME NEW s, IsSeq(s), NEW i
  PROVE  /\ IsFiniteSet({k \in DOMAIN s : Releases(s[k], i)}) /\ Lets(s, i) \in Nat
<1>1. DOMAIN s = 1..Len(s) /\ Len(s) \in Nat
  BY DEF IsSeq
<1>2. IsFiniteSet(1..Len(s))
  BY <1>1, FS_Interval
<1>3. IsFiniteSet({k \in DOMAIN s : Releases(s[k], i)})
  BY <1>1, <1>2, FS_Subset
<1> QED
  BY <1>3, FS_CardinalityType DEF Lets

LEMMA LetsEmpty ==
  ASSUME NEW i
  PROVE  Lets(<<>>, i) = 0
<1>1. {k \in DOMAIN <<>> : Releases(<<>>[k], i)} = {}
  OBVIOUS
<1> QED
  BY <1>1, FS_EmptySet DEF Lets

LEMMA LetsCons ==
  ASSUME NEW s, IsSeq(s), NEW x, NEW i
  PROVE  Lets(<<x>> \o s, i) = (IF Releases(x, i) THEN 1 ELSE 0) + Lets(s, i)
<1> DEFINE t == <<x>> \o s
           n == Len(s)
           A == {k \in 1..n : Releases(s[k], i)}
           B == {k \in 2..n + 1 : Releases(t[k], i)}
<1>1. /\ n \in Nat /\ DOMAIN s = 1..n /\ DOMAIN t = 1..n + 1
      /\ t[1] = x /\ \A k \in 1..n : t[k + 1] = s[k]
  BY SeqConsAt, SeqConsIs DEF IsSeq
<1>2. IsFiniteSet(A) /\ Lets(s, i) = Cardinality(A) /\ Lets(s, i) \in Nat
  BY <1>1, LetsFinite DEF Lets
<1> HIDE DEF t, n
<1>3. IsFiniteSet(B) /\ Cardinality(B) = Cardinality(A)
  <2> DEFINE f == [k \in A |-> k + 1]
  <2>1. f \in [A -> B]
    BY <1>1
  <2>2. \A a, b \in A : f[a] = f[b] => a = b
    BY <1>1
  <2>3. \A b \in B : \E a \in A : f[a] = b
    <3> SUFFICES ASSUME NEW b \in B
                 PROVE  \E a \in A : f[a] = b
      OBVIOUS
    <3>1. b - 1 \in 1..n /\ (b - 1) + 1 = b
      BY <1>1
    <3>2. b - 1 \in A
      BY <1>1, <3>1
    <3> QED
      BY <3>1, <3>2
  <2> HIDE DEF f, A, B
  <2>4. f \in Bijection(A, B)
    BY <2>1, <2>2, <2>3, Fun_IsBij
  <2> QED
    BY <1>2, <2>4, FS_Bijection DEF ExistsBijection
<1>4. 1 \notin B
  BY <1>1
<1>5. {k \in DOMAIN t : Releases(t[k], i)} = IF Releases(x, i) THEN B \cup {1} ELSE B
  BY <1>1
<1>6. Lets(t, i) = Cardinality(IF Releases(x, i) THEN B \cup {1} ELSE B)
  BY <1>5 DEF Lets
<1>7. Cardinality(B \cup {1}) = Cardinality(B) + 1
  BY <1>3, <1>4, FS_AddElement
<1> HIDE DEF A, B
<1>8. Lets(t, i) = (IF Releases(x, i) THEN 1 ELSE 0) + Lets(s, i)
  BY <1>2, <1>3, <1>6, <1>7
<1> QED
  BY <1>8 DEF t

\* Of the steps that S makes.
LEMMA ReleasesS ==
  ASSUME NEW do, NEW x, NEW i \in Inums
  PROVE  Releases(S(do, x), i) <=> x = i /\ do \in {"unlock", "free", "made"}
<1>1. S(do, x).do = do /\ S(do, x).i = x /\ S(do, x).j = 0
  BY StepFields
<1>2. i # 0
  BY DEF Inums
<1> QED
  BY <1>1, <1>2 DEF Releases

LEMMA ReleasesS2 ==
  ASSUME NEW do \in {"linkNew", "unlinkEntry", "createNew"}, NEW x, NEW y, NEW i \in Inums
  PROVE  Releases(S2(do, x, y), i) <=> y = i /\ do # "linkNew"
<1>1. S2(do, x, y).do = do /\ S2(do, x, y).i = x /\ S2(do, x, y).j = y
  BY Step2Fields
<1> QED
  BY <1>1 DEF Releases

LEMMA LetsOne ==
  ASSUME NEW x, NEW i
  PROVE  IsSeq(<<x>>) /\ Lets(<<x>>, i) = IF Releases(x, i) THEN 1 ELSE 0
<1>1. IsSeq(<<>>) /\ IsSeq(<<x>>) /\ <<x>> \o <<>> = <<x>>
  BY SeqLiterals
<1>2. Lets(<<x>> \o <<>>, i) = (IF Releases(x, i) THEN 1 ELSE 0) + Lets(<<>>, i)
  BY <1>1, LetsCons
<1> QED
  BY <1>1, <1>2, LetsEmpty

LEMMA LetsS ==
  ASSUME NEW do, NEW x, NEW s, IsSeq(s), NEW i \in Inums
  PROVE  /\ Lets(<<S(do, x)>>, i) = IF x = i /\ do \in {"unlock", "free", "made"} THEN 1 ELSE 0
         /\ Lets(<<S(do, x)>> \o s, i) = (IF x = i /\ do \in {"unlock", "free", "made"} THEN 1 ELSE 0) + Lets(s, i)
BY ReleasesS, LetsOne, LetsCons

LEMMA UnlocksSeq ==
  ASSUME NEW x, NEW s, IsSeq(s)
  PROVE  IsSeq(iunlockput(x)) /\ IsSeq(iunlockput(x) \o s)
<1> DEFINE t == <<S("put", x)>> \o s
<1>1. IsSeq(t) /\ iunlockput(x) \o s = <<S("unlock", x)>> \o t
  BY SeqPair, SeqConsIs DEF iunlockput
<1> HIDE DEF t
<1>2. IsSeq(iunlockput(x))
  BY UnlocksLast DEF Planned
<1> QED
  BY <1>1, <1>2, SeqConsIs

\* iunlockput lets go of the lock of its inode.
LEMMA LetsUnlocks ==
  ASSUME NEW x, NEW s, IsSeq(s), NEW i \in Inums
  PROVE  /\ Lets(iunlockput(x), i) = IF x = i THEN 1 ELSE 0
         /\ Lets(iunlockput(x) \o s, i) = (IF x = i THEN 1 ELSE 0) + Lets(s, i)
<1> DEFINE u == S("unlock", x)
           v == S("put", x)
<1>1. ASSUME NEW t, IsSeq(t)
      PROVE  Lets(iunlockput(x) \o t, i) = (IF x = i THEN 1 ELSE 0) + Lets(t, i)
  <2> DEFINE w == <<v>> \o t
  <2>1. iunlockput(x) \o t = <<u>> \o w
    BY <1>1, SeqPair DEF iunlockput
  <2>2. IsSeq(w) /\ Lets(w, i) = Lets(t, i)
    <3>1. IsSeq(w)
      BY <1>1, SeqConsIs
    <3>2. Lets(<<S("put", x)>> \o t, i) = (IF x = i /\ "put" \in {"unlock", "free", "made"} THEN 1 ELSE 0) + Lets(t, i)
      BY <1>1, LetsS
    <3>3. Lets(w, i) = (IF x = i /\ "put" \in {"unlock", "free", "made"} THEN 1 ELSE 0) + Lets(t, i)
      BY <3>2
    <3>4. Lets(t, i) \in Nat
      BY <1>1, LetsFinite
    <3> HIDE DEF w
    <3> QED
      BY <3>1, <3>3, <3>4
  <2> HIDE DEF w
  <2>3. Lets(<<u>> \o w, i) = (IF x = i THEN 1 ELSE 0) + Lets(w, i)
    BY <2>2, LetsS
  <2> QED
    BY <2>1, <2>2, <2>3
<1>2. IsSeq(<<>>) /\ iunlockput(x) \o <<>> = iunlockput(x)
  <2>1. iunlockput(x) \in Seq({S("unlock", x), S("put", x)})
    BY DEF iunlockput
  <2> QED
    BY <2>1, ConcatEmptySeq, SeqLiterals
<1>3. Lets(iunlockput(x) \o <<>>, i) = (IF x = i THEN 1 ELSE 0) + Lets(<<>>, i)
  BY <1>1, <1>2
<1> QED
  BY <1>1, <1>2, <1>3, LetsEmpty

LEMMA GivenSeq ==
  ASSUME NEW w, NEW ip
  PROVE  IsSeq(Given(<<w>>, ip))
<1>1. <<w>>[1] = w /\ Tail(<<w>>) = <<>> /\ \A v : <<v>> \o <<>> = <<v>> /\ IsSeq(<<v>>)
  BY SeqLiterals
<1>2. Given(<<w>>, ip) = <<>> \/ \E v : Given(<<w>>, ip) = <<v>>
  BY <1>1 DEF Given
<1> QED
  BY <1>1, <1>2, SeqLiterals

LEMMA GoesSeq ==
  ASSUME NEW w, NEW ip, NEW names
  PROVE  IsSeq(Goes(ip, names, <<w>>))
<1>1. \A v : IsSeq(<<v>> \o <<w>>) /\ IsSeq(<<v>> \o Given(<<w>>, 0))
  BY GivenSeq, SeqLiterals, SeqConsIs
<1>2. \/ \E v : Goes(ip, names, <<w>>) = <<v>> \o <<w>>
      \/ \E v : Goes(ip, names, <<w>>) = <<v>> \o Given(<<w>>, 0)
      \/ Goes(ip, names, <<w>>) = Given(<<w>>, ip)
  BY DEF Goes
<1> QED
  BY <1>1, <1>2, GivenSeq

\* A step that waits for a walk lets go of nothing, and neither does what the walk leaves.
LEMMA LetsWaits ==
  ASSUME NEW w, Waits(w), NEW ip, NEW i \in Inums
  PROVE  Lets(<<w>>, i) = 0 /\ Lets(Given(<<w>>, ip), i) = 0
<1>1. \A v : v.do = w.do => ~Releases(v, i)
  BY DEF Waits, Releases
<1>2. Lets(<<w>>, i) = 0
  BY <1>1, LetsOne
<1>3. CASE ip # 0
  <2> DEFINE v == [w EXCEPT !.i = ip]
  <2>1. <<w>>[1] = w /\ Tail(<<w>>) = <<>> /\ <<v>> \o <<>> = <<v>>
    BY SeqLiterals
  <2>2. Given(<<w>>, ip) = <<v>>
    BY <1>3, <2>1 DEF Given
  <2>3. ~Releases(v, i)
    BY DEF Waits, Releases
  <2> HIDE DEF v
  <2> QED
    BY <1>2, <2>2, <2>3, LetsOne
<1>4. CASE ip = 0 /\ w.do = "linkNew"
  <2>1. Given(<<w>>, ip) = <<S("bad", w.j)>>
    BY <1>4 DEF Given
  <2>2. ~Releases(S("bad", w.j), i)
    BY ReleasesS
  <2> QED
    BY <1>2, <2>1, <2>2, LetsOne
<1>5. CASE ip = 0 /\ w.do # "linkNew"
  <2>1. Given(<<w>>, ip) = <<>>
    BY <1>5 DEF Given
  <2> QED
    BY <1>2, <2>1, LetsEmpty
<1> QED
  BY <1>3, <1>4, <1>5

LEMMA LetsGoes ==
  ASSUME NEW w, Waits(w), NEW ip, NEW names, NEW i \in Inums
  PROVE  Lets(Goes(ip, names, <<w>>), i) = 0
<1>1. CASE names # <<>>
  <2> DEFINE v == [S("walk", ip) EXCEPT !.names = names]
  <2>1. Goes(ip, names, <<w>>) = <<v>> \o <<w>>
    BY <1>1 DEF Goes
  <2>2. ~Releases(v, i)
    BY DEF S, Releases
  <2> HIDE DEF v
  <2>3. IsSeq(<<w>>) /\ Lets(<<w>>, i) = 0
    BY LetsWaits, SeqLiterals
  <2> DEFINE t == <<v>> \o <<w>>
  <2>4. Lets(t, i) = 0 + Lets(<<w>>, i)
    BY <2>2, <2>3, LetsCons
  <2>5. Goes(ip, names, <<w>>) = t
    BY <2>1
  <2> HIDE DEF t
  <2> QED
    BY <2>3, <2>4, <2>5
<1>2. CASE names = <<>> /\ w.do \in Parent
  <2> DEFINE s == Given(<<w>>, 0)
  <2>1. Goes(ip, names, <<w>>) = <<S("put", ip)>> \o s
    BY <1>2 DEF Goes
  <2>2. IsSeq(s) /\ Lets(s, i) = 0
    BY LetsWaits, GivenSeq
  <2> HIDE DEF s
  <2> DEFINE t == <<S("put", ip)>> \o s
  <2>3. Lets(t, i) = (IF ip = i /\ "put" \in {"unlock", "free", "made"} THEN 1 ELSE 0) + Lets(s, i)
    BY <2>2, LetsS
  <2>4. Goes(ip, names, <<w>>) = t
    BY <2>1
  <2> HIDE DEF t
  <2> QED
    BY <2>2, <2>3, <2>4
<1>3. CASE names = <<>> /\ w.do \notin Parent
  <2>1. Goes(ip, names, <<w>>) = Given(<<w>>, ip)
    BY <1>3 DEF Goes
  <2> QED
    BY <2>1, LetsWaits
<1> QED
  BY <1>1, <1>2, <1>3

-----------------------------------------------------------------------------
(* The locks of inodes *)

LockInv ==
  /\ owner = [i \in Inums |-> owner[i]]
  /\ LocksHeld

\* What a process that moves does to a lock: it keeps it for one of its steps, or lets it go with
\* the step that was to, or has nothing to do with it.
LEMMA LockStep ==
  ASSUME IndInv, LockInv, ~fs.panic, NEW p \in Procs, NEW s, todo' = [todo EXCEPT ![p] = s],
         owner' = [i \in Inums |-> owner'[i]],
         ~fs'.panic => \A i \in Inums :
           \/ owner'[i] = owner[i] /\ Lets(s, i) = Lets(todo[p], i)
           \/ owner[i] = 0 /\ owner'[i] = p /\ Lets(s, i) = Lets(todo[p], i) + 1
           \/ owner'[i] = 0 /\ Lets(todo[p], i) = Lets(s, i) + 1 /\ Lets(s, i) \in Nat
  PROVE  LockInv'
<1>1. /\ \A q \in Procs \ {p} : todo'[q] = todo[q]
      /\ todo'[p] = s
  BY DEF IndInv, ControlInv
<1>2. ASSUME ~fs'.panic, NEW q \in Procs, NEW i \in Inums
      PROVE  Lets(todo'[q], i) = IF owner'[i] = q THEN 1 ELSE 0
  <2>1. /\ Lets(todo[q], i) = IF owner[i] = q THEN 1 ELSE 0
        /\ Lets(todo[p], i) = IF owner[i] = p THEN 1 ELSE 0
    BY DEF LockInv, LocksHeld, Lets
  <2>2. p # 0 /\ q # 0
    BY InodesAssumption
  <2>3. \/ owner'[i] = owner[i] /\ Lets(s, i) = Lets(todo[p], i)
        \/ owner[i] = 0 /\ owner'[i] = p /\ Lets(s, i) = Lets(todo[p], i) + 1
        \/ owner'[i] = 0 /\ Lets(todo[p], i) = Lets(s, i) + 1 /\ Lets(s, i) \in Nat
    BY <1>2
  <2>4. CASE q = p
    BY <1>1, <2>1, <2>2, <2>3, <2>4
  <2>5. CASE q # p
    <3>1. todo'[q] = todo[q]
      BY <1>1, <2>5
    <3>2. owner'[i] = q <=> owner[i] = q
      BY <2>1, <2>2, <2>3, <2>5
    <3> QED
      BY <2>1, <3>1, <3>2
  <2> QED
    BY <2>4, <2>5
<1>3. LocksHeld'
  BY <1>2 DEF LocksHeld, Lets
<1> QED
  BY <1>3 DEF LockInv

\* It keeps the lock of i.
LEMMA LockTaken ==
  ASSUME IndInv, LockInv, ~fs.panic, NEW p \in Procs, NEW f, NEW s, Does(p, f, s), NEW i, Locks(p, i),
         ~f.panic => \A k \in Inums : Lets(todo[p], k) \in Nat /\ Lets(s, k) = (IF i = k THEN 1 ELSE 0) + Lets(todo[p], k)
  PROVE  LockInv'
<1>1. fs' = f /\ todo' = [todo EXCEPT ![p] = s]
  BY DEF Does
<1>2. owner' = [k \in Inums |-> owner'[k]] /\ owner[i] = 0 /\ \A k \in Inums : owner'[k] = IF i = k THEN p ELSE owner[k]
  BY DEF LockInv, Locks
<1>3. ASSUME ~fs'.panic, NEW k \in Inums
      PROVE  \/ owner'[k] = owner[k] /\ Lets(s, k) = Lets(todo[p], k)
             \/ owner[k] = 0 /\ owner'[k] = p /\ Lets(s, k) = Lets(todo[p], k) + 1
  <2>1. Lets(todo[p], k) \in Nat /\ Lets(s, k) = (IF i = k THEN 1 ELSE 0) + Lets(todo[p], k)
    BY <1>1, <1>3
  <2> QED
    BY <1>2, <2>1
<1> QED
  BY <1>1, <1>2, <1>3, LockStep

\* It lets go of the lock of i.
Unlocks(i) == owner' = [owner EXCEPT ![i] = 0]

LEMMA LockLetGo ==
  ASSUME IndInv, LockInv, ~fs.panic, NEW p \in Procs, NEW f, NEW s, Does(p, f, s), NEW i, Unlocks(i),
         \A k \in Inums : Lets(s, k) \in Nat /\ Lets(todo[p], k) = (IF i = k THEN 1 ELSE 0) + Lets(s, k)
  PROVE  LockInv'
<1>1. fs' = f /\ todo' = [todo EXCEPT ![p] = s]
  BY DEF Does
<1>2. owner' = [k \in Inums |-> owner'[k]] /\ \A k \in Inums : owner'[k] = IF i = k THEN 0 ELSE owner[k]
  BY DEF LockInv, Unlocks
<1>3. ASSUME NEW k \in Inums
      PROVE  \/ owner'[k] = owner[k] /\ Lets(s, k) = Lets(todo[p], k)
             \/ owner'[k] = 0 /\ Lets(todo[p], k) = Lets(s, k) + 1 /\ Lets(s, k) \in Nat
  <2>1. Lets(s, k) \in Nat /\ Lets(todo[p], k) = (IF i = k THEN 1 ELSE 0) + Lets(s, k)
    OBVIOUS
  <2> QED
    BY <1>2, <2>1
<1> QED
  BY <1>1, <1>2, <1>3, LockStep

\* It needs no lock, or takes one and lets it go in the same step.
LEMMA LockNone ==
  ASSUME IndInv, LockInv, ~fs.panic, NEW p \in Procs, NEW s, todo' = [todo EXCEPT ![p] = s], UNCHANGED owner,
         \A k \in Inums : Lets(s, k) = Lets(todo[p], k)
  PROVE  LockInv'
<1>1. owner' = [k \in Inums |-> owner'[k]]
  BY DEF LockInv
<1> QED
  BY <1>1, LockStep

\* What the next step of a process lets go of.
LEMMA HeadLets ==
  ASSUME IndInv, NEW p \in Procs, NEW do, Head1(p, do)
  PROVE  /\ ~fs.panic /\ todo[p][1].do = do /\ IsSeq(Rest(p))
         /\ \A k \in Inums : /\ Lets(todo[p], k) = (IF Releases(todo[p][1], k) THEN 1 ELSE 0) + Lets(Rest(p), k)
                             /\ Lets(Rest(p), k) \in Nat
         /\ do \notin Passing => \A k \in Inums : Lets(Rest(p), k) = 0
         /\ do = "walk" => Rest(p) = <<Rest(p)[1]>> /\ Waits(Rest(p)[1])
         /\ do \in {"unlock", "free", "made"} => \A k \in Inums : Releases(todo[p][1], k) <=> todo[p][1].i = k
         /\ do \in {"unlinkEntry", "createNew"} => \A k \in Inums : Releases(todo[p][1], k) <=> todo[p][1].j = k
         /\ do \notin {"unlock", "free", "made", "unlinkEntry", "createNew"} => \A k \in Inums : ~Releases(todo[p][1], k)
<1>1. /\ ~fs.panic /\ todo[p][1].do = do
      /\ Planned(Rest(p), call[p].op, open[p])
      /\ do \notin Passing => Rest(p) = <<>>
      /\ do = "walk" => Rest(p) = <<Rest(p)[1]>> /\ Waits(Rest(p)[1])
      /\ todo[p][1].j # 0 => do \in {"linkNew", "unlinkEntry", "createNew"}
  BY Heads
<1>2. IsSeq(Rest(p))
  BY <1>1 DEF Planned
<1>3. IsSeq(todo[p]) /\ todo[p] # <<>>
  BY <1>1 DEF Head1, IndInv, ControlInv, Planned
<1> DEFINE t == todo[p]
           x == t[1]
           r == Tail(t)
<1>4. t = <<x>> \o r /\ IsSeq(r) /\ r = Rest(p)
  BY <1>3, SeqUncons DEF Rest
<1> HIDE DEF t, x, r
<1>5. \A k \in Inums : Lets(t, k) = (IF Releases(x, k) THEN 1 ELSE 0) + Lets(r, k) /\ Lets(r, k) \in Nat
  BY <1>4, LetsCons, LetsFinite
<1>6. do \notin Passing => \A k \in Inums : Lets(Rest(p), k) = 0
  BY <1>1, LetsEmpty
<1>7. /\ do \in {"unlock", "free", "made"} => \A k \in Inums : Releases(x, k) <=> x.i = k
      /\ do \in {"unlinkEntry", "createNew"} => \A k \in Inums : Releases(x, k) <=> x.j = k
      /\ do \notin {"unlock", "free", "made", "unlinkEntry", "createNew"} => \A k \in Inums : ~Releases(x, k)
  BY <1>1 DEF Releases, x, t
<1> QED
  BY <1>1, <1>2, <1>4, <1>5, <1>6, <1>7 DEF x, t

LEMMA WalkLocks ==
  ASSUME IndInv, LockInv, NEW p \in Procs, namex1(p)
  PROVE  LockInv'
<1> DEFINE i == todo[p][1].i
           names == todo[p][1].names
           f == ilock(fs, i)
           d == dirlookup(f, i, names[1])
           w == Rest(p)[1]
           g0 == Given(Rest(p), 0)
           gi == Given(Rest(p), i)
           go == Goes(d.ip, Tail(names), Rest(p))
<1>1. Head1(p, "walk")
  BY DEF namex1
<1>2. /\ ~fs.panic /\ Rest(p) = <<w>> /\ Waits(w)
      /\ \A k \in Inums : Lets(todo[p], k) = 0 + Lets(Rest(p), k)
  BY <1>1, HeadLets
<1>3. /\ \A k \in Inums : Lets(Rest(p), k) = 0 /\ Lets(g0, k) = 0 /\ Lets(gi, k) = 0 /\ Lets(go, k) = 0
  BY <1>2, LetsWaits, LetsGoes
<1>4. IsSeq(g0) /\ IsSeq(gi) /\ IsSeq(go)
  BY <1>2, GivenSeq, GoesSeq
<1>5. CASE Locks(p, i) /\ Does(p, f, iunlockput(i) \o g0)
  <2> DEFINE s == iunlockput(i) \o g0
  <2>1. Locks(p, i) /\ Does(p, f, s)
    BY <1>5
  <2>2. \A k \in Inums : Lets(s, k) = (IF i = k THEN 1 ELSE 0) + Lets(g0, k)
    BY <1>4, LetsUnlocks
  <2> HIDE DEF s, i, f
  <2>3. \A k \in Inums : Lets(todo[p], k) \in Nat /\ Lets(s, k) = (IF i = k THEN 1 ELSE 0) + Lets(todo[p], k)
    BY <1>2, <1>3, <2>2
  <2> QED
    BY <1>2, <2>1, <2>3, LockTaken
<1>6. CASE Visits(i) /\ Does(p, f, gi)
  <2>1. UNCHANGED owner /\ todo' = [todo EXCEPT ![p] = gi]
    BY <1>6 DEF Visits, Does
  <2>2. \A k \in Inums : Lets(gi, k) = Lets(todo[p], k)
    BY <1>2, <1>3
  <2> HIDE DEF gi
  <2> QED
    BY <1>2, <2>1, <2>2, LockNone
<1>7. CASE Locks(p, i) /\ Does(p, d.fs, iunlockput(i) \o IF d.ip = 0 THEN g0 ELSE go)
  <2> DEFINE t == IF d.ip = 0 THEN g0 ELSE go
             s == iunlockput(i) \o t
             h == d.fs
  <2>1. Locks(p, i) /\ Does(p, h, s)
    BY <1>7
  <2>2. IsSeq(t) /\ \A k \in Inums : Lets(t, k) = 0
    BY <1>3, <1>4
  <2> HIDE DEF t, h
  <2>3. \A k \in Inums : Lets(s, k) = (IF i = k THEN 1 ELSE 0) + Lets(t, k)
    BY <2>2, LetsUnlocks
  <2> HIDE DEF s, i
  <2>4. \A k \in Inums : Lets(todo[p], k) \in Nat /\ Lets(s, k) = (IF i = k THEN 1 ELSE 0) + Lets(todo[p], k)
    BY <1>2, <1>3, <2>2, <2>3
  <2> QED
    BY <1>2, <2>1, <2>4, LockTaken
<1> QED
  BY <1>5, <1>6, <1>7 DEF namex1

LEMMA PutLocks ==
  ASSUME IndInv, LockInv, NEW p \in Procs, iunlock(p) \/ IputLooks(p) \/ IputFrees(p) \/ IputDrops(p)
  PROVE  LockInv'
<1> DEFINE i == todo[p][1].i
           r == Rest(p)
<1>1. CASE iunlock(p)
  <2> DEFINE f == Unlocked(p, i)
  <2>1. Head1(p, "unlock") /\ Does(p, f, r) /\ Unlocks(i)
    BY <1>1 DEF iunlock, Unlocks
  <2>2. ~fs.panic /\ \A k \in Inums : Lets(r, k) \in Nat /\ Lets(todo[p], k) = (IF i = k THEN 1 ELSE 0) + Lets(r, k)
    BY <2>1, HeadLets
  <2> HIDE DEF f, r, i
  <2> QED
    BY <2>1, <2>2, LockLetGo
<1>2. CASE IputLooks(p)
  <2>1. Head1(p, "put")
    BY <1>2 DEF IputLooks
  <2>2. ~fs.panic /\ IsSeq(r) /\ \A k \in Inums : Lets(r, k) \in Nat /\ Lets(todo[p], k) = 0 + Lets(r, k)
    BY <2>1, HeadLets
  <2>3. CASE Locks(p, i) /\ Does(p, fs, <<S("free", i)>> \o r)
    <3> DEFINE s == <<S("free", i)>> \o r
    <3>1. \A k \in Inums : Lets(s, k) = (IF i = k /\ "free" \in {"unlock", "free", "made"} THEN 1 ELSE 0) + Lets(r, k)
      BY <2>2, LetsS
    <3>2. Locks(p, i) /\ Does(p, fs, s)
      BY <2>3
    <3> HIDE DEF s, r, i
    <3>3. \A k \in Inums : Lets(todo[p], k) \in Nat /\ Lets(s, k) = (IF i = k THEN 1 ELSE 0) + Lets(todo[p], k)
      BY <2>2, <3>1
    <3> QED
      BY <2>2, <3>2, <3>3, LockTaken
  <2>4. CASE Visits(i) /\ Does(p, fs, <<S("drop", i)>> \o r)
    <3> DEFINE s == <<S("drop", i)>> \o r
    <3>1. \A k \in Inums : Lets(s, k) = (IF i = k /\ "drop" \in {"unlock", "free", "made"} THEN 1 ELSE 0) + Lets(r, k)
      BY <2>2, LetsS
    <3>2. UNCHANGED owner /\ todo' = [todo EXCEPT ![p] = s]
      BY <2>4 DEF Visits, Does
    <3> HIDE DEF s, r, i
    <3>3. \A k \in Inums : Lets(s, k) = Lets(todo[p], k)
      BY <2>2, <3>1
    <3> QED
      BY <2>2, <3>2, <3>3, LockNone
  <2> QED
    BY <1>2, <2>3, <2>4 DEF IputLooks
<1>3. CASE IputFrees(p)
  <2> DEFINE s == <<S("drop", i)>> \o r
             f == Frees(fs, i)
  <2>1. Head1(p, "free") /\ Does(p, f, s) /\ Unlocks(i)
    BY <1>3 DEF IputFrees, Unlocks
  <2>2. ~fs.panic /\ IsSeq(r) /\ \A k \in Inums : Lets(r, k) \in Nat /\ Lets(todo[p], k) = (IF i = k THEN 1 ELSE 0) + Lets(r, k)
    BY <2>1, HeadLets
  <2>3. \A k \in Inums : Lets(s, k) = (IF i = k /\ "drop" \in {"unlock", "free", "made"} THEN 1 ELSE 0) + Lets(r, k)
    BY <2>2, LetsS
  <2> HIDE DEF s, r, i, f
  <2>4. \A k \in Inums : Lets(s, k) \in Nat /\ Lets(todo[p], k) = (IF i = k THEN 1 ELSE 0) + Lets(s, k)
    BY <2>2, <2>3
  <2> QED
    BY <2>1, <2>2, <2>4, LockLetGo
<1>4. CASE IputDrops(p)
  <2>1. Head1(p, "drop") /\ UNCHANGED owner /\ todo' = [todo EXCEPT ![p] = r]
    BY <1>4 DEF IputDrops, Does
  <2>2. ~fs.panic /\ \A k \in Inums : Lets(r, k) \in Nat /\ Lets(todo[p], k) = 0 + Lets(r, k)
    BY <2>1, HeadLets
  <2>3. \A k \in Inums : Lets(r, k) = Lets(todo[p], k)
    BY <2>2
  <2> QED
    BY <2>1, <2>2, <2>3, LockNone
<1> QED
  BY <1>1, <1>2, <1>3, <1>4

\* The last step of a call holds no lock when it begins, unless it goes on with those of two inodes.
LEMMA LastLets ==
  ASSUME IndInv, NEW p \in Procs, NEW do, Head1(p, do), do \notin Passing \cup {"made", "unlinkEntry", "createNew"}
  PROVE  ~fs.panic /\ \A k \in Inums : Lets(todo[p], k) = 0
<1>1. ~fs.panic /\ \A k \in Inums : Lets(todo[p], k) = 0 + 0
  BY HeadLets DEF Passing
<1> QED
  BY <1>1

\* It locks an inode and has only that to let go of.
LEMMA LockOnly ==
  ASSUME IndInv, LockInv, ~fs.panic, NEW p \in Procs, NEW f, NEW s, Does(p, f, s), NEW i, Locks(p, i),
         \A k \in Inums : Lets(todo[p], k) = 0 /\ Lets(s, k) = IF i = k THEN 1 ELSE 0
  PROVE  LockInv'
<1>1. \A k \in Inums : Lets(todo[p], k) \in Nat /\ Lets(s, k) = (IF i = k THEN 1 ELSE 0) + Lets(todo[p], k)
  OBVIOUS
<1> QED
  BY <1>1, LockTaken

LEMMA LockNoneLast ==
  ASSUME IndInv, LockInv, ~fs.panic, NEW p \in Procs, NEW f, NEW s, Does(p, f, s), UNCHANGED owner,
         \A k \in Inums : Lets(todo[p], k) = 0 /\ Lets(s, k) = 0
  PROVE  LockInv'
<1>1. todo' = [todo EXCEPT ![p] = s] /\ \A k \in Inums : Lets(s, k) = Lets(todo[p], k)
  BY DEF Does
<1> QED
  BY <1>1, LockNone

LEMMA OpenLocks ==
  ASSUME IndInv, LockInv, NEW p \in Procs, sys_open(p)
  PROVE  LockInv'
<1>1. Head1(p, "opened") /\ UNCHANGED owner /\ Does(p, ilock(fs, todo[p][1].i), <<>>)
  BY DEF sys_open, Visits
<1>2. ~fs.panic /\ \A k \in Inums : Lets(todo[p], k) = 0
  BY <1>1, LastLets DEF Passing
<1> QED
  BY <1>1, <1>2, LetsEmpty, LockNoneLast

LEMMA LinkLocks ==
  ASSUME IndInv, LockInv, NEW p \in Procs, LinkCounts(p) \/ LinkEnters(p) \/ LinkFails(p)
  PROVE  LockInv'
<1> DEFINE i == todo[p][1].i
           ip == todo[p][1].j
<1>1. CASE LinkCounts(p)
  <2> DEFINE f == ilock(fs, i)
             w == S2("linkNew", 0, i)
             x == Start(call[p].new)
             s == Goes(x, Names(call[p].new), <<w>>)
             u == iunlockput(i)
  <2>1. Head1(p, "linkOld")
    BY <1>1 DEF LinkCounts
  <2>2. ~fs.panic /\ \A k \in Inums : Lets(todo[p], k) = 0
    BY <2>1, LastLets DEF Passing
  <2>3. \A k \in Inums : Lets(u, k) = IF i = k THEN 1 ELSE 0
    BY LetsUnlocks, SeqLiterals
  <2>4. Waits(w)
    BY Step2Fields DEF Waits
  <2> HIDE DEF w
  <2>5. \A k \in Inums : Lets(s, k) = 0
    BY <2>4, LetsGoes
  <2>6. \/ Locks(p, i) /\ Does(p, f, u)
        \/ UNCHANGED owner /\ Does(p, idup(AddLinks(f, i, 1), x), s)
    BY <1>1 DEF LinkCounts, Visits, w
  <2> HIDE DEF f, i, s, u, x
  <2> QED
    BY <2>2, <2>3, <2>5, <2>6, LockOnly, LockNoneLast
<1>2. CASE LinkEnters(p)
  <2> DEFINE d == dirlookup(ilock(fs, i), i, Last(call[p].new))
             b == <<S("bad", ip)>>
             u == iunlockput(i) \o b
             s == <<S("put", d.ip)>> \o u
             v == iunlockput(i) \o <<S("put", ip)>>
             g == Enters(d, i, Last(call[p].new), ip)[1]
             h == d.fs
  <2>1. Head1(p, "linkNew") /\ Locks(p, i)
    BY <1>2 DEF LinkEnters
  <2>2. ~fs.panic /\ \A k \in Inums : Lets(todo[p], k) = 0
    BY <2>1, LastLets DEF Passing
  <2>3. \A x : \A do \in {"put", "bad"} : IsSeq(<<S(do, x)>>) /\ \A k \in Inums : Lets(<<S(do, x)>>, k) = 0
    BY LetsS, SeqLiterals
  <2>4. \A k \in Inums : Lets(v, k) = (IF i = k THEN 1 ELSE 0) + 0
    <3> DEFINE t == <<S("put", ip)>>
    <3>1. IsSeq(t) /\ \A k \in Inums : Lets(t, k) = 0
      BY <2>3
    <3> HIDE DEF t
    <3>2. \A k \in Inums : Lets(iunlockput(i) \o t, k) = (IF i = k THEN 1 ELSE 0) + Lets(t, k)
      BY <3>1, LetsUnlocks
    <3> QED
      BY <3>1, <3>2 DEF t
  <2>5. IsSeq(u) /\ \A k \in Inums : Lets(u, k) = (IF i = k THEN 1 ELSE 0) + 0
    <3>1. IsSeq(b) /\ \A k \in Inums : Lets(b, k) = 0
      BY <2>3
    <3> HIDE DEF b
    <3>2. \A k \in Inums : Lets(u, k) = (IF i = k THEN 1 ELSE 0) + Lets(b, k)
      BY <3>1, LetsUnlocks
    <3>3. IsSeq(u)
      BY <3>1, UnlocksSeq
    <3> QED
      BY <3>1, <3>2, <3>3
  <2>6. <<S("put", d.ip)>> \o iunlockput(i) \o <<S("bad", ip)>> = s
    <3>1. IsSeq(<<S("put", d.ip)>>) /\ IsSeq(iunlockput(i)) /\ IsSeq(<<S("bad", ip)>>)
      BY UnlocksLast, SeqLiterals DEF Planned
    <3> QED
      BY <3>1, SeqAssoc
  <2> HIDE DEF u
  <2>7. \A k \in Inums : Lets(s, k) = (IF d.ip = k /\ "put" \in {"unlock", "free", "made"} THEN 1 ELSE 0) + Lets(u, k)
    BY <2>5, LetsS
  <2>8. \A k \in Inums : Lets(s, k) = IF i = k THEN 1 ELSE 0
    <3> HIDE DEF s
    <3> QED
      BY <2>5, <2>7
  <2>9. \A k \in Inums : Lets(v, k) = IF i = k THEN 1 ELSE 0
    <3> HIDE DEF v
    <3> QED
      BY <2>4
  <2>10. Does(p, h, s) \/ Does(p, g, v)
    BY <1>2, <2>6 DEF LinkEnters
  <2> HIDE DEF s, v, i, g, h
  <2> QED
    BY <2>1, <2>2, <2>8, <2>9, <2>10, LockOnly
<1>3. CASE LinkFails(p)
  <2> DEFINE f == AddLinks(ilock(fs, i), i, -1)
             s == <<S("put", i)>>
  <2>1. Head1(p, "bad") /\ UNCHANGED owner /\ Does(p, f, s)
    BY <1>3 DEF LinkFails, Visits
  <2>2. ~fs.panic /\ \A k \in Inums : Lets(todo[p], k) = 0
    BY <2>1, LastLets DEF Passing
  <2>3. \A k \in Inums : Lets(s, k) = 0
    BY LetsS, SeqLiterals
  <2> HIDE DEF s, f
  <2> QED
    BY <2>1, <2>2, <2>3, LockNoneLast
<1> QED
  BY <1>1, <1>2, <1>3

LEMMA UnlinkLocks ==
  ASSUME IndInv, LockInv, NEW p \in Procs, UnlinkLooks(p) \/ UnlinkErases(p) \/ UnlinkCounts(p)
  PROVE  LockInv'
<1> DEFINE i == todo[p][1].i
           dp == todo[p][1].j
           f == ilock(fs, i)
<1>1. CASE UnlinkLooks(p)
  <2> DEFINE d == dirlookup(f, i, Last(call[p].path))
             u == iunlockput(i)
             v == <<S2("unlinkEntry", d.ip, i)>>
             s == IF d.ip = 0 THEN u ELSE v
             h == d.fs
  <2>1. Head1(p, "unlinkDir") /\ Locks(p, i)
    BY <1>1 DEF UnlinkLooks
  <2>2. ~fs.panic /\ \A k \in Inums : Lets(todo[p], k) = 0
    BY <2>1, LastLets DEF Passing
  <2>3. \A k \in Inums : Lets(u, k) = IF i = k THEN 1 ELSE 0
    BY LetsUnlocks, SeqLiterals
  <2>4. \A k \in Inums : Lets(v, k) = IF i = k THEN 1 ELSE 0
    BY ReleasesS2, LetsOne
  <2>5. \A k \in Inums : Lets(s, k) = IF i = k THEN 1 ELSE 0
    <3> HIDE DEF u, v
    <3> QED
      BY <2>3, <2>4
  <2>6. Does(p, f, u) \/ Does(p, h, s)
    BY <1>1 DEF UnlinkLooks
  <2> HIDE DEF f, i, u, v, s, h
  <2> QED
    BY <2>1, <2>2, <2>3, <2>5, <2>6, LockOnly
<1>2. CASE UnlinkErases(p)
  <2> DEFINE d == dirlookup(f, dp, Last(call[p].path))
             e == Panics(f)
             g == Erased(f, dp, i, d.off)
             n == <<>>
             t == iunlockput(dp)
             s == iunlockput(i) \o t
             w == iunlockput(i)
             u == <<S("unlinked", i)>> \o w
             v == iunlockput(dp) \o u
  <2>1. Head1(p, "unlinkEntry") /\ Locks(p, i)
    BY <1>2 DEF UnlinkErases
  <2>2. ~fs.panic /\ \A k \in Inums : Lets(todo[p], k) = (IF dp = k THEN 1 ELSE 0) + 0
    BY <2>1, HeadLets DEF Passing
  <2>3. IsSeq(t) /\ IsSeq(w) /\ \A k \in Inums : Lets(t, k) = (IF dp = k THEN 1 ELSE 0) /\ Lets(w, k) = IF i = k THEN 1 ELSE 0
    BY UnlocksSeq, LetsUnlocks, SeqLiterals
  <2>4. iunlockput(dp) \o <<S("unlinked", i)>> \o iunlockput(i) = v
    <3>1. IsSeq(iunlockput(dp)) /\ IsSeq(<<S("unlinked", i)>>) /\ IsSeq(iunlockput(i))
      BY UnlocksLast, SeqLiterals DEF Planned
    <3> QED
      BY <3>1, SeqAssoc
  <2>5. Does(p, e, n) \/ Does(p, f, s) \/ Does(p, g, v)
    BY <1>2, <2>4 DEF UnlinkErases
  <2>6. e.panic
    BY <2>1, Heads, ilockKeeps, PanicsKeeps DEF Keeps
  <2> HIDE DEF t, w
  <2>7. \A k \in Inums : Lets(s, k) = (IF i = k THEN 1 ELSE 0) + Lets(t, k)
    BY <2>3, LetsUnlocks
  <2>8. IsSeq(u) /\ \A k \in Inums : Lets(u, k) = (IF i = k /\ "unlinked" \in {"unlock", "free", "made"} THEN 1 ELSE 0) + Lets(w, k)
    BY <2>3, LetsS, SeqConsIs
  <2> HIDE DEF u
  <2>9. \A k \in Inums : Lets(v, k) = (IF dp = k THEN 1 ELSE 0) + Lets(u, k)
    BY <2>8, LetsUnlocks
  <2> HIDE DEF s, v, i, dp, f, g, e, n
  <2>10. /\ \A k \in Inums : Lets(todo[p], k) \in Nat /\ Lets(s, k) = (IF i = k THEN 1 ELSE 0) + Lets(todo[p], k)
         /\ \A k \in Inums : Lets(todo[p], k) \in Nat /\ Lets(v, k) = (IF i = k THEN 1 ELSE 0) + Lets(todo[p], k)
    BY <2>2, <2>3, <2>7, <2>8, <2>9
  <2> QED
    BY <2>1, <2>2, <2>5, <2>6, <2>10, LockTaken
<1>3. CASE UnlinkCounts(p)
  <2> DEFINE r == Rest(p)
  <2>1. Head1(p, "unlinked") /\ UNCHANGED owner /\ todo' = [todo EXCEPT ![p] = r]
    BY <1>3 DEF UnlinkCounts, Does
  <2>2. ~fs.panic /\ \A k \in Inums : Lets(r, k) \in Nat /\ Lets(todo[p], k) = 0 + Lets(r, k)
    BY <2>1, HeadLets
  <2>3. \A k \in Inums : Lets(r, k) = Lets(todo[p], k)
    BY <2>2
  <2> QED
    BY <2>1, <2>2, <2>3, LockNone
<1> QED
  BY <1>1, <1>2, <1>3

LEMMA CreateLocks ==
  ASSUME IndInv, LockInv, NEW p \in Procs, CreateLooks(p) \/ CreateEnters(p) \/ CreateFinds(p) \/ CreateOpens(p)
  PROVE  LockInv'
<1> DEFINE i == todo[p][1].i
           dp == todo[p][1].j
           f == ilock(fs, i)
<1>1. CASE CreateLooks(p)
  <2> DEFINE d == dirlookup(f, i, Last(call[p].path))
             a == ialloc(d.fs, call[p].op)
             t == <<S("createOld", d.ip)>>
             s == iunlockput(i) \o t
             v == <<S2("createNew", a[2], i)>>
             g == d.fs
             h == a[1]
  <2>1. Head1(p, "createIn") /\ Locks(p, i)
    BY <1>1 DEF CreateLooks
  <2>2. ~fs.panic /\ \A k \in Inums : Lets(todo[p], k) = 0
    BY <2>1, LastLets DEF Passing
  <2>3. IsSeq(t) /\ \A k \in Inums : Lets(t, k) = 0
    BY LetsS, SeqLiterals
  <2> HIDE DEF t
  <2>4. \A k \in Inums : Lets(s, k) = (IF i = k THEN 1 ELSE 0) + Lets(t, k)
    BY <2>3, LetsUnlocks
  <2>5. \A k \in Inums : Lets(v, k) = IF i = k THEN 1 ELSE 0
    BY ReleasesS2, LetsOne
  <2>6. Does(p, g, s) \/ Does(p, h, v)
    BY <1>1 DEF CreateLooks, t
  <2> HIDE DEF i, s, v, g, h
  <2>7. \A k \in Inums : Lets(s, k) = IF i = k THEN 1 ELSE 0
    BY <2>3, <2>4
  <2> QED
    BY <2>1, <2>2, <2>5, <2>6, <2>7, LockOnly
<1>2. CASE CreateEnters(p)
  <2> DEFINE new == Furnished(Born(fs, i, 0), dp, i, call[p].op)
             g == dirlink(new, dp, Last(call[p].path), i)[1]
             w == iunlockput(i)
             m == <<S("made", i)>>
             t == IF call[p].op = "dir" THEN w ELSE m
             s == iunlockput(dp) \o t
  <2>1. Head1(p, "createNew") /\ Locks(p, i) /\ Does(p, g, s)
    BY <1>2 DEF CreateEnters
  <2>2. ~fs.panic /\ \A k \in Inums : Lets(todo[p], k) = (IF dp = k THEN 1 ELSE 0) + 0
    BY <2>1, HeadLets DEF Passing
  <2>3. IsSeq(w) /\ \A k \in Inums : Lets(w, k) = IF i = k THEN 1 ELSE 0
    BY UnlocksSeq, LetsUnlocks, SeqLiterals
  <2>4. IsSeq(m) /\ \A k \in Inums : Lets(m, k) = IF i = k THEN 1 ELSE 0
    BY LetsS, SeqLiterals
  <2> HIDE DEF w, m
  <2>5. IsSeq(t) /\ \A k \in Inums : Lets(t, k) = IF i = k THEN 1 ELSE 0
    BY <2>3, <2>4
  <2> HIDE DEF t
  <2>6. \A k \in Inums : Lets(s, k) = (IF dp = k THEN 1 ELSE 0) + Lets(t, k)
    BY <2>5, LetsUnlocks
  <2> HIDE DEF s, g, i, dp
  <2>7. \A k \in Inums : Lets(todo[p], k) \in Nat /\ Lets(s, k) = (IF i = k THEN 1 ELSE 0) + Lets(todo[p], k)
    BY <2>2, <2>5, <2>6
  <2> QED
    BY <2>1, <2>2, <2>7, LockTaken
<1>3. CASE CreateFinds(p)
  <2> DEFINE u == iunlockput(i)
             m == <<S("made", i)>>
  <2>1. Head1(p, "createOld") /\ Locks(p, i) /\ (Does(p, f, m) \/ Does(p, f, u))
    BY <1>3 DEF CreateFinds
  <2>2. ~fs.panic /\ \A k \in Inums : Lets(todo[p], k) = 0
    BY <2>1, LastLets DEF Passing
  <2>3. \A k \in Inums : Lets(u, k) = IF i = k THEN 1 ELSE 0
    BY LetsUnlocks, SeqLiterals
  <2>4. \A k \in Inums : Lets(m, k) = IF i = k THEN 1 ELSE 0
    BY LetsS, SeqLiterals
  <2> HIDE DEF i, f, u, m
  <2> QED
    BY <2>1, <2>2, <2>3, <2>4, LockOnly
<1>4. CASE CreateOpens(p)
  <2> DEFINE g == Unlocked(p, i)
             n == <<>>
  <2>1. Head1(p, "made") /\ Unlocks(i) /\ Does(p, g, n)
    BY <1>4 DEF CreateOpens, Unlocks
  <2>2. ~fs.panic /\ \A k \in Inums : Lets(todo[p], k) = (IF i = k THEN 1 ELSE 0) + 0
    BY <2>1, HeadLets DEF Passing
  <2>3. \A k \in Inums : Lets(n, k) = 0
    BY LetsEmpty
  <2> HIDE DEF i, g, n
  <2>4. \A k \in Inums : Lets(n, k) \in Nat /\ Lets(todo[p], k) = (IF i = k THEN 1 ELSE 0) + Lets(n, k)
    BY <2>2, <2>3
  <2> QED
    BY <2>1, <2>2, <2>4, LockLetGo
<1> QED
  BY <1>1, <1>2, <1>3, <1>4

LEMMA BeginsLocks ==
  ASSUME IndInv, LockInv, NEW p \in Procs, Begins(p)
  PROVE  LockInv'
<1>1. ~fs.panic /\ todo[p] = <<>> /\ UNCHANGED owner
  BY DEF Begins, Idle
<1>2. \A k \in Inums : Lets(todo[p], k) = 0
  BY <1>1, LetsEmpty
<1>3. PICK c \in Calls :
        \/ todo' = [todo EXCEPT ![p] = <<S("put", open[p])>>]
        \/ /\ c.op # "close"
           /\ todo' = [todo EXCEPT ![p] = Goes(Start(c.path), Names(c.path), <<S(First[c.op], 0)>>)]
  BY DEF Begins
<1>4. CASE todo' = [todo EXCEPT ![p] = <<S("put", open[p])>>]
  <2> DEFINE s == <<S("put", open[p])>>
  <2>1. \A k \in Inums : Lets(s, k) = 0
    BY LetsS, SeqLiterals
  <2>2. todo' = [todo EXCEPT ![p] = s]
    BY <1>4
  <2> HIDE DEF s
  <2>3. \A k \in Inums : Lets(s, k) = Lets(todo[p], k)
    BY <1>2, <2>1
  <2> QED
    BY <1>1, <2>2, <2>3, LockNone
<1>5. CASE /\ c.op # "close"
           /\ todo' = [todo EXCEPT ![p] = Goes(Start(c.path), Names(c.path), <<S(First[c.op], 0)>>)]
  <2> DEFINE w == S(First[c.op], 0)
             s == Goes(Start(c.path), Names(c.path), <<w>>)
  <2>1. c.op \in {"open", "link", "unlink", "file", "dir"}
    BY <1>5, InodesAssumption
  <2>2. First[c.op] \in {"opened", "linkOld", "unlinkDir", "createIn"}
    BY <2>1 DEF First
  <2>3. Waits(w)
    BY <2>2, StepFields DEF Waits
  <2> HIDE DEF w
  <2>4. \A k \in Inums : Lets(s, k) = 0
    BY <2>3, LetsGoes
  <2>5. todo' = [todo EXCEPT ![p] = s]
    BY <1>5 DEF w
  <2> HIDE DEF s
  <2>6. \A k \in Inums : Lets(s, k) = Lets(todo[p], k)
    BY <1>2, <2>4
  <2> QED
    BY <1>1, <2>5, <2>6, LockNone
<1> QED
  BY <1>3, <1>4, <1>5

LEMMA LockInit ==
  ASSUME Init
  PROVE  LockInv
<1>1. /\ owner = [i \in Inums |-> 0] /\ \A p \in Procs : todo[p] = <<>>
  BY DEF Init
<1>2. ASSUME NEW p \in Procs, NEW i \in Inums
      PROVE  Lets(todo[p], i) = IF owner[i] = p THEN 1 ELSE 0
  <2>1. owner[i] = 0 /\ p # 0
    BY <1>1, InodesAssumption
  <2> QED
    BY <1>1, <2>1, LetsEmpty
<1>3. LocksHeld
  BY <1>2 DEF LocksHeld, Lets
<1> QED
  BY <1>1, <1>3 DEF LockInv

LEMMA LockNext ==
  ASSUME IndInv, LockInv, [Next]_vars
  PROVE  LockInv'
<1>1. CASE UNCHANGED vars
  <2>1. UNCHANGED <<fs, todo, owner>>
    BY <1>1 DEF vars
  <2> QED
    BY <2>1 DEF LockInv, LocksHeld
<1>2. ASSUME NEW p \in Procs, Begins(p) \/ Steps(p)
      PROVE  LockInv'
  <2>1. CASE Begins(p)
    BY <2>1, BeginsLocks
  <2>2. CASE namex1(p)
    BY <2>2, WalkLocks
  <2>3. CASE iunlock(p) \/ IputLooks(p) \/ IputFrees(p) \/ IputDrops(p)
    BY <2>3, PutLocks
  <2>4. CASE sys_open(p)
    BY <2>4, OpenLocks
  <2>5. CASE LinkCounts(p) \/ LinkEnters(p) \/ LinkFails(p)
    BY <2>5, LinkLocks
  <2>6. CASE UnlinkLooks(p) \/ UnlinkErases(p) \/ UnlinkCounts(p)
    BY <2>6, UnlinkLocks
  <2>7. CASE CreateLooks(p) \/ CreateEnters(p) \/ CreateFinds(p) \/ CreateOpens(p)
    BY <2>7, CreateLocks
  <2> QED
    BY <1>2, <2>1, <2>2, <2>3, <2>4, <2>5, <2>6, <2>7 DEF Steps
<1>3. CASE Next
  BY <1>1, <1>2, <1>3 DEF Next, Ends
<1> QED
  BY <1>1, <1>3

\* LocksHeld: as long as nothing has panicked, a process has the lock of an inode exactly when one
\* of its steps, and only one, is to let it go: a call that returns leaves no inode locked.
THEOREM InodesLocksHeld == Spec => []LocksHeld
<1>1. Init => LockInv
  BY LockInit
<1>2. IndInv /\ LockInv /\ [Next]_vars => LockInv'
  BY LockNext
<1>3. LockInv => LocksHeld
  BY DEF LockInv
<1> QED
  BY <1>1, <1>2, <1>3, InodesInvariant, PTL DEF Spec

-----------------------------------------------------------------------------
(* Numbers: the least of a set, loops, and places in blocks *)

LEMMA MinIn ==
  ASSUME NEW X \in SUBSET Nat, X # {}
  PROVE  Min(X) \in X /\ \A y \in X : Min(X) <= y
<1>1. PICK x \in X : \A y \in X : ~(<<y, x>> \in OpToRel(<, Nat))
  BY WFMin, NatLessThanWellFounded
<1>2. \A y \in X : x <= y
  <2> SUFFICES ASSUME NEW y \in X, ~(x <= y)
               PROVE  FALSE
    OBVIOUS
  <2>1. <<y, x>> \in Nat \X Nat /\ y < x
    OBVIOUS
  <2>2. <<y, x>> \in OpToRel(<, Nat)
    BY <2>1 DEF OpToRel
  <2> QED
    BY <1>1, <2>2
<1> QED
  BY <1>2 DEF Min

\* A loop of N rounds.
LEMMA Rounds ==
  ASSUME NEW N \in Nat, NEW X, 0 \in X, \A k \in 1..N : k - 1 \in X => k \in X
  PROVE  \A k \in 0..N : k \in X
<1> DEFINE bad == {k \in 0..N : k \notin X}
           n == Min(bad)
<1> SUFFICES ASSUME bad # {}
             PROVE  FALSE
  OBVIOUS
<1>1. n \in bad /\ \A y \in bad : n <= y
  <2>1. bad \in SUBSET Nat
    OBVIOUS
  <2> HIDE DEF bad
  <2> QED
    BY <2>1, MinIn
<1> HIDE DEF n
<1>2. n # 0 /\ n \in 1..N /\ n - 1 \in 0..N
  BY <1>1
<1>3. n - 1 \in X
  BY <1>1, <1>2
<1> QED
  BY <1>1, <1>2, <1>3

LEMMA Sizes ==
  /\ NINODES \in Nat \ {0} /\ NBLOCKS \in Nat \ {0} /\ BSIZE \in Nat \ {0} /\ NDIRECT \in Nat \ {0}
  /\ MAXFILE \in Nat \ {0} /\ MAXFILE = NDIRECT + BSIZE
BY FileSystemAssumption DEF MAXFILE

LEMMA TimesOrder ==
  ASSUME NEW m \in Nat \ {0}, NEW a \in Int, NEW b \in Int
  PROVE  /\ a * m \in Int /\ (a + 1) * m = a * m + m
         /\ a <= b => a * m <= b * m
         /\ a < b => a * m + m <= b * m
<1>1. a * m \in Int /\ (a + 1) * m = a * m + m
  OBVIOUS
<1>2. ASSUME NEW c \in Int, NEW d \in Int, c <= d
      PROVE  c * m <= d * m
  <2>1. (d - c) * m >= 0
    BY <1>2
  <2>2. (d - c) * m = d * m - c * m
    OBVIOUS
  <2>3. c * m \in Int /\ d * m \in Int
    OBVIOUS
  <2> QED
    BY <2>1, <2>2, <2>3
<1>3. a < b => (a + 1) * m <= b * m
  BY <1>2
<1> QED
  BY <1>1, <1>2, <1>3

\* The block of a cell, and its place in it.
LEMMA InBlock ==
  ASSUME NEW k \in Nat
  PROVE  /\ k \div BSIZE \in Nat /\ k % BSIZE \in 0..BSIZE - 1
         /\ k = (k \div BSIZE) * BSIZE + (k % BSIZE)
         /\ (k \div BSIZE) * BSIZE <= k /\ k < (k \div BSIZE) * BSIZE + BSIZE
<1> DEFINE m == BSIZE
<1>1. m \in Nat \ {0}
  BY Sizes
<1> HIDE DEF m
<1>2. /\ k \div m \in Int /\ k % m \in 0..m - 1 /\ k = (k \div m) * m + (k % m)
  <2>1. k = (k \div m) * m + (k % m)
    BY <1>1
  <2>2. k \div m \in Int
    BY <1>1
  <2>3. k % m \in 0..m - 1
    BY <1>1
  <2> QED
    BY <2>1, <2>2, <2>3
<1>4. (k \div m) * m <= k /\ k < (k \div m) * m + m
  BY <1>1
<1>3. k \div m >= 0
  <2> DEFINE d == k \div m
  <2>1. d \in Int /\ k < d * m + m
    BY <1>2, <1>4
  <2> HIDE DEF d
  <2>2. d < 0 => d * m + m <= 0 * m
    BY <1>1, <2>1, TimesOrder
  <2>3. d * m \in Int /\ 0 * m = 0
    BY <1>1, <2>1, TimesOrder
  <2>4. ~(d < 0)
    BY <1>1, <2>1, <2>2, <2>3
  <2> QED
    BY <2>1, <2>4 DEF d
<1> QED
  BY <1>2, <1>3, <1>4 DEF m

-----------------------------------------------------------------------------
(* The blocks of inodes, each in its place *)

IsBlocks(B) == B = [b \in 1..NBLOCKS |-> [c \in 0..BSIZE - 1 |-> B[b][c]]]

\* What is known of inodes and blocks that are in order.
LEMMA ApartIs ==
  ASSUME NEW D, NEW B, NEW U, Apart(D, B, U)
  PROVE  /\ U \subseteq 1..NBLOCKS
         /\ \A j \in Inums : \A a \in 0..MAXFILE : BlockAt(D[j], B, a) \in 0..NBLOCKS /\ (BlockAt(D[j], B, a) # 0 => BlockAt(D[j], B, a) \in U)
         /\ \A x \in U : \E j \in Inums : \E a \in 0..MAXFILE : BlockAt(D[j], B, a) = x
<1>1. \A j \in Inums : \A a \in 0..MAXFILE : BlockAt(D[j], B, a) \in 0..NBLOCKS
  BY DEF Apart
<1>2. U = {BlockAt(D[j], B, a) : j \in Inums, a \in 0..MAXFILE} \ {0}
  BY DEF Apart
<1>3. \A j \in Inums : \A a \in 0..MAXFILE : BlockAt(D[j], B, a) # 0 => BlockAt(D[j], B, a) \in U
  BY <1>2
<1>4. ASSUME NEW x \in U
      PROVE  x \in 1..NBLOCKS /\ \E j \in Inums : \E a \in 0..MAXFILE : BlockAt(D[j], B, a) = x
  <2>1. PICK j \in Inums, a \in 0..MAXFILE : x = BlockAt(D[j], B, a) /\ x # 0
    BY <1>2
  <2>2. x \in 0..NBLOCKS
    BY <1>1, <2>1
  <2> QED
    BY <2>1, <2>2, Sizes
<1> QED
  BY <1>1, <1>3, <1>4

LEMMA ApartOnce ==
  ASSUME NEW D, NEW B, NEW U, Apart(D, B, U), NEW j \in Inums, NEW k \in Inums, NEW a \in 0..MAXFILE, NEW c \in 0..MAXFILE,
         BlockAt(D[j], B, a) = BlockAt(D[k], B, c), BlockAt(D[j], B, a) # 0
  PROVE  j = k /\ a = c
BY DEF Apart

LEMMA InOrderIs ==
  ASSUME NEW D, NEW B, NEW U, InOrder(D, B, U)
  PROVE  /\ D \in [Inums -> Inode] /\ IsBlocks(B) /\ Apart(D, B, U) /\ U \subseteq 1..NBLOCKS
         /\ \A j \in Inums : InodeInOrder(D[j], B)
         /\ \A j \in Inums : \A a \in 0..MAXFILE : BlockAt(D[j], B, a) \in 0..NBLOCKS /\ (BlockAt(D[j], B, a) # 0 => BlockAt(D[j], B, a) \in U)
<1>1. D \in [Inums -> Inode] /\ IsBlocks(B) /\ Apart(D, B, U) /\ \A j \in Inums : InodeInOrder(D[j], B)
  BY DEF InOrder, IsBlocks
<1>2. U \subseteq 1..NBLOCKS
  BY <1>1, ApartIs
<1>3. \A j \in Inums : \A a \in 0..MAXFILE : BlockAt(D[j], B, a) \in 0..NBLOCKS /\ (BlockAt(D[j], B, a) # 0 => BlockAt(D[j], B, a) \in U)
  BY <1>1, ApartIs
<1> QED
  BY <1>1, <1>2, <1>3

\* And how they are shown to be.
LEMMA ApartMade ==
  ASSUME NEW D, NEW B, NEW U,
         \A j \in Inums : \A a \in 0..MAXFILE : BlockAt(D[j], B, a) \in 0..NBLOCKS /\ (BlockAt(D[j], B, a) # 0 => BlockAt(D[j], B, a) \in U),
         \A x \in U : x # 0 /\ \E j \in Inums : \E a \in 0..MAXFILE : BlockAt(D[j], B, a) = x,
         \A j, k \in Inums : \A a, c \in 0..MAXFILE : BlockAt(D[j], B, a) = BlockAt(D[k], B, c) /\ BlockAt(D[j], B, a) # 0 => j = k /\ a = c
  PROVE  Apart(D, B, U)
<1>1. \A x \in U : x \in {BlockAt(D[j], B, a) : j \in Inums, a \in 0..MAXFILE} \ {0}
  OBVIOUS
<1>2. \A x \in {BlockAt(D[j], B, a) : j \in Inums, a \in 0..MAXFILE} \ {0} : x \in U
  OBVIOUS
<1>3. U = {BlockAt(D[j], B, a) : j \in Inums, a \in 0..MAXFILE} \ {0}
  BY <1>1, <1>2
<1> QED
  BY <1>3 DEF Apart

\* A free block finds a place.
LEMMA ApartGets ==
  ASSUME NEW D, NEW B, NEW U, Apart(D, B, U), NEW i \in Inums, NEW p \in 0..MAXFILE, BlockAt(D[i], B, p) = 0,
         NEW b \in (1..NBLOCKS) \ U, NEW E, NEW C,
         \A j \in Inums : \A a \in 0..MAXFILE : BlockAt(E[j], C, a) = IF j = i /\ a = p THEN b ELSE BlockAt(D[j], B, a)
  PROVE  Apart(E, C, U \cup {b})
<1>0. b # 0 /\ b \in 0..NBLOCKS
  BY Sizes
<1>1. /\ U \subseteq 1..NBLOCKS
      /\ \A j \in Inums : \A a \in 0..MAXFILE : BlockAt(D[j], B, a) \in 0..NBLOCKS /\ (BlockAt(D[j], B, a) # 0 => BlockAt(D[j], B, a) \in U)
      /\ \A x \in U : \E j \in Inums : \E a \in 0..MAXFILE : BlockAt(D[j], B, a) = x
  BY ApartIs
<1>2. ASSUME NEW j \in Inums, NEW a \in 0..MAXFILE
      PROVE  BlockAt(E[j], C, a) \in 0..NBLOCKS /\ (BlockAt(E[j], C, a) # 0 => BlockAt(E[j], C, a) \in U \cup {b})
  <2>1. BlockAt(E[j], C, a) = b \/ BlockAt(E[j], C, a) = BlockAt(D[j], B, a)
    OBVIOUS
  <2> QED
    BY <1>0, <1>1, <2>1
<1>3. ASSUME NEW x \in U \cup {b}
      PROVE  x # 0 /\ \E j \in Inums : \E a \in 0..MAXFILE : BlockAt(E[j], C, a) = x
  <2>1. CASE x = b
    BY <1>0, <2>1
  <2>2. CASE x \in U
    <3>1. PICK j \in Inums, a \in 0..MAXFILE : BlockAt(D[j], B, a) = x
      BY <1>1, <2>2
    <3>2. x # 0
      BY <1>1, <2>2
    <3>3. BlockAt(E[j], C, a) = x
      BY <3>1, <3>2
    <3> QED
      BY <3>2, <3>3
  <2> QED
    BY <2>1, <2>2
<1>4. ASSUME NEW j \in Inums, NEW k \in Inums, NEW a \in 0..MAXFILE, NEW c \in 0..MAXFILE,
             BlockAt(E[j], C, a) = BlockAt(E[k], C, c), BlockAt(E[j], C, a) # 0
      PROVE  j = k /\ a = c
  <2>1. BlockAt(D[j], B, a) # b /\ BlockAt(D[k], B, c) # b
    BY <1>0, <1>1
  <2>2. CASE j = i /\ a = p
    BY <1>4, <2>1, <2>2
  <2>3. CASE ~(j = i /\ a = p)
    <3>1. BlockAt(E[j], C, a) = BlockAt(D[j], B, a)
      BY <2>3
    <3>2. BlockAt(E[k], C, c) = BlockAt(D[k], B, c)
      BY <1>4, <2>1, <3>1
    <3>3. BlockAt(D[j], B, a) = BlockAt(D[k], B, c) /\ BlockAt(D[j], B, a) # 0
      BY <1>4, <3>1, <3>2
    <3> QED
      BY <3>3, ApartOnce
  <2> QED
    BY <2>2, <2>3
<1> DEFINE V == U \cup {b}
<1> HIDE DEF V
<1>5. Apart(E, C, V)
  BY <1>2, <1>3, <1>4, ApartMade DEF V
<1> QED
  BY <1>5 DEF V

\* An inode loses its blocks.
LEMMA ApartLoses ==
  ASSUME NEW D, NEW B, NEW U, Apart(D, B, U), NEW i \in Inums, NEW E,
         \A j \in Inums : \A a \in 0..MAXFILE : BlockAt(E[j], B, a) = IF j = i THEN 0 ELSE BlockAt(D[j], B, a)
  PROVE  Apart(E, B, U \ {BlockAt(D[i], B, a) : a \in 0..MAXFILE})
<1> DEFINE V == U \ {BlockAt(D[i], B, a) : a \in 0..MAXFILE}
<1>1. /\ U \subseteq 1..NBLOCKS
      /\ \A j \in Inums : \A a \in 0..MAXFILE : BlockAt(D[j], B, a) \in 0..NBLOCKS /\ (BlockAt(D[j], B, a) # 0 => BlockAt(D[j], B, a) \in U)
      /\ \A x \in U : \E j \in Inums : \E a \in 0..MAXFILE : BlockAt(D[j], B, a) = x
  BY ApartIs
<1>2. ASSUME NEW j \in Inums, NEW a \in 0..MAXFILE
      PROVE  BlockAt(E[j], B, a) \in 0..NBLOCKS /\ (BlockAt(E[j], B, a) # 0 => BlockAt(E[j], B, a) \in V)
  <2>1. CASE j = i
    BY <2>1, Sizes
  <2>2. CASE j # i
    <3>1. BlockAt(E[j], B, a) = BlockAt(D[j], B, a)
      BY <2>2
    <3>2. ASSUME NEW c \in 0..MAXFILE, BlockAt(D[j], B, a) # 0
          PROVE  BlockAt(D[i], B, c) # BlockAt(D[j], B, a)
      BY <2>2, <3>2, ApartOnce
    <3> QED
      BY <1>1, <3>1, <3>2
  <2> QED
    BY <2>1, <2>2
<1>3. ASSUME NEW x \in V
      PROVE  x # 0 /\ \E j \in Inums : \E a \in 0..MAXFILE : BlockAt(E[j], B, a) = x
  <2>1. x \in U /\ x # 0
    BY <1>1, <1>3, Sizes
  <2>2. PICK j \in Inums, a \in 0..MAXFILE : BlockAt(D[j], B, a) = x
    BY <1>1, <2>1
  <2>3. j # i
    BY <1>3, <2>2
  <2>4. BlockAt(E[j], B, a) = x
    BY <2>2, <2>3
  <2> QED
    BY <2>1, <2>4
<1>4. ASSUME NEW j \in Inums, NEW k \in Inums, NEW a \in 0..MAXFILE, NEW c \in 0..MAXFILE,
             BlockAt(E[j], B, a) = BlockAt(E[k], B, c), BlockAt(E[j], B, a) # 0
      PROVE  j = k /\ a = c
  <2>1. BlockAt(D[j], B, a) = BlockAt(D[k], B, c) /\ BlockAt(D[j], B, a) # 0
    BY <1>4
  <2> QED
    BY <2>1, ApartOnce
<1> HIDE DEF V
<1>5. Apart(E, B, V)
  BY <1>2, <1>3, <1>4, ApartMade
<1> QED
  BY <1>5 DEF V

\* The blocks of an inode are where they were.
SameList(r, B, C) == r.addrs[NDIRECT] # 0 => C[r.addrs[NDIRECT]] = B[r.addrs[NDIRECT]]

\* The list of an inode says where its blocks are, and another's does not matter.
LEMMA BlockAtSame ==
  ASSUME NEW r, NEW B, NEW C, SameList(r, B, C)
  PROVE  \A a : BlockAt(r, C, a) = BlockAt(r, B, a)
BY DEF BlockAt, SameList

LEMMA BlockAtList ==
  ASSUME NEW r, NEW B
  PROVE  BlockAt(r, B, MAXFILE) = r.addrs[NDIRECT]
BY Sizes DEF BlockAt

\* A list in use that has not changed.
LEMMA BlockAtKept ==
  ASSUME NEW D, NEW B, NEW U, InOrder(D, B, U), NEW j \in Inums, NEW C, D[j].addrs[NDIRECT] \in U => C[D[j].addrs[NDIRECT]] = B[D[j].addrs[NDIRECT]]
  PROVE  \A a : BlockAt(D[j], C, a) = BlockAt(D[j], B, a)
<1> DEFINE r == D[j]
           l == r.addrs[NDIRECT]
<1>1. l = BlockAt(r, B, MAXFILE)
  BY BlockAtList
<1>2. BlockAt(r, B, MAXFILE) # 0 => BlockAt(r, B, MAXFILE) \in U
  BY InOrderIs, Sizes
<1>3. l # 0 => C[l] = B[l]
  BY <1>1, <1>2
<1> HIDE DEF r
<1> QED
  BY <1>3, BlockAtSame DEF r, SameList

-----------------------------------------------------------------------------
(* What inodes and blocks that are in order may turn into *)

LEMMA InOrderMade ==
  ASSUME NEW D, NEW B, NEW U, D \in [Inums -> Inode], IsBlocks(B), Apart(D, B, U), \A j \in Inums : InodeInOrder(D[j], B)
  PROVE  InOrder(D, B, U)
BY DEF InOrder, IsBlocks

\* An inode, r from now on, gets block b in place p, and the blocks are C.
GetsBlock(D, B, i, r, p, b, C) ==
  /\ BlockAt(D[i], B, p) = 0 /\ r.type = D[i].type /\ r.type # "none" /\ r.size = D[i].size
  /\ \A a \in 0..MAXFILE : BlockAt(r, C, a) = IF a = p THEN b ELSE BlockAt(D[i], B, a)
  /\ r.addrs[NDIRECT] # 0 => IsList(C[r.addrs[NDIRECT]])
  /\ \A j \in Inums : j # i => SameList(D[j], B, C)
  /\ \A j \in Inums : \A a \in 0..MAXFILE - 1 : BlockAt(D[j], B, a) # 0 => C[BlockAt(D[j], B, a)] = B[BlockAt(D[j], B, a)]
  /\ p # MAXFILE => \A c \in 0..BSIZE - 1 : C[b][c] = <<>>

LEMMA InOrderGets ==
  ASSUME NEW D, NEW B, NEW U, InOrder(D, B, U), NEW i \in Inums, NEW r \in Inode, NEW p \in 0..MAXFILE,
         NEW b \in (1..NBLOCKS) \ U, NEW C, IsBlocks(C), GetsBlock(D, B, i, r, p, b, C)
  PROVE  InOrder([D EXCEPT ![i] = r], C, U \cup {b})
<1>0. /\ BlockAt(D[i], B, p) = 0 /\ r.type = D[i].type /\ r.type # "none" /\ r.size = D[i].size
      /\ \A a \in 0..MAXFILE : BlockAt(r, C, a) = IF a = p THEN b ELSE BlockAt(D[i], B, a)
      /\ r.addrs[NDIRECT] # 0 => IsList(C[r.addrs[NDIRECT]])
      /\ \A j \in Inums : j # i => SameList(D[j], B, C)
      /\ \A j \in Inums : \A a \in 0..MAXFILE - 1 : BlockAt(D[j], B, a) # 0 => C[BlockAt(D[j], B, a)] = B[BlockAt(D[j], B, a)]
      /\ p # MAXFILE => \A c \in 0..BSIZE - 1 : C[b][c] = <<>>
  BY DEF GetsBlock
<1> USE <1>0
<1>00. \A j \in Inums : j # i => \A a \in 0..MAXFILE : BlockAt(D[j], C, a) = BlockAt(D[j], B, a)
  <2> SUFFICES ASSUME NEW j \in Inums, j # i
               PROVE  \A a \in 0..MAXFILE : BlockAt(D[j], C, a) = BlockAt(D[j], B, a)
    OBVIOUS
  <2>1. SameList(D[j], B, C)
    BY <1>0
  <2> QED
    BY <2>1, BlockAtSame
<1> DEFINE E == [D EXCEPT ![i] = r]
<1>1. D \in [Inums -> Inode] /\ Apart(D, B, U) /\ \A j \in Inums : InodeInOrder(D[j], B)
  BY InOrderIs
<1>2. E \in [Inums -> Inode] /\ E[i] = r /\ \A j \in Inums : j # i => E[j] = D[j]
  BY <1>1
<1>3. 0..MAXFILE - 1 \subseteq 0..MAXFILE /\ MAXFILE \in Nat
  BY Sizes
<1> HIDE DEF E
<1>4. \A j \in Inums : \A a \in 0..MAXFILE : BlockAt(E[j], C, a) = IF j = i /\ a = p THEN b ELSE BlockAt(D[j], B, a)
  BY <1>00, <1>2
<1>5. Apart(E, C, U \cup {b})
  <2>1. Apart(D, B, U)
    BY <1>1
  <2> QED
    BY <2>1, <1>4, ApartGets
<1>6. InodeInOrder(r, C)
  <2>1. ASSUME NEW a \in 0..MAXFILE - 1, a * BSIZE < r.size
        PROVE  BlockAt(r, C, a) # 0
    <3>1. BlockAt(D[i], B, a) # 0
      BY <1>1, <2>1 DEF InodeInOrder
    <3>2. a \in 0..MAXFILE /\ a # p
      BY <1>3, <3>1
    <3> QED
      BY <3>1, <3>2
  <2>2. ASSUME r.type = "dir", NEW a \in 0..MAXFILE - 1, BlockAt(r, C, a) # 0, NEW c \in 0..BSIZE - 1
        PROVE  MayLead(C[BlockAt(r, C, a)][c])
    <3>1. a \in 0..MAXFILE
      BY <1>3
    <3>2. CASE a = p
      <4>1. p # MAXFILE /\ BlockAt(r, C, a) = b
        BY <1>3, <3>1, <3>2
      <4> QED
        BY <4>1 DEF MayLead
    <3>3. CASE a # p
      <4>1. BlockAt(r, C, a) = BlockAt(D[i], B, a)
        BY <3>1, <3>3
      <4>2. C[BlockAt(r, C, a)] = B[BlockAt(D[i], B, a)]
        BY <2>2, <4>1
      <4>3. MayLead(B[BlockAt(D[i], B, a)][c])
        BY <1>1, <2>2, <4>1 DEF InodeInOrder
      <4> QED
        BY <4>2, <4>3
    <3> QED
      BY <3>2, <3>3
  <2> QED
    BY <1>0, <2>1, <2>2 DEF InodeInOrder
<1>7. ASSUME NEW j \in Inums, j # i
      PROVE  InodeInOrder(D[j], C)
  <2>1. \A a \in 0..MAXFILE : BlockAt(D[j], C, a) = BlockAt(D[j], B, a)
    BY <1>00, <1>7
  <2>2. \A a \in 0..MAXFILE - 1 : BlockAt(D[j], B, a) # 0 => C[BlockAt(D[j], B, a)] = B[BlockAt(D[j], B, a)]
    OBVIOUS
  <2>3. InodeInOrder(D[j], B)
    BY <1>1
  <2>4. \A a \in 0..MAXFILE - 1 : BlockAt(D[j], C, a) = BlockAt(D[j], B, a)
    BY <1>3, <2>1
  <2>5. D[j].addrs[NDIRECT] # 0 => IsList(C[D[j].addrs[NDIRECT]])
    BY <1>7, <2>3 DEF InodeInOrder, SameList
  <2> QED
    BY <2>1, <2>2, <2>3, <2>4, <2>5 DEF InodeInOrder
<1>8. InOrder(E, C, U \cup {b})
  <2> DEFINE V == U \cup {b}
  <2>1. Apart(E, C, V)
    BY <1>5
  <2>2. \A j \in Inums : InodeInOrder(E[j], C)
    BY <1>2, <1>6, <1>7
  <2> HIDE DEF V
  <2>3. InOrder(E, C, V)
    BY <1>2, <2>1, <2>2, InOrderMade
  <2> QED
    BY <2>3 DEF V
<1> QED
  BY <1>8 DEF E

\* Every block stays where it is.
LEMMA InOrderKeeps ==
  ASSUME NEW D, NEW B, NEW U, InOrder(D, B, U), NEW i \in Inums, NEW r \in Inode, r.type = D[i].type, NEW C, IsBlocks(C),
         \A a \in 0..MAXFILE : BlockAt(r, C, a) = BlockAt(D[i], B, a),
         r.addrs[NDIRECT] # 0 => IsList(C[r.addrs[NDIRECT]]), \A j \in Inums : j # i => SameList(D[j], B, C),
         \A a \in 0..MAXFILE - 1 : a * BSIZE < r.size => BlockAt(D[i], B, a) # 0,
         \A j \in Inums : \A a \in 0..MAXFILE - 1 : D[j].type = "dir" /\ BlockAt(D[j], B, a) # 0 =>
            \A c \in 0..BSIZE - 1 : C[BlockAt(D[j], B, a)][c] = B[BlockAt(D[j], B, a)][c] \/ MayLead(C[BlockAt(D[j], B, a)][c])
  PROVE  InOrder([D EXCEPT ![i] = r], C, U)
<1> DEFINE E == [D EXCEPT ![i] = r]
<1>1. D \in [Inums -> Inode] /\ Apart(D, B, U) /\ \A j \in Inums : InodeInOrder(D[j], B)
  BY InOrderIs
<1>2. E \in [Inums -> Inode] /\ E[i] = r /\ \A j \in Inums : j # i => E[j] = D[j]
  BY <1>1
<1>3. 0..MAXFILE - 1 \subseteq 0..MAXFILE /\ MAXFILE \in Nat
  BY Sizes
<1> HIDE DEF E
<1>0. \A j \in Inums : j # i => \A a \in 0..MAXFILE : BlockAt(D[j], C, a) = BlockAt(D[j], B, a)
  BY BlockAtSame
<1>4. \A j \in Inums : E[j].type = D[j].type /\ \A a \in 0..MAXFILE : BlockAt(E[j], C, a) = BlockAt(D[j], B, a)
  BY <1>0, <1>2
<1>5. Apart(E, C, U)
  <2>1. /\ \A j \in Inums : \A a \in 0..MAXFILE : BlockAt(D[j], B, a) \in 0..NBLOCKS /\ (BlockAt(D[j], B, a) # 0 => BlockAt(D[j], B, a) \in U)
        /\ \A x \in U : x # 0 /\ \E j \in Inums : \E a \in 0..MAXFILE : BlockAt(D[j], B, a) = x
    <3>1. Apart(D, B, U)
      BY <1>1
    <3> QED
      BY <3>1, ApartIs, Sizes
  <2>2. \A j, k \in Inums : \A a, c \in 0..MAXFILE : BlockAt(D[j], B, a) = BlockAt(D[k], B, c) /\ BlockAt(D[j], B, a) # 0 => j = k /\ a = c
    BY <1>1, ApartOnce
  <2>3. \A j \in Inums : \A a \in 0..MAXFILE : BlockAt(E[j], C, a) \in 0..NBLOCKS /\ (BlockAt(E[j], C, a) # 0 => BlockAt(E[j], C, a) \in U)
    BY <1>4, <2>1
  <2>4. \A x \in U : x # 0 /\ \E j \in Inums : \E a \in 0..MAXFILE : BlockAt(E[j], C, a) = x
    BY <1>4, <2>1
  <2>5. \A j, k \in Inums : \A a, c \in 0..MAXFILE : BlockAt(E[j], C, a) = BlockAt(E[k], C, c) /\ BlockAt(E[j], C, a) # 0 => j = k /\ a = c
    BY <1>4, <2>2
  <2> QED
    BY <2>3, <2>4, <2>5, ApartMade
<1>6. ASSUME NEW j \in Inums
      PROVE  InodeInOrder(E[j], C)
  <2>1. InodeInOrder(D[j], B)
    BY <1>1
  <2>2. E[j].type = D[j].type /\ \A a \in 0..MAXFILE : BlockAt(E[j], C, a) = BlockAt(D[j], B, a)
    BY <1>4
  <2>3. \A a \in 0..MAXFILE - 1 : BlockAt(E[j], C, a) = BlockAt(D[j], B, a)
    BY <1>3, <2>2
  <2>4. \A a \in 0..MAXFILE - 1 : a * BSIZE < E[j].size => BlockAt(D[j], B, a) # 0
    BY <1>2, <2>1 DEF InodeInOrder
  <2>5. ASSUME E[j].type = "dir", NEW a \in 0..MAXFILE - 1, BlockAt(D[j], B, a) # 0, NEW c \in 0..BSIZE - 1
        PROVE  MayLead(C[BlockAt(D[j], B, a)][c])
    <3>1. MayLead(B[BlockAt(D[j], B, a)][c])
      BY <2>1, <2>2, <2>5 DEF InodeInOrder
    <3>2. C[BlockAt(D[j], B, a)][c] = B[BlockAt(D[j], B, a)][c] \/ MayLead(C[BlockAt(D[j], B, a)][c])
      BY <2>2, <2>5
    <3> QED
      BY <3>1, <3>2
  <2>6. E[j].addrs[NDIRECT] # 0 => IsList(C[E[j].addrs[NDIRECT]])
    <3>1. CASE j = i
      BY <1>2, <3>1
    <3>2. CASE j # i
      BY <1>2, <2>1, <3>2 DEF InodeInOrder, SameList
    <3> QED
      BY <3>1, <3>2
  <2> QED
    BY <2>1, <2>2, <2>3, <2>4, <2>5, <2>6 DEF InodeInOrder
<1>7. InOrder(E, C, U)
  <2>1. Apart(E, C, U) /\ \A j \in Inums : InodeInOrder(E[j], C)
    BY <1>5, <1>6
  <2> QED
    BY <1>2, <2>1, InOrderMade
<1> QED
  BY <1>7 DEF E

\* An inode loses its blocks.
LEMMA InOrderLoses ==
  ASSUME NEW D, NEW B, NEW U, InOrder(D, B, U), NEW i \in Inums, NEW r \in Inode, r.size = 0, \A a \in 0..NDIRECT : r.addrs[a] = 0
  PROVE  InOrder([D EXCEPT ![i] = r], B, U \ {BlockAt(D[i], B, a) : a \in 0..MAXFILE})
<1> DEFINE E == [D EXCEPT ![i] = r]
           V == U \ {BlockAt(D[i], B, a) : a \in 0..MAXFILE}
<1>1. D \in [Inums -> Inode] /\ Apart(D, B, U) /\ IsBlocks(B) /\ \A j \in Inums : InodeInOrder(D[j], B)
  BY InOrderIs
<1>2. E \in [Inums -> Inode] /\ E[i] = r /\ \A j \in Inums : j # i => E[j] = D[j]
  BY <1>1
<1>3. 0..MAXFILE - 1 \subseteq 0..MAXFILE /\ MAXFILE \in Nat
  BY Sizes
<1>4. ASSUME NEW a \in 0..MAXFILE
      PROVE  BlockAt(r, B, a) = 0
  <2>1. r.addrs[NDIRECT] = 0
    BY Sizes
  <2>2. a < NDIRECT => r.addrs[a] = 0
    BY Sizes
  <2> QED
    BY <2>1, <2>2 DEF BlockAt
<1> HIDE DEF E
<1>5. \A j \in Inums : \A a \in 0..MAXFILE : BlockAt(E[j], B, a) = IF j = i THEN 0 ELSE BlockAt(D[j], B, a)
  BY <1>2, <1>4
<1>6. Apart(E, B, V)
  <2>1. Apart(D, B, U)
    BY <1>1
  <2> QED
    BY <2>1, <1>5, ApartLoses
<1>7. InodeInOrder(r, B)
  <2>1. \A a \in 0..MAXFILE - 1 : BlockAt(r, B, a) = 0 /\ ~(a * BSIZE < r.size)
    <3> TAKE a \in 0..MAXFILE - 1
    <3>1. a \in 0..MAXFILE /\ a \in Int
      BY <1>3
    <3>2. a * BSIZE \in Int /\ 0 * BSIZE <= a * BSIZE /\ 0 * BSIZE = 0
      BY <3>1, Sizes, TimesOrder
    <3> QED
      BY <1>4, <3>1, <3>2
  <2>2. r.addrs[NDIRECT] = 0
    BY Sizes
  <2> QED
    BY <1>4, <2>1, <2>2 DEF InodeInOrder
<1> HIDE DEF V
<1>8. InOrder(E, B, V)
  <2>1. \A j \in Inums : InodeInOrder(E[j], B)
    BY <1>1, <1>2, <1>7
  <2>2. IsBlocks(B)
    BY <1>1
  <2> QED
    BY <1>2, <1>6, <2>1, <2>2, InOrderMade
<1> QED
  BY <1>8 DEF E, V

-----------------------------------------------------------------------------
(* An address or an entry of the list gets a block of zeroes *)

Zeroed(B, b) == [B EXCEPT ![b] = ZeroBlock]
WithAddress(inode, s, b) == [inode EXCEPT !.addrs[s] = b]
WithEntry(B, l, c, b) == [B EXCEPT ![l][c] = <<b>>]

LEMMA ZeroedIs ==
  ASSUME NEW B, IsBlocks(B), NEW b \in 1..NBLOCKS
  PROVE  /\ IsBlocks(Zeroed(B, b)) /\ \A c \in 0..BSIZE - 1 : Zeroed(B, b)[b][c] = <<>>
         /\ \A x \in 1..NBLOCKS : x # b => Zeroed(B, b)[x] = B[x]
BY DEF IsBlocks, Zeroed, ZeroBlock

LEMMA WithEntryIs ==
  ASSUME NEW B, IsBlocks(B), NEW l \in 1..NBLOCKS, NEW c \in 0..BSIZE - 1, NEW b
  PROVE  /\ IsBlocks(WithEntry(B, l, c, b))
         /\ WithEntry(B, l, c, b)[l][c] = <<b>> /\ \A d \in 0..BSIZE - 1 : d # c => WithEntry(B, l, c, b)[l][d] = B[l][d]
         /\ \A x \in 1..NBLOCKS : x # l => WithEntry(B, l, c, b)[x] = B[x]
BY DEF IsBlocks, WithEntry

LEMMA WithAddressIs ==
  ASSUME NEW r \in Inode, NEW s \in 0..NDIRECT, NEW b \in 0..NBLOCKS
  PROVE  LET t == WithAddress(r, s, b) IN
         /\ t \in Inode /\ t.type = r.type /\ t.major = r.major /\ t.nlink = r.nlink /\ t.size = r.size
         /\ \A k \in 0..NDIRECT : t.addrs[k] = IF k = s THEN b ELSE r.addrs[k]
BY DEF Inode, WithAddress

\* Inode t with blocks C has block b at p, and otherwise those that r has with B.
GetsAt(r, B, t, C, p, b) ==
  BlockAt(t, C, p) = b /\ \A a \in 0..MAXFILE : a # p => BlockAt(t, C, a) = BlockAt(r, B, a)

LEMMA AddressInOrder ==
  ASSUME NEW D, NEW B, NEW U, InOrder(D, B, U), NEW i \in Inums, D[i].type # "none",
         NEW s \in 0..NDIRECT, D[i].addrs[s] = 0, NEW b \in (1..NBLOCKS) \ U,
         NEW r, r = WithAddress(D[i], s, b), NEW C, C = Zeroed(B, b), NEW p, p = IF s = NDIRECT THEN MAXFILE ELSE s
  PROVE  /\ InOrder([D EXCEPT ![i] = r], C, U \cup {b})
         /\ GetsAt(D[i], B, r, C, p, b)
<1>1. /\ D \in [Inums -> Inode] /\ IsBlocks(B) /\ U \subseteq 1..NBLOCKS
      /\ \A j \in Inums : \A a \in 0..MAXFILE : BlockAt(D[j], B, a) \in 0..NBLOCKS /\ (BlockAt(D[j], B, a) # 0 => BlockAt(D[j], B, a) \in U)
  BY InOrderIs
<1>2. /\ IsBlocks(C) /\ \A c \in 0..BSIZE - 1 : C[b][c] = <<>>
      /\ \A x \in 1..NBLOCKS : x # b => C[x] = B[x]
  BY <1>1, ZeroedIs
<1>3. /\ MAXFILE \in Nat /\ NDIRECT \in Nat \ {0} /\ BSIZE \in Nat \ {0} /\ MAXFILE = NDIRECT + BSIZE /\ p \in 0..MAXFILE /\ b # 0
      /\ (p < NDIRECT => s = p) /\ b \in 0..NBLOCKS /\ 0..MAXFILE - 1 \subseteq 0..MAXFILE
  BY Sizes
<1>4. D[i] \in Inode /\ r \in Inode /\ r.size = D[i].size /\ r.type = D[i].type
      /\ \A k \in 0..NDIRECT : r.addrs[k] = IF k = s THEN b ELSE D[i].addrs[k]
  <2>1. D[i] \in Inode
    BY <1>1
  <2> QED
    BY <1>3, <2>1, WithAddressIs
<1>5. \A x \in U : C[x] = B[x]
  BY <1>1, <1>2
<1>6. \A a \in 0..MAXFILE : BlockAt(r, C, a) = IF a = p THEN b ELSE BlockAt(D[i], B, a)
  <2>1. CASE s = NDIRECT
    <3>1. r.addrs[NDIRECT] = b /\ D[i].addrs[NDIRECT] = 0 /\ p = MAXFILE
      BY <1>3, <1>4, <2>1
    <3>2. ASSUME NEW a \in 0..MAXFILE
          PROVE  BlockAt(r, C, a) = IF a = p THEN b ELSE BlockAt(D[i], B, a)
      <4>1. CASE a < NDIRECT
        BY <1>3, <1>4, <2>1, <3>1, <4>1 DEF BlockAt
      <4>2. CASE a = MAXFILE
        BY <1>3, <3>1, <4>2 DEF BlockAt
      <4>3. CASE ~(a < NDIRECT) /\ a # MAXFILE
        <5>1. a - NDIRECT \in 0..BSIZE - 1
          BY <1>3, <4>3
        <5>2. C[b][a - NDIRECT] = <<>>
          BY <1>2, <5>1
        <5> QED
          BY <1>3, <3>1, <4>3, <5>2 DEF BlockAt
      <4> QED
        BY <4>1, <4>2, <4>3
    <3> QED
      BY <3>2
  <2>2. CASE s # NDIRECT
    <3> DEFINE l == D[i].addrs[NDIRECT]
    <3>1. s < NDIRECT /\ s \in 0..NDIRECT - 1 /\ p = s /\ r.addrs[NDIRECT] = l
      BY <1>3, <1>4, <2>2
    <3>2. \A a : BlockAt(D[i], C, a) = BlockAt(D[i], B, a)
      BY <1>5, BlockAtKept
    <3>3. ASSUME NEW a \in 0..MAXFILE
          PROVE  BlockAt(r, C, a) = IF a = p THEN b ELSE BlockAt(D[i], C, a)
      <4>1. CASE a < NDIRECT
        BY <1>3, <1>4, <3>1, <4>1 DEF BlockAt
      <4>2. CASE ~(a < NDIRECT)
        <5>1. a # p
          BY <1>3, <3>1, <4>2
        <5>2. BlockAt(r, C, a) = BlockAt(D[i], C, a)
          BY <3>1, <4>2 DEF BlockAt, l
        <5> QED
          BY <5>1, <5>2
      <4> QED
        BY <4>1, <4>2
    <3> QED
      BY <3>2, <3>3
  <2> QED
    BY <2>1, <2>2
<1>12. \A j \in Inums : D[j].addrs[NDIRECT] # 0 => D[j].addrs[NDIRECT] \in U
  <2>1. MAXFILE \in 0..MAXFILE
    BY Sizes
  <2> QED
    BY <1>1, <2>1, BlockAtList
<1>7. \A j \in Inums : SameList(D[j], B, C)
  BY <1>5, <1>12 DEF SameList
<1>13. r.addrs[NDIRECT] # 0 => IsList(C[r.addrs[NDIRECT]])
  <2>1. CASE s = NDIRECT
    <3>1. r.addrs[NDIRECT] = b
      BY <1>3, <1>4, <2>1
    <3> QED
      BY <1>2, <3>1 DEF IsList
  <2>2. CASE s # NDIRECT
    <3>1. r.addrs[NDIRECT] = D[i].addrs[NDIRECT]
      BY <1>3, <1>4, <2>2
    <3>2. InodeInOrder(D[i], B)
      BY InOrderIs
    <3> QED
      BY <1>7, <3>1, <3>2 DEF InodeInOrder, SameList
  <2> QED
    BY <2>1, <2>2
<1>8. BlockAt(D[i], B, p) = 0
  <2>1. CASE s = NDIRECT
    BY <2>1, BlockAtList
  <2>2. CASE s # NDIRECT
    BY <1>3, <2>2 DEF BlockAt
  <2> QED
    BY <2>1, <2>2
<1>9. \A j \in Inums : \A a \in 0..MAXFILE - 1 : BlockAt(D[j], B, a) # 0 => C[BlockAt(D[j], B, a)] = B[BlockAt(D[j], B, a)]
  BY <1>1, <1>3, <1>5
<1>10. p \in 0..MAXFILE /\ r \in Inode /\ r.type = D[i].type /\ r.type # "none" /\ r.size = D[i].size /\ IsBlocks(C)
       /\ (p # MAXFILE => \A c \in 0..BSIZE - 1 : C[b][c] = <<>>)
  BY <1>2, <1>3, <1>4
<1>11. InOrder([D EXCEPT ![i] = r], C, U \cup {b})
  <2>1. GetsBlock(D, B, i, r, p, b, C)
    BY <1>6, <1>7, <1>8, <1>9, <1>10, <1>13 DEF GetsBlock
  <2> QED
    BY <1>10, <2>1, InOrderGets
<1> QED
  BY <1>3, <1>6, <1>11 DEF GetsAt

LEMMA EntryInOrder ==
  ASSUME NEW D, NEW B, NEW U, InOrder(D, B, U), NEW i \in Inums, D[i].type # "none",
         NEW l, l = D[i].addrs[NDIRECT], l # 0, NEW c \in 0..BSIZE - 1, B[l][c] = <<>>,
         NEW b \in (1..NBLOCKS) \ U, NEW C, C = WithEntry(Zeroed(B, b), l, c, b)
  PROVE  /\ InOrder(D, C, U \cup {b}) /\ l \in U /\ l # b
         /\ GetsAt(D[i], B, D[i], C, NDIRECT + c, b)
<1> DEFINE p == NDIRECT + c
           Z == Zeroed(B, b)
<1>1. /\ D \in [Inums -> Inode] /\ IsBlocks(B) /\ U \subseteq 1..NBLOCKS
      /\ \A j \in Inums : \A a \in 0..MAXFILE : BlockAt(D[j], B, a) \in 0..NBLOCKS /\ (BlockAt(D[j], B, a) # 0 => BlockAt(D[j], B, a) \in U)
  BY InOrderIs
<1>2. /\ MAXFILE \in Nat /\ NDIRECT \in Nat \ {0} /\ BSIZE \in Nat \ {0} /\ MAXFILE = NDIRECT + BSIZE
      /\ p \in 0..MAXFILE - 1 /\ p \in 0..MAXFILE /\ p # MAXFILE /\ ~(p < NDIRECT) /\ p - NDIRECT = c
      /\ b # 0 /\ 0..MAXFILE - 1 \subseteq 0..MAXFILE /\ MAXFILE \in 0..MAXFILE
  BY Sizes
<1>3. l = BlockAt(D[i], B, MAXFILE)
  BY BlockAtList
<1>4. l \in U /\ l \in 1..NBLOCKS /\ l # b
  BY <1>1, <1>2, <1>3
<1>5. /\ IsBlocks(Z) /\ \A d \in 0..BSIZE - 1 : Z[b][d] = <<>>
      /\ \A x \in 1..NBLOCKS : x # b => Z[x] = B[x]
  BY <1>1, ZeroedIs
<1>0. C = WithEntry(Z, l, c, b)
  OBVIOUS
<1> HIDE DEF Z
<1>6. /\ IsBlocks(C) /\ \A d \in 0..BSIZE - 1 : C[l][d] = IF d = c THEN <<b>> ELSE Z[l][d]
      /\ \A x \in 1..NBLOCKS : x # l => C[x] = Z[x]
  <2> DEFINE X == WithEntry(Z, l, c, b)
  <2>1. IsBlocks(Z) /\ l \in 1..NBLOCKS
    BY <1>4, <1>5
  <2>2. IsBlocks(X)
    BY <2>1, WithEntryIs
  <2>3. X[l][c] = <<b>> /\ \A d \in 0..BSIZE - 1 : d # c => X[l][d] = Z[l][d]
    BY <2>1, WithEntryIs
  <2>4. \A x \in 1..NBLOCKS : x # l => X[x] = Z[x]
    BY <2>1, WithEntryIs
  <2> HIDE DEF X
  <2>5. C = X
    BY <1>0 DEF X
  <2> QED
    BY <2>2, <2>3, <2>4, <2>5
<1>7. /\ \A x \in U : x # l => C[x] = B[x]
      /\ \A d \in 0..BSIZE - 1 : C[l][d] = (IF d = c THEN <<b>> ELSE B[l][d]) /\ C[b][d] = <<>>
  BY <1>1, <1>4, <1>5, <1>6
<1>8. \A j \in Inums : \A a \in 0..MAXFILE : BlockAt(D[j], B, a) = l => j = i /\ a = MAXFILE
  <2>1. Apart(D, B, U)
    BY InOrderIs
  <2> QED
    BY <1>2, <1>3, <2>1, ApartOnce
<1>9. ASSUME NEW a \in 0..MAXFILE
      PROVE  BlockAt(D[i], C, a) = IF a = p THEN b ELSE BlockAt(D[i], B, a)
  <2>1. CASE a < NDIRECT \/ a = MAXFILE
    BY <1>2, <2>1 DEF BlockAt
  <2>2. CASE ~(a < NDIRECT \/ a = MAXFILE)
    <3> DEFINE d == a - NDIRECT
    <3>1. d \in 0..BSIZE - 1 /\ (d = c <=> a = p)
      BY <1>2, <2>2
    <3>2. C[l][d] = IF d = c THEN <<b>> ELSE B[l][d]
      BY <1>7, <3>1
    <3>3. BlockAt(D[i], C, a) = IF C[l][d] = <<>> THEN 0 ELSE C[l][d][1]
      BY <1>2, <2>2 DEF BlockAt
    <3>4. BlockAt(D[i], B, a) = IF B[l][d] = <<>> THEN 0 ELSE B[l][d][1]
      BY <1>2, <2>2 DEF BlockAt
    <3> HIDE DEF d
    <3>5. CASE d = c
      <4>1. C[l][d] = <<b>> /\ <<b>> # <<>> /\ <<b>>[1] = b
        BY <3>2, <3>5
      <4> QED
        BY <3>1, <3>3, <3>5, <4>1
    <3>6. CASE d # c
      BY <3>1, <3>2, <3>3, <3>4, <3>6
    <3> QED
      BY <3>5, <3>6
  <2> QED
    BY <2>1, <2>2
<1>10. BlockAt(D[i], B, p) = 0
  BY <1>2 DEF BlockAt
<1>11. \A j \in Inums : j # i => SameList(D[j], B, C)
  <2> SUFFICES ASSUME NEW j \in Inums, j # i
               PROVE  SameList(D[j], B, C)
    OBVIOUS
  <2>1. D[j].addrs[NDIRECT] # l
    BY <1>2, <1>8, BlockAtList
  <2>2. D[j].addrs[NDIRECT] # 0 => D[j].addrs[NDIRECT] \in U
    BY <1>1, <1>2, BlockAtList
  <2> QED
    BY <1>7, <2>1, <2>2 DEF SameList
<1>18. IsList(C[l])
  <2>1. IsList(B[l])
    <3>1. InodeInOrder(D[i], B)
      BY InOrderIs
    <3> QED
      BY <3>1 DEF InodeInOrder
  <2> QED
    BY <1>7, <2>1 DEF IsList
<1>12. \A j \in Inums : \A a \in 0..MAXFILE - 1 : BlockAt(D[j], B, a) # 0 => C[BlockAt(D[j], B, a)] = B[BlockAt(D[j], B, a)]
  <2> SUFFICES ASSUME NEW j \in Inums, NEW a \in 0..MAXFILE - 1, BlockAt(D[j], B, a) # 0
               PROVE  C[BlockAt(D[j], B, a)] = B[BlockAt(D[j], B, a)]
    OBVIOUS
  <2>1. a \in 0..MAXFILE /\ a # MAXFILE
    BY <1>2
  <2>2. BlockAt(D[j], B, a) \in U /\ BlockAt(D[j], B, a) # l
    BY <1>1, <1>8, <2>1
  <2> QED
    BY <1>7, <2>2
<1> DEFINE r == D[i]
<1>13. r \in Inode /\ [D EXCEPT ![i] = r] = D
  BY <1>1
<1> HIDE DEF p, r
<1>14. \A a \in 0..MAXFILE : BlockAt(r, C, a) = IF a = p THEN b ELSE BlockAt(D[i], B, a)
  BY <1>9 DEF r
<1>15. r.type = D[i].type /\ r.type # "none" /\ r.size = D[i].size /\ p \in 0..MAXFILE /\ IsBlocks(C)
       /\ (p # MAXFILE => \A d \in 0..BSIZE - 1 : C[b][d] = <<>>)
  BY <1>2, <1>6, <1>7 DEF r
<1>16. InOrder([D EXCEPT ![i] = r], C, U \cup {b})
  <2>1. GetsBlock(D, B, i, r, p, b, C)
    BY <1>10, <1>11, <1>12, <1>14, <1>15, <1>18 DEF GetsBlock, r
  <2> QED
    BY <1>13, <1>15, <2>1, InOrderGets
<1>17. InOrder(D, C, U \cup {b})
  BY <1>13, <1>16
<1> QED
  BY <1>2, <1>4, <1>9, <1>17 DEF p, GetsAt

-----------------------------------------------------------------------------
(* The block of an inode, allocated if need be *)

Typed(f) == IsFS(f) /\ f.disk \in [Inums -> Inode] /\ f.inode \in [Inums -> Inode] /\ f.valid \subseteq Inums

\* The file system is in order when inode i of the cache is written to the disk.
Image(f, i) == [f.disk EXCEPT ![i] = f.inode[i]]
Ahead(f, i) == Typed(f) /\ i \in Inums /\ f.inode[i].type # "none" /\ InOrder(Image(f, i), f.block, f.used)

\* Block bn of inode i of the cache.
CacheBlock(f, i, bn) == BlockAt(f.inode[i], f.block, bn)

\* What bmap may change, which are the addresses of i, and blocks that were free.
Maps(f, g, i) ==
  /\ g.disk = f.disk /\ g.ref = f.ref /\ g.valid = f.valid
  /\ \A j \in Inums : j # i => g.inode[j] = f.inode[j]
  /\ g.inode[i].type = f.inode[i].type /\ g.inode[i].size = f.inode[i].size
  /\ \A a \in 0..MAXFILE : CacheBlock(f, i, a) # 0 => CacheBlock(g, i, a) = CacheBlock(f, i, a)

LEMMA ImageIs ==
  ASSUME NEW f, Typed(f), NEW i \in Inums
  PROVE  Image(f, i) \in [Inums -> Inode] /\ Image(f, i)[i] = f.inode[i] /\ \A j \in Inums : j # i => Image(f, i)[j] = f.disk[j]
BY DEF Typed, Image

LEMMA AheadIs ==
  ASSUME NEW f, NEW i, Ahead(f, i)
  PROVE  /\ Typed(f) /\ i \in Inums /\ f.inode[i] \in Inode /\ Image(f, i)[i] = f.inode[i]
         /\ InOrder(Image(f, i), f.block, f.used) /\ f.used \subseteq 1..NBLOCKS /\ IsBlocks(f.block)
         /\ \A a \in 0..MAXFILE : CacheBlock(f, i, a) \in 0..NBLOCKS /\ (CacheBlock(f, i, a) # 0 => CacheBlock(f, i, a) \in f.used)
<1>1. Typed(f) /\ i \in Inums /\ InOrder(Image(f, i), f.block, f.used) /\ f.inode[i] \in Inode
  BY DEF Ahead, Typed
<1>2. Image(f, i)[i] = f.inode[i]
  BY <1>1, ImageIs
<1> DEFINE D == Image(f, i)
<1>3. D[i] = f.inode[i] /\ InOrder(D, f.block, f.used)
  BY <1>1, <1>2
<1> HIDE DEF D
<1>4. f.used \subseteq 1..NBLOCKS /\ IsBlocks(f.block)
  BY <1>3, InOrderIs
<1>5. \A a \in 0..MAXFILE : BlockAt(D[i], f.block, a) \in 0..NBLOCKS /\ (BlockAt(D[i], f.block, a) # 0 => BlockAt(D[i], f.block, a) \in f.used)
  BY <1>1, <1>3, InOrderIs
<1> QED
  BY <1>1, <1>2, <1>3, <1>4, <1>5 DEF CacheBlock

LEMMA MapsSame ==
  ASSUME NEW f, NEW i
  PROVE  Maps(f, f, i)
BY DEF Maps

LEMMA MapsBoth ==
  ASSUME NEW f, NEW g, NEW h, NEW i, Maps(f, g, i), Maps(g, h, i)
  PROVE  Maps(f, h, i)
BY DEF Maps

\* What balloc gives.
LEMMA ballocTakes ==
  ASSUME NEW f, ~balloc(f)[1].panic, IsFS(f)
  PROVE  \E b \in (1..NBLOCKS) \ f.used : balloc(f) = Takes(f, b)
<1>1. FreeBlocks(f) # {}
  BY DEF balloc, Panics, IsFS
<1> DEFINE X == FreeBlocks(f)
<1>2. X \in SUBSET Nat /\ X # {} /\ X \subseteq (1..NBLOCKS) \ f.used
  BY <1>1, Sizes DEF FreeBlocks
<1> HIDE DEF X
<1>3. Min(X) \in X
  BY <1>2, MinIn
<1>4. balloc(f) = Takes(f, Min(X))
  BY <1>1 DEF balloc, X
<1> QED
  BY <1>2, <1>3, <1>4

LEMMA TakesIs ==
  ASSUME NEW f, Typed(f), NEW b
  PROVE  LET g == Takes(f, b)[1] IN
         /\ Typed(g) /\ Takes(f, b)[2] = b
         /\ g.disk = f.disk /\ g.ref = f.ref /\ g.valid = f.valid /\ g.inode = f.inode /\ g.panic = f.panic
         /\ g.used = f.used \cup {b} /\ g.block = Zeroed(f.block, b)
BY DEF Typed, IsFS, Takes, Zeroed

\* An address that is set.
SetsAddress(f, i, s, b) == [f EXCEPT !.inode[i].addrs[s] = b]

LEMMA SetsAddressIs ==
  ASSUME NEW f, Typed(f), NEW i \in Inums, NEW s \in 0..NDIRECT, NEW b \in 0..NBLOCKS
  PROVE  LET g == SetsAddress(f, i, s, b) IN
         /\ Typed(g) /\ g.inode[i] = WithAddress(f.inode[i], s, b) /\ \A j \in Inums : j # i => g.inode[j] = f.inode[j]
         /\ g.disk = f.disk /\ g.ref = f.ref /\ g.valid = f.valid /\ g.panic = f.panic
         /\ g.used = f.used /\ g.block = f.block
<1> DEFINE r == WithAddress(f.inode[i], s, b)
           g == SetsAddress(f, i, s, b)
<1>1. g = [f EXCEPT !.inode = [@ EXCEPT ![i] = r]]
  BY DEF SetsAddress, WithAddress, Typed, IsFS
<1>2. r \in Inode
  BY WithAddressIs DEF Typed
<1> HIDE DEF r, g
<1>3. Typed(g) /\ g.inode[i] = r /\ \A j \in Inums : j # i => g.inode[j] = f.inode[j]
  BY <1>1, <1>2 DEF Typed, IsFS
<1>4. /\ g.disk = f.disk /\ g.ref = f.ref /\ g.valid = f.valid /\ g.panic = f.panic
      /\ g.used = f.used /\ g.block = f.block
  BY <1>1 DEF Typed, IsFS
<1> QED
  BY <1>3, <1>4 DEF g, r

LEMMA AddressMaps ==
  ASSUME NEW f, NEW i, Ahead(f, i), NEW s \in 0..NDIRECT, NEW m, m = Address(f, i, s, balloc(f)), ~m[1].panic
  PROVE  /\ Ahead(m[1], i) /\ Maps(f, m[1], i) /\ m[2] # 0
         /\ m[2] = CacheBlock(m[1], i, IF s = NDIRECT THEN MAXFILE ELSE s)
<1> DEFINE p == IF s = NDIRECT THEN MAXFILE ELSE s
<1>1. /\ Typed(f) /\ i \in Inums /\ f.inode[i] \in Inode /\ Image(f, i)[i] = f.inode[i]
      /\ InOrder(Image(f, i), f.block, f.used) /\ f.used \subseteq 1..NBLOCKS /\ IsBlocks(f.block)
  BY AheadIs
<1>2. /\ MAXFILE \in Nat /\ NDIRECT \in Nat \ {0} /\ MAXFILE # NDIRECT /\ MAXFILE > NDIRECT /\ p \in 0..MAXFILE
  BY Sizes
<1>3. \A r, B : BlockAt(r, B, p) = r.addrs[s]
  BY <1>2 DEF BlockAt
<1>4. CASE f.inode[i].addrs[s] # 0
  <2>1. m = <<f, f.inode[i].addrs[s]>>
    BY <1>4 DEF Address
  <2>2. m[1] = f /\ m[2] = f.inode[i].addrs[s]
    BY <2>1
  <2> QED
    BY <1>3, <1>4, <2>2, MapsSame DEF CacheBlock
<1>5. CASE f.inode[i].addrs[s] = 0
  <2>1. m = <<SetsAddress(balloc(f)[1], i, s, balloc(f)[2]), balloc(f)[2]>>
    BY <1>5 DEF Address, SetsAddress
  <2>2. ~balloc(f)[1].panic
    <3> DEFINE g == balloc(f)[1]
    <3>1. IsFS(g)
      BY <1>1 DEF balloc, Takes, Panics, Typed, IsFS
    <3> HIDE DEF g
    <3>2. m[1] = SetsAddress(g, i, s, balloc(f)[2])
      BY <2>1 DEF g
    <3>3. m[1].panic = g.panic
      BY <3>1, <3>2 DEF SetsAddress, IsFS
    <3> QED
      BY <3>3 DEF g
  <2>3. PICK b \in (1..NBLOCKS) \ f.used : balloc(f) = Takes(f, b)
    BY <1>1, <2>2, ballocTakes DEF Typed
  <2> DEFINE h == Takes(f, b)[1]
             g == SetsAddress(h, i, s, b)
             C == Zeroed(f.block, b)
             r == WithAddress(f.inode[i], s, b)
             V == f.used \cup {b}
             D == Image(f, i)
  <2>4. /\ Typed(h) /\ Takes(f, b)[2] = b
        /\ h.disk = f.disk /\ h.ref = f.ref /\ h.valid = f.valid /\ h.inode = f.inode /\ h.panic = f.panic
        /\ h.used = V /\ h.block = C
    BY <1>1, TakesIs
  <2>5. m[1] = g /\ m[2] = b
    BY <2>1, <2>3, <2>4
  <2> HIDE DEF h
  <2>6. /\ Typed(g) /\ g.inode[i] = WithAddress(h.inode[i], s, b) /\ \A j \in Inums : j # i => g.inode[j] = h.inode[j]
        /\ g.disk = h.disk /\ g.ref = h.ref /\ g.valid = h.valid /\ g.panic = h.panic
        /\ g.used = h.used /\ g.block = h.block
    <3>1. b \in 0..NBLOCKS
      BY Sizes
    <3> QED
      BY <1>1, <2>4, <3>1, SetsAddressIs
  <2> HIDE DEF g, r, D
  <2>7. g.inode[i] = r /\ g.used = V /\ g.block = C
    BY <2>4, <2>6 DEF r
  <2>8. D[i] = f.inode[i] /\ InOrder(D, f.block, f.used) /\ D[i].type # "none"
    BY <1>1 DEF D, Ahead
  <2>9. D[i].addrs[s] = 0 /\ r = WithAddress(D[i], s, b) /\ i \in Inums
    BY <1>1, <1>5, <2>8 DEF r
  <2>10. InOrder([D EXCEPT ![i] = r], C, V)
    BY <2>8, <2>9, AddressInOrder
  <2>11. GetsAt(D[i], f.block, r, C, p, b)
    BY <2>8, <2>9, AddressInOrder
  <2>12. [D EXCEPT ![i] = r] = Image(g, i)
    <3>1. Image(g, i) = [f.disk EXCEPT ![i] = r]
      BY <2>4, <2>6, <2>7 DEF Image
    <3>2. D = [f.disk EXCEPT ![i] = f.inode[i]]
      BY DEF D, Image
    <3>3. f.disk \in [Inums -> Inode]
      BY <1>1 DEF Typed
    <3> QED
      BY <3>1, <3>2, <3>3
  <2>13. r.type = f.inode[i].type /\ r.size = f.inode[i].size
    <3>1. b \in 0..NBLOCKS
      BY Sizes
    <3> QED
      BY <1>1, <3>1, WithAddressIs DEF r
  <2> HIDE DEF C, V, p
  <2>14. Ahead(g, i)
    BY <1>1, <2>6, <2>7, <2>8, <2>10, <2>12, <2>13 DEF Ahead
  <2>15. CacheBlock(g, i, p) = b /\ \A a \in 0..MAXFILE : a # p => CacheBlock(g, i, a) = CacheBlock(f, i, a)
    BY <2>7, <2>8, <2>11 DEF CacheBlock, GetsAt
  <2>16. CacheBlock(f, i, p) = 0
    BY <1>3, <1>5 DEF CacheBlock
  <2>17. Maps(f, g, i)
    BY <1>2, <2>4, <2>6, <2>7, <2>13, <2>15, <2>16 DEF Maps
  <2>18. CacheBlock(g, i, p) = b /\ b # 0
    BY <1>2, <2>15, Sizes
  <2> QED
    BY <2>5, <2>14, <2>17, <2>18 DEF p
<1> QED
  BY <1>4, <1>5

\* An entry of the list that is set.
SetsEntry(f, l, c, b) == [f EXCEPT !.block[l][c] = <<b>>]

LEMMA SetsEntryIs ==
  ASSUME NEW f, Typed(f), NEW l, NEW c, NEW b
  PROVE  LET g == SetsEntry(f, l, c, b) IN
         /\ Typed(g) /\ g.block = WithEntry(f.block, l, c, b) /\ g.inode = f.inode
         /\ g.disk = f.disk /\ g.ref = f.ref /\ g.valid = f.valid /\ g.panic = f.panic /\ g.used = f.used
BY DEF Typed, IsFS, SetsEntry, WithEntry

LEMMA ListEntryMaps ==
  ASSUME NEW f, NEW i, Ahead(f, i), NEW l, l = CacheBlock(f, i, MAXFILE), l # 0, NEW c \in 0..BSIZE - 1,
         NEW m, m = ListEntry(f, l, c, balloc(f)), ~m[1].panic
  PROVE  /\ Ahead(m[1], i) /\ Maps(f, m[1], i) /\ m[2] # 0
         /\ m[2] = CacheBlock(m[1], i, NDIRECT + c)
<1> DEFINE p == NDIRECT + c
           r == f.inode[i]
<1>1. /\ Typed(f) /\ i \in Inums /\ r \in Inode /\ Image(f, i)[i] = r
      /\ InOrder(Image(f, i), f.block, f.used) /\ f.used \subseteq 1..NBLOCKS /\ IsBlocks(f.block)
  BY AheadIs
<1>2. /\ MAXFILE \in Nat /\ NDIRECT \in Nat \ {0} /\ p \in 0..MAXFILE - 1 /\ p \in 0..MAXFILE /\ p # MAXFILE /\ ~(p < NDIRECT)
      /\ p - NDIRECT = c
  BY Sizes
<1>3. r.addrs[NDIRECT] = l
  BY BlockAtList DEF CacheBlock
<1>4. CacheBlock(f, i, p) = IF f.block[l][c] = <<>> THEN 0 ELSE f.block[l][c][1]
  <2> HIDE DEF p
  <2> QED
    BY <1>2, <1>3 DEF BlockAt, CacheBlock
<1>5. CASE f.block[l][c] # <<>>
  <2>1. m[1] = f /\ m[2] = CacheBlock(f, i, p)
    BY <1>4, <1>5 DEF ListEntry
  <2>2. CacheBlock(f, i, p) \in 0..NBLOCKS
    BY <1>2, AheadIs
  <2>3. CacheBlock(f, i, p) # 0
    <3>1. InodeInOrder(r, f.block)
      BY <1>1, InOrderIs
    <3>2. IsList(f.block[l])
      BY <1>3, <3>1 DEF InodeInOrder
    <3>3. PICK b \in 1..NBLOCKS : f.block[l][c] = <<b>>
      BY <1>5, <3>2 DEF IsList
    <3>4. f.block[l][c][1] = b /\ b # 0
      BY <3>3, Sizes
    <3> QED
      BY <1>4, <1>5, <3>4
  <2> QED
    BY <2>1, <2>3, MapsSame
<1>6. CASE f.block[l][c] = <<>>
  <2>1. m = <<SetsEntry(balloc(f)[1], l, c, balloc(f)[2]), balloc(f)[2]>>
    BY <1>6 DEF ListEntry, SetsEntry
  <2>2. ~balloc(f)[1].panic
    <3> DEFINE g == balloc(f)[1]
    <3>1. IsFS(g)
      BY <1>1 DEF balloc, Takes, Panics, Typed, IsFS
    <3> HIDE DEF g
    <3>2. m[1] = SetsEntry(g, l, c, balloc(f)[2])
      BY <2>1 DEF g
    <3>3. m[1].panic = g.panic
      BY <3>1, <3>2 DEF SetsEntry, IsFS
    <3> QED
      BY <3>3 DEF g
  <2>3. PICK b \in (1..NBLOCKS) \ f.used : balloc(f) = Takes(f, b)
    BY <1>1, <2>2, ballocTakes DEF Typed
  <2> DEFINE h == Takes(f, b)[1]
             g == SetsEntry(h, l, c, b)
             Z == Zeroed(f.block, b)
             C == WithEntry(Z, l, c, b)
             V == f.used \cup {b}
             D == Image(f, i)
  <2>4. /\ Typed(h) /\ Takes(f, b)[2] = b
        /\ h.disk = f.disk /\ h.ref = f.ref /\ h.valid = f.valid /\ h.inode = f.inode /\ h.panic = f.panic
        /\ h.used = V /\ h.block = Z
    BY <1>1, TakesIs
  <2>5. m[1] = g /\ m[2] = b
    BY <2>1, <2>3, <2>4
  <2> HIDE DEF h
  <2>6. /\ Typed(g) /\ g.block = WithEntry(h.block, l, c, b) /\ g.inode = h.inode
        /\ g.disk = h.disk /\ g.ref = h.ref /\ g.valid = h.valid /\ g.panic = h.panic /\ g.used = h.used
    BY <2>4, SetsEntryIs
  <2> HIDE DEF g, D
  <2>7. g.inode = f.inode /\ g.used = V /\ g.block = C
    BY <2>4, <2>6
  <2>8. D[i] = r /\ InOrder(D, f.block, f.used) /\ D[i].type # "none"
    BY <1>1 DEF D, Ahead
  <2>9. l = D[i].addrs[NDIRECT] /\ C = WithEntry(Zeroed(f.block, b), l, c, b) /\ i \in Inums
    BY <1>1, <1>3, <2>8
  <2> DEFINE B == f.block
             U == f.used
  <2>13. b \in (1..NBLOCKS) \ U /\ D[i] = r /\ InOrder(D, B, U) /\ D[i].type # "none"
    BY <2>8
  <2>16. l = D[i].addrs[NDIRECT] /\ C = WithEntry(Zeroed(B, b), l, c, b) /\ i \in Inums /\ B[l][c] = <<>>
    BY <1>6, <2>9
  <2> HIDE DEF C, B, U
  <2>10. InOrder(D, C, U \cup {b})
    BY <2>13, <2>16, EntryInOrder
  <2>11. GetsAt(D[i], B, D[i], C, p, b)
    BY <2>13, <2>16, EntryInOrder
  <2>12. D = Image(g, i)
    BY <2>4, <2>6 DEF Image, D
  <2> HIDE DEF V, p, r
  <2>14. Ahead(g, i)
    BY <1>1, <2>6, <2>7, <2>8, <2>10, <2>12 DEF Ahead, r, U, V
  <2>15. CacheBlock(g, i, p) = b /\ \A a \in 0..MAXFILE : a # p => CacheBlock(g, i, a) = CacheBlock(f, i, a)
    BY <2>7, <2>8, <2>11 DEF CacheBlock, GetsAt, r, B
  <2>17. Maps(f, g, i)
    BY <1>2, <1>4, <1>6, <2>4, <2>6, <2>7, <2>15 DEF Maps
  <2>18. b # 0
    BY Sizes
  <2> QED
    BY <2>5, <2>14, <2>15, <2>17, <2>18 DEF p
<1> QED
  BY <1>5, <1>6

LEMMA bmapMaps ==
  ASSUME NEW f, NEW i, Ahead(f, i), NEW bn \in Nat, ~bmap(f, i, bn)[1].panic
  PROVE  LET m == bmap(f, i, bn) IN
         /\ bn < MAXFILE /\ Ahead(m[1], i) /\ Maps(f, m[1], i) /\ m[2] # 0
         /\ m[2] = CacheBlock(m[1], i, bn)
<1> DEFINE m == bmap(f, i, bn)
<1>1. /\ MAXFILE \in Nat /\ NDIRECT \in Nat \ {0} /\ BSIZE \in Nat \ {0} /\ MAXFILE = NDIRECT + BSIZE
  BY Sizes
<1>2. CASE bn < NDIRECT
  <2>1. m = Address(f, i, bn, balloc(f))
    BY <1>2 DEF bmap
  <2>2. bn \in 0..NDIRECT /\ bn # NDIRECT /\ bn < MAXFILE
    BY <1>1, <1>2
  <2> HIDE DEF m
  <2>3. ~m[1].panic
    BY DEF m
  <2>4. /\ Ahead(m[1], i) /\ Maps(f, m[1], i) /\ m[2] # 0
        /\ m[2] = CacheBlock(m[1], i, IF bn = NDIRECT THEN MAXFILE ELSE bn)
    BY <2>1, <2>2, <2>3, AddressMaps
  <2> QED
    BY <2>2, <2>4 DEF m
<1>3. CASE ~(bn < NDIRECT)
  <2> DEFINE a == Address(f, i, NDIRECT, balloc(f))
             c == bn - NDIRECT
             g == a[1]
             l == a[2]
  <2>1. c < BSIZE /\ m = InList(a, c)
    <3>1. c >= BSIZE => m = <<Panics(f), 1>>
      BY <1>3 DEF bmap
    <3>2. ~Panics(f).panic => FALSE
      BY DEF Panics, Ahead, Typed, IsFS
    <3>3. ~(c >= BSIZE)
      BY <3>1, <3>2
    <3> QED
      BY <1>1, <1>3, <3>3 DEF bmap
  <2>2. c \in 0..BSIZE - 1 /\ bn = NDIRECT + c /\ bn < MAXFILE
    BY <1>1, <1>3, <2>1
  <2> HIDE DEF c
  <2>3. m = ListEntry(g, l, c, balloc(g))
    BY <2>1 DEF InList
  <2> HIDE DEF m, a
  <2>4. ~m[1].panic
    BY DEF m
  <2>5. IsFS(g)
    BY DEF a, Address, balloc, Takes, Panics, Ahead, Typed, IsFS
  <2> HIDE DEF g, l
  <2>6. ~g.panic
    <3>1. g.panic => balloc(g)[1].panic
      BY <2>5 DEF balloc, Takes, Panics, IsFS
    <3>2. IsFS(balloc(g)[1])
      BY <2>5 DEF balloc, Takes, Panics, IsFS
    <3>3. m[1] = g \/ m[1] = SetsEntry(balloc(g)[1], l, c, balloc(g)[2])
      BY <2>3 DEF ListEntry, SetsEntry
    <3> DEFINE h == balloc(g)[1]
    <3> HIDE DEF h
    <3>4. IsFS(h) => SetsEntry(h, l, c, balloc(g)[2]).panic = h.panic
      BY DEF SetsEntry, IsFS
    <3> QED
      BY <2>4, <3>1, <3>2, <3>3, <3>4 DEF h
  <2>7. /\ Ahead(g, i) /\ Maps(f, g, i) /\ l # 0 /\ l = CacheBlock(g, i, MAXFILE)
    <3>1. NDIRECT \in 0..NDIRECT /\ a = Address(f, i, NDIRECT, balloc(f))
      BY <1>1 DEF a
    <3>2. ~a[1].panic
      BY <2>6 DEF g
    <3>3. /\ Ahead(a[1], i) /\ Maps(f, a[1], i) /\ a[2] # 0 /\ a[2] = CacheBlock(a[1], i, MAXFILE)
      BY <3>1, <3>2, AddressMaps
    <3> QED
      BY <3>3 DEF g, l
  <2>8. /\ Ahead(m[1], i) /\ Maps(g, m[1], i) /\ m[2] # 0
        /\ m[2] = CacheBlock(m[1], i, NDIRECT + c)
    BY <2>2, <2>3, <2>4, <2>7, ListEntryMaps
  <2>9. Maps(f, m[1], i)
    BY <2>7, <2>8, MapsBoth
  <2> QED
    BY <2>2, <2>8, <2>9 DEF m
<1> QED
  BY <1>2, <1>3

\* A block that is there.
LEMMA bmapThere ==
  ASSUME NEW f, NEW i, NEW bn \in 0..MAXFILE - 1, CacheBlock(f, i, bn) # 0
  PROVE  bmap(f, i, bn)[1] = f /\ bmap(f, i, bn)[2] = CacheBlock(f, i, bn)
<1>1. /\ MAXFILE \in Nat /\ NDIRECT \in Nat \ {0} /\ BSIZE \in Nat \ {0} /\ MAXFILE = NDIRECT + BSIZE
  BY Sizes
<1>2. CASE bn < NDIRECT
  <2>1. f.inode[i].addrs[bn] = CacheBlock(f, i, bn)
    BY <1>2 DEF CacheBlock, BlockAt
  <2> QED
    BY <1>2, <2>1 DEF bmap, Address
<1>3. CASE ~(bn < NDIRECT)
  <2> DEFINE c == bn - NDIRECT
             l == f.inode[i].addrs[NDIRECT]
  <2>1. ~(c >= BSIZE) /\ bn # MAXFILE
    BY <1>1, <1>3
  <2>2. CacheBlock(f, i, bn) = IF l = 0 \/ f.block[l][c] = <<>> THEN 0 ELSE f.block[l][c][1]
    BY <1>3, <2>1 DEF CacheBlock, BlockAt
  <2>3. l # 0 /\ f.block[l][c] # <<>> /\ CacheBlock(f, i, bn) = f.block[l][c][1]
    BY <2>2
  <2>4. bmap(f, i, bn) = InList(Address(f, i, NDIRECT, balloc(f)), c)
    BY <1>3, <2>1 DEF bmap
  <2>5. Address(f, i, NDIRECT, balloc(f)) = <<f, l>>
    BY <2>3 DEF Address
  <2> HIDE DEF c, l
  <2>6. InList(<<f, l>>, c) = <<f, f.block[l][c][1]>>
    BY <2>3 DEF InList, ListEntry
  <2> QED
    BY <2>3, <2>4, <2>5, <2>6
<1> QED
  BY <1>2, <1>3

\* The blocks that a loop maps, as a recurrence: F has what each round starts from.
Mapping(F, f, i, off, n) ==
  LET bns == Span(off, n) IN
  /\ F[0] = f
  /\ \A k \in 1..Len(bns) : F[k] = bmap(F[k - 1], i, bns[k])[1]
  /\ MapsAll(f, i, off, n) = F[Len(bns)]

LEMMA MapsAllIs ==
  ASSUME NEW f, NEW i, NEW off, NEW n, Len(Span(off, n)) \in Nat
  PROVE  \E F : Mapping(F, f, i, off, n)
<1> DEFINE s == Span(off, n)
           L == Len(s)
           Rec(g, x) == g = [k \in 0..x |-> IF k = 0 THEN f ELSE bmap(g[k - 1], i, s[k])[1]]
           good == {x \in 0..L : \E g : Rec(g, x)}
           F == CHOOSE g : Rec(g, L)
<1> HIDE DEF s
<1>0. L \in Nat
  BY DEF s
<1>1. 0 \in good
  <2> DEFINE h == [k \in 0..0 |-> f]
  <2>1. Rec(h, 0)
    OBVIOUS
  <2> HIDE DEF h, Rec
  <2> QED
    BY <1>0, <2>1
<1>2. ASSUME NEW x \in 1..L, x - 1 \in good
      PROVE  x \in good
  <2>1. PICK g : Rec(g, x - 1)
    BY <1>2
  <2> DEFINE h == [k \in 0..x |-> IF k = x THEN bmap(g[x - 1], i, s[x])[1] ELSE g[k]]
  <2>2. ASSUME NEW k \in 0..x
        PROVE  h[k] = IF k = 0 THEN f ELSE bmap(h[k - 1], i, s[k])[1]
    <3>1. CASE k = x
      BY <1>0, <3>1
    <3>2. CASE k # x
      <4>1. k \in 0..(x - 1) /\ h[k] = g[k] /\ (k # 0 => h[k - 1] = g[k - 1])
        BY <1>0, <3>2
      <4>2. g[k] = IF k = 0 THEN f ELSE bmap(g[k - 1], i, s[k])[1]
        BY <2>1, <4>1
      <4> QED
        BY <4>1, <4>2
    <3> QED
      BY <3>1, <3>2
  <2>3. Rec(h, x)
    BY <2>2
  <2> HIDE DEF h, Rec
  <2> QED
    BY <1>0, <2>3
<1>3. L \in good
  <2> HIDE DEF good
  <2>1. \A k \in 0..L : k \in good
    BY <1>0, <1>1, <1>2, Rounds
  <2> QED
    BY <1>0, <2>1
<1>4. Rec(F, L)
  BY <1>3
<1>5. MapsAll(f, i, off, n) = F[L]
  BY DEF MapsAll, s
<1> HIDE DEF F
<1>6. F[0] = f /\ \A k \in 1..L : F[k] = bmap(F[k - 1], i, s[k])[1]
  BY <1>0, <1>4
<1> QED
  BY <1>5, <1>6 DEF Mapping, s

LEMMA BlockOrder ==
  ASSUME NEW j \in Nat, NEW k \in Nat
  PROVE  /\ j <= k => j \div BSIZE <= k \div BSIZE
         /\ \A m \in Nat : k < m * BSIZE => k \div BSIZE < m
         /\ \A m \in Nat : m * BSIZE <= k => m <= k \div BSIZE
<1> DEFINE q == j \div BSIZE
           r == k \div BSIZE
<1>1. /\ q \in Nat /\ q * BSIZE <= j /\ j < q * BSIZE + BSIZE
      /\ r \in Nat /\ r * BSIZE <= k /\ k < r * BSIZE + BSIZE
  BY InBlock
<1> HIDE DEF q, r
<1>2. BSIZE \in Nat \ {0}
  BY Sizes
<1>3. ASSUME NEW x \in Nat, NEW y \in Nat, x * BSIZE < y * BSIZE + BSIZE
      PROVE  x <= y
  <2>1. y < x => y * BSIZE + BSIZE <= x * BSIZE
    BY <1>2, TimesOrder
  <2>2. x * BSIZE \in Int /\ y * BSIZE \in Int
    BY <1>2, TimesOrder
  <2> QED
    BY <1>2, <1>3, <2>1, <2>2
<1>4. j <= k => q <= r
  <2>1. q * BSIZE \in Int /\ r * BSIZE \in Int
    BY <1>1, <1>2, TimesOrder
  <2> QED
    BY <1>1, <1>2, <1>3, <2>1
<1>5. ASSUME NEW m \in Nat, k < m * BSIZE
      PROVE  r < m
  <2>1. m * BSIZE \in Int /\ r * BSIZE \in Int
    BY <1>1, <1>2, TimesOrder
  <2>2. m <= r => m * BSIZE <= r * BSIZE
    BY <1>1, <1>2, TimesOrder
  <2> QED
    BY <1>1, <1>2, <1>5, <2>1, <2>2
<1>6. ASSUME NEW m \in Nat, m * BSIZE <= k
      PROVE  m <= r
  <2>1. m * BSIZE \in Int /\ r * BSIZE \in Int
    BY <1>1, <1>2, TimesOrder
  <2> QED
    BY <1>1, <1>2, <1>3, <1>6, <2>1
<1> QED
  BY <1>4, <1>5, <1>6 DEF q, r

LEMMA SpanIs ==
  ASSUME NEW off \in Nat, NEW n \in Nat \ {0}
  PROVE  LET q == off \div BSIZE
             r == (off + n - 1) \div BSIZE IN
         /\ q \in Nat /\ r \in Nat /\ q <= r /\ Len(Span(off, n)) \in Nat /\ Len(Span(off, n)) = r - q + 1
         /\ \A k \in 1..Len(Span(off, n)) : Span(off, n)[k] = q + k - 1
<1> DEFINE q == off \div BSIZE
           e == off + n - 1
           r == e \div BSIZE
           L == r - q + 1
           s == [k \in 1..L |-> q + k - 1]
<1>1. e \in Nat /\ off <= e
  OBVIOUS
<1> HIDE DEF e
<1>2. q \in Nat /\ r \in Nat /\ q <= r
  BY <1>1, InBlock, BlockOrder
<1>3. L \in Nat
  BY <1>2
<1>4. Span(off, n) = s
  BY DEF Span, e
<1> HIDE DEF q, r
<1>5. s \in Seq(Int) /\ Len(s) = L /\ \A k \in 1..L : s[k] = q + k - 1
  <2> HIDE DEF L
  <2>1. s \in [1..L -> Int]
    BY <1>2, <1>3
  <2> QED
    BY <1>3, <2>1
<1> HIDE DEF s, L
<1>6. Len(Span(off, n)) = L /\ \A k \in 1..L : Span(off, n)[k] = q + k - 1
  BY <1>4, <1>5
<1> QED
  BY <1>2, <1>3, <1>6 DEF q, r, e, L

LEMMA SameFS ==
  ASSUME NEW f, NEW g, IsFS(f), IsFS(g), f.disk = g.disk, f.inode = g.inode, f.ref = g.ref, f.valid = g.valid,
         f.block = g.block, f.used = g.used, f.panic = g.panic
  PROVE  f = g
BY DEF IsFS

LEMMA AllocatesIs ==
  ASSUME NEW f, NEW g, NEW i, Typed(f), Typed(g), Maps(f, g, i), ~Allocates(f, g).panic
  PROVE  Allocates(f, g) = g /\ ~g.panic
<1>1. f.panic \in BOOLEAN /\ g.panic \in BOOLEAN
  BY DEF Typed, IsFS
<1>2. Allocates(f, g).panic = (g.panic \/ f.panic)
  BY DEF Allocates, Typed, IsFS
<1>3. ~g.panic /\ ~f.panic
  BY <1>1, <1>2
<1>4. g.panic = FALSE /\ (g.panic \/ f.panic) = FALSE
  BY <1>1, <1>3
<1>5. Allocates(f, g) = [f EXCEPT !.inode = g.inode, !.block = g.block, !.used = g.used, !.panic = FALSE]
  BY <1>4 DEF Allocates
<1>6. g.disk = f.disk /\ g.ref = f.ref /\ g.valid = f.valid
  BY DEF Maps
<1> DEFINE h == Allocates(f, g)
<1>7. /\ IsFS(h) /\ h.disk = f.disk /\ h.ref = f.ref /\ h.valid = f.valid
      /\ h.inode = g.inode /\ h.block = g.block /\ h.used = g.used /\ h.panic = FALSE
  BY <1>5 DEF Typed, IsFS
<1> HIDE DEF h
<1>8. IsFS(g)
  BY DEF Typed
<1>9. h = g
  BY <1>4, <1>6, <1>7, <1>8, SameFS
<1> QED
  BY <1>3, <1>9 DEF h

\* No block is missing below the size of i.
NoHoles(f, i) ==
  /\ f.inode[i].size \in 0..MAXFILE * BSIZE
  /\ \A a \in 0..MAXFILE - 1 : a * BSIZE < f.inode[i].size => CacheBlock(f, i, a) # 0

LEMMA BelowSize ==
  ASSUME NEW f, NEW i, NoHoles(f, i), NEW k \in Nat, k < f.inode[i].size
  PROVE  /\ k \div BSIZE \in 0..MAXFILE - 1 /\ CacheBlock(f, i, k \div BSIZE) # 0
         /\ bmap(f, i, k \div BSIZE)[1] = f /\ bmap(f, i, k \div BSIZE)[2] = CacheBlock(f, i, k \div BSIZE)
<1> DEFINE q == k \div BSIZE
           size == f.inode[i].size
<1>1. MAXFILE \in Nat /\ BSIZE \in Nat \ {0} /\ MAXFILE * BSIZE \in Int
  BY Sizes, TimesOrder
<1>2. size \in 0..MAXFILE * BSIZE
  BY DEF NoHoles
<1>3. q \in Nat /\ q * BSIZE <= k /\ q * BSIZE \in Int
  BY <1>1, InBlock, TimesOrder
<1> HIDE DEF size
<1>0. k < size
  BY DEF size
<1>4. k < MAXFILE * BSIZE
  BY <1>0, <1>1, <1>2
<1>5. q < MAXFILE
  BY <1>1, <1>4, BlockOrder
<1> HIDE DEF q
<1>6. q * BSIZE < size
  BY <1>0, <1>1, <1>2, <1>3
<1>7. q \in 0..MAXFILE - 1
  BY <1>1, <1>3, <1>5
<1>8. CacheBlock(f, i, q) # 0
  BY <1>6, <1>7 DEF NoHoles, size
<1> QED
  BY <1>7, <1>8, bmapThere DEF q

\* A loop over blocks that are there does nothing.
LEMMA MappedThere ==
  ASSUME NEW f, NEW i, Typed(f), ~f.panic, NoHoles(f, i), NEW off \in Nat, NEW n \in Nat, off + n <= f.inode[i].size
  PROVE  Mapped(f, i, off, n) = f
<1>1. CASE n = 0
  BY <1>1 DEF Mapped
<1>2. CASE n # 0
  <2> DEFINE q == off \div BSIZE
             e == off + n - 1
             r == e \div BSIZE
             s == Span(off, n)
             size == f.inode[i].size
  <2>1. /\ q \in Nat /\ r \in Nat /\ q <= r /\ Len(s) \in Nat /\ Len(s) = r - q + 1
        /\ \A k \in 1..Len(s) : s[k] = q + k - 1
    <3>1. n \in Nat \ {0}
      BY <1>2
    <3> QED
      BY <3>1, SpanIs
  <2>2. PICK F : Mapping(F, f, i, off, n)
    BY <2>1, MapsAllIs
  <2>3. F[0] = f /\ (\A k \in 1..Len(s) : F[k] = bmap(F[k - 1], i, s[k])[1]) /\ MapsAll(f, i, off, n) = F[Len(s)]
    BY <2>2 DEF Mapping
  <2>4. size \in Nat
    BY Sizes, TimesOrder DEF NoHoles
  <2>5. e \in Nat /\ e < size
    BY <1>2, <2>4
  <2>6. r \in 0..MAXFILE - 1 /\ r * BSIZE <= e /\ e \in Nat /\ r * BSIZE \in Int
    <3>1. BSIZE \in Nat \ {0}
      BY Sizes
    <3> HIDE DEF e
    <3>2. r \in 0..MAXFILE - 1
      BY <2>5, BelowSize
    <3>3. r * BSIZE <= e
      BY <2>5, InBlock
    <3>4. r * BSIZE \in Int
      <4> HIDE DEF r
      <4> QED
        BY <2>1, <3>1, TimesOrder
    <3> QED
      BY <2>5, <3>2, <3>3, <3>4
  <2>7. ASSUME NEW x \in q..r
        PROVE  x \in 0..MAXFILE - 1 /\ CacheBlock(f, i, x) # 0
    <3>1. x \in 0..MAXFILE - 1 /\ x <= r
      BY <2>1, <2>6, Sizes
    <3>2. BSIZE \in Nat \ {0} /\ x * BSIZE \in Int /\ x * BSIZE <= r * BSIZE
      <4>1. BSIZE \in Nat \ {0} /\ x \in Int /\ r \in Int
        BY <2>1, <3>1, Sizes
      <4> HIDE DEF r
      <4> QED
        BY <3>1, <4>1, TimesOrder
    <3>3. x * BSIZE < size
      <4> HIDE DEF e, r, size
      <4> QED
        BY <2>4, <2>5, <2>6, <3>2
    <3> QED
      BY <3>1, <3>3 DEF NoHoles
  <2> DEFINE good == {k \in 0..Len(s) : F[k] = f}
  <2> HIDE DEF s, q, r
  <2>8. 0 \in good
    BY <2>1, <2>3
  <2>9. ASSUME NEW k \in 1..Len(s), k - 1 \in good
        PROVE  k \in good
    <3>1. F[k - 1] = f
      BY <2>9
    <3>2. s[k] \in q..r
      BY <2>1
    <3>3. F[k] = bmap(f, i, s[k])[1]
      BY <2>3, <3>1
    <3>4. s[k] \in 0..MAXFILE - 1 /\ CacheBlock(f, i, s[k]) # 0
      BY <2>7, <3>2
    <3>5. F[k] = f
      BY <3>3, <3>4, bmapThere
    <3> QED
      BY <2>1, <3>5
  <2> HIDE DEF good
  <2>10. Len(s) \in good
    <3> DEFINE N == Len(s)
    <3>1. N \in Nat /\ \A k \in 1..N : k - 1 \in good => k \in good
      BY <2>1, <2>9
    <3> HIDE DEF N
    <3>2. \A k \in 0..N : k \in good
      BY <2>8, <3>1, Rounds
    <3> QED
      BY <3>1, <3>2 DEF N
  <2>11. MapsAll(f, i, off, n) = f
    BY <2>3, <2>10 DEF good
  <2>12. Mapped(f, i, off, n) = Allocates(f, f)
    BY <1>2, <2>11 DEF Mapped
  <2>13. ~Allocates(f, f).panic
    BY DEF Allocates, Typed, IsFS
  <2> QED
    BY <2>12, <2>13, MapsSame, AllocatesIs
<1> QED
  BY <1>1, <1>2

\* A loop of one block.
LEMMA MappedOne ==
  ASSUME NEW f, NEW i, NEW off \in Nat
  PROVE  Mapped(f, i, off, 1) = Allocates(f, bmap(f, i, off \div BSIZE)[1])
<1> DEFINE q == off \div BSIZE
           s == Span(off, 1)
<1>1. off + 1 - 1 = off
  OBVIOUS
<1>2. q \in Nat /\ Len(s) = 1 /\ s[1] = q
  <2>1. /\ q \in Nat /\ Len(s) \in Nat /\ Len(s) = q - q + 1
        /\ \A k \in 1..Len(s) : s[k] = q + k - 1
    <3>1. /\ q \in Nat /\ Len(s) \in Nat /\ Len(s) = ((off + 1 - 1) \div BSIZE) - q + 1
          /\ \A k \in 1..Len(s) : s[k] = q + k - 1
      <4> DEFINE n == 1
      <4>1. n \in Nat \ {0}
        OBVIOUS
      <4> HIDE DEF n
      <4>2. /\ off \div BSIZE \in Nat /\ Len(Span(off, n)) \in Nat
            /\ Len(Span(off, n)) = ((off + n - 1) \div BSIZE) - (off \div BSIZE) + 1
            /\ \A k \in 1..Len(Span(off, n)) : Span(off, n)[k] = (off \div BSIZE) + k - 1
        BY <4>1, SpanIs
      <4> QED
        BY <4>2 DEF n
    <3> QED
      BY <1>1, <3>1
  <2> HIDE DEF q, s
  <2> QED
    BY <2>1
<1>3. Len(s) \in Nat
  BY <1>2
<1>4. PICK F : Mapping(F, f, i, off, 1)
  BY <1>3, MapsAllIs
<1>5. F[0] = f /\ (\A k \in 1..Len(s) : F[k] = bmap(F[k - 1], i, s[k])[1]) /\ MapsAll(f, i, off, 1) = F[Len(s)]
  BY <1>4 DEF Mapping
<1> HIDE DEF s
<1>6. F[1] = bmap(F[0], i, s[1])[1] /\ MapsAll(f, i, off, 1) = F[1]
  BY <1>2, <1>5
<1>7. MapsAll(f, i, off, 1) = bmap(f, i, q)[1]
  BY <1>2, <1>5, <1>6
<1> QED
  BY <1>7 DEF Mapped

-----------------------------------------------------------------------------
(* A cell that is written *)

LEMMA OverlaidOne ==
  ASSUME NEW old, NEW bn, NEW off, NEW cell
  PROVE  LET o == Overlaid(old, bn, off, <<cell>>) IN
         o = [c \in 0..BSIZE - 1 |-> o[c]] /\ \A c \in 0..BSIZE - 1 : o[c] = old[c] \/ o[c] = cell
<1>1. \A k : k \in DOMAIN <<cell>> => <<cell>>[k] = cell
  OBVIOUS
<1> DEFINE cells == <<cell>>
<1> HIDE DEF cells
<1>2. \A k : k \in DOMAIN cells => cells[k] = cell
  BY <1>1 DEF cells
<1> DEFINE o == Overlaid(old, bn, off, cells)
<1>3. o = [c \in 0..BSIZE - 1 |-> o[c]] /\ \A c \in 0..BSIZE - 1 : o[c] = old[c] \/ o[c] = cell
  BY <1>2 DEF Overlaid
<1> QED
  BY <1>3 DEF cells

\* w is f with the cell somewhere in block b.
WritesCell(f, w, b, cell) ==
  /\ Typed(w) /\ w.disk = f.disk /\ w.ref = f.ref /\ w.valid = f.valid /\ w.inode = f.inode /\ w.used = f.used /\ w.panic = f.panic
  /\ IsBlocks(w.block) /\ (\A x \in 1..NBLOCKS : x # b => w.block[x] = f.block[x])
  /\ \A c \in 0..BSIZE - 1 : w.block[b][c] = f.block[b][c] \/ w.block[b][c] = cell

LEMMA WrittenOne ==
  ASSUME NEW f, NEW i, Typed(f), IsBlocks(f.block), NEW off \in Nat, NEW cell,
         NEW b, b = bmap(f, i, off \div BSIZE)[2], b \in 1..NBLOCKS, NEW w, w = Written(f, i, off, <<cell>>)
  PROVE  WritesCell(f, w, b, cell)
<1> DEFINE cells == <<cell>>
           q == off \div BSIZE
           bns == q .. (off + Len(cells) - 1) \div BSIZE
           home == [bn \in bns |-> bmap(f, i, bn)[2]]
           C == [x \in 1..NBLOCKS |->
                  IF \E bn \in bns : home[bn] = x THEN Overlaid(f.block[x], CHOOSE bn \in bns : home[bn] = x, off, cells) ELSE f.block[x]]
<1>1. w = [f EXCEPT !.block = C]
  BY DEF Written
<1>2. Len(cells) = 1
  BY SeqLiterals
<1>3. q \in Nat
  BY InBlock
<1>4. bns = q..q
  <2>1. off + Len(cells) - 1 = off
    BY <1>2
  <2> QED
    BY <2>1
<1>5. bns = {q} /\ home[q] = b
  BY <1>3, <1>4
<1> DEFINE o == Overlaid(f.block[b], q, off, cells)
<1>6. o = [c \in 0..BSIZE - 1 |-> o[c]] /\ \A c \in 0..BSIZE - 1 : o[c] = f.block[b][c] \/ o[c] = cell
  BY OverlaidOne
<1> HIDE DEF home
<1>7. \A x \in 1..NBLOCKS : C[x] = IF x = b THEN o ELSE f.block[x]
  <2> HIDE DEF q
  <2>1. ASSUME NEW x \in 1..NBLOCKS
        PROVE  C[x] = IF x = b THEN o ELSE f.block[x]
    <3> HIDE DEF bns
    <3>1. (\E bn \in bns : home[bn] = x) <=> x = b
      BY <1>5
    <3>2. x = b => (CHOOSE bn \in bns : home[bn] = x) = q
      BY <1>5
    <3>3. C[x] = IF \E bn \in bns : home[bn] = x THEN Overlaid(f.block[x], CHOOSE bn \in bns : home[bn] = x, off, cells) ELSE f.block[x]
      OBVIOUS
    <3> QED
      BY <3>1, <3>2, <3>3
  <2> QED
    BY <2>1
<1>8. C = [x \in 1..NBLOCKS |-> C[x]]
  OBVIOUS
<1> HIDE DEF C, o
<1>9. IsBlocks(C)
  <2>1. \A x \in 1..NBLOCKS : C[x] = [c \in 0..BSIZE - 1 |-> C[x][c]]
    <3> SUFFICES ASSUME NEW x \in 1..NBLOCKS
                 PROVE  C[x] = [c \in 0..BSIZE - 1 |-> C[x][c]]
      OBVIOUS
    <3>1. f.block[x] = [c \in 0..BSIZE - 1 |-> f.block[x][c]]
      BY DEF IsBlocks
    <3>2. CASE x = b
      BY <1>6, <1>7, <3>2
    <3>3. CASE x # b
      BY <1>7, <3>1, <3>3
    <3> QED
      BY <3>2, <3>3
  <2> QED
    BY <1>8, <2>1 DEF IsBlocks
<1>10. /\ Typed(w) /\ w.disk = f.disk /\ w.ref = f.ref /\ w.valid = f.valid /\ w.inode = f.inode /\ w.used = f.used /\ w.panic = f.panic
       /\ w.block = C
  BY <1>1 DEF Typed, IsFS
<1>11. /\ IsBlocks(w.block) /\ (\A x \in 1..NBLOCKS : x # b => w.block[x] = f.block[x])
       /\ \A c \in 0..BSIZE - 1 : w.block[b][c] = f.block[b][c] \/ w.block[b][c] = cell
  BY <1>6, <1>7, <1>9, <1>10
<1> QED
  BY <1>10, <1>11 DEF WritesCell

\* A cell of a data block that changes.
LEMMA CellInOrder ==
  ASSUME NEW D, NEW B, NEW U, InOrder(D, B, U), NEW i \in Inums, NEW a \in 0..MAXFILE - 1, NEW b, b = BlockAt(D[i], B, a), b # 0,
         NEW C, IsBlocks(C), \A x \in 1..NBLOCKS : x # b => C[x] = B[x], NEW cell, MayLead(cell),
         \A c \in 0..BSIZE - 1 : C[b][c] = B[b][c] \/ C[b][c] = cell
  PROVE  /\ InOrder(D, C, U)
         /\ \A j \in Inums : SameList(D[j], B, C)
<1>1. /\ D \in [Inums -> Inode] /\ IsBlocks(B) /\ U \subseteq 1..NBLOCKS
      /\ \A j \in Inums : \A d \in 0..MAXFILE : BlockAt(D[j], B, d) \in 0..NBLOCKS /\ (BlockAt(D[j], B, d) # 0 => BlockAt(D[j], B, d) \in U)
  BY InOrderIs
<1>2. MAXFILE \in Nat /\ a \in 0..MAXFILE /\ a # MAXFILE /\ MAXFILE \in 0..MAXFILE /\ 0..MAXFILE - 1 \subseteq 0..MAXFILE
  BY Sizes
<1>3. \A j \in Inums : \A d \in 0..MAXFILE : BlockAt(D[j], B, d) = b => j = i /\ d = a
  <2>1. Apart(D, B, U)
    BY InOrderIs
  <2> QED
    BY <1>2, <2>1, ApartOnce
<1>4. \A j \in Inums : SameList(D[j], B, C)
  <2> SUFFICES ASSUME NEW j \in Inums, D[j].addrs[NDIRECT] # 0
               PROVE  C[D[j].addrs[NDIRECT]] = B[D[j].addrs[NDIRECT]]
    BY DEF SameList
  <2> DEFINE l == D[j].addrs[NDIRECT]
  <2>1. l = BlockAt(D[j], B, MAXFILE)
    BY BlockAtList
  <2>2. l \in 1..NBLOCKS /\ l # b
    BY <1>1, <1>2, <1>3, <2>1
  <2> HIDE DEF l
  <2>3. C[l] = B[l]
    BY <2>2
  <2> QED
    BY <2>3 DEF l
<1> DEFINE r == D[i]
<1>5. r \in Inode /\ [D EXCEPT ![i] = r] = D /\ r.type = D[i].type /\ InodeInOrder(r, B)
  BY <1>1, InOrderIs
<1>6. \A d \in 0..MAXFILE : BlockAt(r, C, d) = BlockAt(D[i], B, d)
  BY <1>4, BlockAtSame
<1>7. r.addrs[NDIRECT] # 0 => IsList(C[r.addrs[NDIRECT]])
  <2>1. r.addrs[NDIRECT] # 0 => IsList(B[r.addrs[NDIRECT]])
    BY <1>5 DEF InodeInOrder
  <2>2. SameList(r, B, C)
    BY <1>4
  <2> QED
    BY <2>1, <2>2 DEF SameList
<1>8. \A d \in 0..MAXFILE - 1 : d * BSIZE < r.size => BlockAt(D[i], B, d) # 0
  BY <1>5 DEF InodeInOrder
<1>9. \A j \in Inums : \A d \in 0..MAXFILE - 1 : D[j].type = "dir" /\ BlockAt(D[j], B, d) # 0 =>
            \A c \in 0..BSIZE - 1 : C[BlockAt(D[j], B, d)][c] = B[BlockAt(D[j], B, d)][c] \/ MayLead(C[BlockAt(D[j], B, d)][c])
  <2> SUFFICES ASSUME NEW j \in Inums, NEW d \in 0..MAXFILE - 1, BlockAt(D[j], B, d) # 0, NEW c \in 0..BSIZE - 1
               PROVE  C[BlockAt(D[j], B, d)][c] = B[BlockAt(D[j], B, d)][c] \/ MayLead(C[BlockAt(D[j], B, d)][c])
    OBVIOUS
  <2> DEFINE x == BlockAt(D[j], B, d)
  <2>1. x \in 1..NBLOCKS
    BY <1>1, <1>2
  <2> HIDE DEF x
  <2>2. C[x][c] = B[x][c] \/ C[x][c] = cell
    BY <2>1
  <2>3. C[x][c] = B[x][c] \/ MayLead(C[x][c])
    BY <2>2
  <2> QED
    BY <2>3 DEF x
<1> HIDE DEF r
<1>10. InOrder([D EXCEPT ![i] = r], C, U)
  BY <1>4, <1>5, <1>6, <1>7, <1>8, <1>9, InOrderKeeps
<1>11. InOrder(D, C, U)
  BY <1>5, <1>10
<1> QED
  BY <1>4, <1>11

-----------------------------------------------------------------------------
(* File systems in order, whose cache is what the disk says *)

\* An inode of the cache that somebody may use.
Live(f, i) == i \in Inums /\ i \in f.valid /\ f.ref[i] > 0

Fresh(f, i) == Live(f, i) => f.inode[i] = f.disk[i] /\ f.inode[i].type # "none"
Others(f, i) == \A j \in Inums : j # i => Fresh(f, j)

Sound(f) == Typed(f) /\ InOrder(f.disk, f.block, f.used) /\ \A i \in Inums : Fresh(f, i)

\* What is live stays so.
Stays(f, g) == \A i \in Inums : Live(f, i) => Live(g, i)

LEMMA SoundAhead ==
  ASSUME NEW f, Sound(f), NEW i, Live(f, i)
  PROVE  Ahead(f, i) /\ NoHoles(f, i) /\ Image(f, i) = f.disk /\ f.inode[i] = f.disk[i] /\ i \in Inums /\ Others(f, i)
<1>1. Typed(f) /\ i \in Inums /\ f.inode[i] = f.disk[i] /\ f.inode[i].type # "none" /\ InOrder(f.disk, f.block, f.used) /\ f.inode[i] \in Inode
  BY DEF Sound, Live, Fresh, Typed
<1>2. Image(f, i) = f.disk
  BY <1>1 DEF Image, Typed
<1>3. Ahead(f, i)
  BY <1>1, <1>2 DEF Ahead
<1>4. InodeInOrder(f.disk[i], f.block)
  BY <1>1, InOrderIs
<1>5. NoHoles(f, i)
  BY <1>1, <1>4 DEF NoHoles, InodeInOrder, CacheBlock, Inode
<1> QED
  BY <1>1, <1>2, <1>3, <1>5 DEF Others, Sound

\* An inode that is written to the disk.
Saves(f, i, r) == iupdate([f EXCEPT !.inode[i] = r], i)

LEMMA SavesIs ==
  ASSUME NEW f, Typed(f), NEW i \in Inums, NEW r \in Inode
  PROVE  LET g == Saves(f, i, r) IN
         /\ Typed(g) /\ g.ref = f.ref /\ g.valid = f.valid /\ g.block = f.block /\ g.used = f.used /\ g.panic = f.panic
         /\ g.inode = [f.inode EXCEPT ![i] = r] /\ g.disk = [f.disk EXCEPT ![i] = r]
<1> DEFINE h == [f EXCEPT !.inode[i] = r]
<1>1. /\ IsFS(h) /\ h.inode = [f.inode EXCEPT ![i] = r] /\ h.disk = f.disk
      /\ h.ref = f.ref /\ h.valid = f.valid /\ h.block = f.block /\ h.used = f.used /\ h.panic = f.panic
  BY DEF Typed, IsFS
<1>2. h.inode \in [Inums -> Inode] /\ h.inode[i] = r /\ h.disk \in [Inums -> Inode] /\ h.valid \subseteq Inums
  BY <1>1 DEF Typed
<1> HIDE DEF h
<1> DEFINE g == iupdate(h, i)
<1>3. /\ IsFS(g) /\ g.inode = h.inode /\ g.disk = [h.disk EXCEPT ![i] = r]
      /\ g.ref = h.ref /\ g.valid = h.valid /\ g.block = h.block /\ g.used = h.used /\ g.panic = h.panic
  BY <1>1, <1>2 DEF IsFS, iupdate
<1>4. g.disk \in [Inums -> Inode]
  BY <1>2, <1>3
<1> HIDE DEF g
<1>5. Typed(g)
  BY <1>1, <1>2, <1>3, <1>4 DEF Typed
<1> QED
  BY <1>1, <1>3, <1>5 DEF Saves, g, h

\* Inode r is i but for its links, or has grown.
LEMMA SavesSound ==
  ASSUME NEW f, NEW i, Ahead(f, i), Others(f, i), NEW r \in Inode, r.type = f.inode[i].type, r.addrs = f.inode[i].addrs,
         \A a \in 0..MAXFILE - 1 : a * BSIZE < r.size => CacheBlock(f, i, a) # 0
  PROVE  LET g == Saves(f, i, r) IN
         /\ Sound(g) /\ g.ref = f.ref /\ g.valid = f.valid /\ g.panic = f.panic
<1> DEFINE g == Saves(f, i, r)
           D == Image(f, i)
           B == f.block
           U == f.used
<1>1. /\ Typed(f) /\ i \in Inums /\ D[i] = f.inode[i]
      /\ InOrder(D, B, U) /\ IsBlocks(B) /\ f.inode[i].type # "none"
  BY AheadIs DEF Ahead
<1>2. /\ Typed(g) /\ g.ref = f.ref /\ g.valid = f.valid /\ g.block = f.block /\ g.used = f.used /\ g.panic = f.panic
      /\ g.inode = [f.inode EXCEPT ![i] = r] /\ g.disk = [f.disk EXCEPT ![i] = r]
  BY <1>1, SavesIs
<1>3. g.disk = [D EXCEPT ![i] = r]
  <2>1. D = [f.disk EXCEPT ![i] = f.inode[i]] /\ f.disk \in [Inums -> Inode]
    BY <1>1 DEF Image, Typed
  <2> QED
    BY <1>2, <2>1
<1>0. g.block = B /\ g.used = U
  BY <1>2
<1>4. \A a \in 0..MAXFILE : BlockAt(r, B, a) = BlockAt(D[i], B, a)
  BY <1>1 DEF BlockAt
<1>5. \A a \in 0..MAXFILE - 1 : a * BSIZE < r.size => BlockAt(D[i], B, a) # 0
  BY <1>1 DEF CacheBlock
<1> HIDE DEF g, D, B, U
<1>6. r.addrs[NDIRECT] # 0 => IsList(B[r.addrs[NDIRECT]])
  <2>1. InodeInOrder(D[i], B)
    BY <1>1, InOrderIs
  <2> QED
    BY <1>1, <2>1 DEF InodeInOrder
<1>7. \A j \in Inums : SameList(D[j], B, B)
  BY DEF SameList
<1>8. r.type = D[i].type /\ i \in Inums
  BY <1>1
<1>9. InOrder([D EXCEPT ![i] = r], B, U)
  <2>1. \A j \in Inums : \A a \in 0..MAXFILE - 1 : D[j].type = "dir" /\ BlockAt(D[j], B, a) # 0 =>
            \A c \in 0..BSIZE - 1 : B[BlockAt(D[j], B, a)][c] = B[BlockAt(D[j], B, a)][c] \/ MayLead(B[BlockAt(D[j], B, a)][c])
    OBVIOUS
  <2> QED
    BY <1>1, <1>4, <1>5, <1>6, <1>7, <1>8, <2>1, InOrderKeeps
<1>10. InOrder(g.disk, g.block, g.used)
  BY <1>0, <1>3, <1>9
<1>11. ASSUME NEW j \in Inums
       PROVE  Fresh(g, j)
  <2>1. CASE j = i
    BY <1>1, <1>2, <2>1 DEF Fresh, Typed
  <2>2. CASE j # i
    <3>1. g.inode[j] = f.inode[j] /\ g.disk[j] = f.disk[j]
      BY <1>1, <1>2, <2>2 DEF Typed
    <3>2. Fresh(f, j)
      BY <2>2 DEF Others
    <3> QED
      BY <1>2, <3>1, <3>2 DEF Fresh, Live
  <2> QED
    BY <2>1, <2>2
<1> QED
  BY <1>2, <1>10, <1>11 DEF Sound, g

LEMMA InodeWith ==
  ASSUME NEW r \in Inode
  PROVE  /\ \A n \in Int : [r EXCEPT !.nlink = n] \in Inode /\ [r EXCEPT !.nlink = n].type = r.type /\ [r EXCEPT !.nlink = n].addrs = r.addrs
                           /\ [r EXCEPT !.nlink = n].size = r.size
         /\ \A n \in 0..MAXFILE * BSIZE : [r EXCEPT !.size = n] \in Inode /\ [r EXCEPT !.size = n].type = r.type
                           /\ [r EXCEPT !.size = n].addrs = r.addrs /\ [r EXCEPT !.size = n].size = n
BY DEF Inode

LEMMA writeiSound ==
  ASSUME NEW f, Sound(f), NEW i, Live(f, i), NEW off \in Nat, NEW cell, MayLead(cell),
         NEW w, w = writei(f, i, off, <<cell>>)[1], ~w.panic
  PROVE  Sound(w) /\ w.ref = f.ref /\ w.valid = f.valid
<1> DEFINE q == off \div BSIZE
           size == f.inode[i].size
           m == Mapped(f, i, off, 1)
           v == Written(m, i, off, <<cell>>)
<1>1. /\ Ahead(f, i) /\ NoHoles(f, i) /\ i \in Inums /\ Others(f, i) /\ Typed(f) /\ q \in Nat
      /\ BSIZE \in Nat \ {0} /\ MAXFILE \in Nat /\ MAXFILE * BSIZE \in Int
  BY SoundAhead, InBlock, Sizes, TimesOrder DEF Ahead
<1>2. Len(<<cell>>) = 1
  BY SeqLiterals
<1>3. CASE w = f
  BY <1>3
<1>4. CASE w # f
  <2>1. w = Grows(v, i, off + 1) /\ ~(off > size) /\ ~(off + 1 > MAXFILE * BSIZE)
    <3> DEFINE cells == <<cell>>
    <3> HIDE DEF cells
    <3>1. Len(cells) = 1 /\ w = writei(f, i, off, cells)[1]
      BY <1>2 DEF cells
    <3>2. w = Grows(Written(Mapped(f, i, off, Len(cells)), i, off, cells), i, off + Len(cells)) /\ ~(off > size) /\ ~(off + Len(cells) > MAXFILE * BSIZE)
      BY <1>4, <3>1 DEF writei
    <3> QED
      BY <3>1, <3>2 DEF cells
  <2> DEFINE h == bmap(f, i, q)[1]
  <2>2. m = Allocates(f, h)
    BY MappedOne
  <2>3. IsFS(m)
    BY <1>1, <2>2 DEF Allocates, Typed, IsFS
  <2> HIDE DEF m
  <2>4. IsFS(v) /\ v.panic = m.panic
    BY <2>3 DEF Written, IsFS
  <2> HIDE DEF v
  <2>5. w.panic = v.panic
    BY <2>1, <2>4 DEF Grows, iupdate, IsFS
  <2>6. ~m.panic
    BY <2>4, <2>5
  <2>7. ~h.panic
    BY <1>1, <2>2, <2>6 DEF Allocates, Typed, IsFS
  <2>8. q < MAXFILE /\ Ahead(h, i) /\ Maps(f, h, i)
    <3> HIDE DEF q
    <3> QED
      BY <1>1, <2>7, bmapMaps
  <2>81. CacheBlock(h, i, q) # 0
    <3> HIDE DEF q
    <3> QED
      BY <1>1, <2>7, bmapMaps
  <2> HIDE DEF h
  <2>9. m = h
    BY <1>1, <2>2, <2>6, <2>8, AllocatesIs DEF Ahead
  <2> DEFINE b == CacheBlock(h, i, q)
             D == Image(h, i)
             B == h.block
             U == h.used
             C == v.block
  <2>10. q \in 0..MAXFILE - 1 /\ q \in 0..MAXFILE
    BY <1>1, <2>8
  <2>11. bmap(h, i, q)[2] = b
    BY <2>81, <2>10, bmapThere
  <2>12. /\ Typed(h) /\ D[i] = h.inode[i] /\ InOrder(D, B, U) /\ IsBlocks(B) /\ h.used \subseteq 1..NBLOCKS
         /\ b \in 0..NBLOCKS
    BY <2>8, <2>10, AheadIs
  <2>13. b \in 1..NBLOCKS
    BY <2>12, <2>81, Sizes
  <2>14. /\ Typed(v) /\ v.disk = h.disk /\ v.ref = h.ref /\ v.valid = h.valid /\ v.inode = h.inode /\ v.used = h.used /\ v.panic = h.panic
         /\ IsBlocks(C) /\ (\A x \in 1..NBLOCKS : x # b => C[x] = B[x])
         /\ \A c \in 0..BSIZE - 1 : C[b][c] = B[b][c] \/ C[b][c] = cell
    <3>1. b = bmap(h, i, off \div BSIZE)[2]
      BY <2>11
    <3>2. v = Written(h, i, off, <<cell>>)
      BY <2>9 DEF v
    <3>3. Typed(h) /\ IsBlocks(h.block) /\ b \in 1..NBLOCKS
      BY <2>12, <2>13
    <3> HIDE DEF b, C, B
    <3>4. WritesCell(h, v, b, cell)
      BY <3>1, <3>2, <3>3, WrittenOne
    <3> QED
      BY <3>4 DEF B, C, WritesCell
  <2>15. b = BlockAt(D[i], B, q)
    BY <2>12 DEF CacheBlock
  <2> HIDE DEF b, D, B, U, C, q
  <2>16. InOrder(D, C, U) /\ \A j \in Inums : SameList(D[j], B, C)
    BY <1>1, <2>10, <2>12, <2>13, <2>14, <2>15, <2>81, CellInOrder DEF b
  <2>17. Image(v, i) = D
    BY <2>14 DEF Image, D
  <2>18. Ahead(v, i)
    BY <1>1, <2>8, <2>14, <2>16, <2>17 DEF Ahead, C, U
  <2>19. \A a \in 0..MAXFILE : CacheBlock(v, i, a) = CacheBlock(h, i, a)
    <3>1. SameList(D[i], B, C)
      BY <1>1, <2>16
    <3>2. \A a : BlockAt(D[i], C, a) = BlockAt(D[i], B, a)
      BY <3>1, BlockAtSame
    <3> QED
      BY <2>12, <2>14, <3>2 DEF CacheBlock, B, C
  <2>20. /\ v.disk = f.disk /\ v.ref = f.ref /\ v.valid = f.valid /\ v.inode[i].size = size
         /\ \A j \in Inums : j # i => v.inode[j] = f.inode[j]
    BY <2>8, <2>14 DEF Maps
  <2>21. Others(v, i)
    BY <1>1, <2>20 DEF Others, Fresh, Live
  <2>22. v.inode[i] \in Inode /\ size \in 0..MAXFILE * BSIZE
    BY <1>1, <2>18 DEF Ahead, Typed, NoHoles
  <2>23. CASE off + 1 > size
    <3> DEFINE r == [v.inode[i] EXCEPT !.size = off + 1]
    <3>1. w = Saves(v, i, r)
      BY <2>1, <2>20, <2>23 DEF Grows, Saves
    <3>2. r \in Inode /\ r.type = v.inode[i].type /\ r.addrs = v.inode[i].addrs /\ r.size = off + 1
      <4>1. off + 1 \in 0..MAXFILE * BSIZE
        BY <1>1, <2>1
      <4> QED
        BY <2>22, <4>1, InodeWith
    <3> HIDE DEF r
    <3>3. ASSUME NEW a \in 0..MAXFILE - 1, a * BSIZE < r.size
          PROVE  CacheBlock(v, i, a) # 0
      <4>1. a * BSIZE \in Int /\ a * BSIZE <= off /\ a \in Nat /\ a \in 0..MAXFILE
        BY <1>1, <3>2, <3>3, TimesOrder
      <4>2. CASE a * BSIZE < size
        <5>1. CacheBlock(f, i, a) # 0
          BY <1>1, <4>2 DEF NoHoles
        <5>2. CacheBlock(h, i, a) # 0
          BY <2>8, <4>1, <5>1 DEF Maps
        <5> QED
          BY <2>19, <4>1, <5>2
      <4>3. CASE ~(a * BSIZE < size)
        <5>1. a * BSIZE = off /\ off = size
          BY <1>1, <2>1, <2>22, <4>1, <4>3
        <5>2. a <= q
          BY <4>1, <5>1, BlockOrder DEF q
        <5>3. q * BSIZE <= off /\ q * BSIZE \in Int
          BY <1>1, InBlock, TimesOrder DEF q
        <5>4. a < q => a * BSIZE + BSIZE <= q * BSIZE
          BY <1>1, <4>1, TimesOrder
        <5>5. a = q
          BY <1>1, <4>1, <5>1, <5>2, <5>3, <5>4
        <5> QED
          BY <2>10, <2>19, <2>81, <5>5
      <4> QED
        BY <4>2, <4>3
    <3>4. Sound(w) /\ w.ref = v.ref /\ w.valid = v.valid
      BY <2>18, <2>21, <3>1, <3>2, <3>3, SavesSound
    <3> QED
      BY <2>20, <3>4
  <2>24. CASE ~(off + 1 > size)
    <3>1. w = v
      BY <2>1, <2>20, <2>24 DEF Grows
    <3>2. off < size
      BY <1>1, <2>22, <2>24
    <3>3. h = f
      BY <1>1, <3>2, BelowSize DEF h, q
    <3>4. D = v.disk /\ v.inode[i] = f.inode[i]
      BY <2>14, <3>3, SoundAhead DEF D
    <3>5. InOrder(v.disk, v.block, v.used)
      BY <2>14, <2>16, <3>4 DEF C, U
    <3>6. Fresh(v, i)
      BY <2>20, <3>4, <1>1 DEF Fresh, Live, Sound
    <3> QED
      BY <2>14, <2>20, <2>21, <3>1, <3>5, <3>6 DEF Sound, Others
  <2> QED
    BY <2>23, <2>24, <2>22, <1>1
<1> QED
  BY <1>3, <1>4

\* What is live stays so from f to g to h.
LEMMA StaysBoth ==
  ASSUME NEW f, NEW g, NEW h, Stays(f, g), Stays(g, h)
  PROVE  Stays(f, h)
BY DEF Stays

\* Only references change, or what the cache holds of inodes that nobody uses.
LEMMA CacheSound ==
  ASSUME NEW f, Sound(f), NEW g, Typed(g), g.disk = f.disk, g.inode = f.inode, g.block = f.block, g.used = f.used,
         \A j \in Inums : Live(g, j) => Live(f, j)
  PROVE  Sound(g)
BY DEF Sound, Fresh

LEMMA idupSound ==
  ASSUME NEW f, Sound(f), NEW i \in Inums, f.ref[i] > 0
  PROVE  Sound(idup(f, i)) /\ Stays(f, idup(f, i))
<1> DEFINE g == idup(f, i)
<1>1. Typed(f) /\ f.ref \in [Inums -> Int]
  BY DEF Sound, Typed, IsFS
<1>2. /\ IsFS(g) /\ g.disk = f.disk /\ g.inode = f.inode /\ g.block = f.block /\ g.used = f.used /\ g.valid = f.valid
      /\ g.ref = [f.ref EXCEPT ![i] = @ + 1]
  BY <1>1 DEF idup, Typed, IsFS
<1>3. Typed(g)
  BY <1>1, <1>2 DEF Typed
<1> HIDE DEF g
<1>4. \A j \in Inums : Live(g, j) <=> Live(f, j)
  BY <1>1, <1>2 DEF Live
<1>5. Sound(g)
  BY <1>2, <1>3, <1>4, CacheSound
<1>6. Stays(f, g)
  BY <1>4 DEF Stays
<1> QED
  BY <1>5, <1>6 DEF g

LEMMA DropsSound ==
  ASSUME NEW f, Sound(f), NEW i \in Inums
  PROVE  Sound(Drops(f, i)) /\ Drops(f, i).valid = f.valid /\ Drops(f, i).ref = [f.ref EXCEPT ![i] = @ - 1] /\ Drops(f, i).panic = f.panic
<1> DEFINE g == Drops(f, i)
<1>1. Typed(f) /\ f.ref \in [Inums -> Int]
  BY DEF Sound, Typed, IsFS
<1>2. /\ IsFS(g) /\ g.disk = f.disk /\ g.inode = f.inode /\ g.block = f.block /\ g.used = f.used /\ g.valid = f.valid
      /\ g.ref = [f.ref EXCEPT ![i] = @ - 1] /\ g.panic = f.panic
  BY <1>1 DEF Drops, Typed, IsFS
<1>3. Typed(g)
  BY <1>1, <1>2 DEF Typed
<1> HIDE DEF g
<1>4. \A j \in Inums : Live(g, j) => Live(f, j)
  BY <1>1, <1>2 DEF Live
<1>5. Sound(g)
  BY <1>2, <1>3, <1>4, CacheSound
<1> QED
  BY <1>2, <1>5 DEF g

\* The inode that iget finds in use has been in use; another one has to be read again.
LEMMA igetSound ==
  ASSUME NEW f, Sound(f), NEW i \in Inums, ~iget(f, i).panic
  PROVE  LET g == iget(f, i) IN
         Sound(g) /\ Stays(f, g) /\ g.disk = f.disk /\ (i \in g.valid => g.ref[i] > 1) /\ (Live(g, i) => Live(f, i))
<1>1. Typed(f) /\ f.ref \in [Inums -> Int]
  BY DEF Sound, Typed, IsFS
<1>2. CASE f.ref[i] > 0
  <2>1. iget(f, i) = idup(f, i)
    BY <1>2 DEF iget
  <2>2. idup(f, i).ref[i] = f.ref[i] + 1 /\ idup(f, i).disk = f.disk /\ idup(f, i).valid = f.valid
    BY <1>1 DEF idup, Typed, IsFS
  <2>3. Sound(idup(f, i)) /\ Stays(f, idup(f, i))
    BY <1>2, idupSound
  <2> QED
    BY <1>1, <1>2, <2>1, <2>2, <2>3 DEF Live
<1>3. CASE ~(f.ref[i] > 0)
  <2> DEFINE g == [f EXCEPT !.ref[i] = 1, !.valid = @ \ {i}]
  <2>1. iget(f, i) = g
    BY <1>1, <1>3 DEF iget, Panics, Typed, IsFS
  <2>2. /\ IsFS(g) /\ g.disk = f.disk /\ g.inode = f.inode /\ g.block = f.block /\ g.used = f.used /\ g.valid = f.valid \ {i}
        /\ g.ref = [f.ref EXCEPT ![i] = 1]
    <3>1. [f.ref EXCEPT ![i] = 1] \in [Inums -> Int]
      BY <1>1
    <3>2. /\ g.disk = f.disk /\ g.inode = f.inode /\ g.block = f.block /\ g.used = f.used /\ g.valid = f.valid \ {i}
          /\ g.ref = [f.ref EXCEPT ![i] = 1] /\ g.panic = f.panic
      BY <1>1 DEF Typed, IsFS
    <3>3. g \in [disk : {g.disk}, inode : {g.inode}, ref : {g.ref}, valid : {g.valid}, block : {g.block}, used : {g.used}, panic : {g.panic}]
      BY <1>1 DEF Typed, IsFS
    <3>4. f.panic \in BOOLEAN
      BY <1>1 DEF Typed, IsFS
    <3> HIDE DEF g
    <3> QED
      BY <3>1, <3>2, <3>3, <3>4 DEF IsFS
  <2>3. Typed(g)
    BY <1>1, <2>2 DEF Typed
  <2> HIDE DEF g
  <2>4. \A j \in Inums : Live(g, j) <=> Live(f, j)
    BY <1>1, <1>3, <2>2 DEF Live
  <2>5. Sound(g) /\ Stays(f, g)
    BY <2>2, <2>3, <2>4, CacheSound DEF Stays
  <2> QED
    BY <2>1, <2>2, <2>4, <2>5
<1> QED
  BY <1>2, <1>3

\* ilock reads what is on the disk.
LEMMA ilockSound ==
  ASSUME NEW f, Sound(f), NEW i \in Inums, ~ilock(f, i).panic
  PROVE  LET g == ilock(f, i) IN
         /\ Sound(g) /\ Stays(f, g) /\ Live(g, i) /\ g.ref = f.ref /\ g.disk = f.disk /\ f.valid \subseteq g.valid
<1> DEFINE h == [f EXCEPT !.valid = @ \cup {i}, !.inode[i] = f.disk[i]]
           g == ilock(f, i)
<1>1. Typed(f) /\ f.ref \in [Inums -> Int]
  BY DEF Sound, Typed, IsFS
<1>2. /\ IsFS(h) /\ h.disk = f.disk /\ h.inode = [f.inode EXCEPT ![i] = f.disk[i]] /\ h.block = f.block /\ h.used = f.used
      /\ h.valid = f.valid \cup {i} /\ h.ref = f.ref
  BY <1>1 DEF Typed, IsFS
<1>3. Typed(h)
  <2>1. h.inode \in [Inums -> Inode]
    BY <1>1, <1>2 DEF Typed
  <2> QED
    BY <1>1, <1>2, <2>1 DEF Typed
<1> HIDE DEF h
<1>4. /\ g = IF i \in f.valid THEN f ELSE h
      /\ ~(f.ref[i] < 1) /\ g.inode[i].type # "none"
  <2> DEFINE k == IF i \in f.valid THEN f ELSE h
  <2>1. g = IF k.ref[i] < 1 \/ k.inode[i].type = "none" THEN Panics(k) ELSE k
    BY <1>2 DEF ilock, h, Panics
  <2>2. IsFS(k)
    BY <1>1, <1>2 DEF Typed
  <2> HIDE DEF k
  <2>3. ~g.panic
    OBVIOUS
  <2>31. Panics(k).panic
    BY <2>2 DEF Panics, IsFS
  <2> HIDE DEF g
  <2>4. g = k /\ ~(k.ref[i] < 1) /\ k.inode[i].type # "none"
    BY <2>1, <2>3, <2>31
  <2> QED
    BY <2>4, <1>2 DEF k
<1> HIDE DEF g
<1>5. CASE i \in f.valid
  <2>1. g = f
    BY <1>4, <1>5
  <2>2. f.ref[i] > 0 /\ Stays(f, f)
    BY <1>1, <1>4 DEF Stays
  <2> QED
    BY <1>5, <2>1, <2>2 DEF Live, g
<1>6. CASE i \notin f.valid
  <2>1. g = h
    BY <1>4, <1>6
  <2>2. Live(g, i) /\ Stays(f, g)
    BY <1>1, <1>2, <1>4, <2>1 DEF Live, Stays
  <2>3. ASSUME NEW j \in Inums
        PROVE  Fresh(g, j)
    <3>1. CASE j = i
      BY <1>1, <1>2, <1>4, <2>1, <3>1 DEF Fresh, Typed
    <3>2. CASE j # i
      <4>1. h.inode[j] = f.inode[j]
        BY <1>1, <1>2, <3>2 DEF Typed
      <4>2. Fresh(f, j)
        BY DEF Sound
      <4> QED
        BY <1>2, <2>1, <3>2, <4>1, <4>2 DEF Fresh, Live
    <3> QED
      BY <3>1, <3>2
  <2>4. InOrder(g.disk, g.block, g.used)
    BY <1>2, <2>1 DEF Sound
  <2> QED
    <3>1. Sound(g)
      BY <1>3, <2>1, <2>3, <2>4 DEF Sound
    <3>2. g.ref = f.ref /\ g.disk = f.disk /\ f.valid \subseteq g.valid
      BY <1>2, <2>1
    <3> QED
      BY <2>2, <3>1, <3>2 DEF g
<1> QED
  BY <1>5, <1>6 DEF g

LEMMA LinksSound ==
  ASSUME NEW f, Sound(f), NEW i, Live(f, i), NEW r \in Inode, r.type = f.inode[i].type, r.addrs = f.inode[i].addrs, r.size = f.inode[i].size
  PROVE  LET g == Saves(f, i, r) IN Sound(g) /\ Stays(f, g) /\ g.ref = f.ref /\ g.valid = f.valid /\ g.panic = f.panic
<1>1. Ahead(f, i) /\ Others(f, i) /\ NoHoles(f, i)
  BY SoundAhead
<1> DEFINE g == Saves(f, i, r)
<1>2. \A a \in 0..MAXFILE - 1 : a * BSIZE < r.size => CacheBlock(f, i, a) # 0
  BY <1>1 DEF NoHoles
<1>3. Sound(g) /\ g.ref = f.ref /\ g.valid = f.valid /\ g.panic = f.panic
  BY <1>1, <1>2, SavesSound
<1> HIDE DEF g
<1>4. Stays(f, g)
  BY <1>3 DEF Stays, Live
<1> QED
  BY <1>3, <1>4 DEF g

LEMMA AddLinksSound ==
  ASSUME NEW f, Sound(f), NEW i, Live(f, i), NEW n \in Int
  PROVE  LET g == AddLinks(f, i, n) IN Sound(g) /\ Stays(f, g) /\ g.ref = f.ref /\ g.valid = f.valid /\ g.panic = f.panic
<1> DEFINE r == [f.inode[i] EXCEPT !.nlink = @ + n]
           m == f.inode[i].nlink + n
<1>1. f.inode[i] \in Inode
  BY DEF Sound, Typed, Live
<1>2. m \in Int /\ r = [f.inode[i] EXCEPT !.nlink = m]
  BY <1>1 DEF Inode
<1>3. AddLinks(f, i, n) = Saves(f, i, r)
  BY DEF AddLinks, Saves
<1> HIDE DEF m
<1>4. r \in Inode /\ r.type = f.inode[i].type /\ r.addrs = f.inode[i].addrs /\ r.size = f.inode[i].size
  BY <1>1, <1>2, InodeWith
<1> HIDE DEF r
<1> QED
  BY <1>3, <1>4, LinksSound

\* What a cell of a directory leads to.
LEMMA CellLeads ==
  ASSUME NEW f, Sound(f), NEW dp, Live(f, dp), f.inode[dp].type = "dir", NEW k \in Nat, k < f.inode[dp].size
  PROVE  MayLead(CellAt(f, dp, k))
<1> DEFINE q == k \div BSIZE
           b == CacheBlock(f, dp, q)
<1>1. NoHoles(f, dp) /\ f.inode[dp] = f.disk[dp] /\ dp \in Inums
  BY SoundAhead
<1>2. q \in 0..MAXFILE - 1 /\ b # 0 /\ bmap(f, dp, q)[2] = b
  BY <1>1, BelowSize
<1>3. k % BSIZE \in 0..BSIZE - 1
  BY InBlock
<1>4. InodeInOrder(f.disk[dp], f.block)
  BY <1>1, InOrderIs DEF Sound
<1>5. \A c \in 0..BSIZE - 1 : MayLead(f.block[b][c])
  <2> HIDE DEF q
  <2> QED
    BY <1>1, <1>2, <1>4 DEF InodeInOrder, CacheBlock
<1>6. CellAt(f, dp, k) = f.block[b][k % BSIZE]
  <2>1. CellAt(f, dp, k) = f.block[bmap(f, dp, q)[2]][k % BSIZE]
    <3>1. bmap(f, dp, q)[1] = f
      BY <1>1, BelowSize
    <3> QED
      BY <3>1 DEF CellAt, CellOf
  <2> QED
    BY <1>2, <2>1
<1> HIDE DEF b
<1> QED
  BY <1>3, <1>5, <1>6

\* A directory that is read stays as it is.
LEMMA readiSame ==
  ASSUME NEW f, Sound(f), ~f.panic, NEW dp, Live(f, dp), f.inode[dp].type = "dir", NEW n \in Nat, n <= f.inode[dp].size
  PROVE  readi(f, dp, 0, n).fs = f
<1>1. NoHoles(f, dp) /\ Typed(f)
  BY SoundAhead DEF Sound
<1> DEFINE size == f.inode[dp].size
<1>2. size \in Nat /\ MAXFILE * BSIZE \in Int
  BY <1>1, Sizes, TimesOrder DEF NoHoles
<1> HIDE DEF size
<1>3. Min({n, size - 0}) = n
  <2>1. {n, size - 0} \in SUBSET Nat /\ {n, size - 0} # {}
    BY <1>2
  <2>2. Min({n, size - 0}) \in {n, size - 0} /\ Min({n, size - 0}) <= n
    BY <2>1, MinIn
  <2> QED
    BY <1>2, <2>2 DEF size
<1>4. Mapped(f, dp, 0, n) = f
  BY <1>1, MappedThere
<1>5. readi(f, dp, 0, n) = Read(Mapped(f, dp, 0, n), dp, 0, n)
  BY <1>2, <1>3 DEF readi, size
<1> QED
  BY <1>4, <1>5 DEF Read

\* What a search for a name may find, and the file system after it.
Finds(f, d) ==
  /\ Sound(d.fs) /\ Stays(f, d.fs) /\ d.fs.disk = f.disk
  /\ d.ip \in Inums \cup {0} /\ d.off \in Nat
  /\ d.ip # 0 /\ d.ip \in d.fs.valid => d.fs.ref[d.ip] > 1

LEMMA dirlookupFinds ==
  ASSUME NEW f, Sound(f), ~f.panic, NEW dp, Live(f, dp), NEW name, NEW d, d = dirlookup(f, dp, name), ~d.fs.panic
  PROVE  Finds(f, d)
<1> DEFINE P == {k \in Entries(f, dp) : CellAt(f, dp, k)[1] = Stored(name)}
           size == f.inode[dp].size
<1>0. Typed(f) /\ Stays(f, f)
  BY DEF Stays, Sound
<1>1. f.inode[dp].type = "dir"
  <2>1. CASE f.inode[dp].type # "dir"
    <3>1. d.fs = Panics(f)
      BY <2>1 DEF dirlookup
    <3>2. Panics(f).panic
      BY <1>0 DEF Panics, Typed, IsFS
    <3> QED
      BY <3>1, <3>2
  <2> QED
    BY <2>1
<1>2. d = AmongEntries(f, dp, P)
  BY <1>1 DEF dirlookup
<1>3. size \in Nat
  <2>1. MAXFILE * BSIZE \in Int /\ NoHoles(f, dp)
    BY SoundAhead, Sizes, TimesOrder
  <2> QED
    BY <2>1 DEF NoHoles
<1>4. \A k \in P : k \in Nat /\ k < size /\ CellAt(f, dp, k) # <<>>
  BY <1>3 DEF Entries
<1> HIDE DEF P
<1>5. CASE P = {}
  <2>1. d = [fs |-> readi(f, dp, 0, size).fs, ip |-> 0, off |-> 0]
    BY <1>2, <1>5 DEF AmongEntries
  <2>2. readi(f, dp, 0, size).fs = f
    BY <1>1, <1>3, readiSame
  <2>3. d.fs = f /\ d.ip = 0 /\ d.off = 0
    BY <2>1, <2>2
  <2> QED
    BY <1>0, <2>3 DEF Finds
<1>6. CASE P # {}
  <2> DEFINE k == Min(P)
             ip == CellAt(f, dp, k)[2]
  <2>1. d = Found(f, dp, k)
    BY <1>2, <1>6 DEF AmongEntries
  <2>2. P \in SUBSET Nat
    BY <1>4
  <2>3. k \in P
    BY <1>6, <2>2, MinIn
  <2>4. k \in Nat /\ k < size /\ CellAt(f, dp, k) # <<>>
    BY <1>4, <2>3
  <2> HIDE DEF k
  <2>5. ip \in Inums
    BY <1>1, <2>4, CellLeads DEF MayLead
  <2>6. readi(f, dp, 0, k + 1).fs = f
    BY <1>1, <1>3, <2>4, readiSame
  <2>7. d.fs = iget(f, ip) /\ d.ip = ip /\ d.off = k
    BY <2>1, <2>6 DEF Found
  <2> HIDE DEF ip
  <2>8. Sound(iget(f, ip)) /\ Stays(f, iget(f, ip)) /\ iget(f, ip).disk = f.disk /\ (ip \in iget(f, ip).valid => iget(f, ip).ref[ip] > 1)
    BY <2>5, <2>7, igetSound
  <2> QED
    BY <2>4, <2>5, <2>7, <2>8 DEF Finds
<1> QED
  BY <1>5, <1>6

\* A file system in order that has not panicked, and one that keeps it so, with all that is live, or panics.
Runs(f) == Sound(f) /\ Counted(f) /\ ~f.panic
Carries(f, g) == Keeps(f, g) /\ (~g.panic => Runs(g) /\ Stays(f, g))

LEMMA CarriesBoth ==
  ASSUME NEW f, NEW g, NEW h, Carries(f, g), Keeps(g, h), ~g.panic => Carries(g, h)
  PROVE  Carries(f, h)
<1>1. Keeps(f, h)
  BY DEF Carries, Keeps
<1>2. ASSUME ~h.panic
      PROVE  Runs(h) /\ Stays(f, h)
  <2>1. ~g.panic
    BY <1>2 DEF Keeps
  <2>2. Runs(h) /\ Stays(g, h) /\ Stays(f, g)
    BY <1>2, <2>1 DEF Carries
  <2> QED
    BY <2>2, StaysBoth
<1> QED
  BY <1>1, <1>2 DEF Carries

LEMMA CarriesMade ==
  ASSUME NEW f, Runs(f), NEW g, Keeps(f, g), ~g.panic => Sound(g) /\ Stays(f, g)
  PROVE  Carries(f, g) /\ Counted(g)
BY DEF Carries, Runs, Keeps, Counted

LEMMA CarriesSame ==
  ASSUME NEW f, Runs(f)
  PROVE  Carries(f, f)
BY DEF Carries, Runs, Keeps, Counted, Stays

LEMMA ilockCarries ==
  ASSUME NEW f, Runs(f), NEW i \in Inums
  PROVE  Carries(f, ilock(f, i)) /\ (~ilock(f, i).panic => Live(ilock(f, i), i) /\ f.valid \subseteq ilock(f, i).valid)
<1> DEFINE g == ilock(f, i)
<1>1. Keeps(f, g)
  BY ilockKeeps DEF Runs, Counted
<1>2. ~g.panic => Sound(g) /\ Stays(f, g) /\ Live(g, i) /\ f.valid \subseteq g.valid
  BY ilockSound DEF Runs
<1> HIDE DEF g
<1>3. Carries(f, g)
  BY <1>1, <1>2, CarriesMade
<1> QED
  BY <1>2, <1>3 DEF g

LEMMA AddLinksCarries ==
  ASSUME NEW f, Runs(f), NEW i, Live(f, i), NEW n \in Int
  PROVE  Carries(f, AddLinks(f, i, n)) /\ AddLinks(f, i, n).valid = f.valid
<1> DEFINE g == AddLinks(f, i, n)
<1>1. Keeps(f, g)
  BY AddLinksKeeps DEF Runs, Counted
<1>2. Sound(g) /\ Stays(f, g) /\ g.valid = f.valid
  BY AddLinksSound DEF Runs
<1> HIDE DEF g
<1>3. Carries(f, g)
  BY <1>1, <1>2, CarriesMade
<1> QED
  BY <1>2, <1>3 DEF g

LEMMA writeiCarries ==
  ASSUME NEW f, Runs(f), NEW i, Live(f, i), NEW off \in Nat, NEW cell, MayLead(cell)
  PROVE  Carries(f, writei(f, i, off, <<cell>>)[1])
<1> DEFINE w == writei(f, i, off, <<cell>>)[1]
<1>1. Keeps(f, w)
  BY writeiKeeps DEF Runs, Counted
<1>2. ~w.panic => Sound(w) /\ w.ref = f.ref /\ w.valid = f.valid
  BY writeiSound DEF Runs
<1> HIDE DEF w
<1>3. ~w.panic => Stays(f, w)
  BY <1>2 DEF Stays, Live
<1>4. Carries(f, w)
  BY <1>1, <1>2, <1>3, CarriesMade
<1> QED
  BY <1>4 DEF w

LEMMA SizeIs ==
  ASSUME NEW f, Sound(f), NEW i, Live(f, i)
  PROVE  f.inode[i].size \in Nat
<1>1. MAXFILE * BSIZE \in Int /\ NoHoles(f, i)
  BY SoundAhead, Sizes, TimesOrder
<1> QED
  BY <1>1 DEF NoHoles

\* dirlink finds a place, at the end at the latest.
LEMMA NewEntryCarries ==
  ASSUME NEW f, Runs(f), NEW dp, Live(f, dp), NEW name, NEW inum \in Inums
  PROVE  Carries(f, NewEntry(f, dp, name, inum)[1])
<1> DEFINE size == f.inode[dp].size
           P == (0..size) \ Entries(f, dp)
           off == Min(P)
           cell == <<Stored(name), inum>>
           w == writei(f, dp, off, <<cell>>)
           g == NewEntry(f, dp, name, inum)[1]
<1>1. size \in Nat
  BY SizeIs DEF Runs
<1>2. P \in SUBSET Nat /\ size \in P
  BY <1>1 DEF Entries
<1>3. off \in Nat
  BY <1>2, MinIn
<1>4. MayLead(cell)
  BY DEF MayLead
<1>5. Keeps(f, g)
  BY NewEntryKeeps DEF Runs, Counted
<1>6. g = Panics(f) \/ g = w[1]
  BY DEF NewEntry, Checked
<1> HIDE DEF off, cell
<1>7. Carries(f, w[1])
  BY <1>3, <1>4, writeiCarries
<1>8. Carries(f, Panics(f))
  BY PanicsKeeps DEF Runs, Counted, Carries
<1> HIDE DEF g
<1> QED
  BY <1>6, <1>7, <1>8 DEF g

\* What has been found is let go again.
LEMMA FoundDrops ==
  ASSUME NEW f, NEW d, Finds(f, d), d.ip # 0
  PROVE  /\ iput(d.fs, d.ip) = Drops(d.fs, d.ip) /\ Sound(Drops(d.fs, d.ip)) /\ Stays(f, Drops(d.fs, d.ip))
<1>1. d.ip \in Inums /\ Sound(d.fs) /\ Stays(f, d.fs) /\ (d.ip \in d.fs.valid => d.fs.ref[d.ip] > 1)
  BY DEF Finds
<1>2. iput(d.fs, d.ip) = Drops(d.fs, d.ip)
  BY <1>1 DEF iput
<1> DEFINE g == Drops(d.fs, d.ip)
<1>3. Sound(g) /\ g.valid = d.fs.valid /\ g.ref = [d.fs.ref EXCEPT ![d.ip] = @ - 1]
  BY <1>1, DropsSound
<1>4. d.fs.ref \in [Inums -> Int]
  BY <1>1 DEF Sound, Typed, IsFS
<1> HIDE DEF g
<1>5. Stays(d.fs, g)
  BY <1>1, <1>3, <1>4 DEF Stays, Live
<1>6. Stays(f, g)
  BY <1>1, <1>5, StaysBoth
<1> QED
  BY <1>2, <1>3, <1>6 DEF g

LEMMA dirlinkCarries ==
  ASSUME NEW f, Runs(f), NEW dp, Live(f, dp), NEW name, NEW inum \in Inums
  PROVE  Carries(f, dirlink(f, dp, name, inum)[1])
<1> DEFINE d == dirlookup(f, dp, name)
           h == d.fs
           g == dirlink(f, dp, name, inum)[1]
           e == NewEntry(h, dp, name, inum)[1]
           u == Drops(h, d.ip)
<1>1. Keeps(f, g)
  BY dirlinkKeeps DEF Runs
<1>2. Moves(f, h, d.ip, 1)
  BY dirlookupMoves DEF Runs
<1>3. Counted(h)
  BY <1>2, MovesCounted DEF Runs
<1>4. ~h.panic => Finds(f, d)
  BY dirlookupFinds DEF Runs
<1>5. g = IF d.ip # 0 THEN iput(h, d.ip) ELSE e
  BY DEF dirlink, Enters
<1>6. Moves(h, iput(h, d.ip), d.ip, -1) /\ Keeps(h, e)
  BY <1>3, iputMoves, NewEntryKeeps DEF Counted
<1> HIDE DEF g, d, e
<1>7. h.panic => g.panic
  BY <1>5, <1>6 DEF Moves, Keeps
<1>8. ASSUME ~g.panic
      PROVE  Sound(g) /\ Stays(f, g)
  <2>1. Finds(f, d) /\ Runs(h)
    BY <1>3, <1>4, <1>7, <1>8 DEF Runs, Finds
  <2>2. CASE d.ip # 0
    BY <1>5, <2>1, <2>2, FoundDrops
  <2>3. CASE d.ip = 0
    <3>1. Live(h, dp) /\ Stays(f, h)
      BY <2>1 DEF Finds, Stays, Live
    <3>2. Carries(h, e)
      BY <2>1, <3>1, NewEntryCarries DEF e
    <3>3. g = e
      BY <1>5, <2>3
    <3>4. Sound(g) /\ Stays(h, g)
      BY <1>8, <3>2, <3>3 DEF Carries, Runs
    <3> QED
      BY <3>1, <3>4, StaysBoth
  <2> QED
    BY <2>2, <2>3
<1>9. Carries(f, g)
  BY <1>1, <1>8, CarriesMade
<1> QED
  BY <1>9 DEF g

\* Two ways to say which blocks an inode has.
LEMMA BlocksOfIs ==
  ASSUME NEW f, NEW r
  PROVE  BlocksOf(f, r) = {BlockAt(r, f.block, a) : a \in 0..MAXFILE} \ {0}
<1> DEFINE B == f.block
           A == {BlockAt(r, B, a) : a \in 0..MAXFILE}
           l == r.addrs[NDIRECT]
<1>1. NDIRECT \in Nat \ {0} /\ BSIZE \in Nat \ {0} /\ MAXFILE \in Nat /\ MAXFILE = NDIRECT + BSIZE
  BY Sizes
<1>2. ASSUME NEW x \in BlocksOf(f, r)
      PROVE  x \in A
  <2>1. CASE \E b \in 0..NDIRECT : x = r.addrs[b]
    <3>1. PICK b \in 0..NDIRECT : x = r.addrs[b]
      BY <2>1
    <3>2. CASE b = NDIRECT
      BY <1>1, <3>1, <3>2, BlockAtList
    <3>3. CASE b # NDIRECT
      <4>1. b \in 0..MAXFILE /\ BlockAt(r, B, b) = x
        BY <1>1, <3>1, <3>3 DEF BlockAt
      <4> QED
        BY <4>1
    <3> QED
      BY <3>2, <3>3
  <2>2. CASE l # 0 /\ \E c \in 0..BSIZE - 1 : B[l][c] # <<>> /\ x = B[l][c][1]
    <3>1. PICK c \in 0..BSIZE - 1 : B[l][c] # <<>> /\ x = B[l][c][1]
      BY <2>2
    <3>2. NDIRECT + c \in 0..MAXFILE /\ ~(NDIRECT + c < NDIRECT) /\ NDIRECT + c # MAXFILE /\ (NDIRECT + c) - NDIRECT = c
      BY <1>1
    <3> DEFINE a == NDIRECT + c
    <3> HIDE DEF a
    <3>3. BlockAt(r, B, a) = x
      BY <2>2, <3>1, <3>2 DEF BlockAt, a
    <3> QED
      BY <3>2, <3>3 DEF a
  <2> QED
    BY <2>1, <2>2 DEF BlocksOf
<1>3. ASSUME NEW a \in 0..MAXFILE, BlockAt(r, B, a) # 0
      PROVE  BlockAt(r, B, a) \in BlocksOf(f, r)
  <2>1. CASE a < NDIRECT
    BY <1>1, <1>3, <2>1 DEF BlockAt, BlocksOf
  <2>2. CASE a = MAXFILE
    BY <1>1, <1>3, <2>2, BlockAtList DEF BlocksOf
  <2>3. CASE ~(a < NDIRECT) /\ a # MAXFILE
    <3> DEFINE c == a - NDIRECT
    <3>1. c \in 0..BSIZE - 1
      BY <1>1, <2>3
    <3>2. l # 0 /\ B[l][c] # <<>> /\ BlockAt(r, B, a) = B[l][c][1]
      BY <1>3, <2>3 DEF BlockAt
    <3> HIDE DEF c
    <3> QED
      BY <1>3, <3>1, <3>2 DEF BlocksOf
  <2> QED
    BY <2>1, <2>2, <2>3
<1>4. 0 \notin BlocksOf(f, r)
  BY DEF BlocksOf
<1> QED
  BY <1>2, <1>3, <1>4

\* An inode without blocks.
Emptied(r, type) == [r EXCEPT !.addrs = NoInode.addrs, !.size = 0, !.type = type]

LEMMA EmptiedIs ==
  ASSUME NEW r \in Inode, NEW type \in {"none", "file", "dir", "dev"}
  PROVE  /\ Emptied(r, type) \in Inode /\ Emptied(r, type).size = 0 /\ Emptied(r, type).type = type
         /\ \A a \in 0..NDIRECT : Emptied(r, type).addrs[a] = 0
<1>1. NDIRECT \in Nat \ {0} /\ NBLOCKS \in Nat \ {0} /\ MAXFILE * BSIZE \in Nat
  <2>1. MAXFILE \in Nat /\ BSIZE \in Nat \ {0}
    BY Sizes
  <2>2. MAXFILE * BSIZE \in Int /\ 0 * BSIZE <= MAXFILE * BSIZE
    BY <2>1, TimesOrder
  <2> QED
    BY <2>1, <2>2, Sizes
<1>2. NoInode.addrs \in [0..NDIRECT -> 0..NBLOCKS] /\ \A a \in 0..NDIRECT : NoInode.addrs[a] = 0
  BY <1>1 DEF NoInode
<1>3. 0 \in 0..MAXFILE * BSIZE
  BY <1>1
<1> QED
  BY <1>2, <1>3 DEF Emptied, Inode

\* f and g have the same but for inode i, in the cache and on the disk, and the blocks in use.
ButFor(f, g, i) ==
  /\ IsFS(g) /\ g.ref = f.ref /\ g.block = f.block /\ g.panic = f.panic
  /\ g.inode \in [Inums -> {g.inode[j] : j \in Inums}] /\ g.disk \in [Inums -> {g.disk[j] : j \in Inums}]
  /\ \A j \in Inums : j # i => g.inode[j] = f.inode[j] /\ g.disk[j] = f.disk[j]

\* itrunc frees what is in use: it does not panic.
LEMMA itruncIs ==
  ASSUME NEW f, Sound(f), NEW i, Live(f, i)
  PROVE  LET g == itrunc(f, i) IN
         /\ ButFor(f, g, i) /\ g.valid = f.valid
         /\ g.inode[i] = [f.inode[i] EXCEPT !.addrs = NoInode.addrs, !.size = 0]
         /\ g.used = f.used \ {BlockAt(f.disk[i], f.block, a) : a \in 0..MAXFILE}
<1> DEFINE X == BlocksOf(f, f.inode[i])
           Y == {BlockAt(f.disk[i], f.block, a) : a \in 0..MAXFILE}
           h == [f EXCEPT !.used = @ \ X]
           k == [h EXCEPT !.inode[i].addrs = NoInode.addrs, !.inode[i].size = 0]
           g == itrunc(f, i)
           r == [f.inode[i] EXCEPT !.addrs = NoInode.addrs, !.size = 0]
<1>1. Typed(f) /\ i \in Inums /\ f.inode[i] = f.disk[i] /\ InOrder(f.disk, f.block, f.used)
  BY SoundAhead DEF Sound
<1>2. X = Y \ {0}
  BY <1>1, BlocksOfIs
<1>3. X \subseteq f.used /\ f.used \ X = f.used \ Y
  <2>1. \A a \in 0..MAXFILE : BlockAt(f.disk[i], f.block, a) # 0 => BlockAt(f.disk[i], f.block, a) \in f.used
    BY <1>1, InOrderIs
  <2>2. 0 \notin f.used
    BY <1>1, InOrderIs
  <2> QED
    BY <1>2, <2>1, <2>2
<1>4. bfree(f, X) = h
  BY <1>3 DEF bfree
<1> HIDE DEF X, Y
<1>5. /\ IsFS(h) /\ h.disk = f.disk /\ h.inode = f.inode /\ h.ref = f.ref /\ h.block = f.block /\ h.valid = f.valid /\ h.panic = f.panic
      /\ h.used = f.used \ X
  BY <1>1 DEF Typed, IsFS
<1>6. g = iupdate(k, i)
  BY <1>4 DEF itrunc, X
<1> HIDE DEF h
<1>7. /\ IsFS(k) /\ k.disk = h.disk /\ k.ref = h.ref /\ k.block = h.block /\ k.valid = h.valid /\ k.panic = h.panic /\ k.used = h.used
  BY <1>5 DEF Typed, IsFS
<1>8. k.inode = [f.inode EXCEPT ![i] = r]
  <2>1. k.inode = [h.inode EXCEPT ![i] = [h.inode[i] EXCEPT !.addrs = NoInode.addrs, !.size = 0]]
    BY <1>1, <1>5 DEF Typed, IsFS
  <2> QED
    BY <1>5, <2>1
<1> HIDE DEF k, r
<1>9. f.inode \in [Inums -> Inode] /\ f.disk \in [Inums -> Inode]
  BY <1>1 DEF Typed
<1>10. /\ IsFS(g) /\ g.disk = [k.disk EXCEPT ![i] = k.inode[i]] /\ g.ref = k.ref /\ g.block = k.block /\ g.valid = k.valid /\ g.panic = k.panic
       /\ g.used = k.used /\ g.inode = k.inode
  BY <1>6, <1>7 DEF IsFS, iupdate
<1> HIDE DEF g
<1>11. g.inode[i] = r /\ \A j \in Inums : j # i => g.inode[j] = f.inode[j] /\ g.disk[j] = f.disk[j]
  BY <1>1, <1>5, <1>7, <1>8, <1>9, <1>10
<1>12. g.inode \in [Inums -> {g.inode[j] : j \in Inums}]
  <2>1. g.inode = [j \in Inums |-> g.inode[j]]
    BY <1>8, <1>9, <1>10
  <2> QED
    BY <2>1
<1>13. g.disk \in [Inums -> {g.disk[j] : j \in Inums}]
  <2>1. g.disk = [j \in Inums |-> g.disk[j]]
    BY <1>5, <1>7, <1>9, <1>10
  <2> QED
    BY <2>1
<1> QED
  BY <1>3, <1>5, <1>7, <1>10, <1>11, <1>12, <1>13 DEF ButFor, g, r, Y

LEMMA FreesSound ==
  ASSUME NEW f, Sound(f), NEW i, Live(f, i)
  PROVE  Sound(Frees(f, i)) /\ Frees(f, i).valid = f.valid \ {i} /\ Frees(f, i).panic = f.panic
<1> DEFINE m == itrunc(f, i)
           h == [m EXCEPT !.inode[i].type = "none"]
           k == iupdate(h, i)
           g == Frees(f, i)
           r == Emptied(f.inode[i], "none")
           Y == {BlockAt(f.disk[i], f.block, a) : a \in 0..MAXFILE}
<1>1. Typed(f) /\ i \in Inums /\ f.inode[i] \in Inode /\ f.disk \in [Inums -> Inode] /\ f.inode \in [Inums -> Inode] /\ InOrder(f.disk, f.block, f.used)
  BY DEF Sound, Live, Typed
<1>2. ButFor(f, m, i) /\ m.valid = f.valid /\ m.inode[i] = [f.inode[i] EXCEPT !.addrs = NoInode.addrs, !.size = 0] /\ m.used = f.used \ Y
  BY itruncIs
<1> HIDE DEF m
<1>3. r \in Inode /\ r.size = 0 /\ r.type = "none" /\ \A a \in 0..NDIRECT : r.addrs[a] = 0
  <2> DEFINE t == "none"
             u == Emptied(f.inode[i], t)
  <2>1. t \in {"none", "file", "dir", "dev"}
    OBVIOUS
  <2> HIDE DEF t
  <2>2. u \in Inode /\ u.size = 0 /\ u.type = t /\ \A a \in 0..NDIRECT : u.addrs[a] = 0
    BY <1>1, <2>1, EmptiedIs
  <2> QED
    BY <2>2 DEF t
<1>4. r = [m.inode[i] EXCEPT !.type = "none"]
  BY <1>2 DEF Emptied
<1>5. IsFS(m) /\ m.inode \in [Inums -> {m.inode[j] : j \in Inums}] /\ m.disk \in [Inums -> {m.disk[j] : j \in Inums}]
  BY <1>2 DEF ButFor
<1> HIDE DEF Y
<1>6. /\ IsFS(h) /\ h.disk = m.disk /\ h.ref = m.ref /\ h.block = m.block /\ h.valid = m.valid /\ h.panic = m.panic /\ h.used = m.used
      /\ h.inode = [m.inode EXCEPT ![i] = r]
  BY <1>4, <1>5 DEF IsFS
<1> HIDE DEF h, r
<1>7. /\ IsFS(k) /\ k.disk = [h.disk EXCEPT ![i] = h.inode[i]] /\ k.ref = h.ref /\ k.block = h.block /\ k.valid = h.valid /\ k.panic = h.panic /\ k.used = h.used
      /\ k.inode = h.inode
  BY <1>6 DEF IsFS, iupdate
<1>8. g = [k EXCEPT !.valid = @ \ {i}]
  BY DEF Frees, k, h, m
<1> HIDE DEF k, g
<1>9. /\ IsFS(g) /\ g.disk = k.disk /\ g.ref = k.ref /\ g.block = k.block /\ g.panic = k.panic /\ g.used = k.used
      /\ g.inode = k.inode /\ g.valid = k.valid \ {i}
  BY <1>7, <1>8 DEF IsFS
<1>10. g.disk = [f.disk EXCEPT ![i] = r]
  <2>1. h.inode[i] = r
    BY <1>1, <1>5, <1>6
  <2>2. g.disk = [m.disk EXCEPT ![i] = r]
    BY <1>6, <1>7, <1>9, <2>1
  <2>3. \A j \in Inums : g.disk[j] = IF j = i THEN r ELSE f.disk[j]
    BY <1>2, <1>5, <2>2 DEF ButFor
  <2>4. g.disk = [j \in Inums |-> g.disk[j]]
    BY <1>5, <2>2
  <2> QED
    BY <1>1, <2>3, <2>4
<1>11. g.inode = [f.inode EXCEPT ![i] = r]
  <2>1. g.inode = [m.inode EXCEPT ![i] = r]
    BY <1>6, <1>7, <1>9
  <2>2. \A j \in Inums : g.inode[j] = IF j = i THEN r ELSE f.inode[j]
    BY <1>2, <1>5, <2>1 DEF ButFor
  <2>3. g.inode = [j \in Inums |-> g.inode[j]]
    BY <1>5, <2>1
  <2> QED
    BY <1>1, <2>2, <2>3
<1>12. g.block = f.block /\ g.used = f.used \ Y /\ g.ref = f.ref /\ g.valid = f.valid \ {i} /\ g.panic = f.panic
  BY <1>2, <1>6, <1>7, <1>9 DEF ButFor
<1>13. Typed(g)
  <2>1. g.disk \in [Inums -> Inode]
    BY <1>1, <1>3, <1>10
  <2>2. g.inode \in [Inums -> Inode]
    BY <1>1, <1>3, <1>11
  <2> QED
    BY <1>1, <1>9, <1>12, <2>1, <2>2 DEF Typed
<1>14. InOrder(g.disk, g.block, g.used)
  <2> DEFINE D == f.disk
             B == f.block
             U == f.used
  <2>1. InOrder(D, B, U)
    BY <1>1
  <2>2. Y = {BlockAt(D[i], B, a) : a \in 0..MAXFILE}
    BY DEF Y
  <2>3. g.disk = [D EXCEPT ![i] = r] /\ g.block = B /\ g.used = U \ Y
    BY <1>10, <1>12
  <2> HIDE DEF D, B, U
  <2>4. InOrder([D EXCEPT ![i] = r], B, U \ {BlockAt(D[i], B, a) : a \in 0..MAXFILE})
    BY <1>1, <1>3, <2>1, InOrderLoses
  <2> QED
    BY <2>2, <2>3, <2>4
<1>15. ASSUME NEW j \in Inums
       PROVE  Fresh(g, j)
  <2>1. CASE j = i
    BY <1>12, <2>1 DEF Fresh, Live
  <2>2. CASE j # i
    <3>1. g.inode[j] = f.inode[j] /\ g.disk[j] = f.disk[j]
      BY <1>1, <1>10, <1>11, <2>2
    <3>2. Fresh(f, j)
      BY DEF Sound
    <3> QED
      BY <1>12, <3>1, <3>2 DEF Fresh, Live
  <2> QED
    BY <2>1, <2>2
<1> QED
  BY <1>12, <1>13, <1>14, <1>15 DEF Sound, g

\* A free inode is given a type: nobody has used it.
LEMMA iallocSound ==
  ASSUME NEW f, Sound(f), NEW type \in {"file", "dir"}, NEW a, a = ialloc(f, type), ~a[1].panic
  PROVE  Sound(a[1]) /\ Stays(f, a[1]) /\ a[2] \in Inums
<1> DEFINE free == {i \in Inums : f.disk[i].type = "none"}
           n == Min(free)
           r == [NoInode EXCEPT !.type = type]
           g == [f EXCEPT !.disk[n] = r]
<1>1. Typed(f) /\ f.disk \in [Inums -> Inode] /\ InOrder(f.disk, f.block, f.used)
  BY DEF Sound, Typed
<1>2. free # {}
  <2>1. CASE free = {}
    <3>1. a = <<Panics(f), 1>>
      BY <2>1 DEF ialloc
    <3>2. Panics(f).panic
      BY <1>1 DEF Panics, Typed, IsFS
    <3> QED
      BY <3>1, <3>2
  <2> QED
    BY <2>1
<1>3. n \in Inums /\ f.disk[n].type = "none"
  <2>1. free \in SUBSET Nat
    BY DEF Inums
  <2>2. n \in free
    BY <1>2, <2>1, MinIn
  <2> QED
    BY <2>2
<1>4. a = <<iget(g, n), n>>
  BY <1>2 DEF ialloc
<1>5. r \in Inode /\ r.size = 0 /\ \A x \in 0..NDIRECT : r.addrs[x] = 0
  <2>1. MAXFILE \in Nat /\ BSIZE \in Nat \ {0} /\ NDIRECT \in Nat \ {0} /\ NBLOCKS \in Nat \ {0}
    BY Sizes
  <2>2. MAXFILE * BSIZE \in Int /\ 0 * BSIZE <= MAXFILE * BSIZE
    BY <2>1, TimesOrder
  <2>3. 0 \in 0..MAXFILE * BSIZE
    BY <2>1, <2>2
  <2>4. [b \in 0..NDIRECT |-> 0] \in [0..NDIRECT -> 0..NBLOCKS] /\ \A x \in 0..NDIRECT : [b \in 0..NDIRECT |-> 0][x] = 0
    BY <2>1
  <2>5. NoInode \in Inode /\ NoInode.size = 0 /\ NoInode.addrs = [b \in 0..NDIRECT |-> 0]
    BY <2>3, <2>4 DEF Inode, NoInode
  <2> DEFINE x == NoInode
  <2>6. x \in Inode /\ r = [x EXCEPT !.type = type]
    BY <2>5
  <2> HIDE DEF x
  <2>7. r \in Inode /\ r.size = x.size /\ r.addrs = x.addrs
    BY <2>6 DEF Inode
  <2> HIDE DEF r
  <2> QED
    BY <2>4, <2>5, <2>7 DEF x
<1> HIDE DEF n, r
<1>6. /\ IsFS(g) /\ g.disk = [f.disk EXCEPT ![n] = r] /\ g.inode = f.inode /\ g.ref = f.ref /\ g.block = f.block /\ g.valid = f.valid
      /\ g.used = f.used
  BY <1>1 DEF Typed, IsFS
<1> HIDE DEF g
<1>7. Typed(g)
  <2>1. g.disk \in [Inums -> Inode]
    BY <1>1, <1>5, <1>6
  <2> QED
    BY <1>1, <1>6, <2>1 DEF Typed
<1>8. InOrder(g.disk, g.block, g.used)
  <2> DEFINE D == f.disk
             B == f.block
             U == f.used
             Y == {BlockAt(D[n], B, x) : x \in 0..MAXFILE}
  <2>1. InOrder(D, B, U) /\ D[n].type = "none"
    BY <1>1, <1>3
  <2>2. g.disk = [D EXCEPT ![n] = r] /\ g.block = B /\ g.used = U
    BY <1>6
  <2> HIDE DEF D, B, U
  <2>3. InOrder([D EXCEPT ![n] = r], B, U \ Y)
    BY <1>3, <1>5, <2>1, InOrderLoses
  <2>4. U \ Y = U
    <3>1. InodeInOrder(D[n], B) /\ U \subseteq 1..NBLOCKS
      BY <1>3, <2>1, InOrderIs
    <3>2. \A x \in 0..MAXFILE : BlockAt(D[n], B, x) = 0
      BY <2>1, <3>1 DEF InodeInOrder
    <3> QED
      BY <3>1, <3>2
  <2> QED
    BY <2>2, <2>3, <2>4
<1>9. ASSUME NEW j \in Inums
      PROVE  Fresh(g, j)
  <2>1. Fresh(f, j) /\ (Live(g, j) => Live(f, j))
    BY <1>6 DEF Sound, Live
  <2>2. CASE j = n
    BY <1>3, <2>1, <2>2 DEF Fresh
  <2>3. CASE j # n
    <3>1. g.disk[j] = f.disk[j]
      BY <1>1, <1>6, <2>3
    <3> QED
      BY <1>6, <2>1, <3>1 DEF Fresh
  <2> QED
    BY <2>2, <2>3
<1>10. Sound(g) /\ Stays(f, g)
  BY <1>6, <1>7, <1>8, <1>9 DEF Sound, Stays, Live
<1>11. Sound(iget(g, n)) /\ Stays(g, iget(g, n))
  BY <1>3, <1>4, <1>10, igetSound
<1> QED
  BY <1>3, <1>4, <1>10, <1>11, StaysBoth

LEMMA BornCarries ==
  ASSUME NEW f, Runs(f), NEW i \in Inums, NEW major \in Int
  PROVE  Carries(f, Born(f, i, major)) /\ (~Born(f, i, major).panic => Live(Born(f, i, major), i))
<1> DEFINE h == ilock(f, i)
           g == Born(f, i, major)
           r == [h.inode[i] EXCEPT !.nlink = 1, !.major = major]
<1>1. Keeps(f, g)
  BY BornKeeps DEF Runs, Counted
<1>2. Carries(f, h) /\ (~h.panic => Live(h, i))
  BY ilockCarries
<1>3. g = Saves(h, i, r)
  BY DEF Born, Saves
<1> HIDE DEF h
<1>4. IsFS(h)
  BY <1>2 DEF Carries, Keeps
<1>5. h.panic => g.panic
  <2>1. Saves(h, i, r).panic = h.panic
    BY <1>4 DEF Saves, iupdate, IsFS
  <2> QED
    BY <1>3, <2>1
<1>6. ASSUME ~g.panic
      PROVE  Sound(g) /\ Stays(f, g) /\ Live(g, i)
  <2>1. Sound(h) /\ Live(h, i) /\ Stays(f, h) /\ h.inode[i] \in Inode
    BY <1>2, <1>5, <1>6 DEF Carries, Runs, Sound, Typed
  <2>2. r \in Inode /\ r.type = h.inode[i].type /\ r.addrs = h.inode[i].addrs /\ r.size = h.inode[i].size
    <3> DEFINE x == h.inode[i]
    <3>1. x \in Inode /\ r = [x EXCEPT !.nlink = 1, !.major = major]
      BY <2>1
    <3> HIDE DEF x, r
    <3> DEFINE y == [x EXCEPT !.nlink = 1]
    <3>2. y \in Inode /\ y.type = x.type /\ y.addrs = x.addrs /\ y.size = x.size
      BY <3>1, InodeWith
    <3>3. r = [y EXCEPT !.major = major]
      BY <3>1
    <3> HIDE DEF y
    <3>4. r \in Inode /\ r.type = y.type /\ r.addrs = y.addrs /\ r.size = y.size
      BY <3>2, <3>3 DEF Inode
    <3> QED
      BY <3>2, <3>4 DEF x
  <2> HIDE DEF r, g
  <2>3. Sound(g) /\ Stays(h, g)
    BY <1>3, <2>1, <2>2, LinksSound
  <2>4. Live(g, i)
    BY <2>1, <2>3 DEF Stays
  <2> QED
    BY <2>1, <2>3, <2>4, StaysBoth
<1> HIDE DEF g
<1>7. Carries(f, g)
  BY <1>1, <1>6, CarriesMade
<1> QED
  BY <1>6, <1>7 DEF g

LEMMA DotsCarries ==
  ASSUME NEW f, Runs(f), NEW dp, Live(f, dp), NEW ip, Live(f, ip)
  PROVE  Carries(f, Dots(f, dp, ip))
<1> DEFINE here == "."
           there == ".."
           g == dirlink(f, ip, here, ip)[1]
           h == dirlink(g, ip, there, dp)[1]
<1>1. Dots(f, dp, ip) = h
  BY DEF Dots
<1>2. dp \in Inums /\ ip \in Inums
  BY DEF Live
<1> HIDE DEF here, there
<1>3. Carries(f, g)
  BY <1>2, dirlinkCarries
<1> HIDE DEF g
<1>4. Counted(g)
  BY <1>3 DEF Carries, Keeps, Runs, Counted
<1>5. Keeps(g, h)
  BY <1>4, dirlinkKeeps
<1>6. ~g.panic => Carries(g, h)
  <2>1. ~g.panic => Runs(g) /\ Live(g, ip)
    BY <1>2, <1>3 DEF Carries, Stays
  <2> QED
    BY <1>2, <2>1, dirlinkCarries
<1> HIDE DEF h
<1>7. Carries(f, h)
  BY <1>3, <1>5, <1>6, CarriesBoth
<1> QED
  BY <1>1, <1>7

LEMMA FurnishedCarries ==
  ASSUME NEW f, Runs(f), NEW dp, Live(f, dp), NEW ip, Live(f, ip), NEW type
  PROVE  Carries(f, Furnished(f, dp, ip, type))
<1> DEFINE n == 1
           g == AddLinks(f, dp, n)
           h == Dots(g, dp, ip)
           k == Furnished(f, dp, ip, type)
<1>1. k = h \/ k = f
  BY DEF Furnished
<1>2. n \in Int
  OBVIOUS
<1> HIDE DEF n
<1>3. Carries(f, g) /\ g.panic = f.panic
  BY <1>2, AddLinksCarries, AddLinksSound DEF Runs
<1> HIDE DEF g
<1>4. Runs(g) /\ Live(g, dp) /\ Live(g, ip)
  BY <1>3 DEF Carries, Runs, Stays, Live
<1>5. Carries(g, h)
  BY <1>4, DotsCarries
<1> HIDE DEF h
<1>6. Carries(f, h)
  BY <1>3, <1>5, CarriesBoth DEF Carries
<1>7. Carries(f, f)
  BY CarriesSame
<1> HIDE DEF k
<1>8. Carries(f, k)
  BY <1>1, <1>6, <1>7
<1> QED
  BY <1>8 DEF k

LEMMA ErasedCarries ==
  ASSUME NEW f, Runs(f), NEW dp, Live(f, dp), NEW ip, NEW off \in Nat
  PROVE  Carries(f, Erased(f, dp, ip, off))
<1> DEFINE cell == <<>>
           w == writei(f, dp, off, <<cell>>)[1]
           n == -1
           h == AddLinks(w, dp, n)
           g == Erased(f, dp, ip, off)
<1>1. g = w \/ g = h
  BY DEF Erased, WithoutChild
<1>2. n \in Int /\ MayLead(cell)
  BY DEF MayLead
<1> HIDE DEF n, cell
<1>3. Carries(f, w)
  BY <1>2, writeiCarries
<1> HIDE DEF w
<1>4. IsFS(w)
  BY <1>3 DEF Carries, Keeps
<1>5. Keeps(w, h)
  BY <1>4, AddLinksKeeps
<1>6. ~w.panic => Carries(w, h)
  <2>1. ~w.panic => Runs(w) /\ Live(w, dp)
    BY <1>3 DEF Carries, Stays, Live
  <2> QED
    BY <1>2, <2>1, AddLinksCarries
<1> HIDE DEF h
<1>7. Carries(f, h)
  BY <1>3, <1>5, <1>6, CarriesBoth
<1> HIDE DEF g
<1>8. Carries(f, g)
  BY <1>1, <1>3, <1>7
<1> QED
  BY <1>8 DEF g

\* The place of an entry, even when the inode found is not to be had.
LEMMA dirlookupOff ==
  ASSUME NEW f, Sound(f), NEW dp, Live(f, dp), NEW name
  PROVE  dirlookup(f, dp, name).off \in Nat
<1> DEFINE P == {k \in Entries(f, dp) : CellAt(f, dp, k)[1] = Stored(name)}
<1>1. P \in SUBSET Nat
  BY SizeIs DEF Entries
<1>2. P # {} => Min(P) \in Nat
  BY <1>1, MinIn
<1> QED
  BY <1>2 DEF dirlookup, AmongEntries, Found

-----------------------------------------------------------------------------
(* What the steps are about *)

\* The second inode of a step, and the type that create is asked for.
Fits(x, op) ==
  /\ x.do \in {"linkNew", "unlinkEntry", "createNew"} => x.j \in Inums
  /\ x.do = "createIn" => op \in {"file", "dir"}

\* A lock is let go before the reference, and after the links have been counted.
Follows(x, y) ==
  /\ x.do = "unlock" => y.do = "put" /\ y.i = x.i
  /\ x.do = "unlinked" => y.do = "unlock" /\ y.i = x.i

Aimed(s, op) ==
  \A k \in 1..Len(s) :
    /\ Fits(s[k], op)
    /\ s[k].i \in Inums \/ (k > 1 /\ s[k - 1].do = "walk")
    /\ s[k].do \in {"unlock", "unlinked"} => k < Len(s) /\ Follows(s[k], s[k + 1])

LEMMA AimedEmpty ==
  ASSUME NEW op
  PROVE  Aimed(<<>>, op)
BY SeqLiterals DEF Aimed

LEMMA AimedOne ==
  ASSUME NEW op, NEW x, Fits(x, op), x.i \in Inums, x.do \notin {"unlock", "unlinked"}
  PROVE  Aimed(<<x>>, op)
<1>1. Len(<<x>>) = 1 /\ <<x>>[1] = x
  BY SeqLiterals
<1> DEFINE s == <<x>>
<1> HIDE DEF s
<1>2. \A k \in 1..Len(s) : s[k] = x /\ k = 1
  BY <1>1 DEF s
<1>3. Aimed(s, op)
  BY <1>2 DEF Aimed
<1> QED
  BY <1>3 DEF s

LEMMA AimedCons ==
  ASSUME NEW op, NEW s, IsSeq(s), Aimed(s, op), NEW x, Fits(x, op), x.i \in Inums,
         x.do \in {"unlock", "unlinked"} => s # <<>> /\ Follows(x, s[1])
  PROVE  Aimed(<<x>> \o s, op)
<1> DEFINE t == <<x>> \o s
<1>1. Len(s) \in Nat /\ Len(t) = Len(s) + 1 /\ t[1] = x /\ \A k \in 1..Len(s) : t[k + 1] = s[k]
  BY SeqConsAt
<1>2. s # <<>> => Len(s) >= 1
  BY DEF IsSeq
<1> HIDE DEF t
<1>3. ASSUME NEW k \in 1..Len(t)
      PROVE  /\ Fits(t[k], op)
             /\ t[k].i \in Inums \/ (k > 1 /\ t[k - 1].do = "walk")
             /\ t[k].do \in {"unlock", "unlinked"} => k < Len(t) /\ Follows(t[k], t[k + 1])
  <2>1. CASE k = 1
    <3>1. s # <<>> => t[2] = s[1] /\ 1 < Len(t)
      BY <1>1, <1>2
    <3>2. t[k] = x /\ k + 1 = 2
      BY <1>1, <2>1
    <3> QED
      BY <2>1, <3>1, <3>2
  <2>2. CASE k # 1
    <3> DEFINE l == k - 1
    <3>1. l \in 1..Len(s) /\ k = l + 1 /\ k - 1 = l
      BY <1>1, <2>2
    <3>2. t[k] = s[l] /\ (l < Len(s) => t[k + 1] = s[l + 1] /\ k < Len(t)) /\ (l > 1 => t[k - 1] = s[l - 1])
      <4> HIDE DEF l
      <4>1. t[l + 1] = s[l]
        BY <1>1, <3>1
      <4>2. l < Len(s) => t[(l + 1) + 1] = s[l + 1]
        BY <1>1, <3>1
      <4>3. l > 1 => t[(l - 1) + 1] = s[l - 1]
        BY <1>1, <3>1
      <4> QED
        BY <1>1, <3>1, <4>1, <4>2, <4>3
    <3>3. /\ Fits(s[l], op)
          /\ s[l].i \in Inums \/ (l > 1 /\ s[l - 1].do = "walk")
          /\ s[l].do \in {"unlock", "unlinked"} => l < Len(s) /\ Follows(s[l], s[l + 1])
      BY <3>1 DEF Aimed
    <3> HIDE DEF l
    <3> QED
      BY <3>1, <3>2, <3>3
  <2> QED
    BY <2>1, <2>2
<1>4. Aimed(t, op)
  BY <1>3 DEF Aimed
<1> QED
  BY <1>4 DEF t

\* A walk, and the step that waits for it.
LEMMA AimedWalk ==
  ASSUME NEW op, NEW x, Fits(x, op), x.i \in Inums, x.do = "walk", NEW w, Fits(w, op), w.do \notin {"unlock", "unlinked"}
  PROVE  Aimed(<<x>> \o <<w>>, op)
<1> DEFINE s == <<w>>
           t == <<x>> \o s
<1>1. IsSeq(s) /\ Len(s) = 1 /\ s[1] = w
  BY SeqLiterals
<1> HIDE DEF s
<1>2. Len(t) = 2 /\ t[1] = x /\ t[2] = w
  <2>1. Len(t) = Len(s) + 1 /\ t[1] = x /\ \A k \in 1..Len(s) : t[k + 1] = s[k]
    BY <1>1, SeqConsAt
  <2> HIDE DEF t
  <2>2. t[1 + 1] = s[1]
    BY <1>1, <2>1
  <2> QED
    BY <1>1, <2>1, <2>2
<1> HIDE DEF t
<1>3. \A k \in 1..Len(t) : k = 1 \/ (k = 2 /\ k - 1 = 1)
  BY <1>2
<1>4. Aimed(t, op)
  BY <1>2, <1>3 DEF Aimed
<1> QED
  BY <1>4 DEF t, s

LEMMA AimedHead ==
  ASSUME NEW op, NEW s, IsSeq(s), s # <<>>, Aimed(s, op)
  PROVE  /\ Fits(s[1], op) /\ s[1].i \in Inums
         /\ s[1].do # "walk" => Aimed(Tail(s), op)
         /\ s[1].do \in {"unlock", "unlinked"} => Tail(s) # <<>> /\ Follows(s[1], Tail(s)[1])
         /\ Tail(s) # <<>> => Fits(Tail(s)[1], op)
<1> DEFINE x == s[1]
           r == Tail(s)
<1>1. IsSeq(r) /\ s = <<x>> \o r
  BY SeqUncons
<1>2. Len(r) \in Nat /\ Len(s) = Len(r) + 1 /\ \A k \in 1..Len(r) : s[k + 1] = r[k]
  <2> HIDE DEF x, r
  <2> DEFINE t == <<x>> \o r
  <2>1. Len(r) \in Nat /\ Len(t) = Len(r) + 1 /\ \A k \in 1..Len(r) : t[k + 1] = r[k]
    BY <1>1, SeqConsAt
  <2>2. s = t
    BY <1>1
  <2> HIDE DEF t
  <2> QED
    BY <2>1, <2>2
<1>3. r # <<>> <=> Len(r) > 0
  BY <1>1 DEF IsSeq
<1> HIDE DEF r
<1>4. 1 \in 1..Len(s)
  BY <1>2
<1>5. Fits(x, op) /\ x.i \in Inums /\ (x.do \in {"unlock", "unlinked"} => 1 < Len(s) /\ Follows(x, s[2]))
  <2>1. /\ Fits(s[1], op)
        /\ s[1].i \in Inums \/ (1 > 1 /\ s[1 - 1].do = "walk")
        /\ s[1].do \in {"unlock", "unlinked"} => 1 < Len(s) /\ Follows(s[1], s[1 + 1])
    BY <1>4 DEF Aimed
  <2> QED
    BY <2>1
<1>6. r # <<>> => s[2] = r[1] /\ 2 \in 1..Len(s) /\ Fits(s[2], op)
  <2>1. r # <<>> => s[1 + 1] = r[1] /\ 2 \in 1..Len(s)
    BY <1>2, <1>3
  <2> QED
    BY <2>1 DEF Aimed
<1>7. ASSUME x.do # "walk"
      PROVE  Aimed(r, op)
  <2>1. ASSUME NEW k \in 1..Len(r)
        PROVE  /\ Fits(r[k], op)
               /\ r[k].i \in Inums \/ (k > 1 /\ r[k - 1].do = "walk")
               /\ r[k].do \in {"unlock", "unlinked"} => k < Len(r) /\ Follows(r[k], r[k + 1])
    <3> DEFINE l == k + 1
    <3>1. l \in 1..Len(s) /\ l - 1 = k /\ l > 1
      BY <1>2
    <3>2. s[l] = r[k] /\ (k < Len(r) <=> l < Len(s)) /\ (k < Len(r) => s[l + 1] = r[k + 1])
      BY <1>2
    <3>3. s[l - 1] = IF k > 1 THEN r[k - 1] ELSE x
      <4>1. CASE k = 1
        BY <3>1, <4>1
      <4>2. CASE k # 1
        <5>1. k - 1 \in 1..Len(r) /\ (k - 1) + 1 = k
          BY <1>2, <4>2
        <5>2. s[(k - 1) + 1] = r[k - 1]
          BY <1>2, <5>1
        <5> QED
          BY <3>1, <5>1, <5>2
      <4> QED
        BY <4>1, <4>2
    <3>4. /\ Fits(s[l], op)
          /\ s[l].i \in Inums \/ (l > 1 /\ s[l - 1].do = "walk")
          /\ s[l].do \in {"unlock", "unlinked"} => l < Len(s) /\ Follows(s[l], s[l + 1])
      BY <3>1 DEF Aimed
    <3> HIDE DEF l, x
    <3> QED
      BY <1>7, <3>1, <3>2, <3>3, <3>4
  <2> QED
    BY <2>1 DEF Aimed
<1> QED
  BY <1>3, <1>2, <1>5, <1>6, <1>7 DEF r

LEMMA AimedStep ==
  ASSUME NEW op, NEW s, IsSeq(s), Aimed(s, op), NEW do \in {"put", "free", "drop"}, NEW x \in Inums
  PROVE  Aimed(<<S(do, x)>> \o s, op)
<1> DEFINE y == S(do, x)
<1>1. y.do = do /\ y.i = x /\ y.j = 0
  BY StepFields
<1> HIDE DEF y
<1>2. Fits(y, op) /\ y.i \in Inums /\ y.do \notin {"unlock", "unlinked"}
  BY <1>1 DEF Fits
<1>3. Aimed(<<y>> \o s, op)
  BY <1>2, AimedCons
<1> QED
  BY <1>3 DEF y

LEMMA AimedLast ==
  ASSUME NEW op, NEW do, do \notin {"unlock", "unlinked", "linkNew", "unlinkEntry", "createNew", "createIn"}, NEW x \in Inums
  PROVE  Aimed(<<S(do, x)>>, op)
<1> DEFINE y == S(do, x)
<1>1. y.do = do /\ y.i = x /\ y.j = 0
  BY StepFields
<1> HIDE DEF y
<1>2. Fits(y, op) /\ y.i \in Inums /\ y.do \notin {"unlock", "unlinked"}
  BY <1>1 DEF Fits
<1>3. Aimed(<<y>>, op)
  BY <1>2, AimedOne
<1> QED
  BY <1>3 DEF y

LEMMA AimedLast2 ==
  ASSUME NEW op, NEW do \in {"unlinkEntry", "createNew"}, NEW x \in Inums, NEW z \in Inums
  PROVE  Aimed(<<S2(do, x, z)>>, op)
<1> DEFINE y == S2(do, x, z)
<1>1. y.do = do /\ y.i = x /\ y.j = z
  BY Step2Fields
<1> HIDE DEF y
<1>2. Fits(y, op) /\ y.i \in Inums /\ y.do \notin {"unlock", "unlinked"}
  BY <1>1 DEF Fits
<1>3. Aimed(<<y>>, op)
  BY <1>2, AimedOne
<1> QED
  BY <1>3 DEF y

LEMMA AimedUnlocks ==
  ASSUME NEW op, NEW s, IsSeq(s), Aimed(s, op), NEW x \in Inums
  PROVE  Aimed(iunlockput(x) \o s, op) /\ (iunlockput(x) \o s)[1] = S("unlock", x)
<1> DEFINE lets == "unlock"
           puts == "put"
           u == S(lets, x)
           v == S(puts, x)
           t == <<v>> \o s
<1>1. u.do = lets /\ u.i = x /\ u.j = 0 /\ v.do = puts /\ v.i = x /\ v.j = 0
  BY StepFields
<1>2. iunlockput(x) \o s = <<u>> \o t
  BY SeqPair DEF iunlockput
<1>3. lets = "unlock" /\ puts = "put" /\ puts \in {"put", "free", "drop"}
  OBVIOUS
<1> HIDE DEF lets, puts
<1>4. Aimed(t, op)
  BY <1>3, AimedStep
<1> HIDE DEF u, v
<1>5. IsSeq(t) /\ t[1] = v /\ t # <<>>
  BY SeqConsIs, SeqConsAt, SeqConsTail
<1> HIDE DEF t
<1>6. Fits(u, op) /\ u.i \in Inums /\ Follows(u, t[1])
  BY <1>1, <1>3, <1>5 DEF Fits, Follows
<1>7. Aimed(<<u>> \o t, op)
  BY <1>4, <1>5, <1>6, AimedCons
<1>8. (<<u>> \o t)[1] = u
  BY <1>5, SeqConsAt
<1> QED
  BY <1>2, <1>7, <1>8 DEF u, lets

LEMMA AimedUnlocksLast ==
  ASSUME NEW op, NEW x \in Inums
  PROVE  Aimed(iunlockput(x), op) /\ iunlockput(x)[1] = S("unlock", x) /\ iunlockput(x) # <<>>
<1> DEFINE e == <<>>
           t == iunlockput(x)
<1>1. t \o e = t /\ t # <<>>
  BY DEF iunlockput
<1>2. IsSeq(e) /\ Aimed(e, op)
  BY AimedEmpty, SeqLiterals
<1> HIDE DEF e
<1>3. Aimed(iunlockput(x) \o e, op) /\ (iunlockput(x) \o e)[1] = S("unlock", x)
  BY <1>2, AimedUnlocks
<1> QED
  BY <1>1, <1>3

\* The step that waits for a walk.
LEMMA AimedGiven ==
  ASSUME NEW op, NEW w, IsStep(w), Waits(w), Fits(w, op), NEW ip \in Inums \cup {0}
  PROVE  Aimed(Given(<<w>>, ip), op) /\ IsSeq(Given(<<w>>, ip))
<1>0. IsSeq(Given(<<w>>, ip))
  BY GivenSeq
<1>1. CASE ip # 0
  <2> DEFINE x == [w EXCEPT !.i = ip]
  <2>1. Given(<<w>>, ip) = <<x>>
    <3>1. <<w>>[1] = w /\ Tail(<<w>>) = <<>> /\ <<x>> \o <<>> = <<x>>
      BY SeqLiterals
    <3> QED
      BY <1>1, <3>1 DEF Given
  <2>2. x.do = w.do /\ x.i = ip /\ x.j = w.j
    BY DEF IsStep
  <2> HIDE DEF x
  <2>3. Fits(x, op) /\ x.i \in Inums /\ x.do \notin {"unlock", "unlinked"}
    BY <1>1, <2>2 DEF Fits, Waits
  <2> QED
    BY <1>0, <2>1, <2>3, AimedOne
<1>2. CASE ip = 0 /\ w.do = "linkNew"
  <2> DEFINE do == "bad"
  <2>1. Given(<<w>>, ip) = <<S(do, w.j)>>
    <3>1. <<w>>[1] = w
      BY SeqLiterals
    <3> QED
      BY <1>2, <3>1 DEF Given
  <2>2. w.j \in Inums /\ do \notin {"unlock", "unlinked", "linkNew", "unlinkEntry", "createNew", "createIn"}
    BY <1>2 DEF Fits
  <2> HIDE DEF do
  <2> QED
    BY <1>0, <2>1, <2>2, AimedLast
<1>3. CASE ip = 0 /\ w.do # "linkNew"
  <2>1. Given(<<w>>, ip) = <<>>
    <3>1. <<w>>[1] = w
      BY SeqLiterals
    <3> QED
      BY <1>3, <3>1 DEF Given
  <2> QED
    BY <1>0, <2>1, AimedEmpty
<1> QED
  BY <1>1, <1>2, <1>3

LEMMA AimedGoes ==
  ASSUME NEW op, NEW w, IsStep(w), Waits(w), Fits(w, op), NEW ip \in Inums, NEW names
  PROVE  Aimed(Goes(ip, names, <<w>>), op) /\ IsSeq(Goes(ip, names, <<w>>))
<1>0. IsSeq(Goes(ip, names, <<w>>))
  BY GoesSeq
<1>1. CASE names # <<>>
  <2> DEFINE do == "walk"
             y == S(do, ip)
             x == [y EXCEPT !.names = names]
  <2>1. Goes(ip, names, <<w>>) = <<x>> \o <<w>>
    BY <1>1 DEF Goes
  <2>2. IsStep(y) /\ y.do = do /\ y.i = ip /\ y.j = 0
    BY StepFields
  <2> HIDE DEF y
  <2>3. x.do = "walk" /\ x.i = ip /\ x.j = 0
    BY <2>2 DEF IsStep
  <2> HIDE DEF x, do
  <2>4. Fits(x, op) /\ x.i \in Inums /\ w.do \notin {"unlock", "unlinked"}
    BY <2>3 DEF Fits, Waits
  <2>5. Aimed(<<x>> \o <<w>>, op)
    BY <2>3, <2>4, AimedWalk
  <2> QED
    BY <1>0, <2>1, <2>5
<1>2. CASE names = <<>>
  <2> DEFINE do == "put"
             z == 0
             g == Given(<<w>>, z)
  <2>1. do \in {"put", "free", "drop"} /\ z \in Inums \cup {0}
    OBVIOUS
  <2>2. Goes(ip, names, <<w>>) = <<S(do, ip)>> \o g \/ Goes(ip, names, <<w>>) = Given(<<w>>, ip)
    BY <1>2 DEF Goes
  <2> HIDE DEF do, z
  <2>3. Aimed(g, op) /\ IsSeq(g)
    BY <2>1, AimedGiven
  <2> HIDE DEF g
  <2>4. Aimed(<<S(do, ip)>> \o g, op)
    BY <2>1, <2>3, AimedStep
  <2>5. Aimed(Given(<<w>>, ip), op)
    BY AimedGiven
  <2> QED
    BY <1>0, <2>2, <2>4, <2>5
<1> QED
  BY <1>1, <1>2

\* A step that is to let a lock go means a reference held, its own or the next one's.
LEMMA LetsHolds ==
  ASSUME NEW op, NEW s, IsSeq(s), Aimed(s, op), NEW i \in Inums, Lets(s, i) # 0
  PROVE  Count(s, i) > 0
<1>1. Len(s) \in Nat /\ DOMAIN s = 1..Len(s)
  BY DEF IsSeq
<1>2. {k \in DOMAIN s : Releases(s[k], i)} # {}
  BY FS_EmptySet DEF Lets
<1>3. PICK k \in 1..Len(s) : Releases(s[k], i)
  BY <1>1, <1>2
<1>4. \E l \in 1..Len(s) : Needs(s[l], i) \/ s[l].j = i
  <2>1. CASE s[k].do = "unlock" /\ s[k].i = i
    <3>1. k < Len(s) /\ Follows(s[k], s[k + 1])
      BY <2>1 DEF Aimed
    <3>2. k + 1 \in 1..Len(s) /\ Needs(s[k + 1], i)
      BY <1>1, <2>1, <3>1 DEF Follows, Needs
    <3> QED
      BY <3>2
  <2>2. CASE ~(s[k].do = "unlock" /\ s[k].i = i)
    <3>1. Needs(s[k], i) \/ s[k].j = i
      BY <1>3, <2>2 DEF Releases, Needs
    <3> QED
      BY <3>1
  <2> QED
    BY <2>1, <2>2
<1>5. PICK l \in 1..Len(s) : Needs(s[l], i) \/ s[l].j = i
  BY <1>4
<1> DEFINE r == Reverse(s)
           m == Len(s) - l + 1
<1>6. m \in DOMAIN r /\ r[m] = s[l]
  BY <1>1 DEF Reverse
<1> HIDE DEF r
<1>7. Places(r, i) # {}
  BY <1>5, <1>6 DEF Places
<1>8. IsFiniteSet(Places(r, i)) /\ Count(s, i) \in Nat
  BY PlacesFinite DEF r
<1>9. Count(s, i) # 0
  BY <1>7, <1>8, FS_EmptySet DEF Count, r
<1> QED
  BY <1>8, <1>9

-----------------------------------------------------------------------------
(* The disk is in order *)

\* Who has which lock, and what it is of.
OwnersIn(own, f) == \A i \in Inums : own[i] \in Procs \cup {0} /\ (own[i] # 0 => i \in f.valid)

SoundInv ==
  ~fs.panic =>
    /\ Sound(fs) /\ OwnersIn(owner, fs)
    /\ \A p \in Procs : Aimed(todo[p], call[p].op) /\ open[p] \in Inums \cup {0}

AllInv == IndInv /\ LockInv /\ SoundInv

LEMMA RefersCwd ==
  ASSUME IndInv, ~fs.panic
  PROVE  cwd \in Inums /\ fs.ref[cwd] > 0
<1>1. cwd \in Inums
  BY Sizes DEF cwd, ROOTINO, Inums
<1> DEFINE i == cwd
           F == [p \in Procs |-> Held(p, i)]
<1>2. \A p \in Procs : IsFiniteSet(F[p])
  <2>1. \A p \in Procs : IsSeq(todo[p])
    BY DEF IndInv, ControlInv, Planned
  <2>2. \A p \in Procs : Held(p, i) = HeldBy(todo[p], open[p], i)
    BY HeldIs
  <2> HIDE DEF i
  <2> QED
    BY <2>1, <2>2, HeldByCount
<1>3. Cardinality(UNION {{p} \X Held(p, i) : p \in Procs}) \in Nat
  <2>1. CASE Procs = {}
    <3>1. UNION {{p} \X Held(p, i) : p \in Procs} = {}
      BY <2>1
    <3> QED
      BY <3>1, FS_EmptySet
  <2>2. CASE Procs # {}
    <3>1. PICK p \in Procs : TRUE
      BY <2>2
    <3>2. UNION {{q} \X F[q] : q \in Procs} = UNION {{q} \X Held(q, i) : q \in Procs}
      OBVIOUS
    <3> HIDE DEF F
    <3>3. Cardinality(UNION {{q} \X F[q] : q \in Procs}) \in Nat
      BY <1>2, <3>1, Split
    <3> QED
      BY <3>2, <3>3
  <2> QED
    BY <2>1, <2>2
<1>4. fs.ref[i] = Cardinality(UNION {{p} \X Held(p, i) : p \in Procs}) + 1
  BY <1>1 DEF IndInv, ReferencesHeld
<1> QED
  BY <1>1, <1>3, <1>4

LEMMA Refers ==
  ASSUME IndInv, ~fs.panic, NEW p \in Procs, NEW i \in Inums, Count(todo[p], i) > 0
  PROVE  fs.ref[i] > 0
<1> DEFINE F == [q \in Procs |-> Held(q, i)]
<1>1. \A q \in Procs : IsSeq(todo[q]) /\ Held(q, i) = HeldBy(todo[q], open[q], i)
  BY HeldIs DEF IndInv, ControlInv, Planned
<1>2. \A q \in Procs : IsFiniteSet(F[q])
  BY <1>1, HeldByCount
<1>3. Cardinality(F[p]) = Own(todo[p], open[p], i) /\ Own(todo[p], open[p], i) \in Nat
  BY <1>1, HeldByCount
<1>4. Count(todo[p], i) \in Nat
  BY <1>1, PlacesFinite
<1>5. Own(todo[p], open[p], i) > 0
  BY <1>4 DEF Own
<1>6. UNION {{q} \X F[q] : q \in Procs} = UNION {{q} \X Held(q, i) : q \in Procs}
  OBVIOUS
<1> HIDE DEF F
<1>7. /\ Cardinality(UNION {{q} \X F[q] : q \in Procs \ {p}}) \in Nat
      /\ Cardinality(UNION {{q} \X F[q] : q \in Procs}) = Cardinality(UNION {{q} \X F[q] : q \in Procs \ {p}}) + Cardinality(F[p])
  BY <1>2, Split
<1>8. Cardinality(UNION {{q} \X F[q] : q \in Procs}) > 0 /\ Cardinality(UNION {{q} \X F[q] : q \in Procs}) \in Nat
  BY <1>3, <1>5, <1>7
<1>9. fs.ref[i] = Cardinality(UNION {{q} \X F[q] : q \in Procs}) + (IF i = cwd THEN 1 ELSE 0)
  BY <1>6 DEF IndInv, ReferencesHeld
<1> QED
  BY <1>8, <1>9

\* An inode that is locked is referenced, and has been read.
LEMMA Owned ==
  ASSUME AllInv, ~fs.panic, NEW i \in Inums, owner[i] # 0
  PROVE  Live(fs, i)
<1>1. owner[i] \in Procs /\ i \in fs.valid
  BY DEF AllInv, SoundInv, OwnersIn
<1> DEFINE p == owner[i]
<1>2. Lets(todo[p], i) = 1
  BY <1>1 DEF AllInv, LockInv, LocksHeld, Lets
<1>3. IsSeq(todo[p]) /\ Aimed(todo[p], call[p].op)
  BY <1>1 DEF AllInv, IndInv, ControlInv, Planned, SoundInv
<1>4. Count(todo[p], i) > 0
  BY <1>2, <1>3, LetsHolds
<1>5. fs.ref[i] > 0
  BY <1>1, <1>4, Refers DEF AllInv
<1> QED
  BY <1>1, <1>5 DEF Live

LEMMA SoundStep ==
  ASSUME AllInv, ~fs.panic, NEW p \in Procs, NEW s, NEW o, NEW c,
         todo' = [todo EXCEPT ![p] = s], open' = [open EXCEPT ![p] = o], call' = [call EXCEPT ![p] = c],
         ~fs'.panic => Sound(fs') /\ OwnersIn(owner', fs') /\ Aimed(s, c.op) /\ o \in Inums \cup {0}
  PROVE  SoundInv'
<1>1. todo = [q \in Procs |-> todo[q]] /\ call = [q \in Procs |-> call[q]] /\ open = [q \in Procs |-> open[q]]
  BY DEF AllInv, IndInv, ControlInv
<1>2. ASSUME ~fs'.panic, NEW q \in Procs
      PROVE  Aimed(todo'[q], call'[q].op) /\ open'[q] \in Inums \cup {0}
  <2>1. CASE q = p
    <3>1. todo'[q] = s /\ call'[q] = c /\ open'[q] = o
      BY <1>1, <2>1
    <3> QED
      BY <1>2, <3>1
  <2>2. CASE q # p
    <3>1. todo'[q] = todo[q] /\ call'[q] = call[q] /\ open'[q] = open[q]
      BY <1>1, <2>2
    <3>2. Aimed(todo[q], call[q].op) /\ open[q] \in Inums \cup {0}
      BY DEF AllInv, SoundInv
    <3> QED
      BY <3>1, <3>2
  <2> QED
    BY <2>1, <2>2
<1> QED
  BY <1>2 DEF SoundInv

\* The step of a call.
LEMMA SoundAct ==
  ASSUME AllInv, ~fs.panic, NEW p \in Procs, NEW f, NEW s, Does(p, f, s), UNCHANGED open,
         ~f.panic => Sound(f) /\ OwnersIn(owner', f) /\ Aimed(s, call[p].op)
  PROVE  SoundInv'
<1>1. fs' = f /\ todo' = [todo EXCEPT ![p] = s] /\ call' = call
  BY DEF Does
<1>2. call = [call EXCEPT ![p] = call[p]] /\ open = [open EXCEPT ![p] = open[p]]
  BY DEF AllInv, IndInv, ControlInv
<1>3. open[p] \in Inums \cup {0}
  BY DEF AllInv, SoundInv
<1>4. call' = [call EXCEPT ![p] = call[p]] /\ open' = [open EXCEPT ![p] = open[p]]
  BY <1>1, <1>2
<1> DEFINE c == call[p]
           o == open[p]
<1>5. call' = [call EXCEPT ![p] = c] /\ open' = [open EXCEPT ![p] = o] /\ o \in Inums \cup {0}
  BY <1>3, <1>4
<1>6. ~fs'.panic => Sound(fs') /\ OwnersIn(owner', fs') /\ Aimed(s, c.op)
  BY <1>1
<1> HIDE DEF c, o
<1> QED
  BY <1>1, <1>5, <1>6, SoundStep

LEMMA OwnersStay ==
  ASSUME AllInv, ~fs.panic, NEW f, Stays(fs, f), UNCHANGED owner
  PROVE  OwnersIn(owner', f)
<1>1. \A i \in Inums : owner[i] \in Procs \cup {0}
  BY DEF AllInv, SoundInv, OwnersIn
<1>2. \A i \in Inums : owner[i] # 0 => i \in f.valid
  BY Owned DEF Stays, Live
<1> QED
  BY <1>1, <1>2 DEF OwnersIn

LEMMA OwnersTake ==
  ASSUME AllInv, ~fs.panic, NEW f, Stays(fs, f), NEW p \in Procs, NEW i, Locks(p, i), Live(f, i)
  PROVE  OwnersIn(owner', f)
<1>1. \A k \in Inums : owner[k] \in Procs \cup {0}
  BY DEF AllInv, SoundInv, OwnersIn
<1>2. \A k \in Inums : owner[k] # 0 => k \in f.valid
  BY Owned DEF Stays, Live
<1>3. owner' = [owner EXCEPT ![i] = p] /\ owner = [k \in Inums |-> owner[k]]
  BY DEF Locks, AllInv, LockInv
<1>4. ASSUME NEW k \in Inums
      PROVE  owner'[k] \in Procs \cup {0} /\ (owner'[k] # 0 => k \in f.valid)
  <2>1. CASE k = i
    BY <1>3, <2>1 DEF Live
  <2>2. CASE k # i
    BY <1>1, <1>2, <1>3, <2>2
  <2> QED
    BY <2>1, <2>2
<1> QED
  BY <1>4 DEF OwnersIn

LEMMA OwnersLetGo ==
  ASSUME AllInv, ~fs.panic, NEW f, NEW i, Unlocks(i), \A k \in Inums : k # i /\ k \in fs.valid => k \in f.valid
  PROVE  OwnersIn(owner', f)
<1>1. \A k \in Inums : owner[k] \in Procs \cup {0} /\ (owner[k] # 0 => k \in fs.valid)
  BY DEF AllInv, SoundInv, OwnersIn
<1>3. owner' = [owner EXCEPT ![i] = 0] /\ owner = [k \in Inums |-> owner[k]]
  BY DEF Unlocks, AllInv, LockInv
<1>4. ASSUME NEW k \in Inums
      PROVE  owner'[k] \in Procs \cup {0} /\ (owner'[k] # 0 => k \in f.valid)
  <2>1. CASE k = i
    BY <1>3, <2>1
  <2>2. CASE k # i
    BY <1>1, <1>3, <2>2
  <2> QED
    BY <2>1, <2>2
<1> QED
  BY <1>4 DEF OwnersIn

\* A step that changes the file system and keeps what is live, with the lock of i or without.
LEMMA SoundTakes ==
  ASSUME AllInv, ~fs.panic, NEW p \in Procs, NEW f, NEW s, Does(p, f, s), UNCHANGED open, NEW i, Locks(p, i),
         ~f.panic => Sound(f) /\ Stays(fs, f) /\ Live(f, i) /\ Aimed(s, call[p].op)
  PROVE  SoundInv'
<1>1. ~f.panic => OwnersIn(owner', f)
  BY OwnersTake
<1> QED
  BY <1>1, SoundAct

LEMMA SoundVisits ==
  ASSUME AllInv, ~fs.panic, NEW p \in Procs, NEW f, NEW s, Does(p, f, s), UNCHANGED open, UNCHANGED owner,
         ~f.panic => Sound(f) /\ Stays(fs, f) /\ Aimed(s, call[p].op)
  PROVE  SoundInv'
<1>1. ~f.panic => OwnersIn(owner', f)
  BY OwnersStay
<1> QED
  BY <1>1, SoundAct

LEMMA Aims ==
  ASSUME AllInv, NEW p \in Procs, NEW do, Head1(p, do)
  PROVE  /\ IndInv /\ LockInv /\ ~fs.panic /\ Runs(fs) /\ todo[p][1].do = do /\ todo[p][1].i \in Inums /\ Fits(todo[p][1], call[p].op)
         /\ IsSeq(Rest(p)) /\ (do # "walk" => Aimed(Rest(p), call[p].op))
         /\ do = "walk" => Rest(p) = <<Rest(p)[1]>> /\ Waits(Rest(p)[1]) /\ IsStep(Rest(p)[1]) /\ Fits(Rest(p)[1], call[p].op)
         /\ do \in {"unlock", "unlinked"} => Rest(p) # <<>> /\ Follows(todo[p][1], Rest(p)[1])
<1>1. IndInv /\ LockInv /\ ~fs.panic /\ todo[p] # <<>> /\ todo[p][1].do = do
  BY DEF AllInv, Head1
<1>2. IsSeq(todo[p]) /\ Aimed(todo[p], call[p].op)
  BY <1>1 DEF IndInv, ControlInv, Planned, AllInv, SoundInv
<1>3. Runs(fs)
  BY <1>1, CountedNow DEF AllInv, SoundInv, Runs
<1>4. Planned(Rest(p), call[p].op, open[p]) /\ (do = "walk" => Rest(p) = <<Rest(p)[1]>> /\ Waits(Rest(p)[1]))
  BY <1>1, Heads
<1>5. IsSeq(Rest(p)) /\ (do = "walk" => IsStep(Rest(p)[1]))
  <2>1. do = "walk" => Len(Rest(p)) = 1
    <3>1. ASSUME do = "walk"
          PROVE  Len(Rest(p)) = 1
      <4> DEFINE w == Rest(p)[1]
      <4>1. Rest(p) = <<w>>
        BY <1>4, <3>1
      <4> HIDE DEF w
      <4> QED
        BY <4>1, SeqLiterals
    <3> QED
      BY <3>1
  <2> QED
    BY <1>4, <2>1 DEF Planned
<1> DEFINE s == todo[p]
           op == call[p].op
<1>6. s # <<>> /\ IsSeq(s) /\ Aimed(s, op) /\ Rest(p) = Tail(s) /\ s[1].do = do
  BY <1>1, <1>2 DEF Rest
<1> HIDE DEF s, op
<1>7. /\ Fits(s[1], op) /\ s[1].i \in Inums
      /\ s[1].do # "walk" => Aimed(Tail(s), op)
      /\ s[1].do \in {"unlock", "unlinked"} => Tail(s) # <<>> /\ Follows(s[1], Tail(s)[1])
      /\ Tail(s) # <<>> => Fits(Tail(s)[1], op)
  BY <1>6, AimedHead
<1>8. do = "walk" => Tail(s) # <<>>
  <2> DEFINE w == Rest(p)[1]
  <2>1. do = "walk" => Tail(s) = <<w>>
    BY <1>4, <1>6
  <2> HIDE DEF w
  <2> QED
    BY <2>1, SeqLiterals
<1> QED
  BY <1>1, <1>3, <1>4, <1>5, <1>6, <1>7, <1>8 DEF s, op

\* A lookup in a locked directory.
LEMMA LooksUp ==
  ASSUME NEW f, Runs(f), NEW i \in Inums, NEW name, NEW g, g = ilock(f, i), NEW d, d = dirlookup(g, i, name), ~d.fs.panic
  PROVE  Runs(g) /\ Live(g, i) /\ Finds(g, d) /\ Sound(d.fs) /\ Stays(f, d.fs) /\ Live(d.fs, i) /\ d.ip \in Inums \cup {0} /\ Runs(d.fs)
<1>1. Carries(f, g) /\ (~g.panic => Live(g, i))
  BY ilockCarries
<1>2. Counted(g)
  BY <1>1 DEF Carries, Keeps, Runs, Counted
<1>3. Moves(g, d.fs, d.ip, 1)
  BY <1>2, dirlookupMoves
<1>4. ~g.panic /\ Counted(d.fs)
  BY <1>2, <1>3, MovesCounted DEF Moves
<1>5. Runs(g) /\ Live(g, i) /\ Stays(f, g)
  BY <1>1, <1>4 DEF Carries
<1>6. Finds(g, d)
  BY <1>5, dirlookupFinds DEF Runs
<1>7. Sound(d.fs) /\ Stays(g, d.fs) /\ d.ip \in Inums \cup {0}
  BY <1>6 DEF Finds
<1>8. Stays(f, d.fs) /\ Live(d.fs, i)
  BY <1>5, <1>7, StaysBoth DEF Stays
<1> QED
  BY <1>4, <1>5, <1>6, <1>7, <1>8 DEF Runs

LEMMA WalkSound ==
  ASSUME AllInv, NEW p \in Procs, namex1(p)
  PROVE  SoundInv'
<1> DEFINE i == todo[p][1].i
           names == todo[p][1].names
           f == ilock(fs, i)
           d == dirlookup(f, i, names[1])
           w == Rest(p)[1]
           op == call[p].op
           t == IF d.ip = 0 THEN Given(Rest(p), 0) ELSE Goes(d.ip, Tail(names), Rest(p))
           g == d.fs
           s == iunlockput(i) \o t
           v == iunlockput(i) \o Given(Rest(p), 0)
           x == Given(Rest(p), i)
<1>1. Head1(p, "walk") /\ UNCHANGED open
  BY DEF namex1
<1>2. ~fs.panic /\ Runs(fs) /\ i \in Inums /\ Rest(p) = <<w>> /\ Waits(w) /\ IsStep(w) /\ Fits(w, op)
  BY <1>1, Aims
<1>3. ~f.panic => Sound(f) /\ Stays(fs, f) /\ Live(f, i)
  BY <1>2, ilockCarries DEF Carries, Runs
<1>4. ~g.panic => Sound(g) /\ Stays(fs, g) /\ Live(g, i) /\ d.ip \in Inums \cup {0}
  <2> HIDE DEF i
  <2> QED
    BY <1>2, LooksUp
<1>5. \/ Locks(p, i) /\ Does(p, f, v)
      \/ UNCHANGED owner /\ Does(p, f, x)
      \/ Locks(p, i) /\ Does(p, g, s)
  BY DEF namex1, Visits
<1> HIDE DEF w, f, g, op, i
<1>6. \A ip \in Inums \cup {0} : Aimed(Given(Rest(p), ip), op) /\ IsSeq(Given(Rest(p), ip))
  BY <1>2, AimedGiven
<1>7. Aimed(v, op) /\ Aimed(x, op)
  BY <1>2, <1>6, AimedUnlocks
<1>8. d.ip \in Inums \cup {0} => Aimed(s, op)
  <2>1. ASSUME d.ip \in Inums \cup {0}
        PROVE  IsSeq(t) /\ Aimed(t, op)
    <3>1. CASE d.ip = 0
      BY <1>6, <3>1
    <3>2. CASE d.ip # 0
      BY <1>2, <2>1, <3>2, AimedGoes
    <3> QED
      BY <3>1, <3>2
  <2> HIDE DEF t, d
  <2> QED
    BY <1>2, <2>1, AimedUnlocks
<1> HIDE DEF s, v, x, d
<1>9. CASE Locks(p, i) /\ Does(p, f, v)
  BY <1>1, <1>2, <1>3, <1>7, <1>9, SoundTakes DEF op
<1>10. CASE UNCHANGED owner /\ Does(p, f, x)
  BY <1>1, <1>2, <1>3, <1>7, <1>10, SoundVisits DEF op
<1>11. CASE Locks(p, i) /\ Does(p, g, s)
  BY <1>1, <1>2, <1>4, <1>8, <1>11, SoundTakes DEF op
<1> QED
  BY <1>5, <1>9, <1>10, <1>11

LEMMA PutSound ==
  ASSUME AllInv, NEW p \in Procs, iunlock(p) \/ IputLooks(p) \/ IputFrees(p) \/ IputDrops(p)
  PROVE  SoundInv'
<1> DEFINE i == todo[p][1].i
           op == call[p].op
           r == Rest(p)
<1>0. (Sound(fs) /\ Stays(fs, fs)) \/ fs.panic
  BY DEF AllInv, SoundInv, Stays
<1>1. CASE iunlock(p)
  <2> DEFINE f == Unlocked(p, i)
  <2>1. Head1(p, "unlock") /\ UNCHANGED open /\ Unlocks(i) /\ Does(p, f, r)
    BY <1>1 DEF iunlock, Unlocks
  <2>2. ~fs.panic /\ Aimed(r, op) /\ IsFS(fs)
    BY <2>1, Aims DEF Runs, Counted
  <2>3. ~f.panic => f = fs
    BY <2>2, PanicsKeeps DEF Unlocked
  <2> HIDE DEF f, i, r
  <2>4. ~f.panic => OwnersIn(owner', f)
    BY <2>1, <2>2, <2>3, OwnersLetGo
  <2> QED
    BY <1>0, <2>1, <2>2, <2>3, <2>4, SoundAct
<1>2. CASE IputLooks(p)
  <2>1. Head1(p, "put") /\ UNCHANGED open
    BY <1>2 DEF IputLooks
  <2>2. ~fs.panic /\ Aimed(r, op) /\ IsSeq(r) /\ i \in Inums
    BY <2>1, Aims
  <2>3. PICK do \in {"free", "drop"} : Does(p, fs, <<S(do, i)>> \o r) /\ (UNCHANGED owner \/ (Locks(p, i) /\ LastUse(fs, i)))
    BY <1>2 DEF IputLooks, Visits
  <2> DEFINE s == <<S(do, i)>> \o r
  <2>4. do \in {"put", "free", "drop"}
    OBVIOUS
  <2> HIDE DEF i, r, op
  <2>5. Aimed(s, op)
    BY <2>2, <2>4, AimedStep
  <2>6. LastUse(fs, i) => Live(fs, i)
    BY <2>2 DEF LastUse, NoLinks, Live
  <2> HIDE DEF s
  <2>7. CASE UNCHANGED owner
    BY <1>0, <2>1, <2>2, <2>3, <2>5, <2>7, SoundVisits DEF s, op
  <2>8. CASE Locks(p, i) /\ LastUse(fs, i)
    BY <1>0, <2>1, <2>2, <2>3, <2>5, <2>6, <2>8, SoundTakes DEF s, op
  <2> QED
    BY <2>3, <2>7, <2>8
<1>3. CASE IputFrees(p)
  <2> DEFINE f == Frees(fs, i)
             do == "drop"
             s == <<S(do, i)>> \o r
  <2>1. Head1(p, "free") /\ UNCHANGED open /\ Unlocks(i) /\ Does(p, f, s)
    BY <1>3 DEF IputFrees, Unlocks
  <2>2. ~fs.panic /\ Aimed(r, op) /\ IsSeq(r) /\ i \in Inums /\ Sound(fs)
    BY <2>1, Aims DEF Runs
  <2>3. Live(fs, i)
    <3>1. Releases(todo[p][1], i)
      BY <2>1, <2>2 DEF Releases, Head1
    <3>2. Lets(todo[p], i) # 0
      BY <2>1, <2>2, <3>1, HeadLets DEF AllInv
    <3>3. owner[i] = p
      BY <2>2, <3>2 DEF AllInv, LockInv, LocksHeld, Lets
    <3>4. owner[i] # 0
      BY <3>3, InodesAssumption
    <3> QED
      BY <2>2, <3>4, Owned
  <2>4. Sound(f) /\ f.valid = fs.valid \ {i}
    BY <2>2, <2>3, FreesSound
  <2> HIDE DEF f, i, r, op
  <2>5. OwnersIn(owner', f)
    BY <2>1, <2>2, <2>4, OwnersLetGo
  <2>6. do \in {"put", "free", "drop"}
    OBVIOUS
  <2> HIDE DEF do
  <2>7. Aimed(s, op)
    BY <2>2, <2>6, AimedStep
  <2> HIDE DEF s
  <2> QED
    BY <2>1, <2>2, <2>4, <2>5, <2>7, SoundAct DEF op
<1>4. CASE IputDrops(p)
  <2> DEFINE f == Drops(fs, i)
  <2>1. Head1(p, "drop") /\ UNCHANGED <<open, owner>> /\ Does(p, f, r)
    BY <1>4 DEF IputDrops
  <2>2. ~fs.panic /\ Aimed(r, op) /\ i \in Inums /\ Sound(fs)
    BY <2>1, Aims DEF Runs
  <2>3. Sound(f) /\ f.valid = fs.valid
    BY <2>2, DropsSound
  <2> HIDE DEF f, i, r
  <2>4. OwnersIn(owner', f)
    BY <2>1, <2>2, <2>3 DEF OwnersIn, AllInv, SoundInv
  <2> QED
    BY <2>1, <2>2, <2>3, <2>4, SoundAct
<1> QED
  BY <1>1, <1>2, <1>3, <1>4

LEMMA LetsOwns ==
  ASSUME AllInv, ~fs.panic, NEW p \in Procs, NEW i \in Inums, Lets(todo[p], i) # 0
  PROVE  Live(fs, i)
<1>1. owner[i] = p
  BY DEF AllInv, LockInv, LocksHeld, Lets
<1>2. owner[i] # 0
  BY <1>1, InodesAssumption
<1> QED
  BY <1>2, Owned

\* The lock that the next step, or the one after it, is to let go.
LEMMA HeadOwns ==
  ASSUME AllInv, NEW p \in Procs, NEW do, Head1(p, do), NEW i \in Inums,
         Releases(todo[p][1], i) \/ (Rest(p) # <<>> /\ Releases(Rest(p)[1], i))
  PROVE  Live(fs, i)
<1>1. /\ ~fs.panic /\ IsSeq(Rest(p)) /\ Lets(Rest(p), i) \in Nat
      /\ Lets(todo[p], i) = (IF Releases(todo[p][1], i) THEN 1 ELSE 0) + Lets(Rest(p), i)
  BY HeadLets DEF AllInv
<1>2. CASE Releases(todo[p][1], i)
  BY <1>1, <1>2, LetsOwns
<1>3. CASE Rest(p) # <<>> /\ Releases(Rest(p)[1], i)
  <2> DEFINE s == Rest(p)
             x == s[1]
             r == Tail(s)
  <2>1. s = <<x>> \o r /\ IsSeq(r)
    BY <1>1, <1>3, SeqUncons
  <2>2. Releases(x, i)
    BY <1>3
  <2> HIDE DEF s, x, r
  <2>3. Lets(<<x>> \o r, i) = (IF Releases(x, i) THEN 1 ELSE 0) + Lets(r, i) /\ Lets(r, i) \in Nat
    BY <2>1, LetsCons, LetsFinite
  <2>4. Lets(s, i) # 0
    BY <2>1, <2>2, <2>3
  <2>5. Lets(todo[p], i) # 0
    BY <1>1, <2>4 DEF s
  <2> QED
    BY <1>1, <2>5, LetsOwns
<1> QED
  BY <1>2, <1>3

LEMMA OpenSound ==
  ASSUME AllInv, NEW p \in Procs, sys_open(p)
  PROVE  SoundInv'
<1> DEFINE i == todo[p][1].i
           f == ilock(fs, i)
           s == <<>>
           c == call[p]
<1>1. Head1(p, "opened") /\ UNCHANGED owner /\ Does(p, f, s) /\ open' = [open EXCEPT ![p] = i]
  BY DEF sys_open, Visits
<1>2. ~fs.panic /\ Runs(fs) /\ i \in Inums
  BY <1>1, Aims
<1>3. ~f.panic => Sound(f) /\ Stays(fs, f)
  BY <1>2, ilockCarries DEF Carries, Runs
<1>4. Aimed(s, c.op)
  BY AimedEmpty
<1>5. fs' = f /\ todo' = [todo EXCEPT ![p] = s] /\ call' = [call EXCEPT ![p] = c]
  BY <1>1 DEF Does, AllInv, IndInv, ControlInv
<1> HIDE DEF i, f, s, c
<1>6. ~f.panic => OwnersIn(owner', f)
  BY <1>1, <1>2, <1>3, OwnersStay
<1>7. ~fs'.panic => Sound(fs') /\ OwnersIn(owner', fs') /\ Aimed(s, c.op) /\ i \in Inums \cup {0}
  BY <1>2, <1>3, <1>4, <1>5, <1>6
<1> QED
  BY <1>1, <1>2, <1>5, <1>7, SoundStep

LEMMA LinkCountsSound ==
  ASSUME AllInv, NEW p \in Procs, LinkCounts(p)
  PROVE  SoundInv'
<1> DEFINE i == todo[p][1].i
           f == ilock(fs, i)
           x == Start(call[p].new)
           names == Names(call[p].new)
           op == call[p].op
           n == 1
           a == AddLinks(f, i, n)
           g == idup(a, x)
           w == S2("linkNew", 0, i)
           u == iunlockput(i)
           s == Goes(x, names, <<w>>)
<1>1. Head1(p, "linkOld") /\ UNCHANGED open
  BY DEF LinkCounts
<1>2. ~fs.panic /\ Runs(fs) /\ i \in Inums /\ IndInv
  BY <1>1, Aims
<1>3. \/ Locks(p, i) /\ Does(p, f, u)
      \/ UNCHANGED owner /\ Does(p, g, s)
  <2> DEFINE z == Goes(x, names, <<S2("linkNew", 0, i)>>)
             y == idup(AddLinks(f, i, 1), x)
  <2>1. IF f.inode[i].type = "dir" THEN Locks(p, i) /\ Does(p, f, u) ELSE UNCHANGED owner /\ Does(p, y, z)
    BY DEF LinkCounts, Visits
  <2>2. y = g /\ z = s
    OBVIOUS
  <2> HIDE DEF y, z, g, s, f, u, i
  <2> QED
    BY <2>1, <2>2
<1>4. Carries(fs, f) /\ (~f.panic => Live(f, i))
  BY <1>2, ilockCarries
<1>5. IsStep(w) /\ Waits(w) /\ Fits(w, op)
  <2> HIDE DEF i
  <2>1. IsStep(w) /\ w.do = "linkNew" /\ w.i = 0 /\ w.j = i
    BY Step2Fields
  <2> HIDE DEF w
  <2> QED
    BY <1>2, <2>1 DEF Waits, Fits
<1>6. x = cwd
  BY DEF Start, cwd
<1>7. n \in Int
  OBVIOUS
<1> HIDE DEF i, f, op, n, w, x
<1>8. Aimed(u, op)
  BY <1>2, AimedUnlocksLast
<1>9. cwd \in Inums /\ fs.ref[cwd] > 0
  BY <1>2, RefersCwd
<1>10. Aimed(s, op)
  BY <1>5, <1>6, <1>9, AimedGoes
<1>11. IsFS(f) /\ IsFS(a) /\ Keeps(f, a)
  BY <1>4, AddLinksKeeps DEF Carries, Keeps
<1>12. ~g.panic => ~a.panic /\ ~f.panic
  BY <1>11, idupMoves DEF Moves, Keeps
<1>13. ASSUME ~g.panic
       PROVE  Sound(g) /\ Stays(fs, g)
  <2>1. Runs(f) /\ Stays(fs, f) /\ Live(f, i)
    BY <1>4, <1>12, <1>13 DEF Carries
  <2>2. Carries(f, a)
    BY <1>7, <2>1, AddLinksCarries
  <2>3. Sound(a) /\ Stays(f, a)
    BY <1>12, <1>13, <2>2 DEF Carries, Runs
  <2>4. a.ref = fs.ref
    BY <1>4, <1>11, <1>12, <1>13 DEF Carries, Keeps
  <2> HIDE DEF a
  <2>5. Sound(g) /\ Stays(a, g)
    BY <1>6, <1>9, <2>3, <2>4, idupSound
  <2>6. Stays(f, g)
    BY <2>3, <2>5, StaysBoth
  <2> QED
    BY <2>1, <2>5, <2>6, StaysBoth
<1> HIDE DEF g, u, s
<1>14. CASE Locks(p, i) /\ Does(p, f, u)
  <2>1. ~f.panic => Sound(f) /\ Stays(fs, f) /\ Live(f, i)
    BY <1>4 DEF Carries, Runs
  <2> QED
    BY <1>1, <1>2, <1>8, <1>14, <2>1, SoundTakes DEF op
<1>15. CASE UNCHANGED owner /\ Does(p, g, s)
  BY <1>1, <1>2, <1>10, <1>13, <1>15, SoundVisits DEF op
<1> QED
  BY <1>3, <1>14, <1>15

LEMMA LinkEntersSound ==
  ASSUME AllInv, NEW p \in Procs, LinkEnters(p)
  PROVE  SoundInv'
<1> DEFINE i == todo[p][1].i
           ip == todo[p][1].j
           f == ilock(fs, i)
           name == Last(call[p].new)
           d == dirlookup(f, i, name)
           op == call[p].op
           h == d.fs
           e == NewEntry(h, i, name, ip)[1]
           b == <<S("bad", ip)>>
           u == iunlockput(i) \o b
           s == <<S("put", d.ip)>> \o u
           q == <<S("put", ip)>>
           v == iunlockput(i) \o q
<1>1. Head1(p, "linkNew") /\ UNCHANGED open /\ Locks(p, i)
  BY DEF LinkEnters
<1>2. ~fs.panic /\ Runs(fs) /\ i \in Inums /\ Fits(todo[p][1], op) /\ todo[p][1].do = "linkNew"
  BY <1>1, Aims
<1>3. ip \in Inums
  BY <1>2 DEF Fits
<1>4. <<S("put", d.ip)>> \o iunlockput(i) \o <<S("bad", ip)>> = s
  <2>1. IsSeq(<<S("put", d.ip)>>) /\ IsSeq(iunlockput(i)) /\ IsSeq(<<S("bad", ip)>>)
    BY UnlocksLast, SeqLiterals DEF Planned
  <2> QED
    BY <2>1, SeqAssoc
<1>5. (d.ip # 0 /\ Does(p, h, s)) \/ (d.ip = 0 /\ Does(p, e, v))
  BY <1>4 DEF LinkEnters, Enters
<1>6. IsSeq(b) /\ Aimed(b, op) /\ IsSeq(q) /\ Aimed(q, op)
  <2>1. IsSeq(b) /\ IsSeq(q)
    BY SeqLiterals
  <2> DEFINE bads == "bad"
             puts == "put"
             no == {"unlock", "unlinked", "linkNew", "unlinkEntry", "createNew", "createIn"}
  <2>2. bads \notin no /\ puts \notin no
    OBVIOUS
  <2> HIDE DEF bads, puts, ip, op
  <2>3. Aimed(<<S(bads, ip)>>, op) /\ Aimed(<<S(puts, ip)>>, op)
    BY <1>3, <2>2, AimedLast
  <2> QED
    BY <2>1, <2>3 DEF bads, puts
<1> HIDE DEF i, ip, name, op, b, q
<1>7. Counted(f)
  BY <1>2, ilockKeeps DEF Runs, Keeps, Counted
<1>8. Counted(h) /\ Keeps(h, e)
  <2>1. Moves(f, h, d.ip, 1)
    BY <1>7, dirlookupMoves
  <2>2. Counted(h)
    BY <1>7, <2>1, MovesCounted
  <2> QED
    BY <2>2, NewEntryKeeps DEF Counted
<1>9. ~h.panic => Runs(h) /\ Stays(fs, h) /\ Live(h, i) /\ d.ip \in Inums \cup {0}
  BY <1>2, LooksUp
<1> HIDE DEF h, d, f
<1>10. ~e.panic => Sound(e) /\ Stays(fs, e) /\ Live(e, i)
  <2>1. ASSUME ~e.panic
        PROVE  Sound(e) /\ Stays(fs, e) /\ Live(e, i)
    <3>1. Runs(h) /\ Stays(fs, h) /\ Live(h, i)
      BY <1>8, <1>9, <2>1 DEF Keeps
    <3>2. Carries(h, e)
      BY <1>3, <3>1, NewEntryCarries
    <3>3. Sound(e) /\ Stays(h, e)
      BY <2>1, <3>2 DEF Carries, Runs
    <3> HIDE DEF e
    <3>4. Stays(fs, e) /\ Live(e, i)
      BY <1>2, <3>1, <3>3, StaysBoth DEF Stays
    <3> QED
      BY <3>3, <3>4
  <2> QED
    BY <2>1
<1>11. IsSeq(u) /\ Aimed(u, op) /\ Aimed(v, op)
  BY <1>2, <1>6, AimedUnlocks, UnlocksSeq
<1> HIDE DEF u, v, e
<1>12. CASE d.ip # 0 /\ Does(p, h, s)
  <2> DEFINE do == "put"
             x == d.ip
  <2>1. do \in {"put", "free", "drop"} /\ s = <<S(do, x)>> \o u
    OBVIOUS
  <2>2. ~h.panic => x \in Inums
    BY <1>9, <1>12
  <2> HIDE DEF do, x, s
  <2>3. ~h.panic => Aimed(s, op)
    BY <1>11, <2>1, <2>2, AimedStep
  <2>4. ~h.panic => Sound(h)
    BY <1>9 DEF Runs
  <2> QED
    BY <1>1, <1>2, <1>9, <1>12, <2>3, <2>4, SoundTakes DEF op
<1>13. CASE d.ip = 0 /\ Does(p, e, v)
  BY <1>1, <1>2, <1>10, <1>11, <1>13, SoundTakes DEF op
<1> QED
  BY <1>5, <1>12, <1>13

LEMMA LinkFailsSound ==
  ASSUME AllInv, NEW p \in Procs, LinkFails(p)
  PROVE  SoundInv'
<1> DEFINE i == todo[p][1].i
           f == ilock(fs, i)
           n == -1
           a == AddLinks(f, i, n)
           op == call[p].op
           do == "put"
           s == <<S(do, i)>>
<1>1. Head1(p, "bad") /\ UNCHANGED <<owner, open>> /\ Does(p, a, s)
  BY DEF LinkFails, Visits
<1>2. ~fs.panic /\ Runs(fs) /\ i \in Inums
  BY <1>1, Aims
<1>3. n \in Int /\ do \notin {"unlock", "unlinked", "linkNew", "unlinkEntry", "createNew", "createIn"}
  OBVIOUS
<1> HIDE DEF n, do, i, op
<1>4. Aimed(s, op)
  BY <1>2, <1>3, AimedLast
<1>5. Carries(fs, f) /\ (~f.panic => Live(f, i))
  BY <1>2, ilockCarries
<1> HIDE DEF f
<1>6. Keeps(f, a)
  BY <1>5, AddLinksKeeps DEF Carries, Keeps
<1>7. ~f.panic => Carries(f, a)
  BY <1>3, <1>5, AddLinksCarries DEF Carries
<1> HIDE DEF a
<1>8. Carries(fs, a)
  BY <1>5, <1>6, <1>7, CarriesBoth
<1>9. ~a.panic => Sound(a) /\ Stays(fs, a)
  BY <1>8 DEF Carries, Runs
<1> HIDE DEF s
<1> QED
  BY <1>1, <1>2, <1>4, <1>9, SoundVisits DEF op

LEMMA UnlinkLooksSound ==
  ASSUME AllInv, NEW p \in Procs, UnlinkLooks(p)
  PROVE  SoundInv'
<1> DEFINE i == todo[p][1].i
           f == ilock(fs, i)
           name == Last(call[p].path)
           d == dirlookup(f, i, name)
           op == call[p].op
           u == iunlockput(i)
           do == "unlinkEntry"
           v == <<S2(do, d.ip, i)>>
           s == IF d.ip = 0 THEN u ELSE v
           h == d.fs
<1>1. Head1(p, "unlinkDir") /\ UNCHANGED open /\ Locks(p, i)
  BY DEF UnlinkLooks
<1>2. ~fs.panic /\ Runs(fs) /\ i \in Inums
  BY <1>1, Aims
<1>3. Does(p, f, u) \/ Does(p, h, s)
  BY DEF UnlinkLooks
<1>4. do \in {"unlinkEntry", "createNew"}
  OBVIOUS
<1> HIDE DEF i, name, op, do
<1>5. ~f.panic => Sound(f) /\ Stays(fs, f) /\ Live(f, i)
  BY <1>2, ilockCarries DEF Carries, Runs
<1>6. ~h.panic => Sound(h) /\ Stays(fs, h) /\ Live(h, i) /\ d.ip \in Inums \cup {0}
  BY <1>2, LooksUp
<1> HIDE DEF f, d
<1>7. Aimed(u, op)
  BY <1>2, AimedUnlocksLast
<1>8. d.ip \in Inums => Aimed(v, op)
  BY <1>2, <1>4, AimedLast2
<1>9. d.ip \in Inums \cup {0} => Aimed(s, op)
  <2> HIDE DEF u, v
  <2> QED
    BY <1>7, <1>8
<1> HIDE DEF u, s, h
<1>10. CASE Does(p, f, u)
  BY <1>1, <1>2, <1>5, <1>7, <1>10, SoundTakes DEF op
<1>11. CASE Does(p, h, s)
  BY <1>1, <1>2, <1>6, <1>9, <1>11, SoundTakes DEF op
<1> QED
  BY <1>3, <1>10, <1>11

LEMMA UnlinkErasesSound ==
  ASSUME AllInv, NEW p \in Procs, UnlinkErases(p)
  PROVE  SoundInv'
<1> DEFINE i == todo[p][1].i
           dp == todo[p][1].j
           f == ilock(fs, i)
           off == dirlookup(f, dp, Last(call[p].path)).off
           e == Erased(f, dp, i, off)
           op == call[p].op
           n == <<>>
           z == Panics(f)
           t == iunlockput(dp)
           s == iunlockput(i) \o t
           w == iunlockput(i)
           x == S("unlinked", i)
           u == <<x>> \o w
           v == iunlockput(dp) \o u
<1>1. Head1(p, "unlinkEntry") /\ UNCHANGED open /\ Locks(p, i)
  BY DEF UnlinkErases
<1>2. /\ ~fs.panic /\ Runs(fs) /\ i \in Inums /\ Fits(todo[p][1], op) /\ todo[p][1].do = "unlinkEntry"
  BY <1>1, Aims
<1>3. dp \in Inums
  BY <1>2 DEF Fits
<1>4. Live(fs, dp)
  <2>1. Releases(todo[p][1], dp)
    BY <1>2 DEF Releases
  <2> HIDE DEF dp
  <2> QED
    BY <1>1, <1>3, <2>1, HeadOwns
<1>5. iunlockput(dp) \o <<S("unlinked", i)>> \o iunlockput(i) = v
  <2>1. IsSeq(iunlockput(dp)) /\ IsSeq(<<S("unlinked", i)>>) /\ IsSeq(iunlockput(i))
    BY UnlocksLast, SeqLiterals DEF Planned
  <2> QED
    BY <2>1, SeqAssoc
<1>6. Does(p, z, n) \/ Does(p, f, s) \/ Does(p, e, v)
  BY <1>5 DEF UnlinkErases
<1>7. x.do = "unlinked" /\ x.i = i /\ S("unlock", i).do = "unlock" /\ S("unlock", i).i = i
  BY StepFields
<1> HIDE DEF i, dp, op, x
<1>8. Carries(fs, f) /\ (~f.panic => Live(f, i))
  BY <1>2, ilockCarries
<1> HIDE DEF f
<1>9. z.panic
  BY <1>8, PanicsKeeps DEF Carries, Keeps
<1>10. ~f.panic => Sound(f) /\ Stays(fs, f) /\ Live(f, i)
  BY <1>8 DEF Carries, Runs
<1>11. ~f.panic => off \in Nat /\ Live(f, dp) /\ Runs(f)
  <2>1. ~f.panic => Live(f, dp) /\ Runs(f)
    BY <1>3, <1>4, <1>8 DEF Carries, Stays
  <2> QED
    BY <1>10, <2>1, dirlookupOff
<1> HIDE DEF off
<1>12. Keeps(f, e)
  BY <1>8, ErasedKeeps DEF Carries, Keeps
<1>13. ~e.panic => Sound(e) /\ Stays(fs, e) /\ Live(e, i)
  <2>1. ~f.panic => Carries(f, e)
    BY <1>11, ErasedCarries
  <2> HIDE DEF e
  <2>2. ~e.panic => ~f.panic
    BY <1>12 DEF Keeps
  <2>3. ~e.panic => Sound(e) /\ Stays(f, e) /\ Stays(fs, f) /\ Live(f, i)
    BY <1>10, <2>1, <2>2 DEF Carries, Runs
  <2>4. ~e.panic => Stays(fs, e)
    BY <2>3, StaysBoth
  <2> QED
    BY <1>2, <2>3, <2>4 DEF Stays
<1>14. Aimed(s, op)
  <2>1. IsSeq(t) /\ Aimed(t, op)
    BY <1>3, AimedUnlocksLast, UnlocksSeq, SeqLiterals
  <2> HIDE DEF t
  <2> QED
    BY <1>2, <2>1, AimedUnlocks
<1>15. Aimed(v, op)
  <2>1. IsSeq(w) /\ Aimed(w, op) /\ w[1] = S("unlock", i) /\ w # <<>>
    BY <1>2, AimedUnlocksLast, UnlocksSeq, SeqLiterals
  <2> HIDE DEF w
  <2>2. Fits(x, op) /\ x.i \in Inums /\ Follows(x, w[1])
    BY <1>2, <1>7, <2>1 DEF Fits, Follows
  <2>3. IsSeq(u) /\ Aimed(u, op)
    BY <2>1, <2>2, AimedCons, SeqConsIs
  <2> HIDE DEF u
  <2> QED
    BY <1>3, <2>3, AimedUnlocks
<1> HIDE DEF n, s, v, e, z
<1>16. CASE Does(p, z, n)
  BY <1>1, <1>2, <1>9, <1>16, SoundAct
<1>17. CASE Does(p, f, s)
  BY <1>1, <1>2, <1>10, <1>14, <1>17, SoundTakes DEF op
<1>18. CASE Does(p, e, v)
  BY <1>1, <1>2, <1>13, <1>15, <1>18, SoundTakes DEF op
<1> QED
  BY <1>6, <1>16, <1>17, <1>18

LEMMA UnlinkCountsSound ==
  ASSUME AllInv, NEW p \in Procs, UnlinkCounts(p)
  PROVE  SoundInv'
<1> DEFINE i == todo[p][1].i
           n == -1
           f == AddLinks(fs, i, n)
           r == Rest(p)
           do == "unlinked"
<1>1. Head1(p, do) /\ UNCHANGED <<owner, open>> /\ Does(p, f, r)
  BY DEF UnlinkCounts
<1>2. n \in Int /\ do # "walk" /\ do \in {"unlock", "unlinked"}
  OBVIOUS
<1> HIDE DEF n, do
<1>3. ~fs.panic /\ Runs(fs) /\ i \in Inums /\ Aimed(r, call[p].op) /\ r # <<>> /\ Follows(todo[p][1], r[1]) /\ todo[p][1].do = do
  BY <1>1, <1>2, Aims
<1>4. Releases(r[1], i)
  BY <1>3 DEF Follows, Releases, do
<1>5. Live(fs, i)
  <2> HIDE DEF i
  <2> QED
    BY <1>1, <1>3, <1>4, HeadOwns
<1> HIDE DEF i
<1>6. Carries(fs, f)
  BY <1>2, <1>3, <1>5, AddLinksCarries
<1> HIDE DEF f, r
<1>7. ~f.panic => Sound(f) /\ Stays(fs, f)
  BY <1>6 DEF Carries, Runs
<1> QED
  BY <1>1, <1>3, <1>7, SoundVisits

LEMMA CreateLooksSound ==
  ASSUME AllInv, NEW p \in Procs, CreateLooks(p)
  PROVE  SoundInv'
<1> DEFINE i == todo[p][1].i
           f == ilock(fs, i)
           name == Last(call[p].path)
           d == dirlookup(f, i, name)
           g == d.fs
           op == call[p].op
           a == ialloc(g, op)
           h == a[1]
           old == "createOld"
           new == "createNew"
           t == <<S(old, d.ip)>>
           s == iunlockput(i) \o t
           v == <<S2(new, a[2], i)>>
<1>1. Head1(p, "createIn") /\ UNCHANGED open /\ Locks(p, i)
  BY DEF CreateLooks
<1>2. ~fs.panic /\ Runs(fs) /\ i \in Inums /\ op \in {"file", "dir"}
  BY <1>1, Aims DEF Fits
<1>3. (d.ip # 0 /\ Does(p, g, s)) \/ (d.ip = 0 /\ Does(p, h, v))
  BY DEF CreateLooks
<1>4. old \notin {"unlock", "unlinked", "linkNew", "unlinkEntry", "createNew", "createIn"} /\ new \in {"unlinkEntry", "createNew"}
  OBVIOUS
<1> HIDE DEF i, name, op, old, new
<1>5. Counted(f)
  BY <1>2, ilockKeeps DEF Runs, Keeps, Counted
<1>6. Counted(g)
  <2>1. Moves(f, g, d.ip, 1)
    BY <1>5, dirlookupMoves
  <2> QED
    BY <1>5, <2>1, MovesCounted
<1>7. ~g.panic => Sound(g) /\ Stays(fs, g) /\ Live(g, i) /\ d.ip \in Inums \cup {0}
  BY <1>2, LooksUp
<1> HIDE DEF f, d
<1>8. ~h.panic => ~g.panic
  <2>1. Moves(g, a[1], a[2], 1)
    BY <1>6, iallocMoves
  <2> QED
    BY <2>1 DEF Moves
<1> HIDE DEF g
<1>9. ~h.panic => Sound(h) /\ Stays(g, h) /\ a[2] \in Inums
  <2>1. ASSUME ~h.panic
        PROVE  Sound(h) /\ Stays(g, h) /\ a[2] \in Inums
    <3>1. Sound(g)
      BY <1>7, <1>8, <2>1
    <3> QED
      BY <1>2, <2>1, <3>1, iallocSound
  <2> QED
    BY <2>1
<1> HIDE DEF a
<1>10. ~h.panic => Sound(h) /\ Stays(fs, h) /\ Live(h, i)
  <2>1. ~h.panic => Stays(fs, h)
    BY <1>7, <1>8, <1>9, StaysBoth
  <2> QED
    BY <1>2, <1>7, <1>8, <1>9, <2>1 DEF Stays
<1>11. d.ip \in Inums => Aimed(s, op)
  <2>1. d.ip \in Inums => Aimed(t, op)
    BY <1>4, AimedLast
  <2>2. IsSeq(t)
    BY SeqLiterals
  <2> HIDE DEF t
  <2> QED
    BY <1>2, <2>1, <2>2, AimedUnlocks
<1>12. a[2] \in Inums => Aimed(v, op)
  BY <1>2, <1>4, AimedLast2
<1> HIDE DEF s, v, h
<1>13. CASE d.ip # 0 /\ Does(p, g, s)
  <2>1. ~g.panic => Aimed(s, op)
    BY <1>7, <1>11, <1>13
  <2> QED
    BY <1>1, <1>2, <1>7, <1>13, <2>1, SoundTakes DEF op
<1>14. CASE d.ip = 0 /\ Does(p, h, v)
  <2>1. ~h.panic => Aimed(v, op)
    BY <1>9, <1>12
  <2> QED
    BY <1>1, <1>2, <1>10, <1>14, <2>1, SoundTakes DEF op
<1> QED
  BY <1>3, <1>13, <1>14

LEMMA CreateEntersSound ==
  ASSUME AllInv, NEW p \in Procs, CreateEnters(p)
  PROVE  SoundInv'
<1> DEFINE i == todo[p][1].i
           dp == todo[p][1].j
           op == call[p].op
           name == Last(call[p].path)
           major == 0
           b == Born(fs, i, major)
           new == Furnished(b, dp, i, op)
           e == dirlink(new, dp, name, i)[1]
           do == "made"
           u == iunlockput(i)
           m == <<S(do, i)>>
           t == IF op = "dir" THEN u ELSE m
           s == iunlockput(dp) \o t
<1>1. Head1(p, "createNew") /\ UNCHANGED open /\ Locks(p, i) /\ Does(p, e, s)
  BY DEF CreateEnters
<1>2. /\ ~fs.panic /\ Runs(fs) /\ i \in Inums /\ Fits(todo[p][1], op) /\ todo[p][1].do = "createNew"
  BY <1>1, Aims
<1>3. dp \in Inums
  BY <1>2 DEF Fits
<1>4. Live(fs, dp)
  <2>1. Releases(todo[p][1], dp)
    BY <1>2 DEF Releases
  <2> HIDE DEF dp
  <2> QED
    BY <1>1, <1>3, <2>1, HeadOwns
<1>5. major \in Int /\ do \notin {"unlock", "unlinked", "linkNew", "unlinkEntry", "createNew", "createIn"}
  OBVIOUS
<1> HIDE DEF i, dp, op, name, major, do
<1>6. Carries(fs, b) /\ (~b.panic => Live(b, i))
  BY <1>2, <1>5, BornCarries
<1> HIDE DEF b
<1>7. ~b.panic => Runs(b) /\ Live(b, dp)
  BY <1>3, <1>4, <1>6 DEF Carries, Stays
<1>8. Keeps(b, new)
  BY <1>6, FurnishedKeeps DEF Carries, Keeps, Counted, Runs
<1>9. ~b.panic => Carries(b, new)
  BY <1>6, <1>7, FurnishedCarries
<1> HIDE DEF new
<1>10. Carries(fs, new)
  BY <1>6, <1>8, <1>9, CarriesBoth
<1>11. ~new.panic => Runs(new) /\ Live(new, dp) /\ Live(new, i)
  BY <1>2, <1>3, <1>6, <1>7, <1>8, <1>9 DEF Carries, Stays, Keeps
<1>12. Keeps(new, e)
  BY <1>2, <1>10, dirlinkKeeps DEF Carries, Keeps, Counted, Runs
<1>13. ~new.panic => Carries(new, e)
  BY <1>2, <1>11, dirlinkCarries
<1> HIDE DEF e
<1>14. Carries(fs, e)
  BY <1>10, <1>12, <1>13, CarriesBoth
<1>15. ~e.panic => Sound(e) /\ Stays(fs, e) /\ Live(e, i)
  BY <1>2, <1>11, <1>12, <1>13, <1>14 DEF Carries, Stays, Keeps, Runs
<1>16. Aimed(s, op)
  <2>1. IsSeq(u) /\ Aimed(u, op)
    BY <1>2, AimedUnlocksLast, UnlocksSeq, SeqLiterals
  <2>2. IsSeq(m) /\ Aimed(m, op)
    BY <1>2, <1>5, AimedLast, SeqLiterals
  <2> HIDE DEF u, m
  <2>3. IsSeq(t) /\ Aimed(t, op)
    BY <2>1, <2>2
  <2> HIDE DEF t
  <2> QED
    BY <1>3, <2>3, AimedUnlocks
<1> HIDE DEF s
<1> QED
  BY <1>1, <1>2, <1>15, <1>16, SoundTakes DEF op

LEMMA CreateFindsSound ==
  ASSUME AllInv, NEW p \in Procs, CreateFinds(p)
  PROVE  SoundInv'
<1> DEFINE i == todo[p][1].i
           f == ilock(fs, i)
           op == call[p].op
           do == "made"
           m == <<S(do, i)>>
           u == iunlockput(i)
<1>1. Head1(p, "createOld") /\ UNCHANGED open /\ Locks(p, i) /\ (Does(p, f, m) \/ Does(p, f, u))
  BY DEF CreateFinds
<1>2. ~fs.panic /\ Runs(fs) /\ i \in Inums
  BY <1>1, Aims
<1>3. do \notin {"unlock", "unlinked", "linkNew", "unlinkEntry", "createNew", "createIn"}
  OBVIOUS
<1> HIDE DEF i, op, do
<1>4. ~f.panic => Sound(f) /\ Stays(fs, f) /\ Live(f, i)
  BY <1>2, ilockCarries DEF Carries, Runs
<1>5. Aimed(m, op) /\ Aimed(u, op)
  BY <1>2, <1>3, AimedLast, AimedUnlocksLast
<1> HIDE DEF f, m, u
<1> QED
  BY <1>1, <1>2, <1>4, <1>5, SoundTakes DEF op

LEMMA CreateOpensSound ==
  ASSUME AllInv, NEW p \in Procs, CreateOpens(p)
  PROVE  SoundInv'
<1> DEFINE i == todo[p][1].i
           f == Unlocked(p, i)
           s == <<>>
           c == call[p]
<1>1. Head1(p, "made") /\ Unlocks(i) /\ Does(p, f, s) /\ open' = [open EXCEPT ![p] = i]
  BY DEF CreateOpens, Unlocks
<1>2. ~fs.panic /\ Runs(fs) /\ i \in Inums
  BY <1>1, Aims
<1>3. ~f.panic => f = fs
  BY <1>2, PanicsKeeps DEF Unlocked, Runs, Counted
<1>4. Aimed(s, c.op)
  BY AimedEmpty
<1>5. fs' = f /\ todo' = [todo EXCEPT ![p] = s] /\ call' = [call EXCEPT ![p] = c]
  BY <1>1 DEF Does, AllInv, IndInv, ControlInv
<1> HIDE DEF i, f, s, c
<1>6. ~f.panic => OwnersIn(owner', f)
  BY <1>1, <1>2, <1>3, OwnersLetGo
<1>7. ~fs'.panic => Sound(fs') /\ OwnersIn(owner', fs') /\ Aimed(s, c.op) /\ i \in Inums \cup {0}
  BY <1>2, <1>3, <1>4, <1>5, <1>6 DEF Runs
<1> QED
  BY <1>1, <1>2, <1>5, <1>7, SoundStep

LEMMA BeginsSound ==
  ASSUME AllInv, NEW p \in Procs, Begins(p)
  PROVE  SoundInv'
<1>1. ~fs.panic /\ IndInv /\ Sound(fs) /\ OwnersIn(owner, fs) /\ open[p] \in Inums \cup {0} /\ UNCHANGED owner
  BY DEF Begins, AllInv, SoundInv
<1>2. PICK c \in Calls :
        /\ call' = [call EXCEPT ![p] = c]
        /\ \/ /\ c.op = "close" /\ open[p] # 0
              /\ todo' = [todo EXCEPT ![p] = <<S("put", open[p])>>]
              /\ open' = [open EXCEPT ![p] = 0] /\ UNCHANGED fs
           \/ /\ c.op # "close" /\ (c.op \in {"open", "file"} => open[p] = 0)
              /\ fs' = idup(fs, Start(c.path))
              /\ todo' = [todo EXCEPT ![p] = Goes(Start(c.path), Names(c.path), <<S(First[c.op], 0)>>)]
              /\ UNCHANGED open
  BY DEF Begins
<1>3. CASE /\ open[p] # 0 /\ todo' = [todo EXCEPT ![p] = <<S("put", open[p])>>]
           /\ open' = [open EXCEPT ![p] = 0] /\ UNCHANGED fs
  <2> DEFINE do == "put"
             x == open[p]
             s == <<S(do, x)>>
             o == 0
  <2>1. do \notin {"unlock", "unlinked", "linkNew", "unlinkEntry", "createNew", "createIn"} /\ x \in Inums /\ o \in Inums \cup {0}
    BY <1>1, <1>3
  <2>2. todo' = [todo EXCEPT ![p] = s] /\ open' = [open EXCEPT ![p] = o] /\ fs' = fs
    BY <1>3
  <2> HIDE DEF do, x, o
  <2>3. Aimed(s, c.op)
    BY <2>1, AimedLast
  <2>4. ~fs'.panic => Sound(fs') /\ OwnersIn(owner', fs') /\ Aimed(s, c.op) /\ o \in Inums \cup {0}
    BY <1>1, <2>1, <2>2, <2>3
  <2> HIDE DEF s
  <2> QED
    BY <1>1, <1>2, <2>2, <2>4, SoundStep
<1>4. CASE /\ c.op # "close"
           /\ fs' = idup(fs, Start(c.path))
           /\ todo' = [todo EXCEPT ![p] = Goes(Start(c.path), Names(c.path), <<S(First[c.op], 0)>>)]
           /\ UNCHANGED open
  <2> DEFINE x == Start(c.path)
             names == Names(c.path)
             op == c.op
             do == First[op]
             z == 0
             w == S(do, z)
             s == Goes(x, names, <<w>>)
             g == idup(fs, x)
             o == open[p]
  <2>1. op \in {"open", "link", "unlink", "file", "dir"}
    BY <1>4, InodesAssumption
  <2>2. do \in {"opened", "linkOld", "unlinkDir", "createIn"} /\ (do = "createIn" => op \in {"file", "dir"})
    BY <2>1 DEF First
  <2>3. x = cwd
    BY DEF Start, cwd
  <2>4. x \in Inums /\ fs.ref[x] > 0
    BY <1>1, <2>3, RefersCwd
  <2>5. fs' = g /\ todo' = [todo EXCEPT ![p] = s] /\ open' = [open EXCEPT ![p] = o]
    BY <1>1, <1>4 DEF IndInv, ControlInv
  <2>6. z = 0
    OBVIOUS
  <2> HIDE DEF do, op, x, names, z, o
  <2>7. w.do = do /\ w.i = z /\ IsStep(w)
    BY StepFields
  <2> HIDE DEF w
  <2>8. Waits(w) /\ Fits(w, op)
    BY <2>2, <2>6, <2>7 DEF Waits, Fits
  <2>9. Aimed(s, op)
    BY <2>4, <2>7, <2>8, AimedGoes
  <2>10. ~g.panic => Sound(g) /\ Stays(fs, g)
    BY <1>1, <2>4, idupSound
  <2> HIDE DEF g, s
  <2>11. ~g.panic => OwnersIn(owner', g)
    BY <1>1, <2>10, OwnersStay
  <2>12. ~fs'.panic => Sound(fs') /\ OwnersIn(owner', fs') /\ Aimed(s, c.op) /\ o \in Inums \cup {0}
    BY <1>1, <2>5, <2>9, <2>10, <2>11 DEF op, o
  <2> QED
    BY <1>1, <1>2, <2>5, <2>12, SoundStep
<1> QED
  BY <1>2, <1>3, <1>4

LEMMA SoundInit ==
  ASSUME Init
  PROVE  SoundInv
<1> DEFINE f == Disk
<1>1. f.ref = [i \in Inums |-> 0] /\ f.panic = FALSE
  BY InodesAssumption
<1>2. f.ref \in [Inums -> Int] /\ f.inode \in [Inums -> Inode] /\ f.valid = {} /\ f.panic \in BOOLEAN /\ InOrder(f.disk, f.block, f.used)
  <2>1. [i \in Inums |-> 0] \in [Inums -> Int]
    OBVIOUS
  <2> QED
    BY <1>1, <2>1, DiskAssumption
<1>3. fs = [f EXCEPT !.ref[cwd] = @ + 1]
  BY DEF Init, idup
<1>4. /\ IsFS(fs) /\ fs.disk = f.disk /\ fs.inode = f.inode /\ fs.block = f.block /\ fs.used = f.used /\ fs.valid = {}
  <2>1. f \in [disk : {f.disk}, inode : {f.inode}, ref : [Inums -> Int], valid : {f.valid},
               block : {f.block}, used : {f.used}, panic : BOOLEAN]
    BY <1>2, InodesAssumption
  <2> HIDE DEF f
  <2> QED
    BY <1>2, <1>3, <2>1 DEF IsFS
<1>5. fs.disk \in [Inums -> Inode] /\ InOrder(fs.disk, fs.block, fs.used)
  BY <1>2, <1>4 DEF InOrder
<1>6. Sound(fs)
  BY <1>2, <1>4, <1>5 DEF Sound, Typed, Fresh, Live
<1>7. OwnersIn(owner, fs)
  BY DEF OwnersIn, Init
<1>8. ASSUME NEW p \in Procs
      PROVE  Aimed(todo[p], call[p].op) /\ open[p] \in Inums \cup {0}
  <2>1. todo[p] = <<>> /\ open[p] = 0
    BY DEF Init
  <2> QED
    BY <2>1, AimedEmpty
<1> QED
  BY <1>6, <1>7, <1>8 DEF SoundInv

LEMMA SoundNext ==
  ASSUME AllInv, [Next]_vars
  PROVE  SoundInv'
<1>1. CASE UNCHANGED vars
  <2>1. UNCHANGED <<fs, owner, todo, call, open>>
    BY <1>1 DEF vars
  <2>2. SoundInv
    BY DEF AllInv
  <2>3. SoundInv <=> SoundInv'
    BY <2>1 DEF SoundInv, OwnersIn
  <2> QED
    BY <2>2, <2>3
<1>2. ASSUME NEW p \in Procs, Begins(p) \/ Steps(p)
      PROVE  SoundInv'
  <2>1. CASE Begins(p)
    BY <2>1, BeginsSound
  <2>2. CASE namex1(p)
    BY <2>2, WalkSound
  <2>3. CASE iunlock(p) \/ IputLooks(p) \/ IputFrees(p) \/ IputDrops(p)
    BY <2>3, PutSound
  <2>4. CASE sys_open(p)
    BY <2>4, OpenSound
  <2>5. CASE LinkCounts(p) \/ LinkEnters(p) \/ LinkFails(p)
    BY <2>5, LinkCountsSound, LinkEntersSound, LinkFailsSound
  <2>6. CASE UnlinkLooks(p) \/ UnlinkErases(p) \/ UnlinkCounts(p)
    BY <2>6, UnlinkLooksSound, UnlinkErasesSound, UnlinkCountsSound
  <2>7. CASE CreateLooks(p) \/ CreateEnters(p) \/ CreateFinds(p) \/ CreateOpens(p)
    BY <2>7, CreateLooksSound, CreateEntersSound, CreateFindsSound, CreateOpensSound
  <2> QED
    BY <1>2, <2>1, <2>2, <2>3, <2>4, <2>5, <2>6, <2>7 DEF Steps
<1>3. CASE Next
  BY <1>1, <1>2, <1>3 DEF Next, Ends
<1> QED
  BY <1>1, <1>3

\* The three invariants are inductive together: that a lock is held says that the inode has been
\* read and is referenced, that the disk is in order says where a name leads, and the references
\* that the steps hold keep the inodes they are about in the cache.
THEOREM InodesSound == Spec => []AllInv
<1>1. Init => AllInv
  BY InitInv, LockInit, SoundInit DEF AllInv
<1>2. AllInv /\ [Next]_vars => AllInv'
  BY NextInv, LockNext, SoundNext DEF AllInv
<1> QED
  BY <1>1, <1>2, PTL DEF Spec

\* However the calls interleave, the disk is in order between two sections of them: a block is in
\* one place of one inode and in use, a free inode has none, a file has a block wherever it has
\* cells, and the entries of directories name inodes that there are.
THEOREM InodesInOrder == Spec => [](~fs.panic => InOrder(fs.disk, fs.block, fs.used))
<1>1. AllInv => (~fs.panic => InOrder(fs.disk, fs.block, fs.used))
  BY DEF AllInv, SoundInv, Sound
<1> QED
  BY <1>1, InodesSound, PTL

\* No interleaving leaks a block or gives one to two inodes: on the disk, between any two sections,
\* the blocks in use are those of the inodes and each is one inode's.
THEOREM InodesBlocksApart == Spec => [](~fs.panic => BlocksApart(OnDisk(fs)))
<1>1. ASSUME AllInv, ~fs.panic
      PROVE  BlocksApart(OnDisk(fs))
  <2> DEFINE D == fs.disk
             B == fs.block
             g == OnDisk(fs)
  <2>1. Typed(fs) /\ Apart(D, B, fs.used) /\ \A i \in Inums : D[i].type = "none" => \A a \in 0..MAXFILE : BlockAt(D[i], B, a) = 0
    <3>1. Typed(fs) /\ InOrder(D, B, fs.used)
      BY <1>1 DEF AllInv, SoundInv, Sound
    <3> QED
      BY <3>1 DEF InOrder, InodeInOrder
  <2>2. g.inode = D /\ g.block = B /\ g.used = fs.used
    BY <2>1 DEF OnDisk, Typed, IsFS
  <2> HIDE DEF g, D
  <2>3. \A r : BlocksOf(g, r) = {BlockAt(r, B, a) : a \in 0..MAXFILE} \ {0}
    BY <2>2, BlocksOfIs
  <2> HIDE DEF B
  <2>4. Allocated(g) = {i \in Inums : D[i].type # "none"}
    BY <2>2 DEF Allocated
  <2>5. g.used = UNION {BlocksOf(g, D[i]) : i \in Allocated(g)}
    <3>1. \A x : x \in fs.used <=> x # 0 /\ \E i \in Inums, a \in 0..MAXFILE : x = BlockAt(D[i], B, a)
      BY <2>1 DEF Apart
    <3>2. \A x : x \in UNION {BlocksOf(g, D[i]) : i \in Allocated(g)} <=> x # 0 /\ \E i \in Inums, a \in 0..MAXFILE : x = BlockAt(D[i], B, a)
      BY <2>1, <2>3, <2>4
    <3> QED
      BY <2>2, <3>1, <3>2
  <2>6. ASSUME NEW i \in Allocated(g), NEW j \in Allocated(g), i # j
        PROVE  BlocksOf(g, D[i]) \cap BlocksOf(g, D[j]) = {}
    BY <2>1, <2>3, <2>4, <2>6 DEF Apart
  <2>7. BlocksApart(g)
    BY <2>2, <2>5, <2>6 DEF BlocksApart
  <2> QED
    BY <2>7 DEF g
<1>2. AllInv => (~fs.panic => BlocksApart(OnDisk(fs)))
  BY <1>1
<1> QED
  BY <1>2, InodesSound, PTL

\* CacheIsDisk: an inode that somebody refers to, that has been read and that nobody has locked is
\* the same in the cache and on the disk: no call leaves a size, a block or a count unwritten.
THEOREM InodesCacheIsDisk == Spec => []CacheIsDisk
<1>1. ASSUME AllInv
      PROVE  CacheIsDisk
  <2>1. ASSUME ~fs.panic, NEW i \in fs.valid, fs.ref[i] > 0
        PROVE  fs.inode[i] = fs.disk[i]
    <3>1. i \in Inums /\ Fresh(fs, i)
      BY <1>1, <2>1 DEF AllInv, SoundInv, Sound, Typed
    <3> QED
      BY <2>1, <3>1 DEF Fresh, Live
  <2> QED
    BY <2>1 DEF CacheIsDisk
<1> QED
  BY <1>1, InodesSound, PTL

\* The panics of iunlock and of bfree are out of reach: a lock that is let go is held by the process
\* that lets it go, on an inode it refers to, and the blocks that iput frees are in use.
THEOREM InodesLetGo == Spec => [][\A p \in Procs : iunlock(p) \/ CreateOpens(p) \/ IputFrees(p) => ~fs'.panic]_vars
<1>1. ASSUME AllInv, NEW p \in Procs, iunlock(p) \/ CreateOpens(p) \/ IputFrees(p)
      PROVE  ~fs'.panic
  <2> DEFINE i == todo[p][1].i
             do == todo[p][1].do
             f == Unlocked(p, i)
             g == Frees(fs, i)
  <2>1. Head1(p, do) /\ do \in {"unlock", "made", "free"} /\ ((do # "free" /\ fs' = f) \/ fs' = g)
    BY <1>1 DEF iunlock, CreateOpens, IputFrees, Does, Head1
  <2>2. ~fs.panic /\ Sound(fs) /\ i \in Inums
    BY <1>1, <2>1, Aims DEF Runs
  <2>3. Releases(todo[p][1], i)
    BY <2>1 DEF Releases
  <2>4. Lets(todo[p], i) # 0
    BY <1>1, <2>1, <2>2, <2>3, HeadLets DEF AllInv
  <2>5. owner[i] = p
    BY <1>1, <2>2, <2>4 DEF AllInv, LockInv, LocksHeld, Lets
  <2>6. Live(fs, i)
    BY <1>1, <2>2, <2>4, LetsOwns
  <2>7. f = fs
    BY <2>5, <2>6 DEF Unlocked, Live
  <2> HIDE DEF i
  <2>8. ~g.panic
    BY <2>2, <2>6, FreesSound
  <2> QED
    BY <2>1, <2>2, <2>7, <2>8
<1>2. AllInv /\ [Next]_vars => [\A p \in Procs : iunlock(p) \/ CreateOpens(p) \/ IputFrees(p) => ~fs'.panic]_vars
  BY <1>1
<1> QED
  BY <1>2, InodesSound, PTL DEF Spec
=============================================================================
