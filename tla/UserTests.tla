------------------------------ MODULE UserTests ------------------------------
(***************************************************************************)
(* usertests.c: each test as the calls it makes and the results without    *)
(* which it reports a failure, with the numbers of its loops scaled down.  *)
(* A cell stands for the bytes a test writes alike.                        *)
(***************************************************************************)
EXTENDS System

Ok == <<0, 99>>
Fail == <<-1, -1>>
Either == <<-1, 99>>
Just(n) == <<n, n>>
O_RDONLY == {}
O_WRONLY == {"wronly"}
O_RDWR == {"rdwr"}
O_CREATE == {"create"}

open(to, path, mode, want) == Call("open", <<path, mode>>, to, want)
close(fd) == Call("close", <<fd>>, "", Either)
read(fd, n, want) == Call("read", <<fd, n>>, "n", want)
write(fd, cells, want) == Call("write", <<fd, cells>>, "", want)
writes(fd, cells) == write(fd, cells, Just(Len(cells)))
ln(old, new, want) == Call("link", <<old, new>>, "", want)
rm(path, want) == Call("unlink", <<path>>, "", want)
mkdir(path, want) == Call("mkdir", <<path>>, "", want)
chdir(path, want) == Call("chdir", <<path>>, "", want)
pipes(r, w) == Call("pipe", <<r, w>>, "", Just(0))
tryfork(to, child) == Call("fork", <<child>>, to, Either)
fork(to, child) == Call("fork", <<child>>, to, Ok)
wait == Call("wait", <<>>, "", Either)
kill(x) == Call("kill", <<x>>, "", Either)
sbrk(n, want) == Call("sbrk", <<n>>, "", want)
exec(path, argv, want) == Call("exec", <<path, argv>>, "", want)
sleep == Call("sleep", <<>>, "", Just(0))
spin == Call("spin", <<>>, "", <<>>)
fault == Call("fault", <<>>, "", <<>>)
value(x, n, to, want) == Call("value", <<x, n>>, to, want)
choose(ways) == Call("choose", <<ways>>, "", <<>>)
compare(test) == Call("compare", <<test, FALSE>>, "", <<>>)
Is(cells) == [kind |-> "is", cells |-> cells]
counts(x, n) == Call("compare", <<[kind |-> "count", cell |-> <<x>>, n |-> n], TRUE>>, "", <<>>)
lists(names) == compare([kind |-> "names", names |-> names])
forget == compare([kind |-> "names", names |-> {}])

Cells(x, n) == [k \in 1..n |-> <<x>>]
For(n, body(_)) == FlattenSeq([i \in 1..n |-> body(i - 1)])
reads(fd, n) == While(read(fd, n, Either), <<>>)
touch(path, mode) == <<open("t", path, mode, Ok), close("t")>>
creates(name) == touch(<<name>>, O_CREATE \cup O_RDWR)
Digits == <<"0", "1", "2", "3", "4", "5", "6", "7", "8", "9">>
-----------------------------------------------------------------------------
iputtest == <<
    mkdir(<<"iputdir">>, Ok), chdir(<<"iputdir">>, Ok), rm(<<"..", "iputdir">>, Ok), chdir(<<"/">>, Ok)>>

exitiputtest == <<
    fork("pid", <<mkdir(<<"iputdir">>, Ok), chdir(<<"iputdir">>, Ok), rm(<<"..", "iputdir">>, Ok), Exit>>), wait>>

\* The child may look after the directory is gone: it only must not open it for writing.
openiputtest == <<
    mkdir(<<"oidir">>, Ok), fork("pid", <<open("fd", <<"oidir">>, O_RDWR, Fail), Exit>>),
    sleep, rm(<<"oidir">>, Just(0)), wait>>

opentest == <<open("fd", <<"echo">>, O_RDONLY, Ok), close("fd"), open("fd", <<"doesnotexist">>, O_RDONLY, Fail)>>

writetest == <<open("fd", <<"small">>, O_CREATE \cup O_RDWR, Ok)>>
    \o For(3, LAMBDA i : <<writes("fd", Cells("a", 3)), writes("fd", Cells("b", 3))>>)
    \o <<close("fd"), open("fd", <<"small">>, O_RDONLY, Ok), read("fd", 18, Just(18)),
         compare(Is(For(3, LAMBDA i : Cells("a", 3) \o Cells("b", 3)))), close("fd"), rm(<<"small">>, Ok)>>

writetest1 == <<open("fd", <<"big">>, O_CREATE \cup O_RDWR, Ok)>>
    \o For(MAXFILE, LAMBDA i : <<writes("fd", Cells(Digits[i + 1], BSIZE))>>)
    \o <<close("fd"), open("fd", <<"big">>, O_RDONLY, Ok), While(read("fd", BSIZE, <<0, BSIZE>>), <<>>),
         compare(Is(For(MAXFILE, LAMBDA i : Cells(Digits[i + 1], BSIZE)))), close("fd"), rm(<<"big">>, Ok)>>

createtest ==
    For(3, LAMBDA i : creates("a" \o Digits[i + 1])) \o For(3, LAMBDA i : <<rm(<<"a" \o Digits[i + 1]>>, Either)>>)

dirtest == <<mkdir(<<"dir0">>, Ok), chdir(<<"dir0">>, Ok), chdir(<<"..">>, Ok), rm(<<"dir0">>, Ok)>>

exectest == <<exec(<<"echo">>, <<<<"ALL", "TESTS", "PASSED">>>>, Ok)>>

\* The writer fills the pipe several times over; the reader asks for more each time.
pipe1 == <<
    pipes("r", "w"),
    fork("pid", <<close("r"), writes("w", Cells("0", 4) \o Cells("1", 1)), writes("w", Cells("2", 4) \o Cells("3", 1)), Exit>>),
    close("w"), read("r", 1, <<1, 8>>), read("r", 2, <<1, 8>>), reads("r", 4),
    compare(Is(Cells("0", 4) \o Cells("1", 1) \o Cells("2", 4) \o Cells("3", 1))), close("r"), wait>>

preempt == <<
    fork("pid1", <<spin>>), fork("pid2", <<spin>>), pipes("r", "w"),
    fork("pid3", <<close("r"), writes("w", Cells("x", 1)), close("w"), spin>>),
    close("w"), read("r", 4, Just(1)), close("r"), kill("pid1"), kill("pid2"), kill("pid3"), wait, wait, wait>>

exitwait == For(3, LAMBDA i : <<fork("pid", <<Exit>>), Call("wait", <<>>, "", Just(3))>>)

\* malloc grows the process until it cannot; what was freed serves the last malloc.
mem == <<fork("pid", <<While(sbrk(1, Either), <<>>), Exit>>), wait>>

\* Two processes write with one offset.
sharedfd ==
    LET puts(x) == For(2, LAMBDA i : <<writes("fd", Cells(x, 3))>>) IN
    <<rm(<<"sharedfd">>, Either), open("fd", <<"sharedfd">>, O_CREATE \cup O_RDWR, Ok), fork("pid", puts("c") \o <<Exit>>)>>
    \o puts("p")
    \o <<wait, close("fd"), open("fd", <<"sharedfd">>, O_RDONLY, Ok), reads("fd", 3), close("fd"),
         rm(<<"sharedfd">>, Either), counts("c", 6), counts("p", 6), forget>>

fourfiles ==
    LET name(i) == <<"f" \o Digits[i + 1]>> IN
    For(2, LAMBDA pi : <<rm(name(pi), Either),
        fork("pid", <<open("fd", name(pi), O_CREATE \cup O_RDWR, Ok)>> \o
                    For(3, LAMBDA i : <<writes("fd", Cells(Digits[pi + 1], 3))>>) \o <<Exit>>)>>)
    \o <<wait, wait>>
    \o For(2, LAMBDA i : <<open("fd", name(i), O_RDONLY, Ok), reads("fd", 8),
                           compare(Is(Cells(Digits[i + 1], 9))), close("fd"), rm(name(i), Either)>>)

\* The last loop takes the letter by i, not by pi: most of the names stay.
createdelete ==
    LET N == 4
        Letters == <<"p", "q", "r", "s">>
        name(pi, i) == <<Letters[pi + 1] \o Digits[i + 1]>>
        want(i) == IF i = 0 \/ i >= N \div 2 THEN Ok ELSE Fail IN
    For(2, LAMBDA pi : <<fork("pid", For(N, LAMBDA i : touch(name(pi, i), O_CREATE \cup O_RDWR) \o
                         (IF i > 0 /\ i % 2 = 0 THEN <<rm(name(pi, i \div 2), Ok)>> ELSE <<>>)) \o <<Exit>>)>>)
    \o <<wait, wait>>
    \o For(N, LAMBDA i : For(2, LAMBDA pi : <<open("fd", name(pi, i), O_RDONLY, want(i)), close("fd")>>))
    \o For(N, LAMBDA i : For(2, LAMBDA pi : <<rm(<<Letters[i + 1] \o Digits[i + 1]>>, Either)>>))

unlinkread == <<
    open("fd", <<"unlinkread">>, O_CREATE \cup O_RDWR, Ok), write("fd", Cells("h", 5), Either), close("fd"),
    open("fd", <<"unlinkread">>, O_RDWR, Ok), rm(<<"unlinkread">>, Just(0)),
    open("fd1", <<"unlinkread">>, O_CREATE \cup O_RDWR, Either), write("fd1", Cells("y", 3), Either), close("fd1"),
    read("fd", 16, Just(5)), compare(Is(Cells("h", 5))), writes("fd", Cells("h", 10)), close("fd"), rm(<<"unlinkread">>, Either)>>

linktest == <<
    rm(<<"lf1">>, Either), rm(<<"lf2">>, Either), open("fd", <<"lf1">>, O_CREATE \cup O_RDWR, Ok),
    writes("fd", Cells("h", 5)), close("fd"), ln(<<"lf1">>, <<"lf2">>, Ok), rm(<<"lf1">>, Either),
    open("t", <<"lf1">>, O_RDONLY, Fail), open("fd", <<"lf2">>, O_RDONLY, Ok), read("fd", 16, Just(5)), forget, close("fd"),
    ln(<<"lf2">>, <<"lf2">>, Fail), rm(<<"lf2">>, Either), ln(<<"lf2">>, <<"lf1">>, Fail), ln(<<".">>, <<"lf1">>, Fail)>>

\* Two processes create, link and unlink one name at a time.
concreate ==
    LET N == 6
        cfile(i) == <<"C" \o Digits[i + 1]>>
        makes(i) == touch(cfile(i), O_CREATE \cup O_RDWR)
        links(i) == <<ln(<<"C0">>, cfile(i), Either)>>
        tries(i) == LET o == <<open("t", cfile(i), O_RDONLY, Either), close("t")>> IN o \o o
        drops(i) == <<rm(cfile(i), Either), rm(cfile(i), Either)>> IN
    For(N, LAMBDA i : <<rm(cfile(i), Either), fork("pid", (IF i % 5 = 1 THEN links(i) ELSE makes(i)) \o <<Exit>>)>>
                      \o (IF i % 3 = 1 THEN links(i) ELSE makes(i)) \o <<wait>>)
    \o <<open("fd", <<".">>, O_RDONLY, Ok), reads("fd", 1), lists({cfile(i)[1] : i \in 0..N - 1}), close("fd")>>
    \o For(N, LAMBDA i : <<fork("pid", (IF i % 3 = 0 THEN tries(i) ELSE drops(i)) \o <<Exit>>)>>
                         \o (IF i % 3 = 1 THEN tries(i) ELSE drops(i)) \o <<wait>>)

\* The random numbers of the test are left open.
linkunlink ==
    LET any == choose({<<open("t", <<"x">>, O_RDWR \cup O_CREATE, Either), close("t")>>,
                       <<ln(<<"cat">>, <<"x">>, Either)>>, <<rm(<<"x">>, Either)>>}) IN
    <<rm(<<"x">>, Either), fork("pid", <<any, any, any, Exit>>), any, any, any, wait>>

bigdir ==
    LET name(i) == <<"x" \o Digits[i + 1]>> IN
    <<rm(<<"bd">>, Either), open("fd", <<"bd">>, O_CREATE, Ok), close("fd")>>
    \o For(8, LAMBDA i : <<ln(<<"bd">>, name(i), Just(0))>>) \o <<rm(<<"bd">>, Either)>> \o For(8, LAMBDA i : <<rm(name(i), Just(0))>>)

subdir == <<
    rm(<<"ff">>, Either), mkdir(<<"dd">>, Just(0)),
    open("fd", <<"dd", "ff">>, O_CREATE \cup O_RDWR, Ok), write("fd", Cells("f", 2), Either), close("fd"),
    rm(<<"dd">>, Fail), mkdir(<<"/", "dd", "dd">>, Just(0)),
    open("fd", <<"dd", "dd", "ff">>, O_CREATE \cup O_RDWR, Ok), write("fd", Cells("F", 2), Either), close("fd"),
    open("fd", <<"dd", "dd", "..", "ff">>, O_RDONLY, Ok), read("fd", 16, Just(2)), compare(Is(Cells("f", 2))), close("fd"),
    ln(<<"dd", "dd", "ff">>, <<"dd", "dd", "ffff">>, Just(0)), rm(<<"dd", "dd", "ff">>, Just(0)),
    open("t", <<"dd", "dd", "ff">>, O_RDONLY, Fail),
    chdir(<<"dd">>, Just(0)), chdir(<<"dd", "..", "..", "dd">>, Just(0)), chdir(<<"dd", "..", "..", "..", "dd">>, Just(0)),
    chdir(<<".", "..">>, Just(0)),
    open("fd", <<"dd", "dd", "ffff">>, O_RDONLY, Ok), read("fd", 16, Just(2)), forget, close("fd"),
    open("t", <<"dd", "dd", "ff">>, O_RDONLY, Fail), open("t", <<"dd", "ff", "ff">>, O_CREATE \cup O_RDWR, Fail),
    open("t", <<"dd", "xx", "ff">>, O_CREATE \cup O_RDWR, Fail), open("t", <<"dd">>, O_CREATE, Fail),
    open("t", <<"dd">>, O_RDWR, Fail), open("t", <<"dd">>, O_WRONLY, Fail),
    ln(<<"dd", "ff", "ff">>, <<"dd", "dd", "xx">>, Fail), ln(<<"dd", "xx", "ff">>, <<"dd", "dd", "xx">>, Fail),
    ln(<<"dd", "ff">>, <<"dd", "dd", "ffff">>, Fail), mkdir(<<"dd", "ff", "ff">>, Fail), mkdir(<<"dd", "xx", "ff">>, Fail),
    mkdir(<<"dd", "dd", "ffff">>, Fail), rm(<<"dd", "xx", "ff">>, Fail), rm(<<"dd", "ff", "ff">>, Fail),
    chdir(<<"dd", "ff">>, Fail), chdir(<<"dd", "xx">>, Fail),
    rm(<<"dd", "dd", "ffff">>, Just(0)), rm(<<"dd", "ff">>, Just(0)), rm(<<"dd">>, Fail), rm(<<"dd", "dd">>, Just(0)), rm(<<"dd">>, Ok)>>

bigwrite == <<rm(<<"bigwrite">>, Either)>> \o
    For(10, LAMBDA i : <<open("fd", <<"bigwrite">>, O_CREATE \cup O_RDWR, Ok), writes("fd", Cells("w", i + 3)),
                         writes("fd", Cells("w", i + 3)), close("fd"), rm(<<"bigwrite">>, Either)>>)

bigfile == <<rm(<<"bigfile">>, Either), open("fd", <<"bigfile">>, O_CREATE \cup O_RDWR, Ok)>>
    \o For(4, LAMBDA i : <<writes("fd", Cells(Digits[i + 1], 6))>>)
    \o <<close("fd"), open("fd", <<"bigfile">>, O_RDONLY, Ok), While(read("fd", 3, <<0, 3>>), <<>>),
         compare(Is(For(4, LAMBDA i : Cells(Digits[i + 1], 6)))), close("fd"), rm(<<"bigfile">>, Either)>>

\* Names of 14 and of 15 characters are one name.
fourteen ==
    LET s == "12345678901234" l == "123456789012345" IN <<
    mkdir(<<s>>, Just(0)), mkdir(<<s, l>>, Just(0)), open("fd", <<l, l, l>>, O_CREATE, Ok), close("fd"),
    open("fd", <<s, s, s>>, O_RDONLY, Ok), close("fd"), mkdir(<<s, s>>, Fail), mkdir(<<l, s>>, Fail)>>

rmdot == <<
    mkdir(<<"dots">>, Just(0)), chdir(<<"dots">>, Just(0)), rm(<<".">>, Fail), rm(<<"..">>, Fail), chdir(<<"/">>, Just(0)),
    rm(<<"dots", ".">>, Fail), rm(<<"dots", "..">>, Fail), rm(<<"dots">>, Just(0))>>

dirfile == <<
    open("fd", <<"dirfile">>, O_CREATE, Ok), close("fd"), chdir(<<"dirfile">>, Fail), open("fd", <<"dirfile", "xx">>, O_RDONLY, Fail),
    open("fd", <<"dirfile", "xx">>, O_CREATE, Fail), mkdir(<<"dirfile", "xx">>, Fail), rm(<<"dirfile", "xx">>, Fail),
    ln(<<"README">>, <<"dirfile", "xx">>, Fail), rm(<<"dirfile">>, Just(0)), open("fd", <<".">>, O_RDWR, Fail),
    open("fd", <<".">>, O_RDONLY, Either), write("fd", Cells("x", 1), <<-1, 0>>), close("fd")>>

\* One round more than the inode cache has entries: a reference lost in a round would fill it.
iref == For(NINODE + 1, LAMBDA i : <<
    mkdir(<<"irefd">>, Just(0)), chdir(<<"irefd">>, Just(0)), mkdir(<<>>, Either), ln(<<"README">>, <<>>, Either),
    open("fd", <<>>, O_CREATE, Either), If(value("fd", 1, "", Either), <<close("fd")>>),
    open("fd", <<"xx">>, O_CREATE, Either), If(value("fd", 1, "", Either), <<close("fd")>>), rm(<<"xx">>, Either)>>)
    \o <<chdir(<<"/">>, Either)>>

\* Forks until one fails, then as many waits, and no more.
forktest == <<
    value("n", 1, "n", Just(0)), While(tryfork("pid", <<Exit>>), <<value("n", 1, "n", Ok)>>),
    While(Call("wait", <<>>, "w", Either), <<value("n", -1, "n", Ok)>>), value("n", 0, "", Just(0))>>

sbrktest ==
    LET big == sbrk(MaxPages - 3, Either) IN <<
    sbrk(0, Just(1)), sbrk(1, Just(1)), sbrk(1, Just(2)), fork("pid", <<sbrk(1, Just(3)), Exit>>), sbrk(1, Just(3)), wait,
    sbrk(MaxPages - 4, Just(4)), sbrk(-1, Just(MaxPages)), sbrk(0, Just(MaxPages - 1)), sbrk(1, Just(MaxPages - 1)), sbrk(0, Just(MaxPages)),
    sbrk(1 - MaxPages, Just(MaxPages)), fork("pid", <<fault>>), wait, pipes("r", "w")>>
    \o FlattenSeq([i \in 1..3 |->
        <<If(tryfork("pid" \o Digits[i], <<sbrk(MaxPages - 1, Either), writes("w", Cells("x", 1)), spin>>), <<read("r", 1, Just(1))>>)>>])
    \o <<sbrk(1, Just(1))>>
    \o FlattenSeq([i \in 1..3 |-> <<If(value("pid" \o Digits[i], 0, "", Either), <<kill("pid" \o Digits[i]), wait>>)>>])
    \o <<sbrk(-1, Just(2)), forget>>

\* A bad pointer kills nobody but its user.
validatetest == <<
    fork("pid", <<fault>>), sleep, sleep, kill("pid"), wait, ln(<<"nosuchfile">>, BadPath, Fail)>>

bigargtest == <<
    rm(<<"bigarg-ok">>, Either),
    fork("pid", <<exec(<<"echo">>, [i \in 1..MaxArgument + 1 |-> <<"bigargs">>], Fail), open("fd", <<"bigarg-ok">>, O_CREATE, Either), close("fd"), Exit>>),
    wait, open("fd", <<"bigarg-ok">>, O_RDONLY, Ok), close("fd"), rm(<<"bigarg-ok">>, Either)>>

uio == <<fork("pid", <<fault>>), wait>>

argptest == <<open("fd", <<"init">>, O_RDONLY, Ok), read("fd", -1, Either), close("fd")>>

\* main, with one test, or two that follow each other, at a time.
main(tests) ==
    <<open("fd", <<"usertests.ran">>, O_RDONLY, Fail), open("fd", <<"usertests.ran">>, O_CREATE, Either), close("fd")>>
    \o tests \o <<Exit>>

usertests == {argptest, createdelete, linkunlink, concreate, fourfiles, sharedfd, bigargtest, bigwrite, sbrktest,
    validatetest, opentest, writetest, writetest1, createtest, dirtest, openiputtest, exitiputtest, iputtest, mem, pipe1, preempt,
    exitwait, rmdot, fourteen, bigfile, subdir, linktest, unlinkread, dirfile, iref, forktest, bigdir, uio, exectest}
-----------------------------------------------------------------------------
\* init.c: the console, and a child that runs the program given; then init waits for all.
initProgram(program) == <<
    open("fd", <<"console">>, O_RDWR, Either), Call("mknod", <<<<"console">>, 1>>, "", Just(0)),
    open("fd", <<"console">>, O_RDWR, Just(0)), value("zero", 1, "zero", Just(0)),
    Call("dup", <<"zero">>, "", Just(1)), Call("dup", <<"zero">>, "", Just(2)),
    fork("pid", program), While(wait, <<>>)>>
=============================================================================
