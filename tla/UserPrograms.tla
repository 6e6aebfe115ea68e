----------------------------- MODULE UserPrograms -----------------------------
(***************************************************************************)
(* The programs of the image besides usertests: the calls each makes with  *)
(* its arguments, which are paths (for kill the number of a process).      *)
(* A program that writes several times in a row writes once, and the text  *)
(* of a complaint is one cell.                                             *)
(***************************************************************************)
EXTENDS UserTests

CONSTANT MAXARGS  \* words of a command, less one

says(fd, cells) == Call("write", <<fd, cells>>, "", Either)
complains(fd) == says(fd, Cells("!", 1))
passes(fd) == OrElse(Call("write", <<fd>>, "", Either), <<complains("stdout"), Exit>>)
opens(path, fails) == OrElse(open("fd", path, O_RDONLY, Either), fails)
Asks(op) == Call(op, <<>>, "", Ok)

\* The calls for each argument in turn.
ForEach(argv, body(_)) == FlattenSeq([i \in DOMAIN argv |-> body(argv[i])])

\* main of cat, wc and grep: what body does with the standard input, or with each file.
Inputs == {"stdin", "fd"}
Filters(argv, body) ==
    (IF argv = <<>> THEN body["stdin"]
     ELSE ForEach(argv, LAMBDA a : <<opens(a, <<complains("stdout"), Exit>>)>> \o body["fd"] \o <<close("fd")>>))
    \o <<Exit>>

cat(argv) == Filters(argv, [fd \in Inputs |-> <<While(OrElse(read(fd, 4, Either), <<complains("stdout"), Exit>>), <<passes("stdout")>>)>>])

wc(argv) == Filters(argv, [fd \in Inputs |-> <<While(OrElse(read(fd, 4, Either), <<complains("stdout"), Exit>>), <<forget>>), says("stdout", Cells("lwc", 1))>>])

\* The lines of what is read match or do not.
grep(argv) == Filters(argv, [fd \in Inputs |-> <<While(read(fd, 4, Either), <<choose({<<passes("stdout")>>, <<forget>>})>>)>>])

echo(argv) == ForEach(argv, LAMBDA a : <<says("stdout", [k \in DOMAIN a |-> <<a[k]>>])>>) \o <<Exit>>

stat(path) == <<If(OrElse(open("st", path, O_RDONLY, Either), <<complains("stdout")>>), <<Call("fstat", <<"st">>, "", Either), close("st")>>)>>

ls(path) == <<
    OrElse(open("fd", path, O_RDONLY, Either), <<complains("stderr"), Exit>>), Call("fstat", <<"fd">>, "", Either),
    If(value("isdir", 0, "", Either), <<While(read("fd", 1, Either), <<If(value("found", 0, "", Either), stat(path \o <<"*">>)), forget>>)>>),
    close("fd")>>
lsmain(argv) == (IF argv = <<>> THEN ls(<<".">>) ELSE ForEach(argv, ls)) \o <<Exit>>

lnmain(argv) == <<OrElse(ln(argv[1], argv[2], Either), <<complains("stderr"), Exit>>), Exit>>
rmmain(argv) == ForEach(argv, LAMBDA a : <<OrElse(rm(a, Either), <<complains("stderr"), Exit>>)>>) \o <<Exit>>
mkdirmain(argv) == ForEach(argv, LAMBDA a : <<OrElse(mkdir(a, Either), <<complains("stderr"), Exit>>)>>) \o <<Exit>>
killmain(argv) == ForEach(argv, LAMBDA n : <<value("none", n + 1, "pid", Either), kill("pid")>>) \o <<Exit>>

zombie == <<If(tryfork("pid", <<Exit>>), <<sleep>>), Exit>>

\* Each process but the last forks the next; all write and read their own file, whether or not
\* a fork has failed.
RECURSIVE stressfs(_)
stressfs(i) ==
    LET path == <<"stressfs" \o Digits[i + 1]>>
        work == <<open("fd", path, O_CREATE \cup O_RDWR, Either), write("fd", Cells("a", BSIZE), Either), write("fd", Cells("a", BSIZE), Either),
                  close("fd"), open("fd", path, O_RDONLY, Either), read("fd", BSIZE, Either), read("fd", BSIZE, Either), close("fd"), wait, Exit>> IN
    IF i = 1 THEN work ELSE <<OrElse(tryfork("pid", stressfs(i + 1)), stressfs(i + 1))>> \o work

forktestmain == forktest \o <<says("stdout", Cells("OK", 1)), Exit>>
-----------------------------------------------------------------------------
\* The programs of the course.

debug == <<tryfork("pid", <<Asks("getpid"), Exit>>), Asks("getpid"), wait, Exit>>

\* cmd: a child for each argument, which exits at once; then exec with all the arguments.
cmdmain(argv) == ForEach(argv, LAMBDA a : <<OrElse(tryfork("pid", <<Exit>>), <<Exit>>), wait, exec(a, Tail(argv), Either)>>)
             \o <<OrElse(tryfork("pid", <<Exit>>), <<Exit>>), wait, Exit>>

\* The child is left alone while it sleeps.
orphaned == <<
    tryfork("pid", <<Asks("getpid"), Asks("getppid"), sleep, Asks("getpid"), Asks("getppid"), Exit>>),
    sleep, Asks("getpid"), Asks("getppid"), Exit>>

\* Children that sleep (type 0), spin (type 1) or exit; one more to wait for; then all are killed.
my_siblings(types) ==
    LET pid(i) == "pid" \o Digits[i]
        child(i) == CASE types[i] = 0 -> <<sleep, Exit>> [] types[i] = 1 -> <<spin>> [] OTHER -> <<Exit>> IN
    FlattenSeq([i \in DOMAIN types |-> <<tryfork(pid(i), child(i))>>])
    \o <<tryfork("last", <<sleep, Exit>>), sleep, wait>>
    \o FlattenSeq([i \in DOMAIN types |-> <<kill(pid(i))>>]) \o [i \in DOMAIN types |-> wait] \o <<Exit>>

\* numvp before and after two more pages.
testnumppvp == <<Call("numvp", <<>>, "", Just(2)), sbrk(2, Just(2)), Call("numvp", <<>>, "", Just(4)), Exit>>

\* It returns from main, to nowhere.
pri == <<says("stdout", Cells("hello", 1)), fault>>
-----------------------------------------------------------------------------
(* sh.c.  A line is typed as tokens: <<"a", word>>, or a symbol such as      *)
(* <<"|">>.  A parser takes them from what is left of the line and gives     *)
(* [cmd, rest]; a panic leaves nothing to parse.                             *)

execcmd(argv) == [type |-> "exec", argv |-> argv]
redircmd(c, path, mode, fd) == [type |-> "redir", cmd |-> c, file |-> path, mode |-> mode, fd |-> fd]
backcmd(c) == [type |-> "back", cmd |-> c]
panic == [type |-> "panic"]
Pair(type, left, right) == IF right = panic THEN panic ELSE [type |-> type, left |-> left, right |-> right]
Parsed(cmd, rest) == [cmd |-> cmd, rest |-> rest]

\* The next token is one of these.
peek(x, toks) == x.rest # <<>> /\ x.rest[1][1] \in toks
gettoken(x) == [x EXCEPT !.rest = Tail(@)]

\* "<", ">" and ">>", which only differs in its name.
RECURSIVE parseredirs(_)
parseredirs(x) ==
    LET name == gettoken(x) IN
    IF ~peek(x, {"<", ">", ">>"}) THEN x
    ELSE IF ~peek(name, {"a"}) THEN Parsed(panic, <<>>)
    ELSE parseredirs(Parsed(
        IF x.rest[1][1] = "<" THEN redircmd(x.cmd, name.rest[1][2], O_RDONLY, "stdin")
        ELSE redircmd(x.cmd, name.rest[1][2], O_WRONLY \cup O_CREATE, "stdout"), gettoken(name).rest))

\* A word goes to the command inside the redirections so far.
RECURSIVE AddWord(_, _)
AddWord(c, word) == IF c.type = "exec" THEN [c EXCEPT !.argv = Append(@, word)] ELSE [c EXCEPT !.cmd = AddWord(@, word)]

RECURSIVE parsewords(_, _)
parsewords(x, argc) ==
    IF x.rest = <<>> \/ peek(x, {"|", ")", "&", ";"}) THEN x
    ELSE IF ~peek(x, {"a"}) \/ argc + 1 >= MAXARGS THEN Parsed(panic, <<>>)
    ELSE parsewords(parseredirs(Parsed(AddWord(x.cmd, x.rest[1][2]), Tail(x.rest))), argc + 1)

RECURSIVE parseline(_)
parseblock(x) ==
    LET inner == parseline(gettoken(x)) IN
    IF ~peek(inner, {")"}) THEN Parsed(panic, <<>>) ELSE parseredirs(gettoken(inner))

parseexec(x) ==
    IF peek(x, {"("}) THEN parseblock(x) ELSE parsewords(parseredirs(Parsed(execcmd(<<>>), x.rest)), 0)

RECURSIVE parsepipe(_)
parsepipe(x) ==
    LET left == parseexec(x)
        right == parsepipe(gettoken(left)) IN
    IF peek(left, {"|"}) THEN Parsed(Pair("pipe", left.cmd, right.cmd), right.rest) ELSE left

RECURSIVE Backs(_)
Backs(x) == IF peek(x, {"&"}) THEN Backs(Parsed(backcmd(x.cmd), Tail(x.rest))) ELSE x

parseline(x) ==
    LET left == Backs(parsepipe(x))
        right == parseline(gettoken(left)) IN
    IF peek(left, {";"}) THEN Parsed(Pair("list", left.cmd, right.cmd), right.rest) ELSE left

parsecmd(line) == LET x == parseline(Parsed(panic, line)) IN IF x.rest # <<>> THEN panic ELSE x.cmd

fork1(child) == OrElse(tryfork("pid", child), <<complains("stderr"), Exit>>)

RECURSIVE runcmd(_)
runcmd(c) ==
    CASE c.type = "panic" -> <<complains("stderr"), Exit>>
      [] c.type = "exec" -> IF c.argv = <<>> THEN <<Exit>> ELSE <<exec(c.argv[1], Tail(c.argv), Either), complains("stderr"), Exit>>
      [] c.type = "redir" -> <<close(c.fd), OrElse(open("fd", c.file, c.mode, Either), <<complains("stderr"), Exit>>)>> \o runcmd(c.cmd)
      [] c.type = "list" -> <<fork1(runcmd(c.left)), wait>> \o runcmd(c.right)
      [] c.type = "pipe" ->
            LET end(fd, p) == <<close(fd), Call("dup", <<p>>, "", Either), close("p0"), close("p1")>> IN
            <<OrElse(Call("pipe", <<"p0", "p1">>, "", Either), <<complains("stderr"), Exit>>),
              fork1(end("stdout", "p1") \o runcmd(c.left)), fork1(end("stdin", "p0") \o runcmd(c.right)),
              close("p0"), close("p1"), wait, wait, Exit>>
      [] c.type = "back" -> <<fork1(runcmd(c.cmd)), Exit>>

\* Three descriptors are open, so a fourth is closed.  The command "cd" is the shell's own; any
\* other line is parsed and run in a child.
sh(lines) ==
    <<open("fd", <<"console">>, O_RDWR, Either), close("fd")>>
    \o ForEach(lines, LAMBDA line :
        IF line[1] = <<"a", <<"cd">>>> THEN <<OrElse(chdir(line[2][2], Either), <<>>)>>
        ELSE <<fork1(runcmd(parsecmd(line))), wait>>)
    \o <<Exit>>
=============================================================================
