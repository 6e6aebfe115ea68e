----------------------------- MODULE MCUserTests -----------------------------
EXTENDS UserPrograms, TLC

Programs == <<"cat", "wc", "grep", "echo", "ls", "ln", "rm", "mkdir", "kill", "zombie", "init">>
MCFiles == <<<<"README", Cells("r", 6)>>>> \o [i \in DOMAIN Programs |-> <<Programs[i], <<<<Programs[i]>>>>>>]
MCImages == [c \in {<<Programs[i]>> : i \in DOMAIN Programs} |-> 2]
MCProgram(cell, argv) ==
    CASE cell[1] = "cat" -> cat(argv) [] cell[1] = "wc" -> wc(argv) [] cell[1] = "grep" -> grep(argv)
      [] cell[1] = "echo" -> echo(argv) [] cell[1] = "ls" -> lsmain(argv) [] cell[1] = "ln" -> lnmain(argv)
      [] cell[1] = "rm" -> rmmain(argv) [] cell[1] = "mkdir" -> mkdirmain(argv) [] cell[1] = "kill" -> killmain(argv)
      [] cell[1] = "zombie" -> zombie [] cell[1] = "init" -> <<Exit>>

\* A file holds these cells in the end.
Finds(path, cells) == <<open("fd", path, O_RDONLY, Ok), reads("fd", 4), compare(Is(cells)), close("fd")>>

\* A line of words, which are paths, and symbols.
PathOf(word) == CASE word = "d/y" -> <<"d", "y">> [] word = "/echo" -> <<"/", "echo">> [] word = "/ls" -> <<"/", "ls">> [] OTHER -> <<word>>
Symbols == {"<", ">", ">>", "|", "&", ";", "(", ")"}
Line(tokens) == [k \in DOMAIN tokens |-> IF tokens[k] \in Symbols THEN <<tokens[k]>> ELSE <<"a", PathOf(tokens[k])>>]
Typed(lines, checks) == initProgram(sh([k \in DOMAIN lines |-> Line(lines[k])])) \o checks

Sessions == {
    Typed(<<<<"cat", "<", "README", "|", "cat", ">", "out">>>>, Finds(<<"out">>, Cells("r", 6))),
    Typed(<<<<"echo", "hi", ">", "f", ";", "cat", "f", "|", "wc", ">>", "out">>>>, Finds(<<"out">>, Cells("lwc", 1))),
    Typed(<<<<"mkdir", "d">>, <<"cd", "d">>, <<"/echo", "a", ">", "y">>, <<"/ls">>, <<"ls">>, <<"cd", "..">>, <<"rm", "d">>, <<"rm", "d/y", "d", "d">>>>, <<chdir(<<"d">>, Fail)>>),
    Typed(<<<<"ln", "README", "r">>, <<"rm", "README">>, <<"cat", "r", "none", ">", "out">>, <<"cd", "x">>>>,
          Finds(<<"out">>, Cells("r", 6) \o Cells("!", 1))),
    Typed(<<<<"zombie", "&">>, <<"nothing">>>>, <<>>),
    initProgram(sh(<<Line(<<"zombie", "&">>), <<<<"a", <<"kill">>>>, <<"a", 4>>>>>>)),
    Typed(<<<<"grep", "README", "|", "grep", ">", "out">>, <<"cat", "<", "none">>>>, <<>>),
    Typed(<<<<"(", "echo", "a", ";", "echo", "b", ")", ">", "out">>, <<"echo", "<", "README", "c", ">", "out">>>>, Finds(<<"out">>, <<<<"c">>, <<"b">>>>)),
    Typed(<<<<"echo", "&", "echo">>, <<"(", "echo">>, <<"cat", "<">>, <<"echo", "|", "cat", ")">>, <<"echo", "(">>, <<"echo", "a", "a", "a", "a">>, <<";", "echo">>>>,
          <<>>)}

MCStartups == {initProgram(main(t)) : t \in usertests} \cup Sessions
    \cup {initProgram(t) : t \in {stressfs(0), forktestmain, debug, orphaned, my_siblings(<<0, 1, 2>>), cmdmain(<<<<"no">>, <<"echo">>, <<"x">>>>), pri}}
    \cup {initProgram(<<sbrk(1, Ok)>> \o testnumppvp)}

\* Images that mkfs makes badly: with the entries "." and ".." these fill a block of the root
\* directory; those do not fit on the disk.
BootOnly == {initProgram(<<Exit>>)}
TwoFiles == <<<<"README", Cells("r", 6)>>, <<"init", <<<<"init">>>>>>>>
LargeFiles == <<<<"README", Cells("r", 6)>>, <<"init", Cells("i", 8)>>>>
=============================================================================
