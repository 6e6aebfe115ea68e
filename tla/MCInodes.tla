------------------------------ MODULE MCInodes ------------------------------
EXTENDS Inodes

\* A file a and a directory d with a file b in it.
MCDisk ==
    LET Makes(f, path, type) == LET x == create(f, ROOTINO, path, type, 0) IN iput(x[1], x[2])
        made == Makes(Makes(idup(mkfs(<<<<"a", <<>>>>>>), ROOTINO), <<"d">>, "dir"), <<"d", "b">>, "file") IN
    OnDisk(Drops(made, ROOTINO))

C(op, path) == [op |-> op, path |-> path]
Link(path, new) == [op |-> "link", path |-> path, new |-> new]
\* Of the directories only e is ever removed, and nothing is created in it.
MCCalls == {
    C("close", <<>>), C("open", <<"a">>), C("open", <<"e", "..", "a">>), C("file", <<"a">>), C("file", <<"d", "x">>), C("dir", <<"e">>),
    C("unlink", <<"a">>), C("unlink", <<"d", "x">>), C("unlink", <<"d">>), C("unlink", <<"e">>),
    Link(<<"a">>, <<"d", "x">>), Link(<<"d", "b">>, <<"a">>)}
=============================================================================
