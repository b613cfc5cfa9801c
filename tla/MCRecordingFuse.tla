-------------------------- MODULE MCRecordingFuse --------------------------
(* RecordingFuse for TLC: a directory with a child, a second name, and one    *)
(* that checkpoints ignore.                                                   *)
EXTENDS RecordingFuse

MCPaths == {<<"a">>, <<"a", "x">>, <<"b">>, <<"t">>}
MCIgnored == {"t"}

MCProbed == {<<"a", "x">>}

Tree(a, x, b, t) == [p \in MCPaths |->
    CASE p = <<"a">> -> a [] p = <<"a", "x">> -> x [] p = <<"b">> -> b [] OTHER -> t]

\* A directory with a file and a link to the file, next to an ignored file; two
\* empty directories; a file alone.
MCStart ==
    {Tree(Dir, File(<<0, 0>>, FALSE), Link(<<"a", "x">>), File(<<>>, FALSE)),
     Tree(Dir, None, Dir, File(<<>>, FALSE)),
     Tree(File(<<0>>, FALSE), None, None, None)}

\* A bound: the run ends at the second mount, except over the file alone.
Sessions == mounts < 2 \/ (tree[<<"a">>].kind # "dir" /\ tree[<<"t">>] = None)

\* For the link: one file and a second name.
FewPaths == {<<"a">>, <<"b">>}

\* The other name is a link to the file, which is not there yet.
LinkStart == {[p \in FewPaths |-> IF p = <<"a">> THEN None ELSE Link(<<"a">>)]}

=============================================================================
