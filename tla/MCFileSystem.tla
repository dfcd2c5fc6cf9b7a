---------------------------- MODULE MCFileSystem ----------------------------
(* Instance of ProcFile, and with it of FileSystem, for TLC.                *)
EXTENDS ProcFile

Rel(dirs, base) == [abs |-> FALSE, dirs |-> dirs, base |-> base]
Abs(dirs, base) == [abs |-> TRUE, dirs |-> dirs, base |-> base]

\* a, b, ../b (which is b for a process in the root directory), /a/ and the empty
\* path; a link is made to a or to a/b.
MCPaths == {Rel(<<>>, "a"), Rel(<<>>, "b"), Rel(<<"..">>, "b"), Abs(<<"a">>, ""), Rel(<<>>, "")}
MCNewPaths == {Rel(<<>>, "a"), Rel(<<"a">>, "b")}
=============================================================================
