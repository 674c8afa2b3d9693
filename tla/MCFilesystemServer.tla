------------------------- MODULE MCFilesystemServer -------------------------
(* A start directory /s with a directory and a file, and a file outside. *)
EXTENDS FilesystemServer

MCStartDir == <<"s">>
MCDirs == {<< >>, <<"s">>, <<"s", "d">>, <<"o">>}
MCFiles == {<<"s", "d", "f">>, <<"o", "g">>}
MCVolatile == {<<"s", "v">>}

Plain(tool) == [tool |-> tool, from |-> "absent", path |-> << >>, recursive |-> FALSE]
At(tool, from, p) == [tool |-> tool, from |-> from, path |-> p, recursive |-> TRUE]

\* Changes at, below and outside of the start directory.
Changing ==
  {At("cd", "here", <<"d">>), At("cd", "here", <<"v">>),
   At("edit", "up", <<"o", "g">>), At("ask-rm", "here", << >>)}

\* Tools that only show something or ask, and calls that fail.
Harmless ==
  {Plain("get-start-dir"), Plain("suggest"), Plain("pwd"), Plain("ls"),
   At("rg", "here", <<"d">>), At("cat", "here", <<"v">>)}

Varied == Changing \cup Harmless
Few == {At("ask-rm", "up", <<"o", "g">>), Plain("suggest"), Plain("pwd")}
=============================================================================
