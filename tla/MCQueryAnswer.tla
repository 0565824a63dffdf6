----------------------------- MODULE MCQueryAnswer ------------------------------
(* A small instance of QueryAnswer for TLC.                                   *)
EXTENDS QueryAnswer

\* The vault "v", with links out of it (a file, a directory) and within it.
VaultDir == <<"v">>
ThreeLinks ==
  (<<"v", "l.md">> :> <<"o", "s.md">>) @@ (<<"v", "d">> :> <<"o">>)
    @@ (<<"v", "b", "a">> :> <<"v", "a">>)
FileNames == [n \in {"n.md", "m.md", "s.md", "l.md", "schema.md"} |->
  CASE n = "n.md" -> "n" [] n = "m.md" -> "m" [] n = "s.md" -> "s"
    [] n = "l.md" -> "l" [] OTHER -> "schema"]
Unsafe == {"..", "."}

\* Two notes of one name, and a third.
ThreeNotes == {<<"v", "a", "n.md">>, <<"v", "b", "n.md">>, <<"v", "b", "m.md">>}
OneNoteAtFirst == {<<"v", "schema.md">>, <<"v", "a", "n.md">>, <<"o", "s.md">>}
ThreeFolders == <<<<"v">>, <<"v", "a">>, <<"v", "b">>>>

\* The vault, a note, a folder; over a link, to a link, out of the vault.
SevenPaths ==
  {<<>>, <<"a", "n.md">>, <<"b">>, <<"d", "s.md">>, <<"b", "a">>, <<"l.md">>, <<"..", "o", "s.md">>}

Link(v, t) == [vault |-> v, target |-> t]
Own(t) == Link("here", t)
SevenTexts ==
  {{}, {Own(<<"n">>)}, {Own(<<"a", "n">>), Link("v", <<"b", "m">>)}, {Own(<<"a", "n.md">>)},
   {Own(<<"m">>), Own(<<"b", "n">>)}, {Own(<<"n">>), Link("w", <<"n">>)}, {Own(<<"schema">>)}}
===============================================================================
