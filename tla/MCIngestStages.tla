---------------------------- MODULE MCIngestStages -----------------------------
(* A small instance of IngestStages for TLC: a vault with one note, a new     *)
(* note in a declared folder, one in a folder that is not.                    *)
EXTENDS IngestStages

Path(f, n) == [folder |-> f, name |-> n]

ThreePaths == {Path("f", "old"), Path("f", "new"), Path("g", "new")}
OldNote == {Path("f", "old")}
OneFolder == {"f"}

Body(links, stuck, text, sound) ==
  [links |-> links, stuck |-> stuck, text |-> text, sound |-> sound]

\* A body without links; a stub; one that is no text; links to a note by its path, to one
\* by its bare name beside one that leads nowhere, and one whose markup downgrade_links
\* does not see.
SixBodies ==
  {Body({}, {}, TRUE, TRUE), Body({}, {}, TRUE, FALSE), Body({}, {}, FALSE, TRUE),
   Body({<<"f", "new">>}, {}, TRUE, TRUE),
   Body({<<"old">>, <<"ghost">>}, {}, TRUE, TRUE),
   Body({<<"ghost">>}, {<<"ghost">>}, TRUE, TRUE)}
===============================================================================
