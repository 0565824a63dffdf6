------------------------------- MODULE VaultFiles -------------------------------
(***************************************************************************)
(* Files of a vault as its readers see them:                               *)
(*                                                                         *)
(*   storage/paths.py     resolve_in_vault                                 *)
(*   storage/notes.py     NoteRepository.read                              *)
(*   retrieval/tools.py   what ls, grep and read find and return           *)
(*   ingest/links.py      check_links                                      *)
(*                                                                         *)
(* A path is the sequence of its segments, from the root of the file       *)
(* system on.  A file has one real path; symbolic links are extra names.   *)
(***************************************************************************)
EXTENDS Naturals, Sequences, SequencesExt, FiniteSetsExt

CONSTANTS
  Root,        \* the vault directory
  Links,       \* symbolic link -> where it leads
  Stem,        \* file name that ends in .md -> the name without it
  SchemaName,
  Rejected     \* segments that _validate_segment rejects: .., hidden, empty ones

ASSUME FilesAssumption ==
  /\ Root \in Seq(STRING)
  /\ DOMAIN Links \subseteq Seq(STRING)
  /\ \A l \in DOMAIN Links : Links[l] \in Seq(STRING)
  /\ \A l \in DOMAIN Links : ~\E k \in DOMAIN Links : IsPrefix(k, Links[l])
  /\ ~\E l \in DOMAIN Links : IsPrefix(l, Root)
  /\ SchemaName \in DOMAIN Stem

\* What the system calls open when asked for a path.
Real(p) ==
  LET crossed == {k \in 1..Len(p) : SubSeq(p, 1, k) \in DOMAIN Links}
  IN IF crossed = {} THEN p
     ELSE LET k == Min(crossed) IN Links[SubSeq(p, 1, k)] \o SubSeq(p, k + 1, Len(p))

InVault(p) == IsPrefix(Root, p)

\* resolve_in_vault: no bad segment, no link on the way, and inside in the end.
Resolves(segments) ==
  /\ segments # <<>>
  /\ \A k \in DOMAIN segments : segments[k] \notin Rejected
  /\ \A k \in DOMAIN segments : Root \o SubSeq(segments, 1, k) \notin DOMAIN Links
  /\ InVault(Real(Root \o segments))

\* The tools also take "." and "" for the vault itself.
ToolResolves(segments) == segments = <<>> \/ Resolves(segments)

IsMarkdown(p) == Last(p) \in DOMAIN Stem

\* Mutant: rglob's matches are read whether they are links or not.
FilesAndLinks(files, base) ==
  {p \in files \union DOMAIN Links : IsPrefix(Real(base), p) /\ IsMarkdown(p)}

\* rglob does not descend into links, and its matches that are links are skipped; a base
\* that is a file stands for itself.
MarkdownFiles(files, base) ==
  {p \in files \ DOMAIN Links : IsPrefix(Real(base), p) /\ IsMarkdown(p)}

\* grep and read return text of these files.
GrepReads(files, segments) == {Real(p) : p \in MarkdownFiles(files, Root \o segments)}
ReadReads(files, segments) == {Real(Root \o segments)} \intersect files

-------------------------------------------------------------------------------
(* Notes and the links that name them.                                       *)

NotePath(p) == SubSeq(p, Len(Root) + 1, Len(p))

\* _existing_paths and list_notes: Markdown but the schema.
NotesIn(files, base) == {p \in MarkdownFiles(files, base) : Last(p) # SchemaName}

\* _index: folder and name without .md, or the bare name.
LinkKeys(p) == {Append(Front(NotePath(p)), Stem[Last(p)]), <<Stem[Last(p)]>>}

\* check_links: the target is among the keys.
Reaches(target, notes) == \E p \in notes : target \in LinkKeys(p)

\* NoteRepository.read at a vault-relative path.
Readable(files, segments) == Resolves(segments) /\ Root \o segments \in files
===============================================================================
