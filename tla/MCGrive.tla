------------------------------- MODULE MCGrive -------------------------------
(***************************************************************************)
(* Small instances of Grive.tla for TLC.                                   *)
(***************************************************************************)
EXTENDS Grive

CONSTANTS
    root, a, b, c, d,   \* paths
    x, y, z             \* contents

\* Every path directly in the synchronised folder.
FlatParent == [n \in Node |-> root]
FlatUnder  == [n \in Node |-> {}]

\* Everything in the folder d.
TreeParent == [n \in Node |-> IF n = d THEN root ELSE d]
TreeUnder  == [n \in Node |-> IF n = d THEN Node \ {d} ELSE {}]

\* a in the folder d, the others beside it.
SplitParent == [n \in Node |-> IF n = a THEN d ELSE root]
SplitUnder  == [n \in Node |-> IF n = d THEN {a} \cap Node ELSE {}]

\* x and y have one size.
OneSize == [f \in Files |-> IF f = Partial THEN 0 ELSE IF f = z THEN 2 ELSE 1]

\* What people put where: contents of its own for each path, ...
OwnContents == [n \in Node |-> CASE n = a -> {x, y} [] n = b -> {z} [] n = d -> {Dir}]

\* ... the same contents anywhere, ...
SameContents == [n \in Node |-> IF n = d THEN {Dir} ELSE {x, y}]

\* ... or a file where others have a folder, and what cannot be read.
Mixed == [n \in Node |-> IF n = d THEN {Dir, x} ELSE {x, y, Bad}]

\* Nothing is ever hidden, or the path a in some runs, or the folder d with all in it.
NoIgnores == [i \in {"none"} |-> {}]
HideFile == [i \in {"none", "file"} |-> IF i = "file" THEN {a} ELSE {}]
HideEither == [i \in {"none", "file", "folder"} |->
                  CASE i = "file" -> {a} [] i = "folder" -> {d} \cup Under[d] [] OTHER -> {}]

Plain == {{}}
PlainOrNoNew == {{}, {"no-remote-new"}}
EachOption == {{}, {"force"}, {"dry-run"}, {"no-remote-new"}, {"no-remote-new", "upload-only"}}

===============================================================================
