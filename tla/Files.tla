------------------------------- MODULE Files --------------------------------
(***************************************************************************)
(* Files as the operating system and CPython present them to commands that *)
(* share a directory without locks.                                        *)
(*                                                                         *)
(* Path.write_text truncates the file when it opens it and writes the      *)
(* buffered text when it closes it.  These are two steps in the models, so *)
(* that another command, or a crash, can fall between them.  A line that   *)
(* is appended to a journal goes out in one write at the end of the file.  *)
(***************************************************************************)
CONSTANTS
    Absent,     \* the file does not exist
    Empty,      \* the file was truncated and not written yet
    Garbled     \* the file holds the end of one text behind another

NoFile == {Absent, Empty, Garbled}

Readable(f) == f \notin NoFile
Malformed(f) == f \in {Empty, Garbled}

\* What a writer that truncated the file earlier leaves when it closes it: its
\* text alone, unless another writer's longer text arrived in between.
Flush(f, text) == IF f \in {Empty, text} THEN {text} ELSE {text, Garbled}
=============================================================================
