------------------------------ MODULE FileStore ------------------------------
(***************************************************************************)
(* What the PennFAT directory and file engine promises (spec 4.2), without *)
(* blocks: a flat root directory mapping each live name to its content,    *)
(* and the call that made the last step, with its arguments.  Recording    *)
(* the call ties each step to what the caller asked for: a write of p must *)
(* leave exactly p, not any content some other call could have left.       *)
(*                                                                         *)
(* Content is kept abstract so that one specification serves two views:    *)
(* the bytes of a file (Empty = <<>>, Join = concatenation) and its size   *)
(* alone (Empty = 0, Join = +).                                            *)
(***************************************************************************)
CONSTANTS Names,     \* file names
          Empty,     \* content of a touched file
          Join(_, _) \* content after an append

CONSTANT NoFile      \* the name is not in the directory

VARIABLES files, call

\* The call before any: the file system was just mounted.
NoCall == [op |-> "mount"]

Live(d) == {n \in Names : d[n] # NoFile}

Init == files = [n \in Names |-> NoFile] /\ call = NoCall

(* Each call relates the directory before, d, to the one after, e.        *)

(* touch of a missing name creates it empty; of a live name it changes    *)
(* only the mtime, which is not modelled.                                  *)
Create(d, e, n) == n \notin Live(d) /\ e = [d EXCEPT ![n] = Empty]

(* mv: refused when the new name exists. *)
Rename(d, e, o, n) ==
    /\ o \in Live(d) /\ n \notin Live(d)
    /\ e = [d EXCEPT ![o] = NoFile, ![n] = d[o]]

(* rm, and unlink while open (mark-deleted-pinned): the name is gone. *)
Remove(d, e, n) == n \in Live(d) /\ e = [d EXCEPT ![n] = NoFile]

(* cat -w, cp: the destination, created if missing, holds exactly p. *)
Write(d, e, n, p) == e = [d EXCEPT ![n] = p]

(* cat -a: p is added after the old content; a missing file is created. *)
Append(d, e, n, p) ==
    e = [d EXCEPT ![n] = IF n \in Live(d) THEN Join(d[n], p) ELSE p]

(* One call c of the engine, from directory d to directory e.  A copy or  *)
(* a cat of files writes the content of a live source file.               *)
Step(d, e, c) ==
    CASE c.op = "touch"               -> Create(d, e, c.name)
      [] c.op = "mv"                  -> Rename(d, e, c.src, c.name)
      [] c.op \in {"rm", "unlink"}    -> Remove(d, e, c.name)
      [] c.op = "write"               -> Write(d, e, c.name, c.arg)
      [] c.op = "append"              -> Append(d, e, c.name, c.arg)
      [] c.op = "cp"                  -> /\ c.src \in Live(d)
                                         /\ Write(d, e, c.name, d[c.src])
      [] c.op = "cat_a"               -> /\ c.src \in Live(d)
                                         /\ Append(d, e, c.name, d[c.src])
      [] OTHER                        -> FALSE

(* d, e and c are bound to the values of the step so that a refinement   *)
(* mapping is computed once per step.                                      *)
Next == \E d \in {files}, e \in {files'}, c \in {call'} : Step(d, e, c)

Spec == Init /\ [][Next]_<<files, call>>
=============================================================================
