---------------------------- MODULE MCOpenFiles -----------------------------
(* Model-checking instance of OpenFiles: the shell and one child, one     *)
(* file name, two user fd slots each, so that two processes can hold the  *)
(* same file, a process can hold it twice, and the table can fill.        *)
EXTENDS OpenFiles, TLC

CONSTANTS p1, p2, a

MCProcs == {p1, p2}
MCNames == {a}

MCChmodPerms == {{"R"}}
=============================================================================
