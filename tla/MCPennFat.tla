------------------------------ MODULE MCPennFat ------------------------------
(* Model-checking instance of PennFat: a FAT of 5 cells (4 data blocks),  *)
(* 2-byte blocks and one directory entry per block, so that the second    *)
(* file grows the root directory and a short write already spans blocks, *)
(* with two names and one content byte besides NUL.                       *)
EXTENDS PennFat

CONSTANTS n1, n2

MCNames == {n1, n2}
MCChars == {"a"}
(* Terminal lines: one byte, and exactly one block. *)
MCInputs == {<<"a">>, <<"a", "a">>}
(* The FAT, the directory and the outcome evolve without reading a data  *)
(* byte or the last call: every length the engine computes comes from    *)
(* sizes and chains, and no action reads `call'.  Nor does anything read *)
(* a deleted entry beyond its tag: find_file skips name[0] < 2, add_file *)
(* overwrites a slot with name[0] = 1 whole, and of a deleted-in-use     *)
(* entry only the firstBlock of the chain it still owns matters.  Runs   *)
(* whose properties do not read data identify states by this view.       *)
DirView == [s \in Slots |->
              CASE dir[s].tag = "delu" -> [tag |-> "delu"]
                [] dir[s].tag = "deli" -> [tag |-> "deli", first |-> dir[s].first]
                [] OTHER               -> dir[s]]
FatView == <<fat, DirView, outcome>>
=============================================================================
