------------------------------- MODULE PennFat -------------------------------
(***************************************************************************)
(* The PennFAT engine of pennfat/fat.c over a freshly formatted image: the *)
(* FAT, the bytes of the data blocks and the root directory entries, and   *)
(* the calls that change them (fs_touch, fs_mv, fs_rm, fs_mark_deleted,    *)
(* fs_cat to a file, fs_cp into the image).  Each call is one step, which *)
(* is exact for the single-threaded PennFAT tool.  In PennOS a SIGALRM tick *)
(* can cut fs_cat between get_free_block and the LASTBLOCK mark; that       *)
(* interleaving is not modelled here.                                      *)
(*                                                                         *)
(* A block holds BS bytes and a directory block EPB entries; the real     *)
(* sizes (256 << e bytes, 4 << e entries) only scale the same arithmetic. *)
(* Names are the entries' names, Chars the bytes of content; NUL is the   *)
(* terminator fs_cat writes.  A step that corrupts the image beyond the   *)
(* FAT's own bookkeeping (a write of fat[0], a write past the FAT, exit)  *)
(* sets `outcome' and ends the behaviour.                                  *)
(***************************************************************************)
EXTENDS Integers, Sequences, SequencesExt, Functions

CONSTANTS NFat,    \* cells in the FAT: n_blocks * block_size / 2
          BS,      \* bytes in a data block
          EPB,     \* directory entries in a block: block_size / 64
          Names,   \* file names
          Chars,   \* content bytes other than NUL
          Inputs   \* lines read from the terminal by cat (non-empty)

ASSUME NFat >= 3 /\ BS >= 1 /\ EPB >= 1

LASTBLOCK == 65535            \* 0xFFFF, also firstBlock = -1 as a uint16_t
ROOTDIR == 1
NUL == "NUL"
Bytes == Chars \cup {NUL}
Blocks == 1..(NFat - 1)       \* data block b is described by fat[b]
Cell == Blocks \cup {0, LASTBLOCK}
Slots == Blocks \X (0..(EPB - 1))
NoSlot == <<0, 0>>
\* name[0]: 0 end of directory, 1 deleted, 2 deleted but in use, or a name
Tags == {"end", "delu", "deli", "live"}
NoName == "none"
Entry == [tag : Tags, name : Names \cup {NoName},
          size : 0..((NFat - 1) * BS), first : Cell]
EndEntry == [tag |-> "end", name |-> NoName, size |-> 0, first |-> 0]
Zeros == [i \in 0..(BS - 1) |-> NUL]
\* A host file copied in with cp -h may be empty.
HostFiles == Inputs \cup {<<>>}
Outcomes == {"none",
             "fat0_written",   \* fat[0] (the metadata) overwritten
             "fat_overrun",    \* get_free_block's scan past the FAT used
             "unmarked_head",  \* an entry's firstBlock is a free block
             "fill_exit"}      \* fill_chain reached LASTBLOCK: exit

\* The call a step performs, with its arguments: a history of the caller's
\* requests, read by the refinement checks and by no action.
NoCall == [op |-> "mount"]
Calls == {NoCall}
         \cup [op : {"touch", "rm", "unlink"}, name : Names]
         \cup [op : {"mv", "cp", "cat_a"}, src : Names, name : Names]
         \cup [op : {"write", "append"}, name : Names, arg : HostFiles]

VARIABLES fat, data, dir, outcome, call
vars == <<fat, data, dir, outcome, call>>

TypeOK ==
    /\ fat \in [Blocks -> Cell]
    /\ data \in [Blocks -> [0..(BS - 1) -> Bytes]]
    /\ dir \in [Slots -> Entry]
    /\ outcome \in Outcomes
    /\ call \in Calls

-----------------------------------------------------------------------------
(* The loops that follow a chain: the blocks from b under FAT f, at most  *)
(* k links.  The chain ends at the first cell that is not a data block.   *)
RECURSIVE ChainFrom(_, _, _)
ChainFrom(f, b, k) ==
    IF b \in Blocks /\ k > 0 THEN <<b>> \o ChainFrom(f, f[b], k - 1) ELSE <<>>

Chain(f, b) == ChainFrom(f, b, NFat)

(* The directory slots in the order find_file and add_file scan them. *)
RootSlots(f) ==
    LET rc == Chain(f, ROOTDIR)
    IN [i \in 1..(Len(rc) * EPB) |-> <<rc[(i - 1) \div EPB + 1], (i - 1) % EPB>>]

(* find_file: the first slot of the root chain holding name n; entries    *)
(* with name[0] < 2 are skipped, and a pinned entry (name[0] = 2) never   *)
(* compares equal to a valid name.                                         *)
find_file(f, dr, n) ==
    LET ss == RootSlots(f)
        i == SelectInSeq(ss, LAMBDA s : dr[s].tag = "live" /\ dr[s].name = n)
    IN IF i = 0 THEN NoSlot ELSE ss[i]

Found(n) == find_file(fat, dir, n) # NoSlot
Loc(n) == find_file(fat, dir, n)

(* get_free_block: the first free cell from 1, or 0.  Its loop runs to    *)
(* n_blocks * block_size cells, twice the FAT; past the FAT it reads data *)
(* bytes, so "0" here stands for both of its failures (see NoSpace).      *)
get_free_block(f) ==
    LET free == {i \in Blocks : f[i] = 0}
    IN IF free # {} THEN Min(free) ELSE 0

(* safe_write of bytes at offset off of a block. *)
WriteAt(blk, off, bytes) ==
    [i \in 0..(BS - 1) |-> IF off <= i /\ i < off + Len(bytes)
                           THEN bytes[i - off + 1] ELSE blk[i]]

(* delete_chain: zero each cell from head until LASTBLOCK.  A walk that   *)
(* reaches cell 0 zeroes the metadata.                                     *)
delete_chain_keepLast(f, cur) ==                    \* `fat[curr] != LAST'
    LET RECURSIVE Walk(_, _)
        Walk(g, c) == IF c = LASTBLOCK \/ (c \in Blocks /\ g[c] = LASTBLOCK)
                      THEN [fat |-> g, ok |-> TRUE]
                      ELSE IF c \notin Blocks THEN [fat |-> g, ok |-> FALSE]
                      ELSE Walk([g EXCEPT ![c] = 0], g[c])
    IN Walk(f, cur)

RECURSIVE delete_chain(_, _)
delete_chain(f, cur) ==
    IF cur = LASTBLOCK THEN [fat |-> f, ok |-> TRUE]
    ELSE IF cur \notin Blocks THEN [fat |-> f, ok |-> FALSE]
    ELSE delete_chain([f EXCEPT ![cur] = 0], f[cur])

(* build_chain: mark cur LASTBLOCK, write what fits; otherwise take the   *)
(* next free block, build the rest there, then link cur to it.  Nothing   *)
(* at all is done for zero bytes.  ok is FALSE when a block was needed   *)
(* and none was free.                                                      *)
RECURSIVE build_chain(_, _, _, _)
build_chain(f, d, cur, bytes) ==
    IF bytes = <<>> THEN [fat |-> f, data |-> d, ok |-> TRUE]
    ELSE LET f1 == [f EXCEPT ![cur] = LASTBLOCK] IN
      IF Len(bytes) <= BS
      THEN [fat |-> f1, data |-> [d EXCEPT ![cur] = WriteAt(@, 0, bytes)],
            ok |-> TRUE]
      ELSE LET next == get_free_block(f1) IN
           IF next = 0 THEN [fat |-> f1, data |-> d, ok |-> FALSE]
           ELSE LET r == build_chain(f1, d, next, SubSeq(bytes, BS + 1, Len(bytes)))
                IN [r EXCEPT !.fat[cur] = next,
                             !.data[cur] = WriteAt(@, 0, SubSeq(bytes, 1, BS))]

(* read_chain: n bytes of the chain at head, BS per block. *)
RECURSIVE read_chain(_, _, _, _)
read_chain(f, d, head, n) ==
    IF head \notin Blocks \/ n = 0 THEN <<>>
    ELSE IF n <= BS THEN [i \in 1..n |-> d[head][i - 1]]
    ELSE [i \in 1..BS |-> d[head][i - 1]] \o read_chain(f, d, f[head], n - BS)

(* fill_chain: walk to the block holding byte csize of the chain and fill *)
(* the rest of it from buf; the number of bytes written.  A walk that     *)
(* reaches LASTBLOCK exits the program.                                   *)
fill_chain_claimAll(f, d, head, csize, buf) ==      \* returns buffer_size
    LET RECURSIVE F(_, _)
        F(h, c) ==
          IF h \notin Blocks THEN [data |-> d, written |-> 0, ok |-> FALSE]
          ELSE IF buf = <<>> THEN [data |-> d, written |-> 0, ok |-> TRUE]
          ELSE IF c <= BS
               THEN LET w == IF c = BS THEN 0
                             ELSE IF BS - c <= Len(buf) THEN BS - c ELSE Len(buf)
                    IN [data |-> [d EXCEPT ![h] = WriteAt(@, c, SubSeq(buf, 1, w))],
                        written |-> Len(buf), ok |-> TRUE]
          ELSE F(f[h], c - BS)
    IN F(head, csize)

RECURSIVE fill_chain(_, _, _, _, _)
fill_chain(f, d, head, csize, buf) ==
    IF head \notin Blocks THEN [data |-> d, written |-> 0, ok |-> FALSE]
    ELSE IF buf = <<>> THEN [data |-> d, written |-> 0, ok |-> TRUE]
    ELSE IF csize <= BS
         THEN LET w == IF csize = BS THEN 0
                       ELSE IF BS - csize <= Len(buf) THEN BS - csize
                       ELSE Len(buf)
              IN [data |-> [d EXCEPT ![head] = WriteAt(@, csize, SubSeq(buf, 1, w))],
                  written |-> w, ok |-> TRUE]
    ELSE fill_chain(f, d, f[head], csize - BS, buf)

NewEntry_signedFirst(n) ==                          \* -1 kept as an int
    [tag |-> "live", name |-> n, size |-> 0, first |-> -1]

(* The entry add_file writes: size 0, firstBlock = -1, stored as 0xFFFF. *)
NewEntry(n) == [tag |-> "live", name |-> n, size |-> 0, first |-> LASTBLOCK]

add_file_noMark(f, d, dr, n) ==                     \* new block not LASTBLOCK
    LET ss == RootSlots(f)
        i == SelectInSeq(ss, LAMBDA s : dr[s].tag \in {"end", "delu"})
        new == get_free_block(f)
    IN IF i # 0
       THEN [fat |-> f, data |-> d, dir |-> [dr EXCEPT ![ss[i]] = NewEntry(n)],
             ok |-> TRUE]
       ELSE IF new = 0 THEN [fat |-> f, data |-> d, dir |-> dr, ok |-> FALSE]
       ELSE [fat |-> [f EXCEPT ![Last(Chain(f, ROOTDIR))] = new],
             data |-> [d EXCEPT ![new] = Zeros],
             dir |-> [s \in Slots |-> IF s[1] = new
                                      THEN IF s[2] = 0 THEN NewEntry(n) ELSE EndEntry
                                      ELSE dr[s]],
             ok |-> TRUE]

(* add_file: the first end-of-directory or deleted slot of the root chain *)
(* gets the new entry; with none, a free block is linked after the last   *)
(* directory block, marked LASTBLOCK, zeroed, and its slot 0 used.        *)
add_file(f, d, dr, n) ==
    LET ss == RootSlots(f)
        i == SelectInSeq(ss, LAMBDA s : dr[s].tag \in {"end", "delu"})
        rc == Chain(f, ROOTDIR)
        new == get_free_block(f)
    IN IF i # 0
       THEN [fat |-> f, data |-> d, dir |-> [dr EXCEPT ![ss[i]] = NewEntry(n)],
             ok |-> TRUE]
       ELSE IF new = 0 THEN [fat |-> f, data |-> d, dir |-> dr, ok |-> FALSE]
       ELSE [fat |-> [f EXCEPT ![Last(rc)] = new, ![new] = LASTBLOCK],
             data |-> [d EXCEPT ![new] = Zeros],
             dir |-> [s \in Slots |-> IF s[1] = new
                                      THEN IF s[2] = 0 THEN NewEntry(n) ELSE EndEntry
                                      ELSE dr[s]],
             ok |-> TRUE]

-----------------------------------------------------------------------------
Alive == outcome = "none"

(* The image after mkfs and mount: cell 1 (the root directory) LASTBLOCK, *)
(* every other cell, data byte and directory entry zero.                  *)
Init ==
    /\ fat = [b \in Blocks |-> IF b = ROOTDIR THEN LASTBLOCK ELSE 0]
    /\ data = [b \in Blocks |-> Zeros]
    /\ dir = [s \in Slots |-> EndEntry]
    /\ outcome = "none"
    /\ call = NoCall

Fault(o) == outcome' = o /\ UNCHANGED <<fat, data, dir, call>>

(* A block was needed and none is free: get_free_block returns 0 and      *)
(* build_chain or add_file writes fat[0]; or its scan past the FAT met a  *)
(* zero word of the root directory and returned an index past the FAT.    *)
NoSpace == Fault("fat0_written") \/ Fault("fat_overrun")

Commit(a, dr, c) ==
    /\ fat' = a.fat /\ data' = a.data /\ dir' = dr /\ call' = c

(* The output file of fs_cat and fs_cp: found, or created by add_file. *)
Target(n) ==
    IF Found(n) THEN [fat |-> fat, data |-> data, dir |-> dir, ok |-> TRUE]
    ELSE add_file(fat, data, dir, n)

(* fs_touch of a missing name; of an existing one it only sets mtime. *)
fs_touch(n) ==
    LET a == add_file(fat, data, dir, n) IN
    /\ Alive /\ ~Found(n)
    /\ IF a.ok THEN Commit(a, a.dir, [op |-> "touch", name |-> n])
               /\ UNCHANGED outcome ELSE NoSpace

fs_mv(o, n) ==
    /\ Alive /\ Found(o) /\ ~Found(n)
    /\ dir' = [dir EXCEPT ![Loc(o)].name = n]
    /\ call' = [op |-> "mv", src |-> o, name |-> n]
    /\ UNCHANGED <<fat, data, outcome>>

(* fs_rm: name[0] = 1 and the chain freed; firstBlock is left as it was. *)
fs_rm(n) ==
    LET r == delete_chain(fat, dir[Loc(n)].first) IN
    /\ Alive /\ Found(n)
    /\ IF r.ok
       THEN /\ fat' = r.fat /\ dir' = [dir EXCEPT ![Loc(n)].tag = "delu"]
            /\ call' = [op |-> "rm", name |-> n]
            /\ UNCHANGED <<data, outcome>>
       ELSE Fault("fat0_written")

(* fs_mark_deleted (f_unlink of a file another process holds). *)
fs_mark_deleted(n) ==
    /\ Alive /\ Found(n)
    /\ dir' = [dir EXCEPT ![Loc(n)].tag = "deli"]
    /\ call' = [op |-> "unlink", name |-> n]
    /\ UNCHANGED <<fat, data, outcome>>

(* The overwrite of fs_cat (output_mode 1) and of fs_cp_mode into the     *)
(* image: delete the old chain, take a free head, build the new content   *)
(* there, and write back the entry with the new head and size.  A build   *)
(* of zero bytes leaves the new head free in the FAT.                     *)
Rebuild(n, bytes, size, c) ==
    LET a == Target(n)
        loc == find_file(a.fat, a.dir, n)
        dc == delete_chain(a.fat, a.dir[loc].first)
        h == get_free_block(dc.fat)
        b == build_chain(dc.fat, a.data, h, bytes)
    IN IF ~a.ok THEN NoSpace
       ELSE IF ~dc.ok THEN Fault("fat0_written")
       ELSE IF h = 0 \/ ~b.ok THEN NoSpace
       ELSE /\ Commit(b, [a.dir EXCEPT ![loc].first = h, ![loc].size = size], c)
            /\ outcome' = IF bytes = <<>> THEN "unmarked_head" ELSE "none"

(* fs_cat of a terminal line to a file, overwrite: size + 1 bytes with    *)
(* the NUL terminator are built, size bytes recorded.                     *)
CatWrite(n, s) ==
    Alive /\ Rebuild(n, s \o <<NUL>>, Len(s), [op |-> "write", name |-> n, arg |-> s])

(* fs_cat of one input file to a file, overwrite; the input is read with  *)
(* read_chain into the output buffer first.                               *)
ContentOf(n) == read_chain(fat, data, dir[Loc(n)].first, dir[Loc(n)].size)

CatFileWrite(src, n) ==
    /\ Alive /\ Found(src)
    /\ Rebuild(n, ContentOf(src) \o <<NUL>>, Len(ContentOf(src)),
               [op |-> "cp", src |-> src, name |-> n])

(* fs_cp and cp -h: size bytes, no terminator. *)
fs_cp(src, n) ==
    /\ Alive /\ Found(src)
    /\ Rebuild(n, ContentOf(src), dir[Loc(src)].size,
               [op |-> "cp", src |-> src, name |-> n])

CopyIn(n, s) ==
    Alive /\ Rebuild(n, s, Len(s), [op |-> "write", name |-> n, arg |-> s])

(* fs_cat append (output_mode 2) of bytes s to n.  An empty file          *)
(* (firstBlock LASTBLOCK) gets a new chain of s.  Otherwise fill_chain    *)
(* fills the tail block from the old size; what is left is built as a new *)
(* chain and linked after the block whose cell is LASTBLOCK.              *)
Append_new(a, loc, s, c) ==
    LET h == get_free_block(a.fat)
        b == build_chain(a.fat, a.data, h, s)
    IN IF h = 0 \/ ~b.ok THEN NoSpace
       ELSE /\ Commit(b, [a.dir EXCEPT ![loc].first = h, ![loc].size = Len(s)], c)
            /\ outcome' = IF s = <<>> THEN "unmarked_head" ELSE "none"

Append_fill_sizeReset(a, loc, s, c) ==                 \* size = output_size
    LET e == a.dir[loc]
        fc == fill_chain(a.fat, a.data, e.first, e.size, s)
        h == get_free_block(a.fat)
        b == build_chain(a.fat, fc.data, h, SubSeq(s, fc.written + 1, Len(s)))
        last == Last(Chain(a.fat, e.first))
    IN IF ~fc.ok THEN Fault("fill_exit")
       ELSE IF fc.written = Len(s)
       THEN Commit([a EXCEPT !.data = fc.data], [a.dir EXCEPT ![loc].size = Len(s)], c)
            /\ UNCHANGED outcome
       ELSE IF h = 0 \/ ~b.ok THEN NoSpace
       ELSE /\ Commit([b EXCEPT !.fat[last] = h],
                      [a.dir EXCEPT ![loc].size = e.size + Len(s)], c)
            /\ UNCHANGED outcome

Append_fill(a, loc, s, c) ==
    LET e == a.dir[loc]
        fc == fill_chain(a.fat, a.data, e.first, e.size, s)
        h == get_free_block(a.fat)
        b == build_chain(a.fat, fc.data, h, SubSeq(s, fc.written + 1, Len(s)))
        last == Last(Chain(a.fat, e.first))
    IN IF ~fc.ok THEN Fault("fill_exit")
       ELSE IF fc.written = Len(s)
       THEN Commit([a EXCEPT !.data = fc.data],
                   [a.dir EXCEPT ![loc].size = e.size + Len(s)], c)
            /\ UNCHANGED outcome
       ELSE IF h = 0 \/ ~b.ok THEN NoSpace
       ELSE /\ Commit([b EXCEPT !.fat[last] = h],
                      [a.dir EXCEPT ![loc].size = e.size + Len(s)], c)
            /\ UNCHANGED outcome

AppendTo(n, s, c) ==
    LET a == Target(n)
        loc == find_file(a.fat, a.dir, n)
    IN IF ~a.ok THEN NoSpace
       ELSE IF a.dir[loc].first = LASTBLOCK THEN Append_new(a, loc, s, c)
       ELSE Append_fill(a, loc, s, c)

(* cat -a of a terminal line, and of an input file. *)
CatAppend(n, s) ==
    Alive /\ AppendTo(n, s, [op |-> "append", name |-> n, arg |-> s])

CatFileAppend(src, n) ==
    /\ Alive /\ Found(src)
    /\ AppendTo(n, ContentOf(src), [op |-> "cat_a", src |-> src, name |-> n])

Next ==
    \/ \E n \in Names : fs_touch(n) \/ fs_rm(n) \/ fs_mark_deleted(n)
    \/ \E o, n \in Names : \/ fs_mv(o, n) \/ fs_cp(o, n)
                           \/ CatFileWrite(o, n) \/ CatFileAppend(o, n)
    \/ \E n \in Names, s \in Inputs : CatWrite(n, s) \/ CatAppend(n, s)
    \/ \E n \in Names, s \in HostFiles : CopyIn(n, s)

Spec == Init /\ [][Next]_vars

-----------------------------------------------------------------------------
(* The entries that own a chain: live and pinned entries of the root      *)
(* directory with a first block.                                           *)
OwnerSlots ==
    {s \in ToSet(RootSlots(fat)) : dir[s].tag \in {"live", "deli"}
                                    /\ dir[s].first # LASTBLOCK}
ChainAt(s) == ToSet(Chain(fat, dir[s].first))
RootChain == ToSet(Chain(fat, ROOTDIR))

(* Spec 3: a chain is a non-empty sequence of distinct data blocks ending *)
(* in LASTBLOCK with no free cell in it, for the root directory and every *)
(* file: what delete_chain, read_chain and fill_chain rely on when they    *)
(* walk from a firstBlock.                                                 *)
ChainsWellFormed ==
    \A h \in {ROOTDIR} \cup {dir[s].first : s \in OwnerSlots} :
        LET c == Chain(fat, h)
        IN c # <<>> /\ IsInjective(c) /\ fat[Last(c)] = LASTBLOCK

(* The image stays usable: no call writes fat[0] or past the FAT when the *)
(* disk is full (get_free_block returning 0 or an index past the FAT),     *)
(* fill_chain never exits the tool, and every chain is well formed.        *)
ImageIntact == outcome = "none" /\ ChainsWellFormed

(* Spec 3: chains do not alias.  get_free_block, build_chain's marking of *)
(* a block before it searches for the next, and delete_chain before a     *)
(* rebuild must never hand a block of one file (or of the directory) to   *)
(* another.                                                                *)
ChainsDisjoint ==
    /\ \A s \in OwnerSlots : ChainAt(s) \cap RootChain = {}
    /\ \A s, t \in OwnerSlots : s # t => ChainAt(s) \cap ChainAt(t) = {}

(* Every block the FAT marks used belongs to the directory or to a file:  *)
(* rm, overwrite and the append link never leave a used block that no    *)
(* chain reaches.                                                          *)
NoLeakedBlocks ==
    \A b \in Blocks :
        fat[b] # 0 => b \in RootChain \cup UNION {ChainAt(s) : s \in OwnerSlots}

(* The size field is authoritative for reads (spec 4.2): a file's chain   *)
(* holds at least size bytes, so read_chain and fill_chain never walk off *)
(* its end.  Append's size arithmetic and fill_chain's count are checked. *)
SizesFitChains ==
    \A s \in ToSet(RootSlots(fat)) :
        dir[s].tag = "live" => dir[s].size <= Len(Chain(fat, dir[s].first)) * BS

-----------------------------------------------------------------------------
(* Two views of the directory as the abstract FileStore: each live name   *)
(* with its size, and each live name with the bytes read_chain returns.   *)
SizeOf == [n \in Names |-> IF Found(n) THEN dir[Loc(n)].size ELSE -1]
NoContent == <<"gone">>        \* no content is a sequence of a non-byte
BytesOf == [n \in Names |-> IF Found(n) THEN ContentOf(n) ELSE NoContent]

\* In the size view a call's content argument is its length.
SizeCall == IF "arg" \in DOMAIN call THEN [call EXCEPT !.arg = Len(call.arg)]
            ELSE call

SizeStore == INSTANCE FileStore WITH
    files <- SizeOf, call <- SizeCall, NoFile <- -1, Empty <- 0,
    Join <- LAMBDA x, y : x + y

ByteStore == INSTANCE FileStore WITH
    files <- BytesOf, NoFile <- NoContent, Empty <- <<>>,
    Join <- LAMBDA x, y : x \o y

(* Every step of the engine changes file sizes as touch, mv, rm, unlink,  *)
(* cat -w, cat -a and cp promise: fs_cat's size arithmetic in all three   *)
(* append paths, add_file's slot reuse and directory growth, find_file's  *)
(* first match.                                                            *)
SizesRefined == SizeStore!Spec

(* Every step changes file contents as the same calls promise: what is    *)
(* read back after cat -w, cat -a and cp is what was written.             *)
BytesRefined == ByteStore!Spec

=============================================================================
