----------------------------- MODULE OpenFiles ------------------------------
(***************************************************************************)
(* The open-files table of src/src/filesystem/filesystem.c: the global     *)
(* list open_files of file_t entries (file_id, filename, wr_pid and a      *)
(* linked list of per-process fileptr nodes), the per-process              *)
(* fileDescriptors[] tables, and the operations on them: f_open, f_close,  *)
(* f_unlink, f_lseek, f_read, f_write, f_rm, f_chmod, and the fileptr     *)
(* bookkeeping p_spawn, p_exit and p_kill do (process_create_fileptrs,     *)
(* process_delete_fileptrs, the writer transfer of I/O redirection).     *)
(*                                                                         *)
(* Each call runs as one step of the calling process.  File contents are  *)
(* abstracted to sizes: what is kept is which process holds a fileptr     *)
(* node in which entry, in list order (nodes are pushed at the head), its  *)
(* offset, and whether a node still reachable from an entry has been       *)
(* freed.  A walk of a list that reaches a freed node, a dereference of a  *)
(* lookup that found nothing, and a write outside a buffer end the         *)
(* behaviour in outcome.  Processes run, or are zombies that keep their    *)
(* fds until reaped.  The directory side keeps, per name, whether a live   *)
(* directory entry exists, its size and permission bits, and how many      *)
(* deleted-but-in-use (name[0] = 2) entries carry that name.               *)
(***************************************************************************)
EXTENDS Integers, Sequences, SequencesExt, FiniteSets

CONSTANTS
    Procs,      \* PIDs of the processes that may exist
    Init_pid,   \* the process that exists at start (the shell)
    Names,      \* file names
    InitFiles,  \* names present in the mounted image
    NUserFds,   \* fd slots 3 .. NUserFds + 2 (MAX_FDS - 3 in the code)
    MaxFid,     \* bound on next_file_id
    MaxPinned,  \* bound on deleted-in-use entries per name
    MaxNodes,   \* bound on the length of a fileptr list
    MaxSize,    \* bound on a file's size
    StackFails, \* whether p_spawn's malloc(STACKSIZE) may return NULL
    WriteLens,  \* byte counts f_write is called with
    ReadLens,   \* byte counts f_read is called with
    ChmodPerms  \* permission sets f_chmod may install

NOFILE == -1
STDOUT_ID == -3
UserSlots == 3..(NUserFds + 2)
Slots == {1} \cup UserSlots    \* slot 0 is read only by f_read
FileIds == 0..(MaxFid - 1)
Modes == {"F_WRITE", "F_READ", "F_APPEND"}
Perms == SUBSET {"R", "W"}
MaxPtr == MaxSize + 1          \* f_write can leave an offset one past the end
Node == [pid : Procs, live : BOOLEAN, ptr : 0..MaxPtr]
Outcomes == {"none", "fileptr_uaf",   \* list walk reached a freed node
             "fileptr_null",          \* get_fileptr returned NULL, deref'd
             "entry_null",            \* find_file_entry_by_file_id NULL
             "fd_table_full",         \* fileDescriptors[-1] written
             "entry_uninit",          \* find_file missed, its entry used
             "read_negative",         \* f_read wrote buf[size - ptr < 0]
             "entry_uaf",             \* f_open used a freed file_t
             "heap_overflow"}         \* f_write's '\0' past its buffer

ASSUME Init_pid \in Procs /\ InitFiles \subseteq Names /\ NUserFds >= 1
ASSUME ChmodPerms \subseteq Perms /\ StackFails \in BOOLEAN

VARIABLES
    live,       \* processes that exist
    zombies,    \* exited or SIGTERMed, still in pcb_list with their fds
    born,       \* PIDs already used
    fds,        \* fds[p][s]: fileDescriptors[s] of p
    open,       \* file_ids of the entries in open_files
    fname,      \* file_t.filename
    wr,         \* file_t.wr_pid
    fps,        \* file_t.fileptr_head as a sequence of nodes, head first
    nextFid,    \* next_file_id
    present,    \* a live directory entry has this name
    size,       \* its size (0 when there is none)
    perm,       \* its permission bits
    pinned,     \* number of name[0] = 2 entries left by fs_mark_deleted
    outcome,
    pend        \* f_open's lookup result, while the call is preempted

vars == <<live, zombies, born, fds, open, fname, wr, fps, nextFid, present, size, perm,
          pinned, outcome, pend>>

TypeOK ==
    /\ live \subseteq born /\ born \subseteq Procs
    /\ zombies \subseteq born /\ zombies \cap live = {}
    /\ fds \in [Procs -> [Slots -> FileIds \cup {NOFILE, STDOUT_ID}]]
    /\ open \subseteq FileIds
    /\ fname \in [FileIds -> Names]
    /\ wr \in [FileIds -> Procs \cup {-1}]
    /\ fps \in [FileIds -> Seq(Node)]
    /\ nextFid \in 0..MaxFid
    /\ present \in [Names -> BOOLEAN]
    /\ size \in [Names -> 0..MaxSize]
    /\ perm \in [Names -> Perms]
    /\ pinned \in [Names -> 0..MaxPinned]
    /\ outcome \in Outcomes
    /\ pend \in [Procs -> {<<>>} \cup (Names \X (FileIds \cup {NOFILE}))]

-----------------------------------------------------------------------------
(* Walking a fileptr list for pid p (get_fileptr, delete_fileptr): the    *)
(* first node that is either freed or p's.                                 *)
Hit(f, p) == SelectInSeq(fps[f], LAMBDA n : ~n.live \/ n.pid = p)
WalkFaults(f, p) == Hit(f, p) # 0 /\ ~fps[f][Hit(f, p)].live
Found(f, p) == Hit(f, p) # 0 /\ fps[f][Hit(f, p)].live

(* is_duplicate_fd: p has another user slot bound to f. *)
is_duplicate_fd(fdt, f) == \E s \in UserSlots : fdt[s] = f

(* find_unused_fd: the first free user slot, -1 if the table is full. *)
find_unused_fd(p) ==
    LET free == {s \in UserSlots : fds[p][s] = NOFILE}
    IN  IF free = {} THEN -1 ELSE CHOOSE s \in free : \A t \in free : s <= t

(* valid_perm: F_CANWRITE needs both the W and the R bit. *)
valid_perm(pm, mode) ==
    IF mode = "F_READ" THEN "R" \in pm ELSE {"R", "W"} \subseteq pm

(* fs_touch: creates a live entry (perm rw, size 0) when find_file finds  *)
(* none.                                                                   *)
fs_touch(n) ==
    /\ present' = [present EXCEPT ![n] = TRUE]
    /\ size' = IF present[n] THEN size ELSE [size EXCEPT ![n] = 0]
    /\ perm' = IF present[n] THEN perm ELSE [perm EXCEPT ![n] = {"R", "W"}]

(* The sizes the directory entry find_file fills in may hold: the file's, *)
(* or, when it finds no live entry, whatever the uninitialised dir_entry_t *)
(* holds (within the model's bound).                                        *)
EntrySize(n) == IF present[n] THEN {size[n]} ELSE 0..MaxPtr

(* The offset f_open and create_file_entry give: 0, or the size for       *)
(* F_APPEND.                                                               *)
OpenPtr(mode, sz) == IF mode = "F_APPEND" THEN sz ELSE 0

(* The entry of open_files with filename n (at most one is registered). *)
EntryOf(n) == {f \in open : fname[f] = n}

(* find_file_entry_by_filename: the first match in open_files, where       *)
(* create_file_entry pushes at the head, so the newest; NULL if none.      *)
NewestEntry(n) == IF EntryOf(n) = {} THEN NOFILE ELSE Max(EntryOf(n))

Fail(o) == outcome' = o /\ UNCHANGED <<live, zombies, born, fds, open, fname, wr, fps,
                                      nextFid, present, size, perm, pinned>>

Alive == outcome = "none"

-----------------------------------------------------------------------------
Init ==
    /\ live = {Init_pid} /\ zombies = {} /\ born = {Init_pid}
    /\ fds = [p \in Procs |-> [s \in Slots |-> IF s = 1 THEN STDOUT_ID
                                                ELSE NOFILE]]
    /\ open = {}
    /\ fname = [f \in FileIds |-> CHOOSE n \in Names : TRUE]
    /\ wr = [f \in FileIds |-> -1]
    /\ fps = [f \in FileIds |-> <<>>]
    /\ nextFid = 0
    /\ present = [n \in Names |-> n \in InitFiles]
    /\ size = [n \in Names |-> 0]
    /\ perm = [n \in Names |-> {"R", "W"}]
    /\ pinned = [n \in Names |-> 0]
    /\ outcome = "none"
    /\ pend = [p \in Procs |-> <<>>]

(* Faulty variants, each a plausible slip in the code modelled just below *)
(* it; the properties are expected to reject every one of them.           *)
f_open_inuse_alwaysPush(c, n, mode, f) ==       \* is_duplicate_fd not consulted
    \E pm \in IF present[n] THEN {perm[n]} ELSE Perms, sz \in EntrySize(n) :
    /\ valid_perm(pm, mode)
    /\ ~(mode = "F_WRITE" /\ wr[f] \notin {c, -1})
    /\ Len(fps[f]) < MaxNodes
    /\ find_unused_fd(c) # -1
    /\ fs_touch(n)
    /\ wr' = IF mode = "F_READ" THEN wr ELSE [wr EXCEPT ![f] = c]
    /\ fps' = [fps EXCEPT ![f] = Cons([pid |-> c, live |-> TRUE, ptr |-> OpenPtr(mode, sz)], @)]
    /\ fds' = [fds EXCEPT ![c][find_unused_fd(c)] = f]
    /\ UNCHANGED <<live, zombies, born, open, fname, nextFid, pinned, outcome>>

(* f_open on a name that already has an entry: the permission check reads *)
(* the directory entry find_file filled in, which is uninitialised when    *)
(* the name is only pinned, so any bits and size may be read then.  A      *)
(* process that has the file open already has its offset reset.          *)
f_open_inuse(c, n, mode, f) ==
    \E pm \in IF present[n] THEN {perm[n]} ELSE Perms, sz \in EntrySize(n) :
    /\ valid_perm(pm, mode)
    /\ ~(mode = "F_WRITE" /\ wr[f] \notin {c, -1})
    /\ Len(fps[f]) < MaxNodes
    /\ LET fd == find_unused_fd(c) IN
       CASE is_duplicate_fd(fds[c], f) /\ WalkFaults(f, c) -> Fail("fileptr_uaf")
         [] is_duplicate_fd(fds[c], f) /\ ~Found(f, c) -> Fail("fileptr_null")
         [] fd = -1 -> Fail("fd_table_full")
         [] OTHER ->
            /\ fs_touch(n)
            /\ wr' = IF mode = "F_READ" THEN wr ELSE [wr EXCEPT ![f] = c]
            /\ fps' = IF is_duplicate_fd(fds[c], f)
                      THEN [fps EXCEPT ![f][Hit(f, c)].ptr = OpenPtr(mode, sz)]
                      ELSE [fps EXCEPT ![f] = Cons([pid |-> c, live |-> TRUE,
                                                    ptr |-> OpenPtr(mode, sz)], @)]
            /\ fds' = [fds EXCEPT ![c][fd] = f]
            /\ UNCHANGED <<live, zombies, born, open, fname, nextFid, pinned, outcome>>

(* create_file_entry: push a new file_t with the caller's node; Write and  *)
(* Append make the caller the writer.                                      *)
create_file_entry(c, n, mode, sz) ==
    /\ open' = open \cup {nextFid}
    /\ fname' = [fname EXCEPT ![nextFid] = n]
    /\ wr' = [wr EXCEPT ![nextFid] = IF mode = "F_READ" THEN -1 ELSE c]
    /\ fps' = [fps EXCEPT ![nextFid] = <<[pid |-> c, live |-> TRUE,
                                          ptr |-> OpenPtr(mode, sz)]>>]
    /\ nextFid' = nextFid + 1

(* f_open on a name with no entry: touch the file, take a slot, register. *)
f_open_new(c, n, mode) ==
    /\ ~(~present[n] /\ mode = "F_READ")
    /\ nextFid < MaxFid
    /\ IF find_unused_fd(c) = -1 THEN Fail("fd_table_full")
       ELSE /\ fs_touch(n)
            /\ fds' = [fds EXCEPT ![c][find_unused_fd(c)] = nextFid]
            /\ \E sz \in EntrySize(n) : create_file_entry(c, n, mode, sz)
            /\ UNCHANGED <<live, zombies, born, pinned, outcome>>

(* f_open runs in the caller's context with SIGALRM unmasked, so a tick   *)
(* can fall after its find_file_entry_by_filename; the rest of the call   *)
(* then uses the file_t pointer (or the NULL) it got, whatever other       *)
(* processes did to open_files meanwhile.                                   *)
f_open_lookup(c, n) ==
    /\ Alive /\ c \in live
    /\ pend' = [pend EXCEPT ![c] = <<n, NewestEntry(n)>>]
    /\ UNCHANGED <<live, zombies, born, fds, open, fname, wr, fps, nextFid, present,
                   size, perm, pinned, outcome>>

f_open(c, mode) ==
    LET n == pend[c][1]
        f == pend[c][2]
    IN
    /\ Alive /\ c \in live /\ pend[c] # <<>>
    /\ pend' = [pend EXCEPT ![c] = <<>>]
    /\ CASE f = NOFILE -> f_open_new(c, n, mode)
         [] f \notin open -> Fail("entry_uaf")
         [] OTHER -> f_open_inuse(c, n, mode, f)
(* f_close works on a copy of the file_t (file_t file_entry): deleting the *)
(* caller's node from the copy unlinks it in the shared list only when it *)
(* is not the head; a head node is freed while the real entry still points *)
(* at it.  The writer slot is cleared in the copy only.  The real entry is *)
(* deregistered when the copy's list is empty.                             *)
f_close(c, s) ==
    LET f == fds[c][s]
        fdt == [fds[c] EXCEPT ![s] = NOFILE]
        last == ~is_duplicate_fd(fdt, f)
        i == Hit(f, c)
        copy == IF last /\ Found(f, c) THEN RemoveAt(fps[f], i) ELSE fps[f]
    IN
    /\ Alive /\ c \in live /\ f \in FileIds
    /\ CASE f \notin open -> Fail("entry_null")
         [] last /\ WalkFaults(f, c) -> Fail("fileptr_uaf")
         [] OTHER ->
            /\ fds' = [fds EXCEPT ![c] = fdt]
            /\ fps' = [fps EXCEPT ![f] =
                         IF last /\ Found(f, c) /\ i = 1
                         THEN [@ EXCEPT ![1].live = FALSE] ELSE copy]
            /\ open' = IF copy = <<>> THEN open \ {f} ELSE open
            /\ UNCHANGED <<live, zombies, born, fname, wr, nextFid, present, size, perm,
                           pinned, outcome>>

(* f_unlink: drop the caller's node and writer slot on the real entry;     *)
(* with no node left, deregister and fs_rm, else fs_mark_deleted.          *)
f_unlink(c, n) ==
    /\ Alive /\ c \in live /\ EntryOf(n) # {}
    /\ pinned[n] < MaxPinned
    /\ LET f == NewestEntry(n) IN
       IF WalkFaults(f, c) THEN Fail("fileptr_uaf")
       ELSE LET rest == IF Found(f, c) THEN RemoveAt(fps[f], Hit(f, c))
                        ELSE fps[f]
            IN /\ fps' = [fps EXCEPT ![f] = rest]
               /\ wr' = IF Found(f, c) /\ wr[f] = c
                        THEN [wr EXCEPT ![f] = -1] ELSE wr
               /\ IF rest = <<>>
                  THEN /\ open' = open \ {f}
                       /\ present' = [present EXCEPT ![n] = FALSE]
                       /\ UNCHANGED pinned
                  ELSE /\ UNCHANGED open
                       /\ present' = [present EXCEPT ![n] = FALSE]
                       /\ pinned' = IF present[n]
                                    THEN [pinned EXCEPT ![n] = @ + 1]
                                    ELSE pinned
               /\ size' = [size EXCEPT ![n] = 0]
               /\ UNCHANGED <<live, zombies, born, fds, fname, nextFid, perm, outcome>>

(* The caller's node of entry f: get_fileptr(file_entry.fileptr_head, pid) *)
MyPtr(f, c) == fps[f][Hit(f, c)].ptr

SetPtr(f, c, v) == fps' = [fps EXCEPT ![f][Hit(f, c)].ptr = v]

(* f_lseek (user slots: f_isatty refuses 0-2): find_file_entry,           *)
(* get_fileptr, then the new offset if it is within 0..size; out of bounds *)
(* nothing changes.  The size is the uninitialised entry's when find_file  *)
(* finds no live entry.                                                    *)
f_lseek(c, s) ==
    LET f == fds[c][s] IN
    /\ Alive /\ c \in live /\ f \in FileIds
    /\ CASE f \notin open -> Fail("entry_null")
         [] WalkFaults(f, c) -> Fail("fileptr_uaf")
         [] ~Found(f, c) -> Fail("fileptr_null")
         [] OTHER ->
            /\ \E sz \in EntrySize(fname[f]), o \in 0..MaxPtr :
                  o <= sz /\ SetPtr(f, c, o)
            /\ UNCHANGED <<live, zombies, born, fds, open, fname, wr, nextFid, present,
                           size, perm, pinned, outcome>>

(* f_read of k bytes after the lookups: read_chain into a buffer of the   *)
(* entry's size (following an uninitialised firstBlock when find_file      *)
(* found no live entry), then min(k, size - ptr) bytes; a negative count   *)
(* still writes buf[count] = '\0', before the caller's buffer.             *)
ReadBytes(c, f, k) ==
    \/ ~present[fname[f]] /\ Fail("entry_uninit")
    \/ CASE WalkFaults(f, c) -> Fail("fileptr_uaf")
         [] ~Found(f, c) -> Fail("fileptr_null")
         [] OTHER ->
            \E sz \in EntrySize(fname[f]) :
               LET count == IF MyPtr(f, c) + k > sz THEN sz - MyPtr(f, c) ELSE k
               IN IF count < 0 THEN Fail("read_negative")
                  ELSE /\ SetPtr(f, c, MyPtr(f, c) + count)
                       /\ UNCHANGED <<live, zombies, born, fds, open, fname, wr, nextFid,
                                      present, size, perm, pinned, outcome>>

f_read(c, s, k) ==
    LET f == fds[c][s] IN
    /\ Alive /\ c \in live /\ f \in FileIds
    /\ IF f \notin open THEN Fail("entry_null") ELSE ReadBytes(c, f, k)

(* f_write of k bytes by the writer (anyone else gets -1, nothing changes): *)
(* a write reaching past the end counts one byte more, for a terminator.   *)
(* The file is rebuilt in a zeroed buffer of new_file_size + 1 bytes, the  *)
(* count bytes copied in at ptr and buf[ptr + count] set to '\0'; fs_cat   *)
(* stores strlen(buffer) bytes.  So a write inside the file truncates it   *)
(* at ptr + k, one that starts past the end stores only the old bytes, and *)
(* a growing write puts its '\0' one byte past the buffer: that byte lands *)
(* in malloc's slack or corrupts the heap.  fs_cat re-creates a name with  *)
(* no live entry.  The offset moves by the count.                           *)
WriteBytes(c, f, k) ==
    LET n == fname[f] IN
    \/ ~present[n] /\ Fail("entry_uninit")
    \/ \E sz \in EntrySize(n) :
          LET ptr == MyPtr(f, c)
              grow == ptr + k > sz
              count == IF grow THEN k + 1 ELSE k
          IN \/ grow /\ Fail("heap_overflow")
             \/ /\ ptr + k <= MaxSize
                /\ SetPtr(f, c, ptr + count)
                /\ size' = [size EXCEPT ![n] = IF ptr > sz THEN sz ELSE ptr + k]
                /\ present' = [present EXCEPT ![n] = TRUE]
                /\ perm' = IF present[n] THEN perm ELSE [perm EXCEPT ![n] = {"R", "W"}]
                /\ UNCHANGED <<live, zombies, born, fds, open, fname, wr, nextFid, pinned,
                               outcome>>

f_write(c, s, k) ==
    LET f == fds[c][s] IN
    /\ Alive /\ c \in live /\ f \in FileIds
    /\ CASE f \notin open -> Fail("entry_null")
         [] wr[f] # c -> FALSE
         [] WalkFaults(f, c) -> Fail("fileptr_uaf")
         [] ~Found(f, c) -> Fail("fileptr_null")
         [] OTHER -> WriteBytes(c, f, k)

(* f_rm (shell rm): fs_rm on the live directory entry, open or not. *)
f_rm(c, n) ==
    /\ Alive /\ c \in live /\ present[n]
    /\ present' = [present EXCEPT ![n] = FALSE]
    /\ size' = [size EXCEPT ![n] = 0]
    /\ UNCHANGED <<live, zombies, born, fds, open, fname, wr, fps, nextFid, perm,
                   pinned, outcome>>

(* f_chmod (shell chmod): fs_chmod does not check find_file's result, so *)
(* for a name with no live entry it writes the uninitialised entry back to *)
(* the uninitialised location.                                             *)
f_chmod(c, n, pm) ==
    /\ Alive /\ c \in live
    /\ IF ~present[n] THEN Fail("entry_uninit")
       ELSE /\ perm' = [perm EXCEPT ![n] = pm]
            /\ UNCHANGED <<live, zombies, born, fds, open, fname, wr, fps, nextFid,
                           present, size, pinned, outcome>>

(* process_create_fileptrs: the child gets a node, at its parent's       *)
(* offset, in every entry named by one of its user slots in which the     *)
(* parent has a node.                                                      *)
process_create_fileptrs(c, ch, fids) ==
    [f \in FileIds |-> IF f \in fids /\ Found(f, c)
                      THEN Cons([pid |-> ch, live |-> TRUE,
                                 ptr |-> fps[f][Hit(f, c)].ptr], fps[f])
                      ELSE fps[f]]

p_spawn_wrongWriter(c, ch, fd1) ==              \* wr_pid = output_fid
    LET fdt == [fds[c] EXCEPT ![1] = fds[c][fd1]]
        out == fdt[1]
        fids == {fdt[s] : s \in UserSlots} \cap open
    IN
    /\ Alive /\ c \in live /\ ch \notin born
    /\ \A f \in fids : Len(fps[f]) < MaxNodes
    /\ ~(out >= 0 /\ out \notin open) /\ ~\E f \in fids : WalkFaults(f, c)
    /\ live' = live \cup {ch} /\ born' = born \cup {ch}
    /\ fds' = [fds EXCEPT ![ch] = fdt]
    /\ wr' = IF out >= 0 THEN [wr EXCEPT ![out] = out] ELSE wr
    /\ fps' = process_create_fileptrs(c, ch, fids)
    /\ UNCHANGED <<zombies, open, fname, nextFid, present, size, perm, pinned, outcome>>

(* p_spawn's file part: the child copies the parent's table, slot 1 takes *)
(* the parent's slot fd1 (slot 0 likewise takes fd0), the writer slot of  *)
(* the file on the child's slot 1 passes to the child, and                *)
(* process_create_fileptrs runs for the child.  If malloc(STACKSIZE) then *)
(* fails, the child is k_freed and -1 returned: its nodes and the writer  *)
(* slot stay behind, held by a pid that never runs.                       *)
p_spawn(c, ch, fd1) ==
    LET fdt == [fds[c] EXCEPT ![1] = fds[c][fd1]]
        out == fdt[1]
        fids == {fdt[s] : s \in UserSlots} \cap open
    IN
    /\ Alive /\ c \in live /\ ch \notin born
    /\ \A f \in fids : Len(fps[f]) < MaxNodes
    /\ CASE out >= 0 /\ out \notin open -> Fail("entry_null")
         [] \E f \in fids : WalkFaults(f, c) -> Fail("fileptr_uaf")
         [] OTHER ->
            /\ \/ live' = live \cup {ch}
               \/ StackFails /\ live' = live
            /\ born' = born \cup {ch}
            /\ fds' = [fds EXCEPT ![ch] = fdt]
            /\ wr' = IF out >= 0 THEN [wr EXCEPT ![out] = ch] ELSE wr
            /\ fps' = process_create_fileptrs(c, ch, fids)
            /\ UNCHANGED <<zombies, open, fname, nextFid, present, size, perm, pinned, outcome>>

(* process_delete_fileptrs(t): for each entry named by a user slot of t,   *)
(* delete t's node and clear the writer slot if t holds it.                *)
process_delete_fileptrs(t) ==
    LET fids == {fds[t][s] : s \in UserSlots} \cap FileIds IN
    CASE \E f \in fids : f \notin open -> Fail("entry_null")
      [] \E f \in fids : WalkFaults(f, t) -> Fail("fileptr_uaf")
      [] OTHER ->
         /\ fps' = [f \in FileIds |-> IF f \in fids /\ Found(f, t)
                                      THEN RemoveAt(fps[f], Hit(f, t))
                                      ELSE fps[f]]
         /\ wr' = [f \in FileIds |-> IF f \in fids /\ wr[f] = t THEN -1
                                     ELSE wr[f]]
         /\ UNCHANGED outcome

(* p_exit of c: its nodes go, and it stays a zombie in pcb_list, with its *)
(* fileDescriptors[], until its parent reaps it.                            *)
p_exit(c) ==
    /\ Alive /\ c \in live
    /\ process_delete_fileptrs(c)
    /\ IF outcome' = "none"
       THEN live' = live \ {c} /\ zombies' = zombies \cup {c}
       ELSE UNCHANGED <<live, zombies>>
    /\ UNCHANGED <<born, fds, open, fname, nextFid, present, size, perm, pinned>>

(* p_kill by c of any PCB findPCBByPID finds, zombies included: the        *)
(* target's nodes go (again, for a zombie); S_SIGTERM makes a live target  *)
(* a zombie, the other signals leave it as it is.                          *)
p_kill(c, t) ==
    /\ Alive /\ c \in live /\ t \in live \cup zombies
    /\ process_delete_fileptrs(t)
    /\ \/ UNCHANGED <<live, zombies>>
       \/ /\ t \in live /\ outcome' = "none"
          /\ live' = live \ {t} /\ zombies' = zombies \cup {t}
    /\ UNCHANGED <<born, fds, open, fname, nextFid, present, size, perm, pinned>>

(* p_waitpid of t's parent reaps it: removePCBFromList, fds untouched. *)
Reap(t) ==
    /\ Alive /\ t \in zombies
    /\ zombies' = zombies \ {t}
    /\ UNCHANGED <<live, born, fds, open, fname, wr, fps, nextFid, present,
                   size, perm, pinned, outcome, pend>>

(* The other calls of process c, each one step. *)
CallOf(c) ==
    \/ \E s \in UserSlots : f_close(c, s) \/ f_lseek(c, s)
    \/ \E s \in Slots, k \in ReadLens : f_read(c, s, k)
    \/ \E s \in Slots, k \in WriteLens : f_write(c, s, k)
    \/ \E n \in Names : f_unlink(c, n) \/ f_rm(c, n)
    \/ \E n \in Names, pm \in ChmodPerms : f_chmod(c, n, pm)
    \/ \E ch \in Procs, fd1 \in {1} \cup UserSlots : p_spawn(c, ch, fd1)
    \/ p_exit(c)
    \/ \E t \in Procs : p_kill(c, t)

(* A process with an f_open under way makes no other call until it ends. *)
Idle(c) == pend[c] = <<>>

Next ==
    \E c \in Procs :
        \/ \E n \in Names : Idle(c) /\ f_open_lookup(c, n)
        \/ \E m \in Modes : f_open(c, m)
        \/ Idle(c) /\ UNCHANGED pend /\ CallOf(c)
        \/ Reap(c)

Spec == Init /\ [][Next]_vars

-----------------------------------------------------------------------------
(* Nodes of f that are p's and not freed. *)
Offsets(f, p) == {i \in DOMAIN fps[f] : fps[f][i].live /\ fps[f][i].pid = p}

(* Spec 8: for every file_id and PID at most one per-process offset       *)
(* exists.  f_open repositions instead of pushing when the caller already *)
(* has an fd for the file, and p_spawn pushes one node per entry.          *)
AtMostOneOffset ==
    Alive => \A f \in open, p \in Procs : Cardinality(Offsets(f, p)) <= 1

UnlinkedNotReopened ==
    /\ [][\A f \in open :
            (~present[fname[f]] /\ pinned[fname[f]] > 0 /\ born' = born
             /\ outcome' = "none")
               => \A p \in Procs : Offsets(f, p) # {} \/ Offsets(f, p)' = {}]_vars
    /\ [](\A n \in Names : pinned[n] > 0 => EntryOf(n) # {})
=============================================================================
