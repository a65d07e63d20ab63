------------------------------- MODULE Kernel -------------------------------
(***************************************************************************)
(* The PennOS kernel core: the PCB registry (src/src/kernel/PCB.c), the    *)
(* alarm-driven scheduler (scheduler.c) and the process primitives         *)
(* p_spawn, p_waitpid, p_kill, p_nice, p_exit (puser-functions.c).         *)
(*                                                                         *)
(* One host thread runs either the scheduler context or the context of     *)
(* the PCB it dispatched (cpu).  A process runs its own code (any sequence *)
(* of kernel calls) until the SIGALRM tick swaps it out, until it suspends *)
(* inside p_waitpid, or until its function returns into the reaper.  Only  *)
(* p_exit masks SIGALRM; every other call can be cut by a tick, which is   *)
(* modelled where a cut is observable (between the two halves of p_spawn, *)
(* and at the swapcontext inside p_waitpid).                               *)
(*                                                                         *)
(* The circular PCB list is abstracted to the set procs: the scheduler     *)
(* picks the target-th Running PCB of a level with target = rand() % n, so *)
(* every Running PCB of the level is a possible choice whatever the order. *)
(* A crash or exit of the host process ends the behaviour in outcome.      *)
(***************************************************************************)
EXTENDS Integers, FiniteSets

CONSTANTS
    NPids,      \* bound on next_pid: PIDs 1..NPids can be created
    NicePrios,  \* priorities a caller may pass to p_nice
    KillSigs,   \* signals a caller may pass to p_kill
    StackFails, \* whether p_spawn's malloc(STACKSIZE) may return NULL
    SleepTicks  \* tick counts a caller may pass to p_sleep

Pids == 1..NPids
Shell == 1      \* main() spawns the shell first: pid 1, parent 0, nice -1

ASSUME NPids >= 2 /\ NicePrios \subseteq Int   \* p_nice takes any int

Statuses == {"Running", "Stopped", "Zombie", "Waited"}   \* T_BLOCKED is never set
Signals  == {"Term", "Stop", "Cont", "Chld"}             \* S_SIGTERM .. S_SIGCHLD
ASSUME KillSigs \subseteq Signals /\ StackFails \in BOOLEAN /\ SleepTicks \subseteq Nat
Outcomes == {"none", "exit12",         \* scheduler: exit(12), nothing Running
             "null_parent",            \* removePCBFromList: parent not found
             "null_child",             \* child pid in children[] not found
             "child_index",            \* pid missing from parent->children
             "nice_null",              \* p_nice: process->priority on NULL
             "nice_uaf",               \* p_nice: re-adds a PCB it just freed
             "exit_uaf",               \* freed current_pcb keeps running
             "wait_uaf",               \* p_waitpid: child freed while waiting
             "spawn_uaf",              \* p_spawn: child freed before setup
             "uninit_context",         \* dispatch of a half-spawned PCB
             "list_uaf",               \* scheduler walks a freed PCB in pcb_list
             "stale_context"}          \* dispatch of a PCB that returned

VARIABLES
    procs,      \* PIDs of the PCBs in pcb_list
    freed,      \* PIDs whose PCB was released by k_free
    nextPid,    \* next_pid
    status,     \* PCB.status
    parent,     \* PCB.parent_pid (0: top level, -1: orphaned)
    children,   \* PCB.children[0..numChildren-1] as a set
    priority,   \* PCB.priority
    ctxReady,   \* makecontext has been applied to PCB.context
    pc,         \* where the process is in its own code
    arg,        \* child being spawned, or pid passed to a blocking p_waitpid
    cpu,        \* PID whose context runs, 0 for the scheduler context
    sleepLeft,  \* time - (ticks - startTime) of a p_sleep in progress, else 0
    outcome     \* "none" while the host process is alive

vars == <<procs, freed, nextPid, status, parent, children, priority,
          ctxReady, pc, arg, cpu, sleepLeft, outcome>>

PCs == {"user", "spawning", "waiting", "sleeping", "done"}

TypeOK ==
    /\ procs \subseteq Pids /\ freed \subseteq Pids
    /\ nextPid \in 2..NPids + 1
    /\ status \in [Pids -> Statuses]
    /\ parent \in [Pids -> Pids \cup {0, -1}]
    /\ children \in [Pids -> SUBSET Pids]
    /\ priority \in [Pids -> {-1, 0, 1} \cup NicePrios]
    /\ ctxReady \in [Pids -> BOOLEAN]
    /\ pc \in [Pids -> PCs]
    /\ arg \in [Pids -> Pids \cup {0, -1}]
    /\ cpu \in Pids \cup {0}
    /\ sleepLeft \in [Pids -> Nat]
    /\ outcome \in Outcomes

-----------------------------------------------------------------------------
(* Scheduler level selection: roulette over weights 9/6/4, then rotate     *)
(* -1 -> 0 -> 1 -> -1 until a level has a Running PCB.                     *)

count_running_priority(lv) ==
    Cardinality({p \in procs : status[p] = "Running" /\ priority[p] = lv})

(* Faulty variants, each a plausible slip in the code modelled just below *)
(* it; the properties are expected to reject every one of them.           *)
RouletteTwoLevels(r) == IF r < 9 THEN -1 ELSE 0          \* level 1 never drawn

Roulette(r) == IF r < 9 THEN -1 ELSE IF r < 9 + 6 THEN 0 ELSE 1

RECURSIVE Rotate(_)
Rotate(lv) == IF count_running_priority(lv) = 0
              THEN Rotate(((lv + 2) % 3) - 1)
              ELSE lv

SchedLevel(r) == Rotate(Roulette(r))

(* The rotation loop ends only if some Running PCB has a level in -1..1;  *)
(* p_nice stores any int, and with every Running PCB outside that range    *)
(* scheduler() spins in the loop (re-entered from the top at each tick).   *)
LoopEnds == \E p \in procs : status[p] = "Running" /\ priority[p] \in -1..1

-----------------------------------------------------------------------------
(* removePCBFromList(q) as the record of the state it leaves: q leaves the *)
(* list; if q is a zombie and the list is not empty, its children are      *)
(* orphaned, it is swapped out of its parent's children and it is freed.   *)

Unchanged == [procs |-> procs, freed |-> freed, parent |-> parent,
              children |-> children, outcome |-> "none"]

Fault(site) == [Unchanged EXCEPT !.outcome = site]

removePCBFromListNoOrphan(q, st) ==                      \* children keep parent_pid
    LET rest == procs \ {q}
        pp   == parent[q]
    IN  IF rest = {} \/ st[q] # "Zombie" THEN [Unchanged EXCEPT !.procs = rest]
        ELSE [procs |-> rest, freed |-> freed \cup {q}, parent |-> parent,
              children |-> IF pp \in rest
                           THEN [children EXCEPT ![pp] = @ \ {q}] ELSE children,
              outcome |-> "none"]

removePCBFromList(q, st) ==
    LET rest == procs \ {q}
        pp   == parent[q]
    IN  CASE rest = {} \/ st[q] # "Zombie" -> [Unchanged EXCEPT !.procs = rest]
          [] ~(children[q] \subseteq rest)   -> Fault("null_child")
          [] pp # 0 /\ pp \notin rest        -> Fault("null_parent")
          [] pp # 0 /\ q \notin children[pp] -> Fault("child_index")
          [] OTHER ->
               [procs    |-> rest,
                freed    |-> freed \cup {q},
                parent   |-> [c \in Pids |-> IF c \in children[q] THEN -1
                                             ELSE parent[c]],
                children |-> IF pp = 0 THEN children
                             ELSE [children EXCEPT ![pp] = @ \ {q}],
                outcome  |-> "none"]

Apply(r) == /\ procs' = r.procs /\ freed' = r.freed /\ parent' = r.parent
            /\ children' = r.children /\ outcome' = r.outcome

(* The zombies a p_waitpid(pid) of caller c may reap. *)
Reapable(c, pid) ==
    IF pid = -1 THEN {z \in children[c] \cap procs : status[z] = "Zombie"}
    ELSE {z \in {pid} \cap procs : status[z] = "Zombie"}

(* Reap z: copy its status out and removePCBFromList it. *)
Reap(z, st) == Apply(removePCBFromList(z, st))

(* p_exit body: SIGALRM is masked, so it is one step.                      *)
p_exit(c) ==
    LET st == [status EXCEPT ![c] = "Zombie"]
        pp == parent[c]
        found == pp \in procs
    IN  IF ~(children[c] \subseteq procs)      \* log_orphan_event(curr->pid)
        THEN Apply(Fault("null_child")) /\ UNCHANGED status
        ELSE /\ status' = IF found /\ st[pp] = "Waited"
                          THEN [st EXCEPT ![pp] = "Running"] ELSE st
             /\ IF found THEN Apply(Unchanged)
                ELSE Apply(removePCBFromList(c, st))

-----------------------------------------------------------------------------
Init ==
    /\ procs = {Shell} /\ freed = {} /\ nextPid = Shell + 1
    /\ status = [p \in Pids |-> "Running"]
    /\ parent = [p \in Pids |-> 0]
    /\ children = [p \in Pids |-> {}]
    /\ priority = [p \in Pids |-> IF p = Shell THEN -1 ELSE 0]
    /\ ctxReady = [p \in Pids |-> p = Shell]
    /\ pc = [p \in Pids |-> "user"]
    /\ arg = [p \in Pids |-> 0]
    /\ cpu = 0
    /\ sleepLeft = [p \in Pids |-> 0]
    /\ outcome = "none"

Alive == outcome = "none"

(* Process c is executing its own code outside any kernel call. *)
InUserCode(c) == Alive /\ cpu = c /\ c \notin freed /\ pc[c] = "user"

(* alarmHandler: swapcontext(current_pcb->context, &schedulerContext). *)
(* A sleeper back on the CPU whose time is up: its loop test runs within   *)
(* microseconds of the resumption, long before the next 10 ms SIGALRM.     *)
SleepDue(c) == pc[c] = "sleeping" /\ sleepLeft[c] = 0

(* ticks++ left out: sleepers never get closer to their end. *)
TicksFrozen == sleepLeft' = sleepLeft

(* ticks++: every p_sleep in progress is one tick closer to its end. *)
TicksPass ==
    sleepLeft' = [p \in Pids |-> IF sleepLeft[p] > 0 THEN sleepLeft[p] - 1 ELSE 0]

Tick ==
    /\ Alive /\ cpu # 0 /\ cpu \notin freed /\ ~SleepDue(cpu)
    /\ cpu' = 0
    /\ TicksPass
    /\ UNCHANGED <<procs, freed, nextPid, status, parent, children, priority,
                   ctxReady, pc, arg, outcome>>

(* A context whose PCB was freed keeps running: its next tick, its reaper  *)
(* or its next kernel call dereferences current_pcb.                       *)
FreedRuns ==
    /\ Alive /\ cpu \in freed
    /\ outcome' = "exit_uaf"
    /\ UNCHANGED <<sleepLeft, procs, freed, nextPid, status, parent, children, priority,
                   ctxReady, pc, arg, cpu>>

(* scheduler(): exit(12) when nothing is Running. *)
SchedulerExit ==
    /\ Alive /\ cpu = 0 /\ procs \cap freed = {}
    /\ \A p \in procs : status[p] # "Running"
    /\ outcome' = "exit12"
    /\ UNCHANGED <<sleepLeft, procs, freed, nextPid, status, parent, children, priority,
                   ctxReady, pc, arg, cpu>>

(* scheduler(): roulette picks a level, rand() % n picks p within it, and  *)
(* setcontext(p->context) resumes it.                                      *)
Dispatch(p) ==
    /\ Alive /\ cpu = 0 /\ procs \cap freed = {}
    /\ p \in procs /\ status[p] = "Running"
    /\ LoopEnds /\ \E r \in 0..18 : SchedLevel(r) = priority[p]
    /\ CASE ~ctxReady[p]   -> outcome' = "uninit_context" /\ UNCHANGED cpu
         [] pc[p] = "done" -> outcome' = "stale_context" /\ UNCHANGED cpu
         [] OTHER          -> cpu' = p /\ UNCHANGED outcome
    /\ UNCHANGED <<sleepLeft, procs, freed, nextPid, status, parent, children, priority,
                   ctxReady, pc, arg>>

k_process_create_noChildLink(c) ==                       \* Parent->children not set
    LET ch == nextPid IN
    /\ InUserCode(c) /\ nextPid <= NPids
    /\ procs' = procs \cup {ch}
    /\ nextPid' = nextPid + 1
    /\ status' = [status EXCEPT ![ch] = "Running"]
    /\ parent' = [parent EXCEPT ![ch] = c]
    /\ priority' = [priority EXCEPT ![ch] = 0]
    /\ ctxReady' = [ctxReady EXCEPT ![ch] = FALSE]
    /\ pc' = [pc EXCEPT ![c] = "spawning", ![ch] = "user"]
    /\ arg' = [arg EXCEPT ![c] = ch]
    /\ UNCHANGED <<sleepLeft, freed, cpu, outcome, children>>

(* p_spawn, up to addPCBToList: createPCB(current_pcb) links the child     *)
(* into its parent and into pcb_list as Running before its stack exists.   *)
k_process_create(c) ==
    LET ch == nextPid IN
    /\ InUserCode(c) /\ nextPid <= NPids
    /\ procs' = procs \cup {ch}
    /\ nextPid' = nextPid + 1
    /\ status' = [status EXCEPT ![ch] = "Running"]
    /\ parent' = [parent EXCEPT ![ch] = c]
    /\ children' = [children EXCEPT ![c] = @ \cup {ch}]
    /\ priority' = [priority EXCEPT ![ch] = 0]
    /\ ctxReady' = [ctxReady EXCEPT ![ch] = FALSE]
    /\ pc' = [pc EXCEPT ![c] = "spawning", ![ch] = "user"]
    /\ arg' = [arg EXCEPT ![c] = ch]
    /\ UNCHANGED <<sleepLeft, freed, cpu, outcome>>

(* p_spawn, the rest: fd redirection, stack, makecontext, priority 0.  If *)
(* malloc of the stack fails, the child is k_freed and -1 returned, but it *)
(* stays in pcb_list and in its parent's children[].                        *)
p_spawn_finish(c) ==
    LET ch == arg[c] IN
    /\ Alive /\ cpu = c /\ pc[c] = "spawning"
    /\ \/ /\ ch \in freed
          /\ outcome' = "spawn_uaf"
          /\ UNCHANGED <<freed, ctxReady, priority, pc, arg>>
       \/ /\ ch \notin freed
          /\ ctxReady' = [ctxReady EXCEPT ![ch] = TRUE]
          /\ priority' = [priority EXCEPT ![ch] = 0]
          /\ pc' = [pc EXCEPT ![c] = "user"]
          /\ arg' = [arg EXCEPT ![c] = 0]
          /\ UNCHANGED <<freed, outcome>>
       \/ /\ ch \notin freed /\ StackFails
          /\ freed' = freed \cup {ch}
          /\ pc' = [pc EXCEPT ![c] = "user"]
          /\ arg' = [arg EXCEPT ![c] = 0]
          /\ UNCHANGED <<ctxReady, priority, outcome>>
    /\ UNCHANGED <<sleepLeft, procs, nextPid, status, parent, children, cpu>>

(* scheduler(): count_running_priority and the pick walk pcb_list reading  *)
(* each PCB's status and priority, freed ones included.                    *)
ScanFreed ==
    /\ Alive /\ cpu = 0 /\ procs \cap freed # {}
    /\ outcome' = "list_uaf"
    /\ UNCHANGED <<sleepLeft, procs, freed, nextPid, status, parent, children, priority,
                   ctxReady, pc, arg, cpu>>

(* The pids a caller passes to p_waitpid: -1, one of its children, or the  *)
(* pid of a job that is already gone.                                      *)
WaitArgs(c) == {-1} \cup children[c] \cup freed

(* p_waitpid(pid, &status, true). *)
p_waitpid_nohang(c, pid) ==
    /\ InUserCode(c) /\ pid \in WaitArgs(c)
    /\ Reapable(c, pid) # {}
    /\ \E z \in Reapable(c, pid) : Reap(z, status)
    /\ UNCHANGED <<sleepLeft, nextPid, status, priority, ctxReady, pc, arg, cpu>>

(* p_waitpid(pid, &status, false): mark the caller T_WAITED, scan once,    *)
(* reap a zombie and return, or swap to the scheduler.  The early returns  *)
(* leave the caller's status at T_WAITED.                                  *)
p_waitpid_block(c, pid) ==
    LET st == [status EXCEPT ![c] = "Waited"] IN
    /\ InUserCode(c) /\ pid \in WaitArgs(c)
    /\ pid # -1 => pid \in procs                    \* else ERRNO, return -1
    /\ status' = st
    /\ CASE pid = -1 /\ children[c] = {} ->         \* numChildren == 0
              Apply(Unchanged) /\ UNCHANGED <<pc, arg, cpu>>
         [] Reapable(c, pid) # {} ->
              (\E z \in Reapable(c, pid) : Reap(z, st)) /\ UNCHANGED <<pc, arg, cpu>>
         [] OTHER ->
              /\ Apply(Unchanged)
              /\ pc' = [pc EXCEPT ![c] = "waiting"]
              /\ arg' = [arg EXCEPT ![c] = pid]
              /\ cpu' = 0
    /\ UNCHANGED <<sleepLeft, nextPid, priority, ctxReady>>

(* p_waitpid after swapcontext returns: rescan and return.  For a given    *)
(* pid the child pointer was looked up before the swap.                    *)
p_waitpid_resume(c) ==
    LET pid == arg[c] IN
    /\ Alive /\ cpu = c /\ c \notin freed /\ pc[c] = "waiting"
    /\ pc' = [pc EXCEPT ![c] = "user"]
    /\ arg' = [arg EXCEPT ![c] = 0]
    /\ CASE pid # -1 /\ pid \in freed -> Apply(Fault("wait_uaf"))
         [] Reapable(c, pid) # {} -> \E z \in Reapable(c, pid) : Reap(z, status)
         [] OTHER -> Apply(Unchanged)
    /\ UNCHANGED <<sleepLeft, nextPid, status, priority, ctxReady, cpu>>

(* k_process_kill: the new status of the target. *)
k_process_kill(t, sig) ==
    CASE sig = "Term" -> [status EXCEPT ![t] = "Zombie"]
      [] sig = "Stop" -> [status EXCEPT ![t] = "Stopped"]
      [] OTHER        -> [status EXCEPT ![t] = "Running"]   \* Cont, Chld

(* p_kill(pid, sig) by the running process: findPCBByPID, then             *)
(* k_process_kill, which logs an orphan event for each child.              *)
Kill(t, sig) ==
    /\ t \in procs
    /\ IF sig = "Term" /\ ~(children[t] \subseteq procs)
       THEN outcome' = "null_child" /\ UNCHANGED status
       ELSE status' = k_process_kill(t, sig) /\ UNCHANGED outcome
    /\ UNCHANGED <<sleepLeft, procs, freed, nextPid, parent, children, priority,
                   ctxReady, pc, arg, cpu>>

p_kill(c, t, sig) == InUserCode(c) /\ Kill(t, sig)

(* The shell's SIGINT/SIGTSTP handlers (term_handler, stop_handler) call   *)
(* p_kill on the foreground job in whatever context the signal lands.      *)
TerminalSignal(sig) ==
    /\ Alive /\ sig \in {"Term", "Stop"}
    /\ pc[Shell] = "waiting" /\ arg[Shell] \in Pids
    /\ Kill(arg[Shell], sig)

(* The shell is p_nice's only caller after boot: nice gives the child it  *)
(* just spawned any priority, and nice_pid N parses both its pid and its   *)
(* priority from argv[1], so it sets PID N to priority N.  The shell       *)
(* itself can thus only be set to priority 1 (its own pid).                *)
ShellNiceArg(t, prio) == t = Shell => prio = Shell

(* p_nice: reads process->priority before the NULL check, then removes     *)
(* and re-appends the PCB; a zombie is freed by the removal.               *)
p_nice(c, t, prio) ==
    LET r == removePCBFromList(t, status) IN
    /\ InUserCode(c) /\ c = Shell /\ ShellNiceArg(t, prio)
    /\ CASE t \notin procs -> outcome' = "nice_null" /\ UNCHANGED priority
         [] t \in r.freed  -> outcome' = "nice_uaf" /\ UNCHANGED priority
         [] r.outcome # "none" -> outcome' = r.outcome /\ UNCHANGED priority
         [] OTHER -> priority' = [priority EXCEPT ![t] = prio] /\ UNCHANGED outcome
    /\ UNCHANGED <<sleepLeft, procs, freed, nextPid, status, parent, children,
                   ctxReady, pc, arg, cpu>>

(* An explicit call of p_exit; the process keeps running its code.         *)
ExitCall(c) ==
    /\ InUserCode(c)
    /\ p_exit(c)
    /\ UNCHANGED <<sleepLeft, nextPid, priority, ctxReady, pc, arg, cpu>>

(* The process function returns into the reaper context: p_exit again,     *)
(* ticks++, setcontext(&schedulerContext).  pennos_shell never returns:    *)
(* its loop is while (1), and logout calls p_exit and loops on.            *)
reaper(c) ==
    /\ InUserCode(c) /\ c # Shell
    /\ p_exit(c)
    /\ pc' = [pc EXCEPT ![c] = "done"]
    /\ cpu' = 0
    /\ TicksPass
    /\ UNCHANGED <<nextPid, priority, ctxReady, arg>>

(* p_sleep with the status change its comment asks for (caller->status = *)
(* T_BLOCKED, left commented out): a state no other code leaves.          *)
p_sleep_blocked(c, t) ==
    /\ InUserCode(c) /\ c # Shell
    /\ pc' = [pc EXCEPT ![c] = "sleeping"]
    /\ sleepLeft' = [sleepLeft EXCEPT ![c] = t]
    /\ status' = [status EXCEPT ![c] = "Blocked"]
    /\ UNCHANGED <<procs, freed, nextPid, parent, children, priority,
                   ctxReady, arg, cpu, outcome>>

(* p_sleep(time): startTime = ticks, then a busy loop of sleep(1) while    *)
(* ticks - startTime < time.  The status stays T_RUNNING: the caller is    *)
(* scheduled as usual, and each SIGALRM cuts its host sleep(1) short.      *)
(* Its only caller is shell_sleep, the sleep program the shell spawns.     *)
p_sleep(c, t) ==
    /\ InUserCode(c) /\ c # Shell
    /\ pc' = [pc EXCEPT ![c] = "sleeping"]
    /\ sleepLeft' = [sleepLeft EXCEPT ![c] = t]
    /\ UNCHANGED <<procs, freed, nextPid, status, parent, children, priority,
                   ctxReady, arg, cpu, outcome>>

(* The loop test, run by the caller on the CPU, finds time ticks passed. *)
p_sleep_return(c) ==
    /\ Alive /\ cpu = c /\ c \notin freed /\ SleepDue(c)
    /\ pc' = [pc EXCEPT ![c] = "user"]
    /\ UNCHANGED <<sleepLeft, procs, freed, nextPid, status, parent, children,
                   priority, ctxReady, arg, cpu, outcome>>

Next ==
    \/ Tick \/ FreedRuns \/ SchedulerExit \/ ScanFreed
    \/ \E p \in Pids : Dispatch(p)
    \/ \E c \in Pids :
         \/ k_process_create(c) \/ p_spawn_finish(c)
         \/ \E pid \in Pids \cup {-1} : p_waitpid_nohang(c, pid)
         \/ \E pid \in Pids \cup {-1} : p_waitpid_block(c, pid)
         \/ p_waitpid_resume(c)
         \/ \E t \in Pids, sig \in KillSigs : p_kill(c, t, sig)
         \/ \E t \in Pids, prio \in NicePrios : p_nice(c, t, prio)
         \/ ExitCall(c) \/ reaper(c)
         \/ \E t \in SleepTicks : p_sleep(c, t)
         \/ p_sleep_return(c)
    \/ \E sig \in Signals : TerminalSignal(sig)

(* The timer fires every 10 ms, so a running context is always swapped out *)
(* eventually; rand() gives every Running PCB a positive chance at every   *)
(* scheduler call, and a dispatched context runs its next instructions,    *)
(* which strong fairness approximates.  User code gets no fairness.        *)
Fairness ==
    /\ WF_vars(Tick) /\ WF_vars(SchedulerExit) /\ WF_vars(FreedRuns)
    /\ WF_vars(ScanFreed)
    /\ \A p \in Pids : SF_vars(Dispatch(p)) /\ SF_vars(p_waitpid_resume(p))
    /\ WF_vars(\E p \in Pids : p_sleep_return(p))

Spec == Init /\ [][Next]_vars /\ Fairness
-----------------------------------------------------------------------------
(* No PCB in pcb_list keeps a parent_pid naming a freed PCB:              *)
(* removePCBFromList orphans (parent_pid = -1) the children of every       *)
(* zombie it frees, whether p_waitpid, p_exit or p_nice removed it, so a   *)
(* later findPCBByPID(parent_pid) cannot land on a reused pid.             *)
ParentLinksLive ==
    Alive => \A c \in procs : parent[c] \notin freed

(* A live PCB that names a live parent is in that parent's children[]      *)
(* array, so the parent's p_waitpid(-1) scan can find it.                  *)
ChildrenAgree ==
    Alive => \A c \in procs : parent[c] \in procs => c \in children[parent[c]]

(* Every PCB that is Running with a ready context is eventually dispatched *)
(* unless it stops running or PennOS ends: the weighted lottery of         *)
(* scheduler() starves no priority level.                                  *)
NoStarvation ==
    \A p \in Pids :
        (p \in procs /\ status[p] = "Running" /\ ctxReady[p] /\ pc[p] # "done")
            ~> (cpu = p \/ status[p] # "Running" \/ p \notin procs \/ ~Alive)

(* A process in p_sleep that stays T_RUNNING returns from it: ticks keep  *)
(* coming (SIGALRM, and the reaper's ticks++), and the caller's loop test  *)
(* runs whenever the scheduler picks it.  A Stopped sleeper need not       *)
(* return until it is continued (spec: the timer runs on in wall time).    *)
SleepReturns ==
    \A p \in Pids :
        (p \in procs /\ pc[p] = "sleeping" /\ status[p] = "Running")
            ~> (pc[p] # "sleeping" \/ p \notin procs \/ status[p] # "Running" \/ ~Alive)

(* A T_WAITED process is made T_RUNNING again once it has a reason to run: *)
(* a zombie child its p_waitpid awaits (p_exit wakes the parent, spec 8),  *)
(* or its p_waitpid has already returned.  T_WAITED is cleared only by a   *)
(* child's p_exit or by S_SIGCONT, so both a child killed by the terminal  *)
(* (k_process_kill) and a p_waitpid that returns early break it.            *)
WaitedResumes ==
    \A p \in Pids :
        (p \in procs /\ status[p] = "Waited"
            /\ (pc[p] # "waiting" \/ Reapable(p, arg[p]) # {}))
            ~> (p \notin procs \/ status[p] # "Waited" \/ ~Alive)

MemorySafe == outcome \in {"none", "exit12"}
=============================================================================
