-------------------------------- MODULE Shell --------------------------------
(***************************************************************************)
(* The job control of the PennOS shell (shell/pennos-shell.c and           *)
(* shell/job-list.c) against the part of the kernel it drives: the status  *)
(* of each child PCB, the shell's own T_WAITED status and whether it is on *)
(* the CPU.  The shell keeps its own view of its children, the background  *)
(* list and the foreground job; the kernel keeps the PCBs.  The two agree  *)
(* only if every p_waitpid that reaps a PCB also drops its job.             *)
(*                                                                         *)
(* A child PCB is "unborn" (not yet spawned), "running", "stopped",         *)
(* "zombie" (T_ZOMBIED, still in pcb_list) or "freed" (reaped by           *)
(* removePCBFromList: findPCBByPID returns NULL).  A job is a record of    *)
(* job_t's job_id, pid and stop_order; the list's next pointers are the     *)
(* order of a sequence.  The nice builtin and script files spawn and wait *)
(* for a child without making it a job.  Output, the reaped[] array (it   *)
(* only prints) and nice_pid, man and logout are left out.  The host's     *)
(* SIGTSTP and SIGINT run stop_handler and term_handler between any two    *)
(* steps.                                                                  *)
(***************************************************************************)
EXTENDS Naturals, Sequences, SequencesExt, FiniteSets

CONSTANTS Kids,        \* pids the shell's children get, in spawn order
          MaxCtr,      \* bound on jobid_ctr and stop_order
          ScriptLines  \* line counts a script file may have

VARIABLES
    kstat,        \* status of each child PCB, in the kernel
    sstat,        \* the shell's PCB status: "Running" or "Waited"
    onCpu,        \* the shell's context is the one running
    pc,           \* where pennos_shell is: "prompt", "wait", "blocked", "after"
    via,          \* which branch called the blocking wait: "launch" or "fg"
    fg,           \* foreground_job
    background,   \* *background, the list of background jobs
    jobidCtr,     \* jobid_ctr
    stopCtr,      \* stop_order (the counter)
    stopTrigger,  \* stop_trigger
    outcome,      \* "none", or how PennOS went wrong
    wpid,         \* the child the nice builtin or a script line waits for
    scriptLeft    \* script lines not yet run

vars == <<kstat, sstat, onCpu, pc, via, fg, background, jobidCtr, stopCtr,
          stopTrigger, outcome, wpid, scriptLeft>>

NOT_STOPPED == -1
NoJob == [job_id |-> 0, pid |-> 0, stop_order |-> 0]   \* NULL
Job == [job_id : 1..MaxCtr + 1, pid : Kids, stop_order : {NOT_STOPPED} \cup 1..MaxCtr + 1]
PStat == {"unborn", "running", "stopped", "zombie", "freed"}
Alive == outcome = "none"

-----------------------------------------------------------------------------
(* job-list.c *)

(* jobs_push with the job id and the pid swapped. *)
jobs_push_swapped(seq, id, pid, so) ==
    Append(seq, [job_id |-> pid, pid |-> id, stop_order |-> so])

jobs_push(seq, id, pid, so) ==
    Append(seq, [job_id |-> id, pid |-> pid, stop_order |-> so])

(* Before the first job whose id is not smaller, walking from the second   *)
(* job on when the head's id is smaller.                                   *)
jobs_insert(seq, j) ==
    IF seq = <<>> \/ seq[1].job_id >= j.job_id THEN <<j>> \o seq
    ELSE LET i == SelectInSeq(Tail(seq), LAMBDA x : x.job_id >= j.job_id)
         IN IF i = 0 THEN Append(seq, j) ELSE InsertAt(seq, i + 1, j)

JobIndex(seq, id) == SelectInSeq(seq, LAMBDA x : x.job_id = id)

jobs_remove(seq, id) ==
    IF JobIndex(seq, id) = 0 THEN seq ELSE RemoveAt(seq, JobIndex(seq, id))

job_get_last(seq) == IF seq = <<>> THEN -1 ELSE Last(seq).job_id

(* current_jobid: the job stopped most recently, else the last job. *)
CurrentJobId(seq) ==
    LET stopped == {i \in 1..Len(seq) : seq[i].stop_order # NOT_STOPPED}
    IN IF stopped = {} THEN job_get_last(seq)
       ELSE LET i == CHOOSE i \in stopped :
                       \A k \in stopped : seq[k].stop_order <= seq[i].stop_order
            IN seq[i].job_id

-----------------------------------------------------------------------------
(* The kernel calls the shell makes, on the child statuses ks.  p_waitpid *)
(* with nohang returns -1 for a pid not in pcb_list, reaps a zombie and    *)
(* returns its pid, and returns 0 otherwise.                              *)
Gone(ks, p) == ks[p] \in {"unborn", "freed"}

Reap(ks, p) == IF ks[p] = "zombie" THEN [ks EXCEPT ![p] = "freed"] ELSE ks

(* p_kill / k_process_kill: TERM makes a zombie, STOP stops, CONT runs,    *)
(* whatever the status was.                                                *)
Signalled(ks, p, sig) ==
    [ks EXCEPT ![p] = CASE sig = "TERM" -> "zombie"
                        [] sig = "STOP" -> "stopped"
                        [] sig = "CONT" -> "running"]

(* job_print: a failed p_waitpid ends the host process. *)
job_print(ks, j) ==
    IF Gone(ks, j.pid) THEN [ks |-> ks, out |-> "exit_failure"]
    ELSE [ks |-> Reap(ks, j.pid), out |-> "none"]

(* debug_print_jobs and the jobs builtin: job_print on each job in order. *)
RECURSIVE PrintFrom(_, _)
PrintFrom(ks, seq) ==
    IF seq = <<>> THEN [ks |-> ks, out |-> "none"]
    ELSE LET r == job_print(ks, Head(seq))
         IN IF r.out # "none" THEN r ELSE PrintFrom(r.ks, Tail(seq))

(* cull_helper from job i down to the head (it recurses to the tail first): *)
(* safe_p_waitpid nohang on each; a failure makes the shell p_exit; a       *)
(* reaped job (W_WIFEXITED) is removed from the list.                       *)
RECURSIVE CullDown(_, _, _)
CullDown(ks, seq, i) ==
    IF i = 0 THEN [ks |-> ks, bg |-> seq, out |-> "none"]
    ELSE LET p == seq[i].pid
         IN CASE Gone(ks, p)          -> [ks |-> ks, bg |-> seq, out |-> "shell_exit"]
              [] ks[p] = "zombie"     -> CullDown(Reap(ks, p), RemoveAt(seq, i), i - 1)
              [] OTHER                -> CullDown(ks, seq, i - 1)

cull_background(ks, seq) == CullDown(ks, seq, Len(seq))

-----------------------------------------------------------------------------
Init ==
    /\ kstat = [p \in Kids |-> "unborn"]
    /\ sstat = "Running" /\ onCpu = TRUE
    /\ pc = "prompt" /\ via = "launch"
    /\ fg = NoJob /\ background = <<>>
    /\ jobidCtr = 1 /\ stopCtr = 1
    /\ stopTrigger = FALSE
    /\ outcome = "none"
    /\ wpid = 0 /\ scriptLeft = 0

(* The shell at the prompt, on the CPU, runs one command line. *)
AtPrompt == Alive /\ onCpu /\ pc = "prompt"

(* Empty line, or a command execute_command does not know: cull_background *)
(* then empty_reaped.                                                        *)
EmptyLine ==
    /\ AtPrompt
    /\ LET r == cull_background(kstat, background)
       IN /\ kstat' = r.ks /\ outcome' = r.out
          /\ background' = r.bg
    /\ UNCHANGED <<sstat, onCpu, pc, via, fg, jobidCtr, stopCtr, stopTrigger, wpid, scriptLeft>>

(* Launch with stop_order++ left out of the background push. *)
Launch_sameStopOrder(isBg) ==
    /\ AtPrompt
    /\ jobidCtr < MaxCtr /\ stopCtr < MaxCtr
    /\ \E p \in Kids :
        /\ kstat[p] = "unborn"
        /\ \A q \in Kids : kstat[q] = "unborn" => p <= q
        /\ LET r == cull_background([kstat EXCEPT ![p] = "running"], background)
           IN /\ kstat' = r.ks /\ outcome' = r.out
              /\ IF isBg
                 THEN /\ background' = jobs_push(r.bg, jobidCtr, p, stopCtr)
                      /\ stopCtr' = stopCtr
                      /\ fg' = fg
                      /\ pc' = "after"
                 ELSE /\ background' = r.bg
                      /\ fg' = [job_id |-> jobidCtr, pid |-> p, stop_order |-> NOT_STOPPED]
                      /\ stopCtr' = stopCtr
                      /\ pc' = "wait"
    /\ jobidCtr' = jobidCtr + 1
    /\ via' = "launch"
    /\ UNCHANGED <<sstat, onCpu, stopTrigger, wpid, scriptLeft>>

(* An independent command: p_spawn makes the next child T_RUNNING, then    *)
(* cull_background; a foreground job becomes foreground_job and the shell  *)
(* goes to the blocking p_waitpid, a background job is pushed with the     *)
(* next stop_order.                                                         *)
Launch(isBg) ==
    /\ AtPrompt
    /\ jobidCtr < MaxCtr /\ stopCtr < MaxCtr
    /\ \E p \in Kids :
        /\ kstat[p] = "unborn"
        /\ \A q \in Kids : kstat[q] = "unborn" => p <= q
        /\ LET r == cull_background([kstat EXCEPT ![p] = "running"], background)
           IN /\ kstat' = r.ks /\ outcome' = r.out
              /\ IF isBg
                 THEN /\ background' = jobs_push(r.bg, jobidCtr, p, stopCtr)
                      /\ stopCtr' = stopCtr + 1
                      /\ fg' = fg
                      /\ pc' = "after"
                 ELSE /\ background' = r.bg
                      /\ fg' = [job_id |-> jobidCtr, pid |-> p, stop_order |-> NOT_STOPPED]
                      /\ stopCtr' = stopCtr
                      /\ pc' = "wait"
    /\ jobidCtr' = jobidCtr + 1
    /\ via' = "launch"
    /\ UNCHANGED <<sstat, onCpu, stopTrigger, wpid, scriptLeft>>

(* The pid the blocking wait is on: the foreground job's for a launch or  *)
(* fg, the spawned child's for nice and a script line.                     *)
WaitPid == IF via \in {"launch", "fg"} THEN fg.pid ELSE wpid

(* Where the shell goes once the wait returns: the stop handling after a  *)
(* launch or fg, the next line of a script, else the prompt (nice, and a  *)
(* script's last line).                                                     *)
AfterWait ==
    CASE via \in {"launch", "fg"}        -> "after"
      [] via = "script" /\ scriptLeft > 0 -> "script"
      [] OTHER                            -> "prompt"

(* The blocking safe_p_waitpid(pid): -1 makes the shell p_exit; the caller *)
(* is set T_WAITED first, and a child already a zombie is reaped at once,  *)
(* leaving the shell T_WAITED; otherwise the shell swaps out.              *)
WaitCall ==
    /\ Alive /\ onCpu /\ pc = "wait"
    /\ LET p == WaitPid IN
       IF Gone(kstat, p)
       THEN /\ outcome' = "shell_exit"
            /\ UNCHANGED <<kstat, sstat, onCpu, pc>>
       ELSE /\ sstat' = "Waited"
            /\ outcome' = "none"
            /\ IF kstat[p] = "zombie"
               THEN kstat' = Reap(kstat, p) /\ pc' = AfterWait /\ onCpu' = onCpu
               ELSE kstat' = kstat /\ pc' = "blocked" /\ onCpu' = FALSE
    /\ UNCHANGED <<via, fg, background, jobidCtr, stopCtr, stopTrigger, wpid, scriptLeft>>

(* Back from swapcontext, p_waitpid reads the child pointer it held: freed *)
(* memory if the PCB was reaped meanwhile; a zombie is reaped, otherwise   *)
(* it returns 0.                                                           *)
WaitResume ==
    /\ Alive /\ onCpu /\ pc = "blocked"
    /\ LET p == WaitPid IN
       IF kstat[p] = "freed"
       THEN outcome' = "wait_uaf" /\ UNCHANGED <<kstat, pc>>
       ELSE kstat' = Reap(kstat, p) /\ pc' = AfterWait /\ outcome' = outcome
    /\ UNCHANGED <<sstat, onCpu, via, fg, background, jobidCtr, stopCtr, stopTrigger, wpid, scriptLeft>>

(* After the wait (fg builtin) or the launch (with debug_print_jobs first): *)
(* if SIGTSTP came, the foreground job gets new stop_order and job_id, is   *)
(* inserted in the background list and sent S_SIGSTOP; otherwise it is      *)
(* freed.  foreground_job is NULL after either.                             *)
AfterJob ==
    /\ Alive /\ onCpu /\ pc = "after"
    /\ LET r == IF via = "launch" THEN PrintFrom(kstat, background)
                 ELSE [ks |-> kstat, out |-> "none"]
           j == [fg EXCEPT !.stop_order = stopCtr, !.job_id = jobidCtr]
       IN CASE r.out # "none" ->
                 /\ outcome' = r.out /\ kstat' = r.ks
                 /\ UNCHANGED <<fg, background, jobidCtr, stopCtr, stopTrigger>>
            [] stopTrigger /\ fg = NoJob ->
                 /\ outcome' = "null_deref" /\ kstat' = r.ks
                 /\ UNCHANGED <<fg, background, jobidCtr, stopCtr, stopTrigger>>
            [] stopTrigger ->
                 /\ background' = jobs_insert(background, j)
                 /\ stopCtr' = stopCtr + 1 /\ jobidCtr' = jobidCtr + 1
                 /\ IF Gone(r.ks, fg.pid)
                    THEN outcome' = "shell_exit" /\ kstat' = r.ks
                    ELSE outcome' = "none" /\ kstat' = Signalled(r.ks, fg.pid, "STOP")
                 /\ fg' = NoJob /\ stopTrigger' = FALSE
            [] OTHER ->
                 /\ kstat' = r.ks /\ outcome' = "none" /\ fg' = NoJob
                 /\ UNCHANGED <<background, jobidCtr, stopCtr, stopTrigger>>
    /\ pc' = "prompt"
    /\ UNCHANGED <<sstat, onCpu, via, wpid, scriptLeft>>

(* S_SIGCONT from the bg and fg builtins: -1 makes the shell p_exit; a      *)
(* zombie is set T_RUNNING and its finished context will be dispatched.    *)
Continue(ks, p) ==
    CASE Gone(ks, p)        -> [ks |-> ks, out |-> "shell_exit"]
      [] ks[p] = "zombie"   -> [ks |-> Signalled(ks, p, "CONT"), out |-> "stale_context"]
      [] OTHER              -> [ks |-> Signalled(ks, p, "CONT"), out |-> "none"]

(* Job ids the bg and fg builtins may be given: none (current_jobid), or   *)
(* one of the list's.  An id not in the list changes nothing.              *)
TargetIds == {CurrentJobId(background)} \cup {background[i].job_id : i \in 1..Len(background)}

(* bg [id]: job_find_by_jobid, then safe_p_kill(pid, S_SIGCONT). *)
BgCmd ==
    /\ AtPrompt
    /\ \E id \in TargetIds :
        /\ JobIndex(background, id) # 0
        /\ LET r == Continue(kstat, background[JobIndex(background, id)].pid)
           IN kstat' = r.ks /\ outcome' = r.out
    /\ UNCHANGED <<sstat, onCpu, pc, via, fg, background, jobidCtr, stopCtr, stopTrigger, wpid, scriptLeft>>

(* fg [id]: jobs_remove makes the job foreground_job with stop_order      *)
(* NOT_STOPPED, job_print, safe_p_kill(pid, S_SIGCONT), then the blocking  *)
(* wait.                                                                    *)
FgCmd ==
    /\ AtPrompt
    /\ jobidCtr < MaxCtr /\ stopCtr < MaxCtr
    /\ \E id \in TargetIds :
        /\ JobIndex(background, id) # 0
        /\ LET j == [background[JobIndex(background, id)] EXCEPT !.stop_order = NOT_STOPPED]
               r == job_print(kstat, j)
               c == Continue(r.ks, j.pid)
           IN /\ background' = jobs_remove(background, id)
              /\ fg' = j
              /\ IF r.out # "none" THEN kstat' = r.ks /\ outcome' = r.out
                 ELSE kstat' = c.ks /\ outcome' = c.out
    /\ pc' = "wait" /\ via' = "fg"
    /\ UNCHANGED <<sstat, onCpu, jobidCtr, stopCtr, stopTrigger, wpid, scriptLeft>>

(* jobs: job_print on each background job. *)
JobsCmd ==
    /\ AtPrompt
    /\ LET r == PrintFrom(kstat, background)
       IN kstat' = r.ks /\ outcome' = r.out
    /\ UNCHANGED <<sstat, onCpu, pc, via, fg, background, jobidCtr, stopCtr, stopTrigger, wpid, scriptLeft>>

(* stop_handler on the host's SIGTSTP, in whatever context runs: nothing   *)
(* without a foreground job; else job_print, stop_trigger, and            *)
(* safe_p_kill(pid, S_SIGSTOP), whose -1 makes the running process p_exit.  *)
stop_handler ==
    /\ Alive /\ fg # NoJob
    /\ LET r == job_print(kstat, fg)
       IN CASE r.out # "none"        -> kstat' = r.ks /\ outcome' = r.out
            [] Gone(r.ks, fg.pid)    -> kstat' = r.ks /\ outcome' = "handler_exit"
            [] OTHER                 -> /\ kstat' = Signalled(r.ks, fg.pid, "STOP")
                                        /\ outcome' = "none"
    /\ stopTrigger' = TRUE
    /\ UNCHANGED <<sstat, onCpu, pc, via, fg, background, jobidCtr, stopCtr, wpid, scriptLeft>>

(* term_handler on SIGINT: job_print, then findPCBByPID(pid)->name, a NULL *)
(* dereference once job_print has reaped the job, then S_SIGTERM.           *)
term_handler ==
    /\ Alive /\ fg # NoJob
    /\ LET r == job_print(kstat, fg)
       IN CASE r.out # "none"        -> kstat' = r.ks /\ outcome' = r.out
            [] Gone(r.ks, fg.pid)    -> kstat' = r.ks /\ outcome' = "null_deref"
            [] OTHER                 -> /\ kstat' = Signalled(r.ks, fg.pid, "TERM")
                                        /\ outcome' = "none"
    /\ UNCHANGED <<sstat, onCpu, pc, via, fg, background, jobidCtr, stopCtr, stopTrigger, wpid, scriptLeft>>

(* The child p_spawn gives: the lowest pid not yet used. *)
NextKid(p) == kstat[p] = "unborn" /\ \A q \in Kids : kstat[q] = "unborn" => p <= q

(* nice PRIORITY COMMAND: execute_command spawns the command (no cull, no  *)
(* foreground_job), then safe_p_nice on its pid.                           *)
NiceCmd ==
    /\ AtPrompt
    /\ \E p \in Kids : NextKid(p) /\ kstat' = [kstat EXCEPT ![p] = "running"] /\ wpid' = p
    /\ pc' = "nice" /\ via' = "nice"
    /\ UNCHANGED <<sstat, onCpu, fg, background, jobidCtr, stopCtr, stopTrigger,
                   outcome, scriptLeft>>

(* safe_p_nice(pid, priority), then the blocking wait.  p_nice reads the  *)
(* PCB before its NULL check, and its removePCBFromList frees a zombie    *)
(* that it then appends to pcb_list again: a child that already exited     *)
(* (the shell was preempted after p_spawn) is freed and relinked.          *)
NiceCall ==
    /\ Alive /\ onCpu /\ pc = "nice"
    /\ CASE Gone(kstat, wpid)      -> outcome' = "nice_null" /\ UNCHANGED <<kstat, pc>>
         [] kstat[wpid] = "zombie" -> /\ outcome' = "nice_uaf" /\ pc' = pc
                                     /\ kstat' = [kstat EXCEPT ![wpid] = "freed"]
         [] OTHER                  -> pc' = "wait" /\ UNCHANGED <<kstat, outcome>>
    /\ UNCHANGED <<sstat, onCpu, via, fg, background, jobidCtr, stopCtr, stopTrigger,
                   wpid, scriptLeft>>

(* A one-word command execute_command does not know: cull_background,    *)
(* then execute_script on the file of that name, which reads its lines.    *)
ScriptCmd ==
    /\ AtPrompt
    /\ \E n \in ScriptLines :
        LET r == cull_background(kstat, background)
        IN /\ kstat' = r.ks /\ outcome' = r.out /\ background' = r.bg
           /\ scriptLeft' = n
    /\ pc' = "script" /\ via' = "script"
    /\ UNCHANGED <<sstat, onCpu, fg, jobidCtr, stopCtr, stopTrigger, wpid>>

(* One line of the script: spawn_command, then the blocking wait on it. *)
ScriptLine ==
    /\ Alive /\ onCpu /\ pc = "script" /\ scriptLeft > 0
    /\ \E p \in Kids : NextKid(p) /\ kstat' = [kstat EXCEPT ![p] = "running"] /\ wpid' = p
    /\ scriptLeft' = scriptLeft - 1 /\ pc' = "wait"
    /\ UNCHANGED <<sstat, onCpu, via, fg, background, jobidCtr, stopCtr, stopTrigger,
                   outcome>>

(* The kernel: a tick takes the shell off the CPU; the scheduler puts it   *)
(* back only while it is T_RUNNING; while it is off, a running child may   *)
(* p_exit, which makes it a zombie and sets a T_WAITED parent T_RUNNING.    *)
Tick ==
    /\ Alive /\ onCpu
    /\ onCpu' = FALSE
    /\ UNCHANGED <<kstat, sstat, pc, via, fg, background, jobidCtr, stopCtr, stopTrigger, outcome, wpid, scriptLeft>>

DispatchShell ==
    /\ Alive /\ ~onCpu /\ sstat = "Running"
    /\ onCpu' = TRUE
    /\ UNCHANGED <<kstat, sstat, pc, via, fg, background, jobidCtr, stopCtr, stopTrigger, outcome, wpid, scriptLeft>>

ChildExit(p) ==
    /\ Alive /\ ~onCpu /\ kstat[p] = "running"
    /\ kstat' = [kstat EXCEPT ![p] = "zombie"]
    /\ sstat' = "Running"
    /\ UNCHANGED <<onCpu, pc, via, fg, background, jobidCtr, stopCtr, stopTrigger, outcome, wpid, scriptLeft>>

Next ==
    \/ EmptyLine \/ \E b \in BOOLEAN : Launch(b)
    \/ WaitCall \/ WaitResume \/ AfterJob
    \/ BgCmd \/ FgCmd \/ JobsCmd
    \/ NiceCmd \/ NiceCall \/ ScriptCmd \/ ScriptLine
    \/ stop_handler \/ term_handler
    \/ Tick \/ DispatchShell \/ \E p \in Kids : ChildExit(p)

Spec == Init /\ [][Next]_vars

-----------------------------------------------------------------------------
TypeOK ==
    /\ kstat \in [Kids -> PStat]
    /\ sstat \in {"Running", "Waited"} /\ onCpu \in BOOLEAN
    /\ pc \in {"prompt", "wait", "blocked", "after", "nice", "script"}
    /\ via \in {"launch", "fg", "nice", "script"}
    /\ wpid \in Kids \cup {0} /\ scriptLeft \in 0..Max(ScriptLines \cup {0})
    /\ fg \in Job \cup {NoJob}
    /\ background \in Seq(Job)
    /\ jobidCtr \in 1..MaxCtr + 1 /\ stopCtr \in 1..MaxCtr + 1
    /\ stopTrigger \in BOOLEAN

(* The shell's view agrees with the kernel's: a child PCB that has not    *)
(* been reaped (running, stopped or a zombie) is the foreground job or a   *)
(* job of the background list, so it can still be waited for, continued or *)
(* culled.  Broken when p_exit of a background child wakes the shell from  *)
(* the foreground wait (puser-functions.c) and the foreground job is       *)
(* dropped while it still runs.                                             *)
ChildrenTracked ==
    \A p \in Kids :
        kstat[p] \in {"running", "stopped", "zombie"} =>
            \/ fg.pid = p
            \/ \E i \in 1..Len(background) : background[i].pid = p
            \/ pc \in {"nice", "wait", "blocked"} /\ WaitPid = p

(* Job ids in the background list increase along it, every id is below    *)
(* jobid_ctr, no job holds the foreground job's child, and the stop orders *)
(* in the list are distinct, so current_jobid's most recent stopped job is *)
(* unique.  jobs_push, jobs_insert of a job stopped by SIGTSTP with a new   *)
(* id and stop order, jobs_remove by fg and cull_background's removals     *)
(* must together keep it.                                                   *)
JobListOrdered ==
    /\ \A i \in 1..Len(background) - 1 : background[i].job_id < background[i + 1].job_id
    /\ \A i \in 1..Len(background) :
        /\ background[i].job_id < jobidCtr
        /\ background[i].pid # fg.pid
    /\ \A i, k \in 1..Len(background) :
        (i # k /\ background[i].stop_order # NOT_STOPPED)
            => background[i].stop_order # background[k].stop_order

(* Job control is safe: every pid the shell hands to p_waitpid, p_kill or  *)
(* findPCBByPID, from a builtin, cull_background, job_print or a host      *)
(* signal handler, still names a PCB, and none it continues has finished.  *)
(* Broken, the shell p_exits (safe_p_waitpid, safe_p_kill), the host exits *)
(* (job_print), term_handler dereferences NULL, p_waitpid reads a freed    *)
(* child, a zombie is resumed, or p_nice on an exited child frees it      *)
(* (nice); or a child the shell still owns drops out of its job table and  *)
(* out of every pending wait (ChildrenTracked).                             *)
JobControlSafe == outcome = "none" /\ ChildrenTracked
====
