------------------------------ MODULE MCKernel ------------------------------
(* Model-checking instance of Kernel: the shell (pid 1) and up to three    *)
(* descendants, so that a parent, a child and a grandchild exist at once.  *)
EXTENDS Kernel

MCNPids == 3
MCNicePrios == {-1, 0, 1}
MCKillSigs == {"Term", "Stop", "Cont", "Chld"}

(* malloc of a child's stack may fail. *)
MCStackFails == TRUE

(* p_sleep of two ticks: a sleeper is preempted at least once before its *)
(* loop test succeeds.                                                     *)
MCSleepTicks == {2}

(* For the liveness run: a process may be re-niced only to the level the  *)
(* lottery favours least, and stopped and continued but not killed.        *)
LiveNicePrios == {1}
LiveKillSigs == {"Stop", "Cont"}
LiveSleepTicks == {1}
LiveNPids == 2
LiveStackFails == FALSE

(* For the wake-up run: only the terminal's SIGINT/SIGTSTP signal a      *)
(* process, so a waited-for child ends by p_exit or by the terminal.       *)
TerminalOnlySigs == {}

(* For the progress run: the shell's nice and nice_pid builtins pass any   *)
(* atoi result to p_nice; 2 is what nice_pid 2 <pid> stores in PID 2.      *)
ProgressNicePrios == {1, 2}
=============================================================================
