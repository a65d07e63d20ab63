------------------------------- MODULE MCShell -------------------------------
(* Two children and counters up to 4: enough for a background job to      *)
(* finish and be printed twice, and for a foreground job to be stopped and *)
(* brought back.                                                            *)
EXTENDS Shell

MCKids == {2, 3}
MCMaxCtr == 4

(* A script of two lines: the shell waits twice without a job. *)
MCScriptLines == {2}

(* For the job-list run: three children and counters up to 6, so that a   *)
(* job is stopped, brought back and stopped again while two others are     *)
(* listed, and a job already reaped by job_print is printed again.         *)
JobKids == {2, 3, 4}
JobMaxCtr == 6
====
