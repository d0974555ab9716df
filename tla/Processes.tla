----------------------------- MODULE Processes -----------------------------
(* The process pool of nob.h: nob_cmd_run_opt with .async and .max_procs,    *)
(* nob__cmd_start_process, nob__proc_wait_async, nob_proc_wait and           *)
(* nob_da_remove_unordered.  A job is the command of one child process and   *)
(* stands for its pid as well: no job is started twice, and pids that the    *)
(* system hands out again are not modelled.                                  *)
EXTENDS Integers, Sequences

CONSTANT Jobs

VARIABLES
  procs,    \* the pool: the children somebody still has to wait for
  child     \* the state of each job's process; "ok" and "bad" once it ended

poolVars == <<procs, child>>

PoolInit == /\ procs = <<>>
            /\ child = [j \in Jobs |-> "none"]

(* nob_da_remove_unordered: the last element takes the place of the i-th.    *)
RemoveLast(s, i) == SubSeq(s, 1, Len(s) - 1)
RemoveNothing(s, i) == s
RemoveUnordered(s, i) ==
  SubSeq([s EXCEPT ![i] = s[Len(s)]], 1, Len(s) - 1)

(* The pool holds max_procs children: start no other.                        *)
FullLate(limit) == Len(procs) > limit
Full(limit) == Len(procs) >= limit

(* fork and exec, then the append to the pool.  A command that cannot be     *)
(* executed is a child that exits with 1.                                    *)
StartProcess(j) == /\ child' = [child EXCEPT ![j] = "running"]
                   /\ procs' = Append(procs, j)

(* The child's own step: it ends, normally or not.                           *)
ProcessEnds(j, how) == /\ child[j] = "running"
                       /\ child' = [child EXCEPT ![j] = how]
                       /\ procs' = procs

(* What waitpid and the code behind it make of a pid: a failure is a status  *)
(* other than 0, a signal, or a pid nobody knows any more.                   *)
Running(j) == child[j] = "running"
Failure(j) == child[j] # "ok"
Reaped(j) == [child EXCEPT ![j] = "reaped"]

(* One nob__proc_wait_async in the loop over a full pool.  The ended child   *)
(* leaves the pool, whether it failed or not.                                *)
PollEnded(i) == /\ ~Running(procs[i])
                /\ child' = Reaped(procs[i])
                /\ procs' = RemoveUnordered(procs, i)

(* One nob_proc_wait in a loop over the pool: it blocks.                     *)
WaitEnded(i) == /\ ~Running(procs[i])
                /\ child' = Reaped(procs[i])
                /\ procs' = procs
=============================================================================
