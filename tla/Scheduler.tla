------------------------------ MODULE Scheduler ------------------------------
(***************************************************************************)
(* The job scheduler (scheduler.rs): a channel of jobs, the thread of      *)
(* scheduler_loop that receives them, and the tokio runtime that runs the  *)
(* tasks.  A scheduler is a record                                         *)
(*                                                                         *)
(*   ready     state.is_some()                                             *)
(*   loop      the thread: "none", "running", "ended"                      *)
(*   channel   the jobs sent and not yet received, the oldest first        *)
(*   tasks     the tasks spawned for jobs, and not yet finished            *)
(*   detached  how many further tasks those have spawned (tokio::spawn)    *)
(*                                                                         *)
(* A job names its sender: submit_sync_task makes a thread wait until its  *)
(* job's callback has run, so a sender has one job at a time.  What a task *)
(* does is left to the module that uses this one.                          *)
(***************************************************************************)
EXTENDS Naturals, Sequences, SequencesExt

NewScheduler ==
    [ready |-> FALSE, loop |-> "none", channel |-> <<>>, tasks |-> {}, detached |-> 0]

Initialize(s) == [NewScheduler EXCEPT !.ready = TRUE, !.loop = "running"]

Job(from, do, arg) == [from |-> from, do |-> do, arg |-> arg]

Shutdown == Job("main", "shutdown", 0)

Send(s, job) == [s EXCEPT !.channel = Append(@, job)]

(***************************************************************************)
(* One turn of scheduler_loop: the oldest job becomes a task of its own,   *)
(* unless it is the shutdown.                                              *)
(***************************************************************************)
Receives(s) == s.loop = "running" /\ s.channel # <<>>

SpawnTask(s, task) ==
    [s EXCEPT !.channel = Tail(@), !.tasks = @ \cup {task}]

(* The task is over, and its callback has run or was dropped. *)
EndTask(s, task) == [s EXCEPT !.tasks = @ \ {task}]

Detach(s) == [s EXCEPT !.detached = @ + 1]

EndDetached(s) == [s EXCEPT !.detached = @ - 1]

(* shutdown, up to the join: the state is taken after the job was sent. *)
SendShutdown(s) == [Send(s, Shutdown) EXCEPT !.ready = FALSE]

(***************************************************************************)
(* The shutdown job: the loop returns, which drops the channel with what   *)
(* is in it, and then the runtime, which drops every task where it awaits. *)
(***************************************************************************)
EndLoop(s) == [NewScheduler EXCEPT !.ready = s.ready, !.loop = "ended"]

(* Who has a job in the channel or a task. *)
Callers(s) == {job.from : job \in ToSet(s.channel) \cup s.tasks}
=============================================================================
