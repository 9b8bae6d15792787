--------------------------- MODULE ConnectionQueue ---------------------------
(***************************************************************************)
(* The state that the mutex of a VkConnectionPool protects, and what each  *)
(* critical section does to it (connection.rs).  A pool is a record        *)
(*                                                                         *)
(*   queue    the idle connections; the sequence lists the VecDeque from   *)
(*            back to front, so pop_back is Head and push_front is Append  *)
(*   epoch    how many times the connections have been reset               *)
(*   size     the number of connections asked for by the last reset        *)
(*   waiters  the tasks parked on the pool's Notify                        *)
(*                                                                         *)
(* The operators are pure: what a connection is, and who holds one, is     *)
(* left to the modules that use them.                                      *)
(*                                                                         *)
(* Here and in the modules that use this one, an operator whose name ends  *)
(* in "_Slip" is the next definition as a plausible mistake would have it. *)
(* No specification uses them: putting one in the place of its original    *)
(* shows which property notices the mistake.                               *)
(***************************************************************************)
EXTENDS Naturals, Sequences

NewQueue == [queue |-> <<>>, epoch |-> 0, size |-> 0, waiters |-> {}]

IsEmpty(p) == p.queue = <<>>

HasAllConnections_Slip(p) == Len(p.queue) <= p.size

HasAllConnections(p) == Len(p.queue) = p.size

Take_Slip(p) == p

Take(p) == [p EXCEPT !.queue = Tail(@)]

Put(p, conn) == [p EXCEPT !.queue = Append(@, conn)]

CloseConnections_Slip(p) == p

CloseConnections(p) == [p EXCEPT !.queue = <<>>]

(* The size one short; the old connections kept; a partial refill kept. *)
ResetSize_Slip(p, n, opened) ==
    [queue |-> <<>>, epoch |-> p.epoch + 1, size |-> n - 1, waiters |-> p.waiters]

ResetKeeps_Slip(p, n, opened) ==
    [p EXCEPT !.epoch = @ + 1, !.size = n,
              !.queue = IF Len(opened) = n THEN @ \o opened ELSE @]

ResetPartial_Slip(p, n, opened) ==
    [p EXCEPT !.epoch = @ + 1, !.size = n, !.queue = opened]

(***************************************************************************)
(* reset_connections: opened is the sequence of connections that could be  *)
(* opened before the first failure, all n of them when there was none.     *)
(* After a failure the ones already opened are closed again, but epoch and *)
(* size keep their new values.                                             *)
(***************************************************************************)
ResetConnections(p, n, opened) ==
    [CloseConnections(p) EXCEPT
        !.epoch = p.epoch + 1,
        !.size  = n,
        !.queue = IF Len(opened) = n THEN opened ELSE <<>>]

(***************************************************************************)
(* The tokio Notify.  notify_wait! registers the task (enable) before it   *)
(* gives up the lock; notify_waiters wakes every registered task, and a    *)
(* woken task takes the lock again and rechecks its condition.             *)
(***************************************************************************)
NotifyWait(p, t) == [p EXCEPT !.waiters = @ \cup {t}]

NotifyWaiters(p) == [p EXCEPT !.waiters = {}]

(***************************************************************************)
(* The critical sections of the pool's methods.                            *)
(***************************************************************************)
RefreshSilent_Slip(p, n, opened) == ResetConnections(p, n, opened)

RefreshConnections(p, n, opened) ==
    LET reset == ResetConnections(p, n, opened)
    IN  IF Len(opened) = n THEN NotifyWaiters(reset) ELSE reset

(* The epoch not looked at; nobody told. *)
ReturnStale_Slip(p, lease) == NotifyWaiters(Put(p, lease.conn))

ReturnSilent_Slip(p, lease) ==
    IF p.epoch = lease.from_epoch THEN Put(p, lease.conn) ELSE p

ReturnConnection(p, lease) ==
    IF p.epoch = lease.from_epoch
    THEN NotifyWaiters(Put(p, lease.conn))
    ELSE p
=============================================================================
