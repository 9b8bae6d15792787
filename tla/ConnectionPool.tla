--------------------------- MODULE ConnectionPool ----------------------------
(***************************************************************************)
(* One VkConnectionPool (connection.rs) shared by the LDAP operations that *)
(* borrow its connections, the tasks that reset it (the failure detector   *)
(* when its server is back, CONFIG SET of a connection setting) and the    *)
(* task that shuts it down after the server list was replaced.             *)
(*                                                                         *)
(* Every method holds the pool's mutex from its first line to its end, or  *)
(* to the notify_wait! that parks the task, so one action is one critical  *)
(* section.  A task that notify_waiters wakes starts its loop over: it is  *)
(* the same action, enabled again because the task has left pool.waiters.  *)
(***************************************************************************)
EXTENDS ConnectionQueue, FiniteSets

CONSTANTS
    Borrowers,   \* the LDAP operations, each takes and returns one connection
    Closer,      \* the task that runs VkConnectionPool::shutdown
    PoolSizes,   \* the values of connection_pool_size
    MaxEpoch     \* bound: how many times the pool is reset, new() included

ASSUME PoolAssumption ==
    /\ Closer \notin Borrowers
    /\ PoolSizes \subseteq Nat
    /\ MaxEpoch \in Nat \ {0}

VARIABLES
    pool,     \* the ConnectionQueue record with the waiters of its Notify
    open,     \* the connections opened and not closed yet
    held,     \* held[b]: the VkLdapPoolConnection that b has taken
    task,     \* task[b]: how far b is
    closer    \* how far the shutdown is

vars == <<pool, open, held, task, closer>>

(***************************************************************************)
(* A connection is named by the reset that opened it and its place in it.  *)
(***************************************************************************)
Connection == (Nat \X Nat)

NoLease == [conn |-> <<0, 0>>, from_epoch |-> 0]

Lease == [conn : Connection, from_epoch : Nat]

PoolRecord ==
    [queue : Seq(Connection), epoch : Nat, size : Nat,
     waiters : SUBSET (Borrowers \cup {Closer})]

Opened(e, k) == [i \in 1..k |-> <<e, i>>]

Elems(s) == {s[i] : i \in DOMAIN s}

Queued == Elems(pool.queue)

Holders == {b \in Borrowers : task[b] = "holding"}

Lent == {held[b].conn : b \in Holders}

(***************************************************************************)
(* VkConnectionPool::new: a reset of an empty queue.  k < n connections    *)
(* could be opened when the server stopped answering on the way; the pool  *)
(* exists all the same, its server is listed as unhealthy.                 *)
(***************************************************************************)
Init ==
    /\ \E n \in PoolSizes : \E k \in 0..n :
         pool = ResetConnections(NewQueue, n, Opened(1, k))
    /\ open = Queued
    /\ held = [b \in Borrowers |-> NoLease]
    /\ task = [b \in Borrowers |-> "taking"]
    /\ closer = "idle"

(***************************************************************************)
(* take_connection: wait until the queue has a connection, then take it    *)
(* with the epoch it was handed out in.                                    *)
(***************************************************************************)
TakeConnection(b) ==
    /\ task[b] = "taking"
    /\ b \notin pool.waiters
    /\ \/ /\ IsEmpty(pool)
          /\ pool' = NotifyWait(pool, b)
          /\ UNCHANGED <<held, task>>
       \/ /\ ~IsEmpty(pool)
          /\ held' = [held EXCEPT ![b] = [conn       |-> Head(pool.queue),
                                          from_epoch |-> pool.epoch]]
          /\ task' = [task EXCEPT ![b] = "holding"]
          /\ pool' = Take(pool)
    /\ UNCHANGED <<open, closer>>

(* The connection of an earlier epoch is dropped without being closed. *)
GiveBack_Slip(b) ==
    /\ task[b] = "holding"
    /\ pool' = ReturnConnection(pool, held[b])
    /\ held' = [held EXCEPT ![b] = NoLease]
    /\ task' = [task EXCEPT ![b] = "done"]
    /\ UNCHANGED <<open, closer>>

(***************************************************************************)
(* return_connection: a connection of an earlier epoch is closed.          *)
(***************************************************************************)
GiveBack(b) ==
    /\ task[b] = "holding"
    /\ pool' = ReturnConnection(pool, held[b])
    /\ open' = IF pool.epoch = held[b].from_epoch
               THEN open ELSE open \ {held[b].conn}
    /\ held' = [held EXCEPT ![b] = NoLease]
    /\ task' = [task EXCEPT ![b] = "done"]
    /\ UNCHANGED closer

(***************************************************************************)
(* refresh_connections, with k of the n connections opened: all of them,   *)
(* or the k + 1st failed and the first k were closed again.                *)
(***************************************************************************)
Refresh(n, k) ==
    /\ pool.epoch < MaxEpoch
    /\ pool' = RefreshConnections(pool, n, Opened(pool.epoch + 1, k))
    /\ open' = (open \ Queued) \cup Elems(pool'.queue)
    /\ UNCHANGED <<held, task, closer>>

(***************************************************************************)
(* shutdown: wait until every connection is back, then close them.         *)
(***************************************************************************)
Shutdown ==
    /\ closer # "closed"
    /\ Closer \notin pool.waiters
    /\ \/ /\ ~HasAllConnections(pool)
          /\ pool' = NotifyWait(pool, Closer)
          /\ closer' = "closing"
          /\ UNCHANGED open
       \/ /\ HasAllConnections(pool)
          /\ pool' = CloseConnections(pool)
          /\ open' = open \ Queued
          /\ closer' = "closed"
    /\ UNCHANGED <<held, task>>

Next ==
    \/ \E b \in Borrowers : TakeConnection(b) \/ GiveBack(b)
    \/ \E n \in PoolSizes : \E k \in 0..n : Refresh(n, k)
    \/ Shutdown

Spec == Init /\ [][Next]_vars

(***************************************************************************)
(* The scheduler's runtime polls a task that can go on, and every LDAP     *)
(* operation ends: bind and search run under a timeout.  Nothing obliges   *)
(* anyone to reset the pool or to begin its shutdown.                      *)
(***************************************************************************)
Fairness ==
    /\ \A b \in Borrowers : WF_vars(TakeConnection(b)) /\ WF_vars(GiveBack(b))
    /\ WF_vars(closer = "closing" /\ Shutdown)

FairSpec == Spec /\ Fairness

-----------------------------------------------------------------------------
(***************************************************************************)
(* The types of the variables.  Only a task that is waiting for the queue  *)
(* is parked on the Notify.                                                *)
(***************************************************************************)
TypeOK ==
    /\ pool \in PoolRecord
    /\ open \subseteq Connection
    /\ held \in [Borrowers -> Lease]
    /\ task \in [Borrowers -> {"taking", "holding", "done"}]
    /\ closer \in {"idle", "closing", "closed"}

(***************************************************************************)
(* No connection leaks and none is used after it was closed: the open ones *)
(* are exactly those that sit in the queue or are lent to an operation.    *)
(***************************************************************************)
OpenAccountedFor == open = Queued \cup Lent

(***************************************************************************)
(* A connection serves one operation at a time: LDAP binds change the      *)
(* identity of the whole connection, so a shared one would let one user's  *)
(* bind answer for another's.                                              *)
(***************************************************************************)
LeasesExclusive ==
    /\ \A b, c \in Holders : b # c => held[b].conn # held[c].conn
    /\ Queued \cap Lent = {}
    /\ \A i, j \in DOMAIN pool.queue : pool.queue[i] = pool.queue[j] => i = j

(***************************************************************************)
(* A reset retires every connection opened before it: those still lent out *)
(* carry the old epoch, and return_connection closes them rather than put  *)
(* them back.                                                              *)
(***************************************************************************)
QueueIsCurrent ==
    /\ \A c \in Queued : c[1] = pool.epoch
    /\ \A b \in Holders : /\ held[b].from_epoch = held[b].conn[1]
                          /\ held[b].from_epoch <= pool.epoch

(***************************************************************************)
(* The queue never grows past the size of the pool, whatever the order of  *)
(* returns and resets.  shutdown compares with =, so one connection too    *)
(* many would make it wait for ever.                                       *)
(***************************************************************************)
PoolWithinSize == Len(pool.queue) <= pool.size

(***************************************************************************)
(* The connections of the current epoch, queued or lent, are all there or  *)
(* none is: after a failed reset or the shutdown.                          *)
(***************************************************************************)
Live == {c \in open : c[1] = pool.epoch}

AllOrNothing == Live = {} \/ Live = Elems(Opened(pool.epoch, pool.size))

(***************************************************************************)
(* No wakeup is lost: a task sleeps on the Notify only while the condition *)
(* it waits for is false.  The counter-example would be a task registered  *)
(* after the notification for the state it checked, or a state change that *)
(* tells nobody.                                                           *)
(***************************************************************************)
NoLostWakeup ==
    /\ (pool.waiters \cap Borrowers # {}) => IsEmpty(pool)
    /\ (Closer \in pool.waiters) => ~HasAllConnections(pool) /\ closer = "closing"

(***************************************************************************)
(* shutdown closes the pool only when no operation holds a connection of   *)
(* its current epoch: no running LDAP operation loses its connection.      *)
(***************************************************************************)
ShutdownWaitsForLeases ==
    [][closer' = "closed" /\ closer # "closed"
         => \A b \in Holders : held[b].from_epoch # pool.epoch]_vars

(***************************************************************************)
(* An operation that waits for a connection gets one, and a shutdown that  *)
(* was begun ends, unless the pool ends up without live connections.       *)
(***************************************************************************)
TakersServed ==
    <>[](Live # {}) => \A b \in Borrowers : <>(task[b] = "done")

ShutdownEnds ==
    closer = "closing" ~> (closer = "closed" \/ (pool.size > 0 /\ Live = {}))

(***************************************************************************)
(* The pool implements the lease discipline of PoolLease: what it has are  *)
(* the open connections of its current epoch.                              *)
(***************************************************************************)
LeaseOf(b) == IF task[b] = "holding" THEN {held[b].conn} ELSE {}

Abstract == INSTANCE PoolLease WITH
    live    <- Live,
    lent    <- [b \in Borrowers |-> LeaseOf(b)],
    drained <- (closer = "closed")

ImplementsLease == Abstract!Spec
=============================================================================
