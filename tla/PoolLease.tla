------------------------------ MODULE PoolLease ------------------------------
(***************************************************************************)
(* What a VkConnectionPool promises to its users, without queue, epochs,   *)
(* sizes or waiting: connections are lent to one borrower at a time, a     *)
(* renewal revokes all the connections the pool has (those lent are used   *)
(* up by their borrowers but never lent again), and the pool is drained    *)
(* only when no connection it still has is lent.                           *)
(***************************************************************************)
CONSTANTS Borrowers, Connection

VARIABLES
    live,      \* the connections the pool has, lent or not
    lent,      \* lent[b]: the set of connections b holds, at most one
    drained    \* TRUE once the shutdown has closed the connections

leaseVars == <<live, lent, drained>>

InUse == UNION {lent[b] : b \in Borrowers}

Init ==
    /\ live \in SUBSET Connection
    /\ lent = [b \in Borrowers |-> {}]
    /\ drained = FALSE

Lend(b, c) ==
    /\ lent[b] = {}
    /\ c \in live \ InUse
    /\ lent' = [lent EXCEPT ![b] = {c}]
    /\ UNCHANGED <<live, drained>>

Reclaim(b) ==
    /\ lent[b] # {}
    /\ lent' = [lent EXCEPT ![b] = {}]
    /\ UNCHANGED <<live, drained>>

(* A borrower that dies takes its connection with it. *)
Lose(b) ==
    /\ lent[b] # {}
    /\ lent' = [lent EXCEPT ![b] = {}]
    /\ live' = live \ lent[b]
    /\ UNCHANGED drained

Renew ==
    /\ live' \in SUBSET Connection
    /\ live' \cap (live \cup InUse) = {}
    /\ UNCHANGED <<lent, drained>>

Drain ==
    /\ ~drained
    /\ live \cap InUse = {}
    /\ live' = {}
    /\ drained' = TRUE
    /\ UNCHANGED lent

Next ==
    \/ \E b \in Borrowers : Reclaim(b) \/ Lose(b) \/ \E c \in live : Lend(b, c)
    \/ Renew
    \/ Drain

Spec == Init /\ [][Next]_leaseVars
=============================================================================
