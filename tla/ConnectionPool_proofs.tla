------------------------ MODULE ConnectionPool_proofs ------------------------
(***************************************************************************)
(* Proofs about ConnectionPool, for every set of borrowers, every set of   *)
(* pool sizes and every number of resets.                                  *)
(***************************************************************************)
EXTENDS ConnectionPool, FiniteSetTheorems, TLAPS

-----------------------------------------------------------------------------
(* What the sequence operations of the queue do to its set of elements.    *)

Distinct(s) == \A i, j \in DOMAIN s : s[i] = s[j] => i = j

(* push_front adds the connection to the queued ones. *)
LEMMA ElemsAppend ==
    ASSUME NEW S, NEW s \in Seq(S), NEW x \in S
    PROVE  Elems(Append(s, x)) = Elems(s) \cup {x}
<1>1. Append(s, x) \in Seq(S) /\ Len(Append(s, x)) = Len(s) + 1
  OBVIOUS
<1>2. /\ \A i \in 1..Len(s) : Append(s, x)[i] = s[i]
      /\ Append(s, x)[Len(s) + 1] = x
  OBVIOUS
<1>3. DOMAIN s = 1..Len(s) /\ DOMAIN Append(s, x) = 1..(Len(s) + 1)
  BY <1>1
<1>4. Len(s) \in Nat
  OBVIOUS
<1>5. Elems(Append(s, x)) \subseteq Elems(s) \cup {x}
  <2> SUFFICES ASSUME NEW i \in 1..(Len(s) + 1)
               PROVE  Append(s, x)[i] \in Elems(s) \cup {x}
    BY <1>3 DEF Elems
  <2>1. CASE i \in 1..Len(s)
    BY <2>1, <1>2, <1>3 DEF Elems
  <2>2. CASE i = Len(s) + 1
    BY <2>2, <1>2
  <2> QED BY <2>1, <2>2, <1>4
<1>6. Elems(s) \subseteq Elems(Append(s, x))
  <2> SUFFICES ASSUME NEW i \in 1..Len(s)
               PROVE  s[i] \in Elems(Append(s, x))
    BY <1>3 DEF Elems
  <2>1. i \in DOMAIN Append(s, x) /\ s[i] = Append(s, x)[i]
    BY <1>2, <1>3, <1>4
  <2> QED BY <2>1 DEF Elems
<1>7. x \in Elems(Append(s, x))
  <2>1. Len(s) + 1 \in DOMAIN Append(s, x)
    BY <1>3, <1>4
  <2> QED BY <2>1, <1>2 DEF Elems
<1> QED BY <1>5, <1>6, <1>7

(* Putting back a connection that is not queued keeps the queue distinct. *)
LEMMA DistinctAppend ==
    ASSUME NEW S, NEW s \in Seq(S), NEW x \in S, Distinct(s), x \notin Elems(s)
    PROVE  Distinct(Append(s, x))
<1>1. DOMAIN s = 1..Len(s) /\ DOMAIN Append(s, x) = 1..(Len(s) + 1) /\ Len(s) \in Nat
  OBVIOUS
<1>2. /\ \A i \in 1..Len(s) : Append(s, x)[i] = s[i]
      /\ Append(s, x)[Len(s) + 1] = x
  OBVIOUS
<1>3. \A i \in 1..Len(s) : s[i] # x
  BY <1>1 DEF Elems
<1> SUFFICES ASSUME NEW i \in 1..(Len(s) + 1), NEW j \in 1..(Len(s) + 1),
                    Append(s, x)[i] = Append(s, x)[j]
             PROVE  i = j
  BY <1>1 DEF Distinct
<1>4. CASE i \in 1..Len(s) /\ j \in 1..Len(s)
  BY <1>4, <1>1, <1>2 DEF Distinct
<1>5. CASE i = Len(s) + 1 \/ j = Len(s) + 1
  BY <1>5, <1>1, <1>2, <1>3
<1> QED BY <1>4, <1>5, <1>1

(* pop_back takes exactly the head out of the queued ones. *)
LEMMA ElemsTail ==
    ASSUME NEW S, NEW s \in Seq(S), s # <<>>, Distinct(s)
    PROVE  /\ Head(s) \in Elems(s)
           /\ Elems(Tail(s)) = Elems(s) \ {Head(s)}
           /\ Distinct(Tail(s))
<1>1. /\ DOMAIN s = 1..Len(s)
      /\ Len(s) \in Nat
      /\ Len(s) >= 1
      /\ Head(s) = s[1]
  OBVIOUS
<1>2. /\ DOMAIN Tail(s) = 1..(Len(s) - 1)
      /\ \A i \in 1..(Len(s) - 1) : Tail(s)[i] = s[i + 1]
  OBVIOUS
<1>3. Head(s) \in Elems(s)
  <2>1. 1 \in DOMAIN s
    BY <1>1
  <2> QED BY <2>1, <1>1 DEF Elems
<1>4. Elems(Tail(s)) \subseteq Elems(s) \ {Head(s)}
  <2> SUFFICES ASSUME NEW i \in 1..(Len(s) - 1)
               PROVE  Tail(s)[i] \in Elems(s) \ {Head(s)}
    BY <1>2 DEF Elems
  <2>1. i + 1 \in DOMAIN s /\ i + 1 # 1 /\ 1 \in DOMAIN s
    BY <1>1
  <2>2. s[i + 1] \in Elems(s) /\ s[i + 1] # s[1]
    BY <2>1 DEF Elems, Distinct
  <2> QED BY <2>2, <1>1, <1>2
<1>5. Elems(s) \ {Head(s)} \subseteq Elems(Tail(s))
  <2> SUFFICES ASSUME NEW i \in 1..Len(s), s[i] # Head(s)
               PROVE  s[i] \in Elems(Tail(s))
    BY <1>1 DEF Elems
  <2>1. i - 1 \in 1..(Len(s) - 1)
    BY <1>1
  <2>2. i - 1 \in DOMAIN Tail(s) /\ Tail(s)[i - 1] = s[i]
    BY <2>1, <1>1, <1>2
  <2> QED BY <2>2 DEF Elems
<1>6. Distinct(Tail(s))
  <2> SUFFICES ASSUME NEW i \in 1..(Len(s) - 1), NEW j \in 1..(Len(s) - 1),
                      Tail(s)[i] = Tail(s)[j]
               PROVE  i = j
    BY <1>2 DEF Distinct
  <2>1. i + 1 \in DOMAIN s /\ j + 1 \in DOMAIN s /\ s[i + 1] = s[j + 1]
    BY <1>1, <1>2
  <2>2. i + 1 = j + 1
    BY <2>1 DEF Distinct
  <2> QED BY <2>2
<1> QED BY <1>3, <1>4, <1>5, <1>6

(* The connections of one reset, in the order they were opened. *)
LEMMA OpenedFacts ==
    ASSUME NEW e \in Nat, NEW k \in Nat
    PROVE  /\ Opened(e, k) \in Seq(Connection)
           /\ Len(Opened(e, k)) = k
           /\ Distinct(Opened(e, k))
           /\ Elems(Opened(e, k)) = {<<e, i>> : i \in 1..k}
<1>1. Opened(e, k) \in [1..k -> Connection]
  BY DEF Opened, Connection
<1>2. Opened(e, k) \in Seq(Connection) /\ Len(Opened(e, k)) = k
  BY <1>1
<1>3. DOMAIN Opened(e, k) = 1..k /\ \A i \in 1..k : Opened(e, k)[i] = <<e, i>>
  BY DEF Opened
<1>4. Distinct(Opened(e, k))
  BY <1>3 DEF Distinct
<1>5. Elems(Opened(e, k)) = {<<e, i>> : i \in 1..k}
  BY <1>3 DEF Elems
<1> QED BY <1>2, <1>4, <1>5

(* A distinct sequence has as many elements as its length. *)
LEMMA CardinalityElems ==
    ASSUME NEW S, NEW s \in Seq(S), Distinct(s)
    PROVE  IsFiniteSet(Elems(s)) /\ Cardinality(Elems(s)) = Len(s)
<1>1. Len(s) \in Nat /\ DOMAIN s = 1..Len(s)
  OBVIOUS
<1>2. IsFiniteSet(1..Len(s)) /\ Cardinality(1..Len(s)) = Len(s)
  BY <1>1, FS_Interval
<1>3. s \in Bijection(1..Len(s), Elems(s))
  <2>1. s \in [1..Len(s) -> Elems(s)]
    BY <1>1 DEF Elems
  <2>2. \A t \in Elems(s) : \E i \in 1..Len(s) : s[i] = t
    BY <1>1 DEF Elems
  <2> QED BY <2>1, <2>2, <1>1 DEF Bijection, Injection, Surjection, IsInjective, Distinct
<1>4. ExistsBijection(1..Len(s), Elems(s))
  BY <1>3 DEF ExistsBijection
<1> QED BY <1>2, <1>4, FS_Bijection

(***************************************************************************)
(* The critical sections, field by field.                                  *)
(***************************************************************************)
LEMMA SetQueue ==
    ASSUME NEW p \in PoolRecord, NEW q \in Seq(Connection)
    PROVE  LET r == [p EXCEPT !.queue = q]
           IN  /\ r \in PoolRecord
               /\ r.queue = q
               /\ r.epoch = p.epoch
               /\ r.size = p.size
               /\ r.waiters = p.waiters
BY DEF PoolRecord

(* close_connections leaves an empty queue and nothing else changed. *)
LEMMA QueueFacts ==
    ASSUME NEW p \in PoolRecord
    PROVE  /\ CloseConnections(p) \in PoolRecord
           /\ CloseConnections(p).queue = <<>>
           /\ CloseConnections(p).epoch = p.epoch
           /\ CloseConnections(p).size = p.size
           /\ CloseConnections(p).waiters = p.waiters
<1>1. <<>> \in Seq(Connection)
  OBVIOUS
<1> QED BY <1>1, SetQueue DEF CloseConnections

(* take removes the head of the queue and changes nothing else. *)
LEMMA TakeFacts ==
    ASSUME NEW p \in PoolRecord, ~IsEmpty(p)
    PROVE  /\ Take(p) \in PoolRecord
           /\ Take(p).queue = Tail(p.queue)
           /\ Take(p).epoch = p.epoch
           /\ Take(p).size = p.size
           /\ Take(p).waiters = p.waiters
<1>1. p.queue \in Seq(Connection)
  BY DEF PoolRecord
<1>2. Tail(p.queue) \in Seq(Connection)
  BY <1>1 DEF IsEmpty
<1> QED BY <1>2, SetQueue DEF Take

(* notify_waiters empties the wait set and changes nothing else. *)
LEMMA NotifyFacts ==
    ASSUME NEW p \in PoolRecord
    PROVE  /\ NotifyWaiters(p) \in PoolRecord
           /\ NotifyWaiters(p).queue = p.queue
           /\ NotifyWaiters(p).epoch = p.epoch
           /\ NotifyWaiters(p).size = p.size
           /\ NotifyWaiters(p).waiters = {}
BY DEF NotifyWaiters, PoolRecord

(* reset_connections: the next epoch, the new size, all connections or none. *)
LEMMA ResetFacts ==
    ASSUME NEW p \in PoolRecord, NEW n \in PoolSizes, NEW new \in Seq(Connection)
    PROVE  /\ ResetConnections(p, n, new) \in PoolRecord
           /\ ResetConnections(p, n, new).queue = IF Len(new) = n THEN new ELSE <<>>
           /\ ResetConnections(p, n, new).epoch = p.epoch + 1
           /\ ResetConnections(p, n, new).size = n
           /\ ResetConnections(p, n, new).waiters = p.waiters
<1> DEFINE q == IF Len(new) = n THEN new ELSE <<>>
           c == CloseConnections(p)
           r == ResetConnections(p, n, new)
<1>0. n \in Nat
  BY PoolAssumption
<1>1. c \in PoolRecord /\ c.waiters = p.waiters
  BY QueueFacts
<1>2. r = [c EXCEPT !.epoch = p.epoch + 1, !.size = n, !.queue = q]
  BY DEF ResetConnections
<1>3. q \in Seq(Connection) /\ p.epoch + 1 \in Nat
  BY DEF PoolRecord
<1> HIDE DEF c, q, r
<1>4. /\ r \in PoolRecord
      /\ r.queue = q
      /\ r.epoch = p.epoch + 1
      /\ r.size = n
      /\ r.waiters = c.waiters
  BY <1>0, <1>1, <1>2, <1>3 DEF PoolRecord
<1> QED BY <1>1, <1>4 DEF q, r

(* refresh_connections wakes everybody, unless the reset failed. *)
LEMMA RefreshFacts ==
    ASSUME NEW p \in PoolRecord, NEW n \in PoolSizes, NEW new \in Seq(Connection)
    PROVE  /\ RefreshConnections(p, n, new) \in PoolRecord
           /\ RefreshConnections(p, n, new).queue = IF Len(new) = n THEN new ELSE <<>>
           /\ RefreshConnections(p, n, new).epoch = p.epoch + 1
           /\ RefreshConnections(p, n, new).size = n
           /\ RefreshConnections(p, n, new).waiters
                 = IF Len(new) = n THEN {} ELSE p.waiters
<1> DEFINE s == ResetConnections(p, n, new)
<1>1. /\ s \in PoolRecord
      /\ s.queue = IF Len(new) = n THEN new ELSE <<>>
      /\ s.epoch = p.epoch + 1
      /\ s.size = n
      /\ s.waiters = p.waiters
  BY ResetFacts
<1>2. RefreshConnections(p, n, new) = IF Len(new) = n THEN NotifyWaiters(s) ELSE s
  BY DEF RefreshConnections
<1> HIDE DEF s
<1> QED BY <1>1, <1>2, NotifyFacts

(* notify_wait! adds the task to the wait set and changes nothing else. *)
LEMMA NotifyWaitFacts ==
    ASSUME NEW p \in PoolRecord, NEW t \in Borrowers \cup {Closer}
    PROVE  /\ NotifyWait(p, t) \in PoolRecord
           /\ NotifyWait(p, t).queue = p.queue
           /\ NotifyWait(p, t).epoch = p.epoch
           /\ NotifyWait(p, t).size = p.size
           /\ NotifyWait(p, t).waiters = p.waiters \cup {t}
BY DEF NotifyWait, PoolRecord

(* put appends one connection and changes nothing else. *)
LEMMA PutFacts ==
    ASSUME NEW p \in PoolRecord, NEW c \in Connection
    PROVE  /\ Put(p, c) \in PoolRecord
           /\ Put(p, c).queue = Append(p.queue, c)
           /\ Put(p, c).epoch = p.epoch
           /\ Put(p, c).size = p.size
           /\ Put(p, c).waiters = p.waiters
<1>1. p.queue \in Seq(Connection)
  BY DEF PoolRecord
<1>2. Append(p.queue, c) \in Seq(Connection)
  BY <1>1
<1> QED BY <1>2, SetQueue DEF Put

-----------------------------------------------------------------------------
(***************************************************************************)
(* The inductive invariant: the safety invariants of ConnectionPool need   *)
(* each other.  PoolWithinSize is not a part of it but follows from it: a  *)
(* distinct queue of connections that all belong to the current reset is   *)
(* no longer than that reset is large.                                     *)
(***************************************************************************)
IInv ==
    /\ TypeOK
    /\ OpenAccountedFor
    /\ LeasesExclusive
    /\ QueueIsCurrent
    /\ AllOrNothing
    /\ NoLostWakeup

(* A pool as new() leaves it, complete or empty, satisfies the invariant. *)
LEMMA InitIInv == Init => IInv
<1> SUFFICES ASSUME Init PROVE IInv
  OBVIOUS
<1> USE PoolAssumption
<1>0. PICK n \in PoolSizes : \E k \in 0..n :
        pool = ResetConnections(NewQueue, n, Opened(1, k))
  BY DEF Init
<1>1. PICK k \in 0..n : pool = ResetConnections(NewQueue, n, Opened(1, k))
  BY <1>0
<1>2. n \in Nat /\ k \in Nat
  BY <1>1
<1> DEFINE q == IF k = n THEN Opened(1, n) ELSE <<>>
<1>3. /\ pool \in PoolRecord
      /\ pool.queue = q
      /\ pool.epoch = 1
      /\ pool.size = n
      /\ pool.waiters = {}
  <2>1. NewQueue \in PoolRecord /\ NewQueue.epoch = 0 /\ NewQueue.waiters = {}
    BY DEF NewQueue, PoolRecord
  <2>2. Opened(1, k) \in Seq(Connection) /\ Len(Opened(1, k)) = k
    BY <1>2, OpenedFacts
  <2> DEFINE new == Opened(1, k)
  <2>3. new \in Seq(Connection) /\ pool = ResetConnections(NewQueue, n, new)
    BY <1>1, <2>2
  <2> HIDE DEF new, q
  <2> DEFINE r == ResetConnections(NewQueue, n, new)
  <2>4. /\ r \in PoolRecord
        /\ r.queue = IF Len(new) = n THEN new ELSE <<>>
        /\ r.epoch = NewQueue.epoch + 1
        /\ r.size = n
        /\ r.waiters = NewQueue.waiters
    BY <1>2, <2>1, <2>3, ResetFacts
  <2> HIDE DEF r
  <2>5. pool = r
    BY <2>3 DEF r
  <2>6. pool.queue = IF k = n THEN Opened(1, n) ELSE <<>>
    BY <2>2, <2>4, <2>5 DEF new
  <2> QED BY <2>1, <2>4, <2>5, <2>6 DEF q
<1>4. /\ q \in Seq(Connection)
      /\ Distinct(q)
      /\ Elems(q) = {} \/ Elems(q) = Elems(Opened(1, n))
      /\ Elems(q) \subseteq {<<1, i>> : i \in 1..n}
  <2>1. CASE k = n
    BY <2>1, <1>2, OpenedFacts
  <2>2. CASE k # n
    BY <2>2 DEF Elems, Distinct
  <2> QED BY <2>1, <2>2
<1>5. Queued = Elems(q) /\ open = Elems(q)
  BY <1>3 DEF Queued, Init
<1> HIDE DEF q
<1>6. Holders = {} /\ Lent = {}
  BY DEF Init, Holders, Lent
<1>7. TypeOK
  <2>1. <<0, 0>> \in Connection /\ open \subseteq Connection
    BY <1>4, <1>5, <1>2 DEF Connection
  <2>2. held \in [Borrowers -> Lease]
    BY <2>1 DEF Init, NoLease, Lease
  <2> QED BY <2>1, <2>2, <1>3 DEF TypeOK, Init
<1>8. OpenAccountedFor
  BY <1>5, <1>6 DEF OpenAccountedFor
<1>9. LeasesExclusive
  BY <1>3, <1>4, <1>6 DEF LeasesExclusive, Distinct
<1>10. QueueIsCurrent
  BY <1>3, <1>4, <1>5, <1>6 DEF QueueIsCurrent
<1>11. AllOrNothing
  <2>1. Live = Elems(q)
    BY <1>3, <1>4, <1>5 DEF Live
  <2> QED BY <2>1, <1>3, <1>4 DEF AllOrNothing
<1>12. NoLostWakeup
  BY <1>3 DEF NoLostWakeup
<1> QED BY <1>7, <1>8, <1>9, <1>10, <1>11, <1>12 DEF IInv

(* What a state satisfying the invariant says about queue and leases. *)
LEMMA InvFacts ==
    ASSUME IInv
    PROVE  /\ pool \in PoolRecord
           /\ pool.queue \in Seq(Connection)
           /\ pool.epoch \in Nat
           /\ pool.size \in Nat
           /\ Distinct(pool.queue)
           /\ \A b \in Borrowers : /\ held[b] \in Lease
                                   /\ held[b].conn \in Connection
                                   /\ held[b].from_epoch \in Nat
           /\ Holders \subseteq Borrowers
<1>1. pool \in PoolRecord /\ held \in [Borrowers -> Lease]
  BY DEF IInv, TypeOK
<1>2. Distinct(pool.queue)
  BY DEF IInv, LeasesExclusive, Distinct
<1>3. \A b \in Borrowers : held[b] \in Lease
  BY <1>1
<1>4. \A b \in Borrowers : held[b].conn \in Connection /\ held[b].from_epoch \in Nat
  BY <1>3 DEF Lease
<1> QED BY <1>1, <1>2, <1>3, <1>4 DEF PoolRecord, Holders

(* No connection comes from a reset that has not happened yet. *)
LEMMA OpenIsOld ==
    ASSUME IInv
    PROVE  \A c \in open : c[1] <= pool.epoch /\ c[1] \in Nat
<1> USE InvFacts
<1>1. \A c \in Queued : c[1] <= pool.epoch
  BY DEF IInv, QueueIsCurrent
<1>2. \A c \in Lent : c[1] <= pool.epoch
  BY DEF IInv, QueueIsCurrent, Lent
<1>3. \A c \in open : c[1] \in Nat
  BY DEF IInv, TypeOK, Connection
<1> QED BY <1>1, <1>2, <1>3 DEF IInv, OpenAccountedFor

(* The queued connections are some of the live ones, with no repetition. *)
LEMMA QueueCardinality ==
    ASSUME IInv
    PROVE  /\ Queued \subseteq Live
           /\ IsFiniteSet(Live)
           /\ Cardinality(Queued) = Len(pool.queue)
           /\ Cardinality(Live) <= pool.size
           /\ Cardinality(Live) \in Nat
<1> USE InvFacts
<1>1. Queued \subseteq Live
  BY DEF IInv, OpenAccountedFor, QueueIsCurrent, Live
<1>2. Cardinality(Queued) = Len(pool.queue)
  BY CardinalityElems DEF Queued
<1>3. IsFiniteSet(Live) /\ Cardinality(Live) <= pool.size /\ Cardinality(Live) \in Nat
  <2>1. CASE Live = {}
    <3>1. IsFiniteSet({}) /\ Cardinality({}) = 0
      BY FS_EmptySet
    <3> QED BY <2>1, <3>1
  <2>2. CASE Live = Elems(Opened(pool.epoch, pool.size))
    <3>1. /\ Opened(pool.epoch, pool.size) \in Seq(Connection)
          /\ Len(Opened(pool.epoch, pool.size)) = pool.size
          /\ Distinct(Opened(pool.epoch, pool.size))
      BY OpenedFacts
    <3>2. IsFiniteSet(Live) /\ Cardinality(Live) = pool.size
      BY <2>2, <3>1, CardinalityElems
    <3> QED BY <3>2
  <2> QED BY <2>1, <2>2 DEF IInv, AllOrNothing
<1> QED BY <1>1, <1>2, <1>3

(* The queue is never longer than the pool is large. *)
LEMMA WithinSize ==
    ASSUME IInv
    PROVE  PoolWithinSize
<1>1. Cardinality(Queued) <= Cardinality(Live)
  BY QueueCardinality, FS_Subset
<1>2. Len(pool.queue) \in Nat /\ pool.size \in Nat
  BY InvFacts
<1> QED BY <1>1, <1>2, QueueCardinality DEF PoolWithinSize

(* When the queue is full, every live connection is in it. *)
LEMMA FullQueue ==
    ASSUME IInv, HasAllConnections(pool)
    PROVE  \A b \in Holders : held[b].from_epoch # pool.epoch
<1>1. Cardinality(Queued) = Cardinality(Live)
  <2>1. Cardinality(Queued) <= Cardinality(Live)
    BY QueueCardinality, FS_Subset
  <2>2. Len(pool.queue) \in Nat /\ pool.size \in Nat
    BY InvFacts
  <2> QED BY <2>1, <2>2, QueueCardinality DEF HasAllConnections
<1>2. Live = Queued
  BY <1>1, QueueCardinality, FS_Subset
<1> SUFFICES ASSUME NEW b \in Holders, held[b].from_epoch = pool.epoch
             PROVE  FALSE
  OBVIOUS
<1>3. held[b].conn \in Lent
  BY DEF Lent
<1>4. held[b].conn \in Live
  BY <1>3 DEF IInv, OpenAccountedFor, QueueIsCurrent, Live
<1> QED BY <1>2, <1>3, <1>4 DEF IInv, LeasesExclusive

(* Parking and waking change the waiters only. *)
LEMMA SameQueue ==
    ASSUME IInv, UNCHANGED <<open, held, task, closer>>,
           pool' \in PoolRecord, pool'.queue = pool.queue,
           pool'.epoch = pool.epoch, pool'.size = pool.size
    PROVE  /\ TypeOK' /\ OpenAccountedFor' /\ LeasesExclusive'
           /\ QueueIsCurrent' /\ AllOrNothing'
<1>1. Queued' = Queued /\ Holders' = Holders
  BY DEF Queued, Holders
<1>2. Lent' = Lent
  BY <1>1 DEF Lent
<1>3. Live' = Live
  BY DEF Live
<1>4. TypeOK'
  BY DEF IInv, TypeOK
<1>5. OpenAccountedFor'
  BY <1>1, <1>2 DEF IInv, OpenAccountedFor
<1>6. LeasesExclusive'
  BY <1>1, <1>2 DEF IInv, LeasesExclusive
<1>7. QueueIsCurrent'
  BY <1>1 DEF IInv, QueueIsCurrent
<1>8. AllOrNothing'
  BY <1>3 DEF IInv, AllOrNothing
<1> QED BY <1>4, <1>5, <1>6, <1>7, <1>8

(* take_connection, whether it parks or serves, keeps the invariant. *)
LEMMA TakeConnectionIInv ==
    ASSUME IInv, NEW b \in Borrowers, TakeConnection(b)
    PROVE  IInv'
<1> USE InvFacts
<1>0. task[b] = "taking" /\ b \notin Holders /\ UNCHANGED <<open, closer>>
  BY DEF TakeConnection, Holders
<1>1. CASE IsEmpty(pool) /\ pool' = NotifyWait(pool, b) /\ UNCHANGED <<held, task>>
  <2>1. /\ pool' \in PoolRecord
        /\ pool'.queue = pool.queue
        /\ pool'.epoch = pool.epoch
        /\ pool'.size = pool.size
        /\ pool'.waiters = pool.waiters \cup {b}
    BY <1>1, NotifyWaitFacts
  <2>2. NoLostWakeup'
    <3>1. IsEmpty(pool')
      BY <1>1, <2>1 DEF IsEmpty
    <3>2. b # Closer
      BY PoolAssumption
    <3> QED BY <1>0, <2>1, <3>1, <3>2 DEF IInv, NoLostWakeup, HasAllConnections
  <2> QED BY <1>0, <1>1, <2>1, <2>2, SameQueue DEF IInv
<1>2. CASE /\ ~IsEmpty(pool)
           /\ held' = [held EXCEPT ![b] = [conn       |-> Head(pool.queue),
                                           from_epoch |-> pool.epoch]]
           /\ task' = [task EXCEPT ![b] = "holding"]
           /\ pool' = Take(pool)
  <2> DEFINE h == Head(pool.queue)
  <2>1. /\ pool' \in PoolRecord
        /\ pool'.queue = Tail(pool.queue)
        /\ pool'.epoch = pool.epoch
        /\ pool'.size = pool.size
        /\ pool'.waiters = pool.waiters
    BY <1>2, TakeFacts
  <2>2. /\ h \in Queued
        /\ Queued' = Queued \ {h}
        /\ Distinct(pool'.queue)
    BY <1>2, <2>1, ElemsTail DEF IsEmpty, Queued
  <2>3. h \in Connection
    BY <1>2 DEF IsEmpty
  <2> HIDE DEF h
  <2>4. /\ held[b] \in Lease
        /\ held'[b] = [conn |-> h, from_epoch |-> pool.epoch]
        /\ \A c \in Borrowers : c # b => held'[c] = held[c]
        /\ held' \in [Borrowers -> Lease]
    BY <1>2, <2>3 DEF IInv, TypeOK, Lease, h
  <2>5. Holders' = Holders \cup {b} /\ task' \in [Borrowers -> {"taking", "holding", "done"}]
    BY <1>2 DEF Holders, IInv, TypeOK
  <2>6. Lent' = Lent \cup {h}
    <3>1. \A c \in Holders : held'[c] = held[c]
      BY <2>4, <1>0
    <3>2. held'[b].conn = h
      BY <2>4
    <3> QED BY <2>5, <3>1, <3>2 DEF Lent
  <2>7. TypeOK'
    BY <1>0, <2>1, <2>4, <2>5 DEF IInv, TypeOK
  <2>8. OpenAccountedFor'
    BY <1>0, <2>2, <2>6 DEF IInv, OpenAccountedFor
  <2>9. LeasesExclusive'
    <3>1. \A c, d \in Holders' : c # d => held'[c].conn # held'[d].conn
      <4>1. \A c \in Holders : held'[c] = held[c] /\ held[c].conn \in Lent
        BY <1>0, <2>4 DEF Lent
      <4>2. \A c \in Holders : held[c].conn # h
        BY <4>1, <2>2 DEF IInv, LeasesExclusive
      <4>3. held'[b].conn = h
        BY <2>4
      <4> QED BY <2>5, <4>1, <4>2, <4>3 DEF IInv, LeasesExclusive
    <3>2. Queued' \cap Lent' = {}
      BY <2>2, <2>6 DEF IInv, LeasesExclusive
    <3> QED BY <2>2, <3>1, <3>2 DEF LeasesExclusive, Distinct
  <2>10. QueueIsCurrent'
    <3>1. \A c \in Queued' : c[1] = pool'.epoch
      BY <2>1, <2>2 DEF IInv, QueueIsCurrent
    <3>2. \A c \in Holders : held'[c] = held[c]
      BY <1>0, <2>4
    <3>3. held'[b].from_epoch = pool.epoch /\ held'[b].conn[1] = pool.epoch
      BY <2>2, <2>4 DEF IInv, QueueIsCurrent
    <3>4. ASSUME NEW c \in Holders'
          PROVE  /\ held'[c].from_epoch = held'[c].conn[1]
                 /\ held'[c].from_epoch <= pool'.epoch
      BY <2>1, <2>5, <3>2, <3>3 DEF IInv, QueueIsCurrent
    <3> QED BY <3>1, <3>4 DEF QueueIsCurrent
  <2>11. AllOrNothing'
    <3>1. Live' = Live
      BY <1>0, <2>1 DEF Live
    <3> QED BY <2>1, <3>1 DEF IInv, AllOrNothing
  <2>12. NoLostWakeup'
    <3>1. pool.waiters \cap Borrowers = {}
      BY <1>2 DEF IInv, NoLostWakeup
    <3>2. ASSUME Closer \in pool.waiters PROVE ~HasAllConnections(pool')
      <4>1. Len(pool'.queue) = Len(pool.queue) - 1 /\ Len(pool.queue) \in Nat
        BY <1>2, <2>1 DEF IsEmpty
      <4>2. pool.size # Len(pool.queue) - 1
        BY <4>1, WithinSize DEF PoolWithinSize
      <4> QED BY <4>1, <4>2, <2>1 DEF HasAllConnections
    <3> QED BY <1>0, <2>1, <3>1, <3>2 DEF IInv, NoLostWakeup
  <2> QED BY <2>7, <2>8, <2>9, <2>10, <2>11, <2>12 DEF IInv
<1> QED BY <1>1, <1>2 DEF TakeConnection

(* return_connection keeps the invariant, in the epoch of the lease or later. *)
LEMMA GiveBackIInv ==
    ASSUME IInv, NEW b \in Borrowers, GiveBack(b)
    PROVE  IInv'
<1> USE InvFacts
<1> DEFINE c == held[b].conn
<1>1. /\ b \in Holders
      /\ c \in Connection
      /\ c \in Lent
      /\ c \notin Queued
      /\ held[b].from_epoch = c[1]
      /\ held[b].from_epoch <= pool.epoch
  BY DEF GiveBack, Holders, Lent, IInv, LeasesExclusive, QueueIsCurrent
<1>2. /\ held' = [held EXCEPT ![b] = NoLease]
      /\ task' = [task EXCEPT ![b] = "done"]
      /\ closer' = closer
  BY DEF GiveBack
<1> HIDE DEF c
<1>3. Holders' = Holders \ {b} /\ task' \in [Borrowers -> {"taking", "holding", "done"}]
  BY <1>2 DEF Holders, IInv, TypeOK
<1>4. \A d \in Holders' : held'[d] = held[d]
  BY <1>2, <1>3 DEF IInv, TypeOK
<1>5. Lent' = Lent \ {c}
  <2>1. \A d \in Holders : d # b => held[d].conn # c
    BY <1>1 DEF c, IInv, LeasesExclusive
  <2>2. Lent' = {held[d].conn : d \in Holders'}
    BY <1>4 DEF Lent
  <2> QED BY <2>1, <2>2, <1>3 DEF Lent, c
<1>6. held' \in [Borrowers -> Lease]
  <2>1. NoLease \in Lease
    BY DEF NoLease, Lease, Connection
  <2> QED BY <2>1, <1>2 DEF IInv, TypeOK
<1>7. \A d, e \in Holders' : d # e => held'[d].conn # held'[e].conn
  BY <1>3, <1>4 DEF IInv, LeasesExclusive
<1>8. CASE pool.epoch = held[b].from_epoch
  <2>1. open' = open /\ pool' = NotifyWaiters(Put(pool, c))
    BY <1>8 DEF GiveBack, ReturnConnection, c
  <2>2. /\ pool' \in PoolRecord
        /\ pool'.queue = Append(pool.queue, c)
        /\ pool'.epoch = pool.epoch
        /\ pool'.size = pool.size
        /\ pool'.waiters = {}
    <3> DEFINE put == Put(pool, c)
    <3>1. /\ put \in PoolRecord
          /\ put.queue = Append(pool.queue, c)
          /\ put.epoch = pool.epoch
          /\ put.size = pool.size
      BY <1>1, PutFacts
    <3> HIDE DEF put
    <3>2. pool' = NotifyWaiters(put)
      BY <2>1 DEF put
    <3> QED BY <3>1, <3>2, NotifyFacts
  <2>3. Queued' = Queued \cup {c} /\ Distinct(pool'.queue)
    BY <1>1, <2>2, ElemsAppend, DistinctAppend DEF Queued
  <2>4. TypeOK'
    BY <1>2, <1>3, <1>6, <2>1, <2>2 DEF IInv, TypeOK
  <2>5. OpenAccountedFor'
    BY <1>1, <1>5, <2>1, <2>3 DEF IInv, OpenAccountedFor
  <2>6. LeasesExclusive'
    BY <1>1, <1>5, <1>7, <2>3 DEF IInv, LeasesExclusive, Distinct
  <2>7. QueueIsCurrent'
    <3>1. \A d \in Queued' : d[1] = pool'.epoch
      BY <1>1, <1>8, <2>2, <2>3 DEF IInv, QueueIsCurrent
    <3> QED BY <1>3, <1>4, <2>2, <3>1 DEF IInv, QueueIsCurrent
  <2>8. AllOrNothing'
    <3>1. Live' = Live
      BY <2>1, <2>2 DEF Live
    <3> QED BY <2>2, <3>1 DEF IInv, AllOrNothing
  <2>9. NoLostWakeup'
    BY <2>2 DEF NoLostWakeup
  <2> QED BY <2>4, <2>5, <2>6, <2>7, <2>8, <2>9 DEF IInv
<1>9. CASE pool.epoch # held[b].from_epoch
  <2>1. open' = open \ {c} /\ pool' = pool
    BY <1>9 DEF GiveBack, ReturnConnection, c
  <2>2. Queued' = Queued
    BY <2>1 DEF Queued
  <2>3. TypeOK'
    BY <1>2, <1>3, <1>6, <2>1 DEF IInv, TypeOK
  <2>4. OpenAccountedFor'
    BY <1>1, <1>5, <2>1, <2>2 DEF IInv, OpenAccountedFor
  <2>5. LeasesExclusive'
    BY <1>5, <1>7, <2>1, <2>2 DEF IInv, LeasesExclusive
  <2>6. QueueIsCurrent'
    BY <1>3, <1>4, <2>1, <2>2 DEF IInv, QueueIsCurrent
  <2>7. AllOrNothing'
    <3>1. Live' = Live
      BY <1>1, <1>9, <2>1 DEF Live
    <3> QED BY <2>1, <3>1 DEF IInv, AllOrNothing
  <2>8. NoLostWakeup'
    BY <1>2, <2>1 DEF IInv, NoLostWakeup, IsEmpty, HasAllConnections
  <2> QED BY <2>3, <2>4, <2>5, <2>6, <2>7, <2>8 DEF IInv
<1> QED BY <1>8, <1>9

(* refresh_connections, complete or failed on the way, keeps the invariant. *)
LEMMA RefreshIInv ==
    ASSUME IInv, NEW n \in PoolSizes, NEW k \in 0..n, Refresh(n, k)
    PROVE  IInv'
<1>0. /\ n \in Nat
      /\ k \in Nat
      /\ pool \in PoolRecord
      /\ pool.epoch \in Nat
      /\ pool.epoch + 1 \in Nat
  BY PoolAssumption, InvFacts
<1> DEFINE new == Opened(pool.epoch + 1, k)
<1>1. pool' = RefreshConnections(pool, n, new)
  BY DEF Refresh
<1>2. /\ new \in Seq(Connection)
      /\ Len(new) = k
      /\ Distinct(new)
      /\ Elems(new) = {<<pool.epoch + 1, i>> : i \in 1..k}
  BY <1>0, OpenedFacts
<1> HIDE DEF new
<1> DEFINE r == RefreshConnections(pool, n, new)
<1>3. /\ r \in PoolRecord
      /\ r.queue = IF Len(new) = n THEN new ELSE <<>>
      /\ r.epoch = pool.epoch + 1
      /\ r.size = n
      /\ r.waiters = IF Len(new) = n THEN {} ELSE pool.waiters
  BY <1>0, <1>2, RefreshFacts
<1> HIDE DEF r
<1>4. /\ pool' \in PoolRecord
      /\ pool'.queue = IF k = n THEN new ELSE <<>>
      /\ pool'.epoch = pool.epoch + 1
      /\ pool'.size = n
      /\ pool'.waiters = IF k = n THEN {} ELSE pool.waiters
  BY <1>1, <1>2, <1>3 DEF r
<1>5. /\ UNCHANGED <<held, task, closer>>
      /\ Holders' = Holders
      /\ Lent' = Lent
  BY DEF Refresh, Holders, Lent
<1>6. /\ Distinct(pool'.queue)
      /\ Queued' = {} \/ (k = n /\ Queued' = Elems(new))
      /\ k = n => Queued' = Elems(new)
      /\ k # n => IsEmpty(pool') /\ Queued' = {}
  <2>1. CASE k = n
    BY <2>1, <1>2, <1>4 DEF Queued
  <2>2. CASE k # n
    BY <2>2, <1>4 DEF Queued, Elems, Distinct, IsEmpty
  <2> QED BY <2>1, <2>2
<1>7. /\ \A c \in Queued' : c \in Connection /\ c[1] = pool.epoch + 1
      /\ \A c \in open : c[1] <= pool.epoch /\ c[1] \in Nat
  <2>1. \A c \in Queued' : c \in Connection /\ c[1] = pool.epoch + 1
    <3>1. \A c \in Elems(new) : c \in Connection /\ c[1] = pool.epoch + 1
      BY <1>0, <1>2 DEF Connection
    <3> QED BY <1>6, <3>1
  <2> QED BY <2>1, OpenIsOld
<1>8. open' = (open \ Queued) \cup Queued' /\ open \ Queued = Lent
  BY DEF Refresh, Queued, IInv, OpenAccountedFor, LeasesExclusive
<1> USE InvFacts
<1>9. TypeOK'
  BY <1>4, <1>5, <1>7, <1>8 DEF IInv, TypeOK
<1>10. OpenAccountedFor'
  BY <1>5, <1>8 DEF OpenAccountedFor
<1>11. LeasesExclusive'
  <2>1. Queued' \cap Lent = {}
    BY <1>7, <1>8
  <2> QED BY <2>1, <1>5, <1>6 DEF IInv, LeasesExclusive, Distinct
<1>12. QueueIsCurrent'
  BY <1>4, <1>5, <1>7 DEF IInv, QueueIsCurrent, Holders
<1>13. AllOrNothing'
  <2>1. Live' = Queued'
    BY <1>4, <1>7, <1>8 DEF Live
  <2>2. k = n => Elems(new) = Elems(Opened(pool'.epoch, pool'.size))
    BY <1>4 DEF new
  <2> QED BY <2>1, <2>2, <1>6 DEF AllOrNothing
<1>14. NoLostWakeup'
  <2>1. CASE k = n
    BY <2>1, <1>4 DEF NoLostWakeup
  <2>2. CASE k # n
    <3>1. ~HasAllConnections(pool')
      BY <2>2, <1>0, <1>4 DEF HasAllConnections
    <3> QED BY <2>2, <3>1, <1>4, <1>5, <1>6 DEF IInv, NoLostWakeup
  <2> QED BY <2>1, <2>2
<1> QED BY <1>9, <1>10, <1>11, <1>12, <1>13, <1>14 DEF IInv

(* shutdown, whether it parks or closes, keeps the invariant. *)
LEMMA ShutdownIInv ==
    ASSUME IInv, Shutdown
    PROVE  IInv'
<1> USE InvFacts
<1>0. UNCHANGED <<held, task>> /\ Holders' = Holders /\ Lent' = Lent
  BY DEF Shutdown, Holders, Lent
<1>1. CASE /\ ~HasAllConnections(pool)
           /\ pool' = NotifyWait(pool, Closer)
           /\ closer' = "closing"
           /\ UNCHANGED open
  <2>1. /\ pool' \in PoolRecord
        /\ pool'.queue = pool.queue
        /\ pool'.epoch = pool.epoch
        /\ pool'.size = pool.size
        /\ pool'.waiters = pool.waiters \cup {Closer}
    BY <1>1, NotifyWaitFacts
  <2>2. Queued' = Queued /\ Live' = Live
    BY <1>1, <2>1 DEF Queued, Live
  <2>3. TypeOK'
    BY <1>0, <1>1, <2>1 DEF IInv, TypeOK
  <2>4. OpenAccountedFor' /\ LeasesExclusive' /\ QueueIsCurrent' /\ AllOrNothing'
    BY <1>0, <1>1, <2>1, <2>2
       DEF IInv, OpenAccountedFor, LeasesExclusive, QueueIsCurrent, AllOrNothing
  <2>5. NoLostWakeup'
    BY <1>1, <2>1, PoolAssumption DEF IInv, NoLostWakeup, IsEmpty, HasAllConnections
  <2> QED BY <2>3, <2>4, <2>5 DEF IInv
<1>2. CASE /\ HasAllConnections(pool)
           /\ pool' = CloseConnections(pool)
           /\ open' = open \ Queued
           /\ closer' = "closed"
  <2>1. /\ pool' \in PoolRecord
        /\ pool'.queue = <<>>
        /\ pool'.epoch = pool.epoch
        /\ pool'.size = pool.size
        /\ pool'.waiters = pool.waiters
    BY <1>2, QueueFacts
  <2>2. Queued' = {}
    BY <2>1 DEF Queued, Elems
  <2>3. open' = Lent
    BY <1>2 DEF IInv, OpenAccountedFor, LeasesExclusive
  <2>4. Live' = {}
    BY <2>1, <2>3, FullQueue, <1>2 DEF Live, Lent, IInv, QueueIsCurrent
  <2>5. TypeOK'
    BY <1>0, <1>2, <2>1 DEF IInv, TypeOK
  <2>6. OpenAccountedFor' /\ LeasesExclusive'
    BY <1>0, <2>1, <2>2, <2>3 DEF IInv, OpenAccountedFor, LeasesExclusive
  <2>7. QueueIsCurrent' /\ AllOrNothing'
    BY <1>0, <2>1, <2>2, <2>4 DEF IInv, QueueIsCurrent, AllOrNothing
  <2>8. NoLostWakeup'
    BY <1>2, <2>1 DEF IInv, NoLostWakeup, IsEmpty
  <2> QED BY <2>5, <2>6, <2>7, <2>8 DEF IInv
<1> QED BY <1>1, <1>2 DEF Shutdown

(* Every step of the pool's tasks keeps the invariant. *)
LEMMA NextIInv ==
    ASSUME IInv, [Next]_vars
    PROVE  IInv'
<1>1. CASE UNCHANGED vars
  <2>1. /\ Queued' = Queued /\ Holders' = Holders /\ Lent' = Lent /\ Live' = Live
    BY <1>1 DEF vars, Queued, Holders, Lent, Live
  <2> QED BY <1>1, <2>1 DEF vars, IInv, TypeOK, OpenAccountedFor, LeasesExclusive,
            QueueIsCurrent, AllOrNothing, NoLostWakeup, IsEmpty, HasAllConnections
<1>2. ASSUME NEW b \in Borrowers, TakeConnection(b) PROVE IInv'
  BY <1>2, TakeConnectionIInv
<1>3. ASSUME NEW b \in Borrowers, GiveBack(b) PROVE IInv'
  BY <1>3, GiveBackIInv
<1>4. ASSUME NEW n \in PoolSizes, NEW k \in 0..n, Refresh(n, k) PROVE IInv'
  BY <1>4, RefreshIInv
<1>5. CASE Shutdown
  BY <1>5, ShutdownIInv
<1> QED BY <1>1, <1>2, <1>3, <1>4, <1>5 DEF Next

-----------------------------------------------------------------------------
(***************************************************************************)
(* Type correctness of the pool.                                           *)
(***************************************************************************)
THEOREM TypeCorrect == Spec => []TypeOK
<1>1. IInv => TypeOK
  BY DEF IInv
<1> QED BY <1>1, InitIInv, NextIInv, PTL DEF Spec

(***************************************************************************)
(* No task ever sleeps through the state it waits for: takers sleep only   *)
(* while the queue is empty, the shutdown only while a connection is out.  *)
(***************************************************************************)
THEOREM WakeupsNotLost == Spec => []NoLostWakeup
<1>1. IInv => NoLostWakeup
  BY DEF IInv
<1> QED BY <1>1, InitIInv, NextIInv, PTL DEF Spec

(***************************************************************************)
(* One operation at a time uses a connection.                              *)
(***************************************************************************)
THEOREM LeasesSound == Spec => []LeasesExclusive
<1>1. IInv => LeasesExclusive
  BY DEF IInv
<1> QED BY <1>1, InitIInv, NextIInv, PTL DEF Spec

(***************************************************************************)
(* Connections neither leak nor are used after they were closed, whatever  *)
(* the order of returns, resets and the shutdown.                          *)
(***************************************************************************)
THEOREM NoneLeaks == Spec => []OpenAccountedFor
<1>1. IInv => OpenAccountedFor
  BY DEF IInv
<1> QED BY <1>1, InitIInv, NextIInv, PTL DEF Spec

(***************************************************************************)
(* A connection of an epoch before the last reset is never in the queue.   *)
(***************************************************************************)
THEOREM ResetRetiresAll == Spec => []QueueIsCurrent
<1>1. IInv => QueueIsCurrent
  BY DEF IInv
<1> QED BY <1>1, InitIInv, NextIInv, PTL DEF Spec

(***************************************************************************)
(* The queue never exceeds the configured size.                            *)
(***************************************************************************)
THEOREM SizeRespected == Spec => []PoolWithinSize
<1>1. IInv => PoolWithinSize
  BY WithinSize DEF IInv
<1> QED BY <1>1, InitIInv, NextIInv, PTL DEF Spec

(***************************************************************************)
(* A pool has all the connections of its epoch or none: a reset that fails *)
(* half-way keeps nothing of what it opened.                               *)
(***************************************************************************)
THEOREM CompleteOrEmpty == Spec => []AllOrNothing
<1>1. IInv => AllOrNothing
  BY DEF IInv
<1> QED BY <1>1, InitIInv, NextIInv, PTL DEF Spec

(***************************************************************************)
(* shutdown never closes a pool under a running operation.                 *)
(***************************************************************************)
THEOREM ShutdownSafe == Spec => ShutdownWaitsForLeases
<1>1. ASSUME IInv, [Next]_vars
      PROVE  [closer' = "closed" /\ closer # "closed"
                => \A b \in Holders : held[b].from_epoch # pool.epoch]_vars
  <2> SUFFICES ASSUME Next, closer' = "closed", closer # "closed"
               PROVE  \A b \in Holders : held[b].from_epoch # pool.epoch
    BY <1>1
  <2>1. Shutdown /\ HasAllConnections(pool)
    BY DEF Next, TakeConnection, GiveBack, Refresh, Shutdown
  <2> QED BY <1>1, <2>1, FullQueue
<1> QED BY <1>1, InitIInv, NextIInv, PTL DEF Spec, ShutdownWaitsForLeases

-----------------------------------------------------------------------------
(***************************************************************************)
(* The refinement.  Each step of the pool maps to a step of PoolLease or   *)
(* leaves what PoolLease sees unchanged.                                   *)
(***************************************************************************)
lent == [b \in Borrowers |-> LeaseOf(b)]

(* What is in use, seen from PoolLease, are the connections lent out. *)
LEMMA InUseIsLent == Abstract!InUse = Lent
<1>1. \A b \in Borrowers : lent[b] = LeaseOf(b)
  BY DEF lent
<1>2. UNION {LeaseOf(b) : b \in Borrowers} = Lent
  BY DEF LeaseOf, Lent, Holders
<1>3. Abstract!InUse = UNION {lent[b] : b \in Borrowers}
  BY DEF Abstract!InUse, lent
<1> QED BY <1>1, <1>2, <1>3

(* An empty lease for all, and the pool has what the first reset opened. *)
LEMMA InitLease == ASSUME Init, IInv PROVE Abstract!Init
<1>1. lent = [b \in Borrowers |-> {}]
  BY DEF lent, LeaseOf, Init
<1>2. Live \in SUBSET Connection
  BY DEF IInv, TypeOK, Live
<1>3. closer # "closed"
  BY DEF Init
<1> QED BY <1>1, <1>2, <1>3 DEF Abstract!Init, lent

(* take_connection lends, or parks unseen. *)
LEMMA TakeConnectionLease ==
    ASSUME IInv, NEW b \in Borrowers, TakeConnection(b)
    PROVE  [Abstract!Next]_(Abstract!leaseVars)
<1> USE InvFacts
<1>0. task[b] = "taking" /\ UNCHANGED <<open, closer>>
  BY DEF TakeConnection
<1>1. CASE IsEmpty(pool) /\ pool' = NotifyWait(pool, b) /\ UNCHANGED <<held, task>>
  <2>1. pool'.epoch = pool.epoch
    BY <1>1, NotifyWaitFacts
  <2>2. Live' = Live
    BY <1>0, <2>1 DEF Live
  <2>3. lent' = lent
    BY <1>1 DEF lent, LeaseOf
  <2> QED BY <1>0, <2>2, <2>3 DEF Abstract!leaseVars, lent
<1>2. CASE /\ ~IsEmpty(pool)
           /\ held' = [held EXCEPT ![b] = [conn       |-> Head(pool.queue),
                                           from_epoch |-> pool.epoch]]
           /\ task' = [task EXCEPT ![b] = "holding"]
           /\ pool' = Take(pool)
  <2> DEFINE h == Head(pool.queue)
  <2>1. pool'.epoch = pool.epoch
    BY <1>2, TakeFacts
  <2>2. Live' = Live
    BY <1>0, <2>1 DEF Live
  <2>3. h \in Queued
    BY <1>2, ElemsTail DEF IsEmpty, Queued
  <2>4. h \in Live \ Lent
    BY <2>3, QueueCardinality DEF IInv, LeasesExclusive
  <2>5. lent[b] = {} /\ lent' = [lent EXCEPT ![b] = {h}]
    <3>1. held'[b].conn = h /\ task'[b] = "holding"
      BY <1>2 DEF IInv, TypeOK
    <3>2. \A c \in Borrowers : c # b => held'[c] = held[c] /\ task'[c] = task[c]
      BY <1>2 DEF IInv, TypeOK
    <3> QED BY <1>0, <3>1, <3>2 DEF lent, LeaseOf
  <2> HIDE DEF h
  <2>6. Abstract!Lend(b, h)
    BY <1>0, <2>2, <2>4, <2>5, InUseIsLent DEF Abstract!Lend, lent
  <2> QED BY <2>4, <2>6 DEF Abstract!Next
<1> QED BY <1>1, <1>2 DEF TakeConnection

(* return_connection ends the lease; the pool keeps what it has. *)
LEMMA GiveBackLease ==
    ASSUME IInv, NEW b \in Borrowers, GiveBack(b)
    PROVE  [Abstract!Next]_(Abstract!leaseVars)
<1> USE InvFacts
<1>1. task[b] = "holding" /\ closer' = closer
  BY DEF GiveBack
<1>2. Live' = Live
  <2>1. pool'.epoch = pool.epoch
    <3>1. CASE pool.epoch = held[b].from_epoch
      <4>1. Put(pool, held[b].conn) \in PoolRecord
            /\ Put(pool, held[b].conn).epoch = pool.epoch
        BY PutFacts
      <4>2. pool' = NotifyWaiters(Put(pool, held[b].conn))
        BY <3>1 DEF GiveBack, ReturnConnection
      <4> QED BY <4>1, <4>2, NotifyFacts
    <3>2. CASE pool.epoch # held[b].from_epoch
      BY <3>2 DEF GiveBack, ReturnConnection
    <3> QED BY <3>1, <3>2
  <2>2. held[b].from_epoch = held[b].conn[1]
    BY <1>1 DEF IInv, QueueIsCurrent, Holders
  <2>3. \A c \in Connection : c[1] = pool.epoch => (c \in open' <=> c \in open)
    BY <2>2 DEF GiveBack
  <2>4. open' \subseteq open /\ open \subseteq Connection
    BY DEF GiveBack, IInv, TypeOK
  <2> QED BY <2>1, <2>3, <2>4 DEF Live
<1>3. lent[b] # {} /\ lent' = [lent EXCEPT ![b] = {}]
  <2>1. task' = [task EXCEPT ![b] = "done"] /\ held' = [held EXCEPT ![b] = NoLease]
    BY DEF GiveBack
  <2>2. task'[b] = "done"
        /\ \A c \in Borrowers : c # b => held'[c] = held[c] /\ task'[c] = task[c]
    BY <2>1 DEF IInv, TypeOK
  <2> QED BY <1>1, <2>2 DEF lent, LeaseOf
<1>4. Abstract!Reclaim(b)
  BY <1>1, <1>2, <1>3 DEF Abstract!Reclaim, lent
<1> QED BY <1>4 DEF Abstract!Next

(* A reset revokes everything; what it opens is new. *)
LEMMA RefreshLease ==
    ASSUME IInv, NEW n \in PoolSizes, NEW k \in 0..n, Refresh(n, k)
    PROVE  [Abstract!Next]_(Abstract!leaseVars)
<1>1. IInv' /\ pool'.epoch = pool.epoch + 1 /\ pool.epoch \in Nat
  <2>1. n \in Nat /\ k \in Nat /\ pool \in PoolRecord /\ pool.epoch \in Nat
    BY PoolAssumption, InvFacts
  <2>2. pool' = RefreshConnections(pool, n, Opened(pool.epoch + 1, k))
    BY DEF Refresh
  <2>3. pool.epoch + 1 \in Nat
    BY <2>1
  <2>4. Opened(pool.epoch + 1, k) \in Seq(Connection)
    BY <2>1, <2>3, OpenedFacts
  <2>5. pool'.epoch = pool.epoch + 1
    BY <2>1, <2>2, <2>4, RefreshFacts
  <2> QED BY <2>1, <2>5, RefreshIInv
<1>2. lent' = lent /\ closer' = closer
  BY DEF Refresh, lent, LeaseOf
<1>3. \A c \in open : c[1] <= pool.epoch /\ c[1] \in Nat
  BY OpenIsOld
<1>4. Live \cup Lent \subseteq open
  BY DEF Live, IInv, OpenAccountedFor
<1>5. Live' \cap (Live \cup Lent) = {}
  BY <1>1, <1>3, <1>4 DEF Live
<1>6. Live' \in SUBSET Connection
  BY <1>1 DEF IInv, TypeOK, Live
<1>7. Abstract!Renew
  BY <1>2, <1>5, <1>6, InUseIsLent DEF Abstract!Renew, lent
<1> QED BY <1>7 DEF Abstract!Next

(* shutdown drains, or parks unseen. *)
LEMMA ShutdownLease ==
    ASSUME IInv, Shutdown
    PROVE  [Abstract!Next]_(Abstract!leaseVars)
<1> USE InvFacts
<1>0. lent' = lent /\ closer # "closed"
  BY DEF Shutdown, lent, LeaseOf
<1>1. CASE ~HasAllConnections(pool)
  <2>1. pool' = NotifyWait(pool, Closer) /\ closer' = "closing" /\ open' = open
    BY <1>1 DEF Shutdown
  <2>2. pool'.epoch = pool.epoch
    BY <2>1, NotifyWaitFacts
  <2>3. Live' = Live
    BY <2>1, <2>2 DEF Live
  <2> QED BY <1>0, <2>1, <2>3 DEF Abstract!leaseVars, lent
<1>2. CASE HasAllConnections(pool)
  <2>1. pool' = CloseConnections(pool) /\ open' = open \ Queued /\ closer' = "closed"
    BY <1>2 DEF Shutdown
  <2>2. pool'.epoch = pool.epoch
    BY <2>1, QueueFacts
  <2>3. Live \cap Lent = {}
    BY <1>2, FullQueue DEF Live, Lent, IInv, QueueIsCurrent
  <2>4. Live' = {}
    BY <2>1, <2>2, <2>3 DEF Live, IInv, OpenAccountedFor
  <2>5. Abstract!Drain
    BY <1>0, <2>1, <2>3, <2>4, InUseIsLent DEF Abstract!Drain, lent
  <2> QED BY <2>5 DEF Abstract!Next
<1> QED BY <1>1, <1>2

(***************************************************************************)
(* VkConnectionPool implements the lease discipline of PoolLease.          *)
(***************************************************************************)
THEOREM PoolImplementsLease == Spec => ImplementsLease
<1>1. ASSUME IInv, [Next]_vars PROVE [Abstract!Next]_(Abstract!leaseVars)
  <2>1. CASE UNCHANGED vars
    BY <2>1 DEF vars, Abstract!leaseVars, Live, LeaseOf
  <2>2. ASSUME NEW b \in Borrowers, TakeConnection(b)
        PROVE  [Abstract!Next]_(Abstract!leaseVars)
    BY <1>1, <2>2, TakeConnectionLease
  <2>3. ASSUME NEW b \in Borrowers, GiveBack(b)
        PROVE  [Abstract!Next]_(Abstract!leaseVars)
    BY <1>1, <2>3, GiveBackLease
  <2>4. ASSUME NEW n \in PoolSizes, NEW k \in 0..n, Refresh(n, k)
        PROVE  [Abstract!Next]_(Abstract!leaseVars)
    BY <1>1, <2>4, RefreshLease
  <2>5. CASE Shutdown
    BY <1>1, <2>5, ShutdownLease
  <2> QED BY <1>1, <2>1, <2>2, <2>3, <2>4, <2>5 DEF Next
<1>2. Init => Abstract!Init
  BY InitIInv, InitLease
<1> QED BY <1>1, <1>2, InitIInv, NextIInv, PTL DEF Spec, ImplementsLease, Abstract!Spec
=============================================================================
