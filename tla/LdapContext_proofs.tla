------------------------ MODULE LdapContext_proofs --------------------------
(***************************************************************************)
(* Proofs about LdapContext, for all sets of servers and AUTH tasks, all   *)
(* server lists and pool sizes, and any number of failures and CONFIG      *)
(* SETs.                                                                   *)
(***************************************************************************)
EXTENDS LdapContext, FiniteSetTheorems, TLAPS

-----------------------------------------------------------------------------
(***************************************************************************)
(* The inductive invariant, in three layers.                               *)
(*                                                                         *)
(* Shape is what the code can rely on without knowing the others: types,   *)
(* indices that exist, and the alignment of the lists.                     *)
(***************************************************************************)
Conns == [pool : Nat, epoch : Nat, place : Nat, life : Nat]

AnyLease == [conn : Conns, from_epoch : Nat]

Sleepers == ({"auth"} \X AuthTasks) \cup ({"fd"} \X Nat) \cup ({"shutdown"} \X Nat)

Queues == [queue : Seq(Conns), epoch : Nat, size : PoolSizes, waiters : SUBSET Sleepers]

Operations ==
    [at : {"find", "take", "op", "failed", "done", "panicked"}, server : Servers, pool : Nat,
     lease : AnyLease,
     res : {"none", "answered", "NoServerConfigured", "NoHealthyServerAvailable"}]

HealthChecks ==
    [at : {"lookup", "take", "ping", "lookupReturn", "return", "connect", "pingNew",
           "lookupRefresh", "refresh", "status", "done"},
     server : Servers, pool : Nat, size : Nat, lease : AnyLease, ok : BOOLEAN]

(* Every pool that is named exists. *)
Exists(p) == p \in 1..Len(pools)

Maybe(p) == p \in 0..Len(pools)

ListsOK ==
    /\ servers \in Seq(Servers)
    /\ conn_pools \in Seq(Nat)
    /\ \A i \in DOMAIN conn_pools : Exists(conn_pools[i])
    /\ pool_size \in PoolSizes
    /\ pool_server \in Seq(Servers)
    /\ Len(pool_server) = Len(pools)

PoolsOK ==
    /\ pools \in Seq(Queues)
    /\ \A p \in DOMAIN pools : \A j \in DOMAIN pools[p].queue :
         Exists(pools[p].queue[j].pool)

MainOK ==
    /\ main \in [at : {"idle", "adding", "pushing", "refreshing", "refreshed"},
                 todo : Seq(Urls \cup Servers), server : Servers, ok : BOOLEAN]
    /\ main.at \in {"adding", "pushing"} => main.todo \in Seq(Urls)
    /\ main.at = "pushing" =>
         /\ main.todo # <<>>
         /\ Exists(Len(pools))
         /\ main.server.id = Len(servers)
         /\ pool_server[Len(pools)].id = main.server.id
         /\ pool_server[Len(pools)].url = main.server.url
    /\ main.at \in {"refreshing", "refreshed"} =>
         /\ main.todo \in Seq(Servers)
         /\ \A j \in DOMAIN main.todo :
              /\ main.todo[j].id < Len(servers)
              /\ main.todo[j].url = servers[main.todo[j].id + 1].url
    /\ main.at = "refreshed" =>
         /\ main.todo # <<>>
         /\ main.server.id < Len(servers)
         /\ main.server.url = servers[main.server.id + 1].url

AuthInRange(o) ==
    /\ Maybe(o.pool)
    /\ Maybe(o.lease.conn.pool)
    /\ o.at \in {"take", "op"} => Exists(o.pool)
    /\ o.at \in {"op", "panicked"} => Exists(o.lease.conn.pool)

AuthOK ==
    /\ auth \in [AuthTasks -> Operations]
    /\ \A t \in AuthTasks : AuthInRange(auth[t])

ReturnsOK ==
    /\ returns \subseteq [pool : Nat, lease : AnyLease]
    /\ \A r \in returns : Exists(r.pool) /\ Exists(r.lease.conn.pool)

ShutdownsOK ==
    /\ shutdowns \in Seq(Seq(Nat))
    /\ \A k \in DOMAIN shutdowns : \A j \in DOMAIN shutdowns[k] : Exists(shutdowns[k][j])

CheckInRange(c) ==
    /\ Maybe(c.lease.conn.pool)
    /\ c.at \in {"take", "return", "refresh"} => Exists(c.pool)
    /\ c.at \in {"ping", "lookupReturn", "return"} => Exists(c.lease.conn.pool)
    /\ c.at = "refresh" => c.size \in PoolSizes

DetectorOK ==
    /\ fd \in [at : {"sleep", "checking", "hung"}, checks : Seq(HealthChecks)]
    /\ \A i \in DOMAIN fd.checks :
         CheckInRange(fd.checks[i]) /\ fd.checks[i].server.id = i - 1

EnvOK ==
    /\ mode \in [Urls -> {"up", "down", "silent", "faulty"}]
    /\ life \in [Urls -> Nat]
    /\ budget \in [failures : Nat, serverSets : Nat, connSets : Nat]

Shape ==
    /\ ListsOK /\ PoolsOK /\ MainOK /\ AuthOK /\ ReturnsOK /\ ShutdownsOK
    /\ DetectorOK /\ EnvOK /\ ListsAligned

(***************************************************************************)
(* Hands: each connection is at one place.  A connection that is opened is *)
(* new, because all that there are belong to resets that have happened.    *)
(* An AUTH that panicked keeps its connection, which is how it is lost.    *)
(***************************************************************************)
Keepers == {t \in AuthTasks : auth[t].at \in {"op", "panicked"}}

Known(c) == Exists(c.pool) /\ c.epoch <= pools[c.pool].epoch

AllKnown ==
    /\ \A p \in DOMAIN pools : \A j \in DOMAIN pools[p].queue : Known(pools[p].queue[j])
    /\ \A t \in Keepers : Known(auth[t].lease.conn)
    /\ \A i \in FdHolders : Known(fd.checks[i].lease.conn)
    /\ \A r \in returns : Known(r.lease.conn)

EachInOneHand ==
    /\ \A s, t \in Keepers : auth[s].lease.conn = auth[t].lease.conn => s = t
    /\ \A h, i \in FdHolders :
         fd.checks[h].lease.conn = fd.checks[i].lease.conn => h = i
    /\ \A q, r \in returns : q.lease.conn = r.lease.conn => q = r
    /\ \A t \in Keepers : \A i \in FdHolders :
         auth[t].lease.conn # fd.checks[i].lease.conn
    /\ \A t \in Keepers : \A r \in returns : auth[t].lease.conn # r.lease.conn
    /\ \A i \in FdHolders : \A r \in returns : fd.checks[i].lease.conn # r.lease.conn

OffTheQueues ==
    \A p \in DOMAIN pools : \A j \in DOMAIN pools[p].queue :
      /\ \A t \in Keepers : auth[t].lease.conn # pools[p].queue[j]
      /\ \A i \in FdHolders : fd.checks[i].lease.conn # pools[p].queue[j]
      /\ \A r \in returns : r.lease.conn # pools[p].queue[j]

EachQueuedOnce ==
    \A p, q \in DOMAIN pools : \A j \in DOMAIN pools[p].queue, k \in DOMAIN pools[q].queue :
      pools[p].queue[j] = pools[q].queue[k] => p = q /\ j = k

Hands ==
    /\ AllKnown /\ EachInOneHand /\ OffTheQueues /\ EachQueuedOnce
    /\ IsFiniteSet(returns)

(***************************************************************************)
(* HomeParts: every connection comes back to the pool it was taken from,   *)
(* and the pool has all of the last reset or nothing.  It is inductive     *)
(* when no iteration of the detector overlaps a replacement of the list    *)
(* (ListApart): a check is then about the server at its place in the list, *)
(* which is DetectorKnows.  AuthKnows says as much of an operation, when   *)
(* no operation that has found a server overlaps either (ListQuiet).       *)
(***************************************************************************)
CameFrom(lease, p) == lease.conn.pool = p /\ lease.conn.epoch = lease.from_epoch

LeasesCameFrom ==
    /\ \A t \in Keepers : CameFrom(auth[t].lease, auth[t].pool)
    /\ \A r \in returns : CameFrom(r.lease, r.pool)
    /\ \A i \in FdHolders : CameFrom(fd.checks[i].lease, conn_pools[i])

DetectorKnows ==
    /\ fd.at = "sleep" => fd.checks = <<>>
    /\ fd.at # "hung"
    /\ \A i \in DOMAIN fd.checks :
         /\ i <= Len(servers)
         /\ fd.checks[i].server.url = servers[i].url
         /\ fd.checks[i].at \in {"take", "return", "refresh"}
              => fd.checks[i].pool = conn_pools[i]

AuthKnows ==
    \A t \in AuthTasks : auth[t].at \in {"take", "op", "failed"} =>
      /\ auth[t].server.id < Len(servers)
      /\ auth[t].server.url = servers[auth[t].server.id + 1].url

(* The connections that a reset of p to size n has opened. *)
Lot(p, e, n, l) == {[pool |-> p, epoch |-> e, place |-> i, life |-> l] : i \in 1..n}

(* What a pool is accounted for: what it has and what it has lost. *)
InUse == Queued \cup Lent \cup Lost

Kept(p) == CurrentOf(p, InUse)

Complete ==
    \A p \in DOMAIN pools :
      \/ Kept(p) = {}
      \/ \E c \in Kept(p) : Kept(p) = Lot(p, pools[p].epoch, pools[p].size, c.life)

HomeParts == LeasesCameFrom /\ HomeConnections /\ Complete /\ NoSleeperMissed

-----------------------------------------------------------------------------
(* What the sections of a pool's mutex do to a pool.                       *)

AnyQueue == [queue : Seq(Conns), epoch : Nat, size : Nat, waiters : SUBSET Sleepers]

LEMMA SetQueue ==
    ASSUME NEW q \in AnyQueue, NEW s \in Seq(Conns)
    PROVE  [q EXCEPT !.queue = s] = [queue |-> s, epoch |-> q.epoch, size |-> q.size,
                                     waiters |-> q.waiters]
BY DEF AnyQueue

LEMMA SetWaiters ==
    ASSUME NEW q \in AnyQueue, NEW w \in SUBSET Sleepers
    PROVE  [q EXCEPT !.waiters = w] = [queue |-> q.queue, epoch |-> q.epoch,
                                       size |-> q.size, waiters |-> w]
BY DEF AnyQueue

LEMMA SetAll ==
    ASSUME NEW q \in AnyQueue, NEW s \in Seq(Conns), NEW e \in Nat, NEW n \in Nat
    PROVE  [q EXCEPT !.epoch = e, !.size = n, !.queue = s]
             = [queue |-> s, epoch |-> e, size |-> n, waiters |-> q.waiters]
<1> DEFINE r == [q EXCEPT !.epoch = e, !.size = n, !.queue = s]
<1>1. /\ r \in AnyQueue /\ r.queue = s /\ r.epoch = e /\ r.size = n
      /\ r.waiters = q.waiters
  BY DEF AnyQueue
<1> HIDE DEF r
<1>2. r = [queue |-> r.queue, epoch |-> r.epoch, size |-> r.size, waiters |-> r.waiters]
  BY <1>1 DEF AnyQueue
<1> QED BY <1>1, <1>2 DEF r

LEMMA QueuesAreAny == Queues \subseteq AnyQueue
BY ContextAssumption DEF Queues, AnyQueue

(* reset_connections. *)
LEMMA ResetFacts ==
    ASSUME NEW q \in AnyQueue, NEW n \in PoolSizes, NEW o \in Seq(Conns)
    PROVE  ResetConnections(q, n, o) =
             [queue |-> IF Len(o) = n THEN o ELSE <<>>, epoch |-> q.epoch + 1,
              size |-> n, waiters |-> q.waiters]
<1> DEFINE s == IF Len(o) = n THEN o ELSE <<>>
           c == CloseConnections(q)
<1>1. c = [queue |-> <<>>, epoch |-> q.epoch, size |-> q.size, waiters |-> q.waiters]
  <2>1. <<>> \in Seq(Conns)
    OBVIOUS
  <2> QED BY <2>1, SetQueue DEF CloseConnections
<1>2. c \in AnyQueue /\ c.waiters = q.waiters
  BY <1>1 DEF AnyQueue
<1>3. s \in Seq(Conns) /\ n \in Nat /\ q.epoch + 1 \in Nat
  BY ContextAssumption DEF AnyQueue
<1>4. ResetConnections(q, n, o) = [c EXCEPT !.epoch = q.epoch + 1, !.size = n, !.queue = s]
  BY DEF ResetConnections
<1> HIDE DEF c, s
<1>5. ResetConnections(q, n, o) =
        [queue |-> s, epoch |-> q.epoch + 1, size |-> n, waiters |-> c.waiters]
  BY <1>2, <1>3, <1>4, SetAll
<1> QED BY <1>2, <1>5 DEF s

(* pop_back on a queue with connections. *)
LEMMA TakeFacts ==
    ASSUME NEW q \in Queues, ~IsEmpty(q)
    PROVE  /\ Take(q) \in Queues
           /\ Take(q).queue = Tail(q.queue)
           /\ Take(q).epoch = q.epoch /\ Take(q).size = q.size
           /\ Take(q).waiters = q.waiters
<1>1. Tail(q.queue) \in Seq(Conns)
  BY DEF Queues, IsEmpty
<1>2. Take(q) = [queue |-> Tail(q.queue), epoch |-> q.epoch, size |-> q.size,
                 waiters |-> q.waiters]
  BY <1>1, SetQueue, QueuesAreAny DEF Take
<1> QED BY <1>1, <1>2 DEF Queues

(* notify_wait! only registers the task. *)
LEMMA NotifyWaitFacts ==
    ASSUME NEW q \in Queues, NEW a \in Sleepers
    PROVE  /\ NotifyWait(q, a) \in Queues
           /\ NotifyWait(q, a).queue = q.queue
           /\ NotifyWait(q, a).epoch = q.epoch /\ NotifyWait(q, a).size = q.size
           /\ NotifyWait(q, a).waiters = q.waiters \cup {a}
BY DEF NotifyWait, Queues

(* close_connections only empties the queue. *)
LEMMA CloseFacts ==
    ASSUME NEW q \in Queues
    PROVE  /\ CloseConnections(q) \in Queues
           /\ CloseConnections(q).queue = <<>>
           /\ CloseConnections(q).epoch = q.epoch /\ CloseConnections(q).size = q.size
           /\ CloseConnections(q).waiters = q.waiters
<1>1. CloseConnections(q) = [queue |-> <<>>, epoch |-> q.epoch, size |-> q.size,
                             waiters |-> q.waiters]
  BY DEF CloseConnections, Queues
<1> QED BY <1>1 DEF Queues

(* return_connection: put back and tell everyone, or drop. *)
LEMMA ReturnFacts ==
    ASSUME NEW q \in Queues, NEW l \in AnyLease
    PROVE  /\ ReturnConnection(q, l) \in Queues
           /\ ReturnConnection(q, l).epoch = q.epoch
           /\ ReturnConnection(q, l).size = q.size
           /\ q.epoch = l.from_epoch =>
                /\ ReturnConnection(q, l).queue = Append(q.queue, l.conn)
                /\ ReturnConnection(q, l).waiters = {}
           /\ q.epoch # l.from_epoch => ReturnConnection(q, l) = q
<1>1. CASE q.epoch = l.from_epoch
  <2>1. ReturnConnection(q, l) =
          [queue |-> Append(q.queue, l.conn), epoch |-> q.epoch, size |-> q.size,
           waiters |-> {}]
    BY <1>1 DEF ReturnConnection, NotifyWaiters, Put, Queues
  <2>2. Append(q.queue, l.conn) \in Seq(Conns)
    BY DEF Queues, AnyLease
  <2> QED BY <1>1, <2>1, <2>2 DEF Queues
<1>2. CASE q.epoch # l.from_epoch
  BY <1>2 DEF ReturnConnection
<1> QED BY <1>1, <1>2

(* refresh_connections: a full queue and everyone told, or an empty one. *)
LEMMA RefreshFacts ==
    ASSUME NEW q \in Queues, NEW n \in PoolSizes, NEW o \in Seq(Conns)
    PROVE  LET r == RefreshConnections(q, n, o)
           IN  /\ r \in Queues /\ r.epoch = q.epoch + 1 /\ r.size = n
               /\ Len(o) = n  => r.queue = o /\ r.waiters = {}
               /\ Len(o) # n => r.queue = <<>> /\ r.waiters = q.waiters
<1>1. ResetConnections(q, n, o) =
        [queue |-> IF Len(o) = n THEN o ELSE <<>>, epoch |-> q.epoch + 1, size |-> n,
         waiters |-> q.waiters]
  BY ResetFacts, QueuesAreAny
<1>2. CASE Len(o) = n
  <2>1. RefreshConnections(q, n, o) =
          [queue |-> o, epoch |-> q.epoch + 1, size |-> n, waiters |-> {}]
    <3>1. RefreshConnections(q, n, o) = NotifyWaiters(ResetConnections(q, n, o))
      BY <1>2 DEF RefreshConnections
    <3>2. ResetConnections(q, n, o) =
            [queue |-> o, epoch |-> q.epoch + 1, size |-> n, waiters |-> q.waiters]
      BY <1>1, <1>2
    <3> DEFINE r == ResetConnections(q, n, o)
    <3>3. r.queue = o /\ r.epoch = q.epoch + 1 /\ r.size = n /\ r \in AnyQueue
      BY <3>2, ContextAssumption DEF Queues, AnyQueue
    <3> HIDE DEF r
    <3>4. [r EXCEPT !.waiters = {}] =
            [queue |-> r.queue, epoch |-> r.epoch, size |-> r.size, waiters |-> {}]
      BY <3>3, SetWaiters
    <3> QED BY <3>1, <3>3, <3>4 DEF NotifyWaiters, r
  <2> QED BY <1>2, <2>1 DEF Queues
<1>3. CASE Len(o) # n
  <2>1. RefreshConnections(q, n, o) =
          [queue |-> <<>>, epoch |-> q.epoch + 1, size |-> n, waiters |-> q.waiters]
    BY <1>1, <1>3 DEF RefreshConnections
  <2> QED BY <1>3, <2>1 DEF Queues
<1> QED BY <1>2, <1>3

(* open_connections. *)
LEMMA FreshFacts ==
    ASSUME life \in [Urls -> Nat], NEW p \in Nat, NEW u \in Urls, NEW e \in Nat,
           NEW n \in PoolSizes, NEW ok \in BOOLEAN
    PROVE  /\ Fresh(p, u, e, n, ok) \in Seq(Conns)
           /\ ok => /\ Len(Fresh(p, u, e, n, ok)) = n
                    /\ \A j \in 1..n : Fresh(p, u, e, n, ok)[j] =
                         [pool |-> p, epoch |-> e, place |-> j, life |-> life[u]]
           /\ ~ok => Fresh(p, u, e, n, ok) = <<>> /\ Len(Fresh(p, u, e, n, ok)) # n
<1>1. n \in Nat \ {0}
  BY ContextAssumption
<1>2. \A j \in 1..n : [pool |-> p, epoch |-> e, place |-> j, life |-> life[u]] \in Conns
  BY <1>1 DEF Conns
<1>3. Opened(p, u, e, n) \in Seq(Conns) /\ Len(Opened(p, u, e, n)) = n
  BY <1>1, <1>2 DEF Opened
<1> QED BY <1>1, <1>3 DEF Fresh, Opened

(* new: the first reset. *)
LEMMA NewPoolFacts ==
    ASSUME life \in [Urls -> Nat], pool_size \in PoolSizes, NEW p \in Nat,
           NEW u \in Urls, NEW ok \in BOOLEAN
    PROVE  /\ NewPool(p, u, ok) \in Queues
           /\ NewPool(p, u, ok).epoch = 1 /\ NewPool(p, u, ok).size = pool_size
           /\ NewPool(p, u, ok).waiters = {}
           /\ NewPool(p, u, ok).queue = Fresh(p, u, 1, pool_size, ok)
           /\ \A j \in DOMAIN NewPool(p, u, ok).queue :
                /\ NewPool(p, u, ok).queue[j].pool = p
                /\ NewPool(p, u, ok).queue[j].epoch = 1
                /\ NewPool(p, u, ok).queue[j].place = j
           /\ ok => /\ DOMAIN NewPool(p, u, ok).queue = 1..pool_size
                    /\ \A j \in 1..pool_size : NewPool(p, u, ok).queue[j] =
                         [pool |-> p, epoch |-> 1, place |-> j, life |-> life[u]]
           /\ ~ok => NewPool(p, u, ok).queue = <<>>
<1>1. Fresh(p, u, 1, pool_size, ok) \in Seq(Conns)
  BY FreshFacts
<1>2. Len(Fresh(p, u, 1, pool_size, ok)) # pool_size
        => Fresh(p, u, 1, pool_size, ok) = <<>>
  BY FreshFacts
<1>3. NewPool(p, u, ok) =
        [queue |-> Fresh(p, u, 1, pool_size, ok), epoch |-> 1, size |-> pool_size,
         waiters |-> {}]
  <2>1. NewQueue \in AnyQueue /\ NewQueue.epoch = 0 /\ NewQueue.waiters = {}
    BY DEF AnyQueue, NewQueue
  <2> QED BY <1>1, <1>2, <2>1, ResetFacts DEF NewPool
<1> DEFINE o == Fresh(p, u, 1, pool_size, ok)
<1>4. /\ ok => /\ Len(o) = pool_size
               /\ \A j \in 1..pool_size : o[j] =
                    [pool |-> p, epoch |-> 1, place |-> j, life |-> life[u]]
      /\ ~ok => o = <<>>
  BY FreshFacts
<1>7. o \in Seq(Conns) /\ pool_size \in Nat
  BY <1>1, ContextAssumption
<1> HIDE DEF o
<1>5. ok => DOMAIN o = 1..pool_size
  BY <1>4, <1>7
<1>6. \A j \in DOMAIN o : o[j].pool = p /\ o[j].epoch = 1 /\ o[j].place = j
  <2>1. CASE ok
    BY <1>4, <1>5, <2>1
  <2>2. CASE ~ok
    BY <1>4, <2>2
  <2> QED BY <2>1, <2>2
<1> QED BY <1>1, <1>3, <1>4, <1>5, <1>6 DEF Queues, o

-----------------------------------------------------------------------------
(* Shape is preserved.                                                     *)

(* A changed pool among the others. *)
LEMMA PoolUpdate ==
    ASSUME PoolsOK, NEW p \in DOMAIN pools, NEW q \in Queues,
           \A j \in DOMAIN q.queue : Exists(q.queue[j].pool),
           pools' = [pools EXCEPT ![p] = q]
    PROVE  /\ PoolsOK' /\ Len(pools') = Len(pools) /\ DOMAIN pools' = DOMAIN pools
           /\ pools'[p] = q /\ \A x \in DOMAIN pools \ {p} : pools'[x] = pools[x]
<1>1. /\ pools' \in Seq(Queues) /\ Len(pools') = Len(pools)
      /\ DOMAIN pools' = DOMAIN pools
      /\ pools'[p] = q /\ \A x \in DOMAIN pools \ {p} : pools'[x] = pools[x]
  BY DEF PoolsOK
<1>2. ASSUME NEW x \in DOMAIN pools, NEW j \in DOMAIN pools'[x].queue
      PROVE  pools'[x].queue[j].pool \in 1..Len(pools')
  BY <1>1, <1>2 DEF PoolsOK, Exists
<1> QED BY <1>1, <1>2 DEF PoolsOK, Exists

(* What update_server_status leaves alone. *)
LEMMA StatusFacts ==
    ASSUME servers \in Seq(Servers), NEW s \in Servers, NEW h \in BOOLEAN,
           servers' = UpdateServerStatus(s, h)
    PROVE  /\ servers' \in Seq(Servers) /\ Len(servers') = Len(servers)
           /\ \A i \in DOMAIN servers : /\ servers'[i].url = servers[i].url
                                        /\ servers'[i].id = servers[i].id
           /\ \A i \in DOMAIN servers : i # s.id + 1 => servers'[i] = servers[i]
           /\ s.id + 1 \in DOMAIN servers => servers'[s.id + 1].healthy = h
<1>1. s.id \in Nat
  BY DEF Servers
<1>2. CASE s.id >= Len(servers)
  BY <1>1, <1>2 DEF UpdateServerStatus
<1>3. CASE ~(s.id >= Len(servers))
  <2>1. s.id + 1 \in DOMAIN servers
    BY <1>1, <1>3
  <2>2. servers' = [servers EXCEPT ![s.id + 1] = [@ EXCEPT !.healthy = h]]
    BY <1>3 DEF UpdateServerStatus
  <2> DEFINE x == servers[s.id + 1]
             y == [x EXCEPT !.healthy = h]
  <2>3. x \in Servers
    BY <2>1
  <2>4. y \in Servers /\ y.url = x.url /\ y.id = x.id /\ y.healthy = h
    <3> HIDE DEF x
    <3> QED BY <2>3 DEF Servers
  <2>5. servers' = [servers EXCEPT ![s.id + 1] = y]
    BY <2>2
  <2>6. x = servers[s.id + 1]
    OBVIOUS
  <2> HIDE DEF x, y
  <2> QED BY <2>1, <2>4, <2>5, <2>6
<1> QED BY <1>2, <1>3

(***************************************************************************)
(* Steps of tasks: the list keeps its ids and URLs, no pool is added, and  *)
(* the main thread stays where it is.                                      *)
(***************************************************************************)
SameList ==
    /\ servers' \in Seq(Servers) /\ Len(servers') = Len(servers)
    /\ \A i \in DOMAIN servers : /\ servers'[i].url = servers[i].url
                                 /\ servers'[i].id = servers[i].id
    /\ Len(pools') = Len(pools)
    /\ UNCHANGED <<conn_pools, pool_size, pool_server>>

LEMMA SameListShape ==
    ASSUME Shape, SameList
    PROVE  /\ ListsOK' /\ ListsAligned'
           /\ UNCHANGED main => MainOK'
           /\ UNCHANGED auth => AuthOK'
           /\ UNCHANGED returns => ReturnsOK'
           /\ UNCHANGED shutdowns => ShutdownsOK'
           /\ UNCHANGED fd => DetectorOK'
           /\ UNCHANGED pools => PoolsOK'
           /\ UNCHANGED <<mode, life, budget>> => EnvOK'
<1>1. ListsOK' /\ ListsAligned'
  BY DEF Shape, SameList, ListsOK, ListsAligned, Exists
<1>2. UNCHANGED main => MainOK'
  <2> SUFFICES ASSUME UNCHANGED main PROVE MainOK'
    OBVIOUS
  <2>1. main.at \in {"refreshing", "refreshed"} =>
          \A j \in DOMAIN main.todo :
              /\ main.todo[j].id < Len(servers')
              /\ main.todo[j].url = servers'[main.todo[j].id + 1].url
    <3> SUFFICES ASSUME main.at \in {"refreshing", "refreshed"},
                        NEW j \in DOMAIN main.todo
                 PROVE  /\ main.todo[j].id < Len(servers')
                        /\ main.todo[j].url = servers'[main.todo[j].id + 1].url
      OBVIOUS
    <3>1. main.todo[j] \in Servers
      BY DEF Shape, MainOK
    <3>2. /\ main.todo[j].id < Len(servers)
          /\ main.todo[j].url = servers[main.todo[j].id + 1].url
      BY DEF Shape, MainOK
    <3>3. main.todo[j].id + 1 \in DOMAIN servers
      BY <3>1, <3>2 DEF Shape, ListsOK, Servers
    <3> QED BY <3>2, <3>3 DEF SameList
  <2>2. main.at = "refreshed" =>
         /\ main.server.id < Len(servers')
         /\ main.server.url = servers'[main.server.id + 1].url
    BY DEF Shape, MainOK, SameList, ListsOK, Servers
  <2> QED BY <2>1, <2>2 DEF Shape, MainOK, SameList, Exists
<1>3. UNCHANGED auth => AuthOK'
  BY DEF Shape, SameList, AuthOK, AuthInRange, Exists, Maybe
<1>4. UNCHANGED returns => ReturnsOK'
  BY DEF Shape, SameList, ReturnsOK, Exists, Maybe
<1>5. UNCHANGED shutdowns => ShutdownsOK'
  BY DEF Shape, SameList, ShutdownsOK, Exists
<1>6. UNCHANGED fd => DetectorOK'
  BY DEF Shape, SameList, DetectorOK, CheckInRange, Exists, Maybe
<1>7. UNCHANGED pools => PoolsOK'
  BY DEF Shape, SameList, PoolsOK, Exists
<1>8. UNCHANGED <<mode, life, budget>> => EnvOK'
  BY DEF Shape, EnvOK
<1> QED BY <1>1, <1>2, <1>3, <1>4, <1>5, <1>6, <1>7, <1>8

(* Everything about the pools but the one at p. *)
OthersSame(p) ==
    /\ PoolsOK' /\ Len(pools') = Len(pools) /\ DOMAIN pools' = DOMAIN pools
    /\ \A x \in DOMAIN pools \ {p} : pools'[x] = pools[x]

LEMMA PoolOf ==
    ASSUME PoolsOK, NEW p \in DOMAIN pools
    PROVE  /\ pools[p] \in Queues /\ p \in Nat /\ Exists(p)
           /\ pools[p].queue \in Seq(Conns) /\ pools[p].epoch \in Nat
           /\ pools[p].size \in PoolSizes
<1>1. pools[p] \in Queues /\ p \in Nat /\ Exists(p)
  BY DEF PoolsOK, Exists
<1> QED BY <1>1 DEF Queues

LEMMA ParkPools ==
    ASSUME PoolsOK, NEW p \in DOMAIN pools, NEW a \in Sleepers,
           pools' = [pools EXCEPT ![p] = NotifyWait(@, a)]
    PROVE  /\ OthersSame(p)
           /\ pools'[p].queue = pools[p].queue /\ pools'[p].epoch = pools[p].epoch
           /\ pools'[p].size = pools[p].size
           /\ pools'[p].waiters = pools[p].waiters \cup {a}
<1> DEFINE q == NotifyWait(pools[p], a)
<1>1. pools[p] \in Queues
  BY PoolOf
<1>2. /\ q \in Queues /\ q.queue = pools[p].queue /\ q.epoch = pools[p].epoch
      /\ q.size = pools[p].size /\ q.waiters = pools[p].waiters \cup {a}
  BY <1>1, NotifyWaitFacts
<1>3. \A j \in DOMAIN q.queue : Exists(q.queue[j].pool)
  BY <1>2 DEF PoolsOK
<1>4. pools' = [pools EXCEPT ![p] = q]
  OBVIOUS
<1> HIDE DEF q
<1> QED BY <1>2, <1>3, <1>4, PoolUpdate DEF OthersSame

LEMMA TakePools ==
    ASSUME PoolsOK, NEW p \in DOMAIN pools, Takes(p)
    PROVE  /\ OthersSame(p)
           /\ pools[p].queue # <<>>
           /\ pools'[p].queue = Tail(pools[p].queue) /\ pools'[p].epoch = pools[p].epoch
           /\ pools'[p].size = pools[p].size /\ pools'[p].waiters = pools[p].waiters
           /\ LeaseFrom(p) \in AnyLease
           /\ LeaseFrom(p).conn = pools[p].queue[1] /\ Exists(LeaseFrom(p).conn.pool)
           /\ LeaseFrom(p).from_epoch = pools[p].epoch
<1> DEFINE q == Take(pools[p])
<1>1. pools[p] \in Queues /\ ~IsEmpty(pools[p])
  BY PoolOf DEF Takes
<1>2. /\ q \in Queues /\ q.queue = Tail(pools[p].queue) /\ q.epoch = pools[p].epoch
      /\ q.size = pools[p].size /\ q.waiters = pools[p].waiters
  BY <1>1, TakeFacts
<1>3. pools[p].queue \in Seq(Conns) /\ pools[p].queue # <<>>
  BY <1>1 DEF Queues, IsEmpty
<1>4. \A j \in DOMAIN q.queue : /\ j + 1 \in DOMAIN pools[p].queue
                                /\ q.queue[j] = pools[p].queue[j + 1]
  BY <1>2, <1>3
<1>5. \A j \in DOMAIN q.queue : Exists(q.queue[j].pool)
  BY <1>4 DEF PoolsOK
<1>6. pools' = [pools EXCEPT ![p] = q]
  BY DEF Takes
<1>7. /\ OthersSame(p) /\ pools'[p] = q
  <2> HIDE DEF q
  <2> QED BY <1>2, <1>5, <1>6, PoolUpdate DEF OthersSame
<1>8. 1 \in DOMAIN pools[p].queue /\ Head(pools[p].queue) = pools[p].queue[1]
  BY <1>3
<1>9. pools[p].queue[1] \in Conns /\ pools[p].epoch \in Nat
  BY <1>3, <1>8, PoolOf
<1> QED BY <1>2, <1>3, <1>7, <1>8, <1>9 DEF LeaseFrom, AnyLease, PoolsOK

LEMMA ReturnPools ==
    ASSUME PoolsOK, NEW p \in DOMAIN pools, NEW l \in AnyLease, Exists(l.conn.pool),
           pools' = [pools EXCEPT ![p] = ReturnConnection(@, l)]
    PROVE  /\ OthersSame(p)
           /\ pools'[p].epoch = pools[p].epoch /\ pools'[p].size = pools[p].size
           /\ pools[p].epoch = l.from_epoch =>
                /\ pools'[p].queue = Append(pools[p].queue, l.conn)
                /\ pools'[p].waiters = {}
           /\ pools[p].epoch # l.from_epoch => pools' = pools
<1> DEFINE q == ReturnConnection(pools[p], l)
<1>1. pools[p] \in Queues
  BY PoolOf
<1>2. /\ q \in Queues /\ q.epoch = pools[p].epoch /\ q.size = pools[p].size
      /\ pools[p].epoch = l.from_epoch =>
           q.queue = Append(pools[p].queue, l.conn) /\ q.waiters = {}
      /\ pools[p].epoch # l.from_epoch => q = pools[p]
  BY <1>1, ReturnFacts
<1>3. \A j \in DOMAIN q.queue : Exists(q.queue[j].pool)
  <2>1. CASE pools[p].epoch = l.from_epoch
    <3>1. pools[p].queue \in Seq(Conns) /\ q.queue = Append(pools[p].queue, l.conn)
      BY <1>1, <1>2, <2>1 DEF Queues
    <3>2. \A j \in DOMAIN q.queue :
            \/ j \in DOMAIN pools[p].queue /\ q.queue[j] = pools[p].queue[j]
            \/ q.queue[j] = l.conn
      <4> HIDE DEF q
      <4> QED BY <3>1
    <3> QED BY <3>2 DEF PoolsOK
  <2>2. CASE pools[p].epoch # l.from_epoch
    BY <1>2, <2>2 DEF PoolsOK
  <2> QED BY <2>1, <2>2
<1>4. pools' = [pools EXCEPT ![p] = q]
  OBVIOUS
<1>5. OthersSame(p) /\ pools'[p] = q
  <2> HIDE DEF q
  <2> QED BY <1>2, <1>3, <1>4, PoolUpdate DEF OthersSame
<1>6. pools[p].epoch # l.from_epoch => pools' = pools
  <2> HIDE DEF q
  <2> QED BY <1>2, <1>4 DEF PoolsOK
<1> QED BY <1>2, <1>5, <1>6

LEMMA ClosePools ==
    ASSUME PoolsOK, NEW p \in DOMAIN pools,
           pools' = [pools EXCEPT ![p] = CloseConnections(@)]
    PROVE  /\ OthersSame(p)
           /\ pools'[p].queue = <<>> /\ pools'[p].epoch = pools[p].epoch
           /\ pools'[p].size = pools[p].size /\ pools'[p].waiters = pools[p].waiters
<1> DEFINE q == CloseConnections(pools[p])
<1>1. pools[p] \in Queues
  BY PoolOf
<1>2. /\ q \in Queues /\ q.queue = <<>> /\ q.epoch = pools[p].epoch
      /\ q.size = pools[p].size /\ q.waiters = pools[p].waiters
  BY <1>1, CloseFacts
<1>3. \A j \in DOMAIN q.queue : Exists(q.queue[j].pool)
  BY <1>2
<1>4. pools' = [pools EXCEPT ![p] = q]
  OBVIOUS
<1> HIDE DEF q
<1> QED BY <1>2, <1>3, <1>4, PoolUpdate DEF OthersSame

LEMMA RefreshPools ==
    ASSUME PoolsOK, ListsOK, life \in [Urls -> Nat], NEW p \in DOMAIN pools,
           NEW n \in PoolSizes, NEW ok \in BOOLEAN,
           pools' = [pools EXCEPT ![p] = Refreshed(p, n, ok)]
    PROVE  LET o == Fresh(p, pool_server[p].url, pools[p].epoch + 1, n, ok)
           IN  /\ OthersSame(p)
               /\ pools'[p].epoch = pools[p].epoch + 1 /\ pools'[p].size = n
               /\ pools'[p].queue = o
               /\ pools'[p].waiters = IF ok THEN {} ELSE pools[p].waiters
               /\ ok => /\ Len(o) = n
                        /\ \A j \in 1..n : o[j] =
                             [pool |-> p, epoch |-> pools[p].epoch + 1, place |-> j,
                              life |-> life[pool_server[p].url]]
               /\ ~ok => o = <<>>
<1> DEFINE e == pools[p].epoch + 1
           u == pool_server[p].url
           o == Fresh(p, u, e, n, ok)
           q == RefreshConnections(pools[p], n, o)
<1>1. pools[p] \in Queues /\ p \in Nat /\ e \in Nat /\ Exists(p)
  BY PoolOf
<1>2. p \in DOMAIN pool_server
  BY <1>1 DEF Exists, ListsOK
<1>3. u \in Urls
  <2>1. pool_server[p] \in Servers
    BY <1>2 DEF ListsOK
  <2> QED BY <2>1 DEF Servers
<1>4. /\ o \in Seq(Conns)
      /\ ok => /\ Len(o) = n
               /\ \A j \in 1..n : o[j] =
                    [pool |-> p, epoch |-> e, place |-> j, life |-> life[u]]
      /\ ~ok => o = <<>> /\ Len(o) # n
  <2> HIDE DEF e, u
  <2> QED BY <1>1, <1>3, FreshFacts
<1>5. /\ q \in Queues /\ q.epoch = e /\ q.size = n
      /\ Len(o) = n => q.queue = o /\ q.waiters = {}
      /\ Len(o) # n => q.queue = <<>> /\ q.waiters = pools[p].waiters
  <2> HIDE DEF o
  <2> QED BY <1>1, <1>4, RefreshFacts
<1>6. q.queue = o /\ q.waiters = IF ok THEN {} ELSE pools[p].waiters
  BY <1>4, <1>5
<1>7. \A j \in DOMAIN q.queue : Exists(q.queue[j].pool)
  <2>1. CASE ok
    <3>1. DOMAIN o = 1..n
      <4> HIDE DEF o
      <4> QED BY <1>4, <2>1
    <3>2. \A j \in DOMAIN o : o[j].pool = p
      <4> HIDE DEF o, e, u
      <4> QED BY <1>4, <2>1, <3>1
    <3> QED BY <1>1, <1>6, <3>2
  <2>2. CASE ~ok
    BY <1>4, <1>6, <2>2
  <2> QED BY <2>1, <2>2
<1>8. pools' = [pools EXCEPT ![p] = q]
  BY DEF Refreshed
<1>9. OthersSame(p) /\ pools'[p] = q
  <2> HIDE DEF q
  <2> QED BY <1>5, <1>7, <1>8, PoolUpdate DEF OthersSame
<1> QED BY <1>4, <1>5, <1>6, <1>9

LEMMA SleeperKinds ==
    /\ \A t \in AuthTasks : <<"auth", t>> \in Sleepers
    /\ \A i \in Nat : <<"fd", i>> \in Sleepers
    /\ \A k \in Nat : <<"shutdown", k>> \in Sleepers
BY DEF Sleepers

LEMMA NoLeaseType ==
    /\ NoLease \in AnyLease /\ NoLease.conn.pool = 0
    /\ PoolsOK => Maybe(NoLease.conn.pool)
BY DEF NoLease, AnyLease, Conns, Maybe, PoolsOK

LEMMA AuthUpdate ==
    ASSUME AuthOK, NEW t \in AuthTasks, NEW o \in Operations, AuthInRange(o),
           auth' = [auth EXCEPT ![t] = o], Len(pools') = Len(pools)
    PROVE  /\ AuthOK' /\ auth'[t] = o
           /\ \A s \in AuthTasks \ {t} : auth'[s] = auth[s]
<1>1. /\ auth' \in [AuthTasks -> Operations] /\ auth'[t] = o
      /\ \A s \in AuthTasks \ {t} : auth'[s] = auth[s]
  BY DEF AuthOK
<1>2. ASSUME NEW s \in AuthTasks PROVE AuthInRange(auth[s])'
  BY <1>1 DEF AuthOK, AuthInRange, Exists, Maybe
<1> QED BY <1>1, <1>2 DEF AuthOK

(* A set of natural numbers that has a member has a least one. *)
LEMMA LeastMember ==
    ASSUME NEW S, S \subseteq Nat, S # {}
    PROVE  \E x \in S : \A y \in S : x <= y
<1> DEFINE R == {ss \in Nat \X Nat : ss[1] < ss[2]}
<1>1. IsWellFoundedOn(R, Nat)
  BY NatLessThanWellFounded, Zenon DEF OpToRel
<1>2. \A x, y \in Nat : <<y, x>> \in R <=> y < x
  OBVIOUS
<1> HIDE DEF R
<1>3. \E x \in S : \A y \in S : ~ (<<y, x>> \in R)
  BY <1>1, WFMin, Zenon
<1>4. PICK x \in S : \A y \in S : ~ (<<y, x>> \in R)
  BY <1>3
<1>5. \A y \in S : x \in Nat /\ y \in Nat /\ ~(y < x)
  BY <1>2, <1>4
<1>6. \A y \in S : x <= y
  BY <1>5
<1> QED BY <1>6

(* find_server, when there is a healthy one, and its pool. *)
LEMMA FindServerFacts ==
    ASSUME ListsOK, ListsAligned, Healthy # {}
    PROVE  /\ FindServer \in Servers /\ FindServer.id + 1 \in DOMAIN servers
           /\ FindServer = servers[FindServer.id + 1] /\ FindServer.healthy
           /\ GetConnectionPool(FindServer) \in Nat
           /\ Exists(GetConnectionPool(FindServer))
<1> DEFINE i == CHOOSE i \in Healthy : \A j \in Healthy : i <= j
<1>1. Healthy \subseteq Nat
  BY DEF Healthy, ListsOK
<1>2. \E k \in Healthy : \A j \in Healthy : k <= j
  BY <1>1, LeastMember, Zenon
<1>3. i \in Healthy
  BY <1>2, Zenon
<1>4. FindServer = servers[i]
  BY Zenon DEF FindServer
<1> HIDE DEF i
<1>5. i \in DOMAIN servers /\ servers[i].healthy
  BY <1>3 DEF Healthy
<1>6. i \in Nat \ {0} /\ servers[i] \in Servers
  BY <1>5 DEF ListsOK
<1>7. servers[i].id + 1 = i
  BY <1>5, <1>6 DEF ListsAligned
<1>8. i \in DOMAIN conn_pools
  BY <1>5 DEF ListsAligned, ListsOK
<1>9. conn_pools[i] \in Nat /\ Exists(conn_pools[i])
  BY <1>8 DEF ListsOK
<1> QED BY <1>4, <1>5, <1>6, <1>7, <1>9 DEF GetConnectionPool

(***************************************************************************)
(* The steps of an AUTH.                                                   *)
(***************************************************************************)
LEMMA AuthFindShape ==
    ASSUME Shape, NEW t \in AuthTasks, AuthFind(t)
    PROVE  Shape'
<1>1. auth[t] \in Operations /\ AuthInRange(auth[t]) /\ SameList
  BY DEF Shape, AuthOK, AuthFind, SameList, ctxVars, poolVars, ListsOK
<1>2. UNCHANGED <<pools, main, returns, shutdowns, fd, mode, life, budget>>
  BY DEF AuthFind, poolVars, envVars
<1>3. AuthOK'
  <2>1. ASSUME NEW r \in {"NoServerConfigured", "NoHealthyServerAvailable"},
               auth' = [auth EXCEPT ![t].at = "done", ![t].res = r]
        PROVE  AuthOK'
    <3> DEFINE o == [auth[t] EXCEPT !.at = "done", !.res = r]
    <3>1. o \in Operations /\ AuthInRange(o)
      BY <1>1 DEF Operations, AuthInRange
    <3>2. auth' = [auth EXCEPT ![t] = o]
      BY <2>1
    <3> HIDE DEF o
    <3> QED BY <1>2, <3>1, <3>2, AuthUpdate DEF Shape
  <2>2. CASE /\ Healthy # {}
             /\ auth' = [auth EXCEPT ![t].at = "take", ![t].server = FindServer,
                                     ![t].pool = GetConnectionPool(FindServer)]
    <3> DEFINE s == FindServer
               p == GetConnectionPool(FindServer)
               o == [auth[t] EXCEPT !.at = "take", !.server = s, !.pool = p]
    <3>1. s \in Servers /\ p \in Nat /\ Exists(p) /\ Maybe(p)
      BY <2>2, FindServerFacts DEF Shape, Exists, Maybe
    <3>2. o \in Operations /\ AuthInRange(o)
      <4> HIDE DEF s, p
      <4> QED BY <1>1, <3>1 DEF Operations, AuthInRange
    <3>3. auth' = [auth EXCEPT ![t] = o]
      BY <2>2
    <3> HIDE DEF o
    <3> QED BY <1>2, <3>2, <3>3, AuthUpdate DEF Shape
  <2> QED BY <2>1, <2>2 DEF AuthFind
<1> QED BY <1>1, <1>2, <1>3, SameListShape DEF Shape

LEMMA AuthTakeShape ==
    ASSUME Shape, NEW t \in AuthTasks, AuthTake(t)
    PROVE  Shape'
<1> DEFINE p == auth[t].pool
<1>1. /\ auth[t] \in Operations /\ AuthInRange(auth[t]) /\ Exists(p)
      /\ p \in DOMAIN pools /\ auth[t].at = "take"
  BY DEF Shape, AuthOK, AuthTake, AuthInRange, PoolsOK, Exists
<1>2. UNCHANGED <<servers, conn_pools, pool_size, pool_server, main, returns,
                  shutdowns, fd, mode, life, budget>>
  BY DEF AuthTake, ctxVars, envVars
<1>3. CASE Parks(p, <<"auth", t>>) /\ UNCHANGED auth
  <2>1. OthersSame(p)
    BY <1>1, <1>3, ParkPools, SleeperKinds DEF Parks, Shape
  <2>2. SameList
    BY <1>2, <2>1 DEF SameList, OthersSame, Shape, ListsOK
  <2> QED BY <1>2, <1>3, <2>1, <2>2, SameListShape DEF Shape, OthersSame
<1>4. CASE /\ Takes(p)
           /\ auth' = [auth EXCEPT ![t].at = "op", ![t].lease = LeaseFrom(p)]
  <2> DEFINE l == LeaseFrom(p)
             o == [auth[t] EXCEPT !.at = "op", !.lease = l]
  <2>1. OthersSame(p) /\ l \in AnyLease /\ Exists(l.conn.pool)
    BY <1>1, <1>4, TakePools DEF Shape
  <2>2. SameList
    BY <1>2, <2>1 DEF SameList, OthersSame, Shape, ListsOK
  <2>3. o \in Operations /\ AuthInRange(o)
    <3> HIDE DEF l
    <3>1. Len(pools) \in Nat
      BY DEF Shape, PoolsOK
    <3>2. Maybe(l.conn.pool)
      BY <2>1, <3>1 DEF Exists, Maybe
    <3>3. /\ o \in Operations /\ o.pool = auth[t].pool /\ o.lease = l /\ o.at = "op"
      BY <1>1, <2>1 DEF Operations
    <3> QED BY <1>1, <2>1, <3>2, <3>3 DEF AuthInRange
  <2>4. auth' = [auth EXCEPT ![t] = o]
    BY <1>4
  <2>5. AuthOK'
    <3> HIDE DEF o
    <3> QED BY <2>1, <2>3, <2>4, AuthUpdate DEF Shape, OthersSame
  <2> QED BY <1>2, <2>1, <2>2, <2>5, SameListShape DEF Shape, OthersSame
<1> QED BY <1>3, <1>4 DEF AuthTake

LEMMA AuthOpShape ==
    ASSUME Shape, NEW t \in AuthTasks, AuthOp(t)
    PROVE  Shape'
<1>1. auth[t] \in Operations /\ AuthInRange(auth[t]) /\ auth[t].at = "op" /\ SameList
  BY DEF Shape, AuthOK, AuthOp, SameList, ctxVars, poolVars, ListsOK
<1>2. UNCHANGED <<pools, main, shutdowns, fd, mode, life, budget>>
  BY DEF AuthOp, poolVars, envVars
<1>3. PICK a \in {"done", "failed"}, r \in {"answered", "none"} :
        auth' = [auth EXCEPT ![t].lease = NoLease, ![t].at = a, ![t].res = r]
  BY DEF AuthOp
<1>4. AuthOK'
  <2> DEFINE o == [auth[t] EXCEPT !.lease = NoLease, !.at = a, !.res = r]
  <2>1. NoLease \in AnyLease /\ Maybe(NoLease.conn.pool)
    BY NoLeaseType DEF Shape
  <2>2. o \in Operations /\ AuthInRange(o)
    BY <1>1, <2>1 DEF Operations, AuthInRange
  <2>3. auth' = [auth EXCEPT ![t] = o]
    BY <1>3
  <2> HIDE DEF o
  <2> QED BY <1>2, <2>2, <2>3, AuthUpdate DEF Shape
<1>5. ReturnsOK'
  <2> DEFINE x == [pool |-> auth[t].pool, lease |-> auth[t].lease]
  <2>1. /\ x \in [pool : Nat, lease : AnyLease] /\ Exists(x.pool)
        /\ Exists(x.lease.conn.pool)
    BY <1>1 DEF Operations, AuthInRange
  <2>2. returns' = returns \cup {x}
    BY DEF AuthOp
  <2> HIDE DEF x
  <2> QED BY <1>2, <2>1, <2>2 DEF Shape, ReturnsOK, Exists
<1> QED BY <1>1, <1>2, <1>4, <1>5, SameListShape DEF Shape

LEMMA AuthPanicShape ==
    ASSUME Shape, NEW t \in AuthTasks, AuthPanic(t)
    PROVE  Shape'
<1>1. auth[t] \in Operations /\ AuthInRange(auth[t]) /\ auth[t].at = "op" /\ SameList
  BY DEF Shape, AuthOK, AuthPanic, SameList, ctxVars, poolVars, ListsOK
<1>2. UNCHANGED <<pools, main, returns, shutdowns, fd, mode, life, budget>>
  BY DEF AuthPanic, poolVars, envVars
<1>3. AuthOK'
  <2> DEFINE o == [auth[t] EXCEPT !.at = "panicked"]
  <2>1. o \in Operations /\ AuthInRange(o)
    BY <1>1 DEF Operations, AuthInRange
  <2>2. auth' = [auth EXCEPT ![t] = o]
    BY DEF AuthPanic
  <2> HIDE DEF o
  <2> QED BY <1>2, <2>1, <2>2, AuthUpdate DEF Shape
<1> QED BY <1>1, <1>2, <1>3, SameListShape DEF Shape

LEMMA AuthFailoverShape ==
    ASSUME Shape, NEW t \in AuthTasks, AuthFailover(t)
    PROVE  Shape'
<1>1. auth[t] \in Operations /\ AuthInRange(auth[t]) /\ auth[t].at = "failed"
  BY DEF Shape, AuthOK, AuthFailover
<1>2. UNCHANGED <<conn_pools, pool_size, pools, pool_server, main, returns, shutdowns,
                  fd, mode, life, budget>>
  BY DEF AuthFailover, poolVars, envVars
<1>3. SameList
  <2>1. auth[t].server \in Servers
    BY <1>1 DEF Operations
  <2> QED BY <1>2, <2>1, StatusFacts DEF SameList, AuthFailover, Shape, ListsOK
<1>4. AuthOK'
  <2> DEFINE o == [auth[t] EXCEPT !.at = "find"]
  <2>1. o \in Operations /\ AuthInRange(o)
    BY <1>1 DEF Operations, AuthInRange
  <2>2. auth' = [auth EXCEPT ![t] = o]
    BY DEF AuthFailover
  <2> HIDE DEF o
  <2> QED BY <1>2, <2>1, <2>2, AuthUpdate DEF Shape
<1> QED BY <1>2, <1>3, <1>4, SameListShape DEF Shape

(* The tasks that nobody waits for. *)
LEMMA SpawnedReturnShape ==
    ASSUME Shape, NEW r \in returns, SpawnedReturn(r)
    PROVE  Shape'
<1>1. /\ r.pool \in DOMAIN pools /\ r.lease \in AnyLease
      /\ Exists(r.lease.conn.pool)
  BY DEF Shape, ReturnsOK, Exists, PoolsOK
<1>2. UNCHANGED <<servers, conn_pools, pool_size, pool_server, main, auth, shutdowns,
                  fd, mode, life, budget>>
  BY DEF SpawnedReturn, ctxVars, envVars
<1>3. OthersSame(r.pool)
  BY <1>1, ReturnPools DEF SpawnedReturn, Shape
<1>4. SameList
  BY <1>2, <1>3 DEF SameList, OthersSame, Shape, ListsOK
<1>5. ReturnsOK'
  BY <1>3 DEF Shape, ReturnsOK, SpawnedReturn, OthersSame, Exists
<1> QED BY <1>2, <1>3, <1>4, <1>5, SameListShape DEF Shape, OthersSame

(* The pool that a shutdown task is at. *)
LEMMA ShutdownAt ==
    ASSUME Shape, NEW k \in DOMAIN shutdowns, shutdowns[k] # <<>>
    PROVE  /\ Head(shutdowns[k]) \in DOMAIN pools /\ k \in Nat
           /\ shutdowns[k] \in Seq(Nat) /\ Tail(shutdowns[k]) \in Seq(Nat)
           /\ \A j \in DOMAIN Tail(shutdowns[k]) :
                /\ j + 1 \in DOMAIN shutdowns[k]
                /\ Tail(shutdowns[k])[j] = shutdowns[k][j + 1]
<1>1. shutdowns[k] \in Seq(Nat) /\ k \in Nat
  BY DEF Shape, ShutdownsOK
<1>2. 1 \in DOMAIN shutdowns[k] /\ Head(shutdowns[k]) = shutdowns[k][1]
  BY <1>1
<1>3. Exists(Head(shutdowns[k]))
  BY <1>2 DEF Shape, ShutdownsOK
<1> QED BY <1>1, <1>3 DEF Exists, Shape, PoolsOK

LEMMA ShutdownStepShape ==
    ASSUME Shape, NEW k \in DOMAIN shutdowns, ShutdownStep(k)
    PROVE  Shape'
<1> DEFINE p == Head(shutdowns[k])
<1>1. /\ p \in DOMAIN pools /\ k \in Nat /\ Tail(shutdowns[k]) \in Seq(Nat)
      /\ \A j \in DOMAIN Tail(shutdowns[k]) :
           /\ j + 1 \in DOMAIN shutdowns[k]
           /\ Tail(shutdowns[k])[j] = shutdowns[k][j + 1]
  BY ShutdownAt DEF ShutdownStep
<1>2. UNCHANGED <<servers, conn_pools, pool_size, pool_server, main, auth, returns,
                  fd, mode, life, budget>>
  BY DEF ShutdownStep, ctxVars, envVars
<1>3. ASSUME OthersSame(p), ShutdownsOK' PROVE Shape'
  <2>1. SameList
    BY <1>2, <1>3 DEF SameList, OthersSame, Shape, ListsOK
  <2> QED BY <1>2, <1>3, <2>1, SameListShape DEF Shape, OthersSame
<1>4. CASE /\ pools' = [pools EXCEPT ![p] = NotifyWait(@, <<"shutdown", k>>)]
           /\ UNCHANGED shutdowns
  <2>1. OthersSame(p)
    BY <1>1, <1>4, ParkPools, SleeperKinds DEF Shape
  <2> QED BY <1>3, <1>4, <2>1 DEF OthersSame, Shape, ShutdownsOK, Exists
<1>5. CASE /\ pools' = [pools EXCEPT ![p] = CloseConnections(@)]
           /\ shutdowns' = [shutdowns EXCEPT ![k] = Tail(@)]
  <2>1. OthersSame(p)
    BY <1>1, <1>5, ClosePools DEF Shape
  <2> DEFINE s == Tail(shutdowns[k])
  <2>2. /\ s \in Seq(Nat) /\ \A j \in DOMAIN s : Exists(s[j])
        /\ shutdowns' = [shutdowns EXCEPT ![k] = s]
    BY <1>1, <1>5 DEF Shape, ShutdownsOK
  <2> HIDE DEF s
  <2>3. /\ shutdowns' \in Seq(Seq(Nat)) /\ DOMAIN shutdowns' = DOMAIN shutdowns
        /\ shutdowns'[k] = s
        /\ \A x \in DOMAIN shutdowns \ {k} : shutdowns'[x] = shutdowns[x]
    BY <2>2 DEF Shape, ShutdownsOK
  <2>4. ShutdownsOK'
    <3>1. ASSUME NEW x \in DOMAIN shutdowns, NEW j \in DOMAIN shutdowns'[x]
          PROVE  shutdowns'[x][j] \in 1..Len(pools')
      <4>1. CASE x = k
        BY <2>1, <2>2, <2>3, <4>1 DEF OthersSame, Exists
      <4>2. CASE x # k
        BY <2>1, <2>3, <4>2 DEF OthersSame, Exists, Shape, ShutdownsOK
      <4> QED BY <4>1, <4>2
    <3> QED BY <2>3, <3>1 DEF ShutdownsOK, Exists
  <2> QED BY <1>3, <2>1, <2>4
<1> QED BY <1>4, <1>5 DEF ShutdownStep

(***************************************************************************)
(* The detector.                                                           *)
(***************************************************************************)
LEMMA CheckUpdate ==
    ASSUME DetectorOK, NEW i \in DOMAIN fd.checks, NEW c \in HealthChecks,
           CheckInRange(c), c.server = fd.checks[i].server,
           fd' = [fd EXCEPT !.checks[i] = c], Len(pools') = Len(pools)
    PROVE  /\ DetectorOK' /\ fd'.at = fd.at /\ DOMAIN fd'.checks = DOMAIN fd.checks
           /\ fd'.checks[i] = c
           /\ \A h \in DOMAIN fd.checks \ {i} : fd'.checks[h] = fd.checks[h]
<1> DEFINE s == fd.checks
           r == [s EXCEPT ![i] = c]
<1>1. fd' = [fd EXCEPT !.checks = r]
  OBVIOUS
<1>2. s \in Seq(HealthChecks) /\ s = fd.checks
  BY DEF DetectorOK
<1> HIDE DEF s
<1>3. /\ r \in Seq(HealthChecks) /\ DOMAIN r = DOMAIN s /\ r[i] = c
      /\ \A h \in DOMAIN s \ {i} : r[h] = s[h]
  BY <1>2
<1> HIDE DEF r
<1>4. /\ fd' \in [at : {"sleep", "checking", "hung"}, checks : Seq(HealthChecks)]
      /\ fd'.at = fd.at /\ fd'.checks = r
  BY <1>1, <1>3 DEF DetectorOK
<1>5. ASSUME NEW h \in DOMAIN s
      PROVE  CheckInRange(fd.checks[h])' /\ fd'.checks[h].server.id = h - 1
  <2>1. CASE h = i
    BY <1>2, <1>3, <1>4, <2>1 DEF DetectorOK, CheckInRange, Exists, Maybe
  <2>2. CASE h # i
    BY <1>2, <1>3, <1>4, <2>2 DEF DetectorOK, CheckInRange, Exists, Maybe
  <2> QED BY <2>1, <2>2
<1> QED BY <1>2, <1>3, <1>4, <1>5 DEF DetectorOK

LEMMA FdStartShape ==
    ASSUME Shape, FdStart
    PROVE  Shape'
<1>1. UNCHANGED <<servers, conn_pools, pool_size, pools, pool_server, main, auth,
                  returns, shutdowns, mode, life, budget>>
  BY DEF FdStart, ctxVars, poolVars, envVars
<1>2. SameList
  BY <1>1 DEF SameList, Shape, ListsOK
<1> DEFINE r == [i \in DOMAIN servers |-> Check(servers[i])]
<1>3. ASSUME NEW i \in DOMAIN servers
      PROVE  /\ Check(servers[i]) \in HealthChecks /\ CheckInRange(Check(servers[i]))
             /\ Check(servers[i]).server.id = i - 1
  <2>1. servers[i] \in Servers /\ servers[i].id = i - 1
    BY DEF Shape, ListsOK, ListsAligned
  <2>2. NoLease \in AnyLease /\ Maybe(NoLease.conn.pool)
    BY NoLeaseType DEF Shape
  <2> QED BY <2>1, <2>2 DEF Check, HealthChecks, CheckInRange
<1>4. r \in Seq(HealthChecks) /\ DOMAIN r = DOMAIN servers
  <2>1. Len(servers) \in Nat /\ DOMAIN servers = 1..Len(servers)
    BY DEF Shape, ListsOK
  <2>2. r \in [1..Len(servers) -> HealthChecks]
    BY <1>3, <2>1
  <2> HIDE DEF r
  <2> QED BY <2>1, <2>2
<1>5. fd' = [at |-> "checking", checks |-> r]
  BY DEF FdStart
<1>6. \A i \in DOMAIN r : CheckInRange(r[i]) /\ r[i].server.id = i - 1
  BY <1>3
<1> HIDE DEF r
<1>7. DetectorOK'
  <2>1. fd' \in [at : {"sleep", "checking", "hung"}, checks : Seq(HealthChecks)]
    BY <1>4, <1>5
  <2>2. fd'.checks = r
    BY <1>5
  <2> QED BY <1>1, <1>6, <2>1, <2>2 DEF DetectorOK, CheckInRange, Exists, Maybe
<1> QED BY <1>1, <1>2, <1>7, SameListShape DEF Shape

LEMMA FdEndShape ==
    ASSUME Shape, FdEnd
    PROVE  Shape'
<1>1. UNCHANGED <<servers, conn_pools, pool_size, pools, pool_server, main, auth,
                  returns, shutdowns, mode, life, budget>>
  BY DEF FdEnd, ctxVars, poolVars, envVars
<1>2. SameList
  BY <1>1 DEF SameList, Shape, ListsOK
<1>3. DetectorOK'
  BY DEF FdEnd, DetectorOK
<1> QED BY <1>1, <1>2, <1>3, SameListShape DEF Shape

(* The panic: the iteration's tasks leave the pools' wait lists. *)
LEMMA FdPanicPools ==
    ASSUME PoolsOK, NEW i, FdPanic(i)
    PROVE  /\ PoolsOK' /\ Len(pools') = Len(pools) /\ DOMAIN pools' = DOMAIN pools
           /\ \A p \in DOMAIN pools :
                /\ pools'[p].queue = pools[p].queue /\ pools'[p].epoch = pools[p].epoch
                /\ pools'[p].size = pools[p].size
                /\ pools'[p].waiters \subseteq pools[p].waiters
<1> DEFINE w(p) == {a \in pools[p].waiters : a[1] # "fd"}
           q(p) == [pools[p] EXCEPT !.waiters = w(p)]
<1>1. ASSUME NEW p \in DOMAIN pools
      PROVE  /\ q(p) \in Queues /\ q(p).queue = pools[p].queue
             /\ q(p).epoch = pools[p].epoch /\ q(p).size = pools[p].size
             /\ q(p).waiters \subseteq pools[p].waiters
  <2>1. pools[p] \in Queues
    BY PoolOf
  <2>2. w(p) \in SUBSET Sleepers /\ w(p) \subseteq pools[p].waiters
    BY <2>1 DEF Queues
  <2> HIDE DEF w
  <2> QED BY <2>1, <2>2 DEF Queues
<1>2. pools' = [p \in DOMAIN pools |-> q(p)]
  BY DEF FdPanic
<1> HIDE DEF q
<1>3. pools' \in Seq(Queues) /\ Len(pools') = Len(pools) /\ DOMAIN pools' = DOMAIN pools
  BY <1>1, <1>2 DEF PoolsOK
<1>4. \A p \in DOMAIN pools : pools'[p] = q(p)
  BY <1>2
<1>5. ASSUME NEW p \in DOMAIN pools, NEW j \in DOMAIN pools'[p].queue
      PROVE  pools'[p].queue[j].pool \in 1..Len(pools')
  BY <1>1, <1>3, <1>4, <1>5 DEF PoolsOK, Exists
<1> QED BY <1>1, <1>3, <1>4, <1>5 DEF PoolsOK, Exists

LEMMA FdPanicShape ==
    ASSUME Shape, NEW i \in DOMAIN fd.checks, FdPanic(i)
    PROVE  Shape'
<1>1. UNCHANGED <<servers, conn_pools, pool_size, pool_server, main, auth,
                  returns, shutdowns, mode, life, budget>>
  BY DEF FdPanic, ctxVars, envVars
<1>2. PoolsOK' /\ Len(pools') = Len(pools)
  BY FdPanicPools DEF Shape
<1>3. SameList
  BY <1>1, <1>2 DEF SameList, Shape, ListsOK
<1>4. DetectorOK'
  BY DEF FdPanic, DetectorOK
<1> QED BY <1>1, <1>2, <1>3, <1>4, SameListShape DEF Shape

(* A lookup by an id that the list has. *)
LEMMA LookupFacts ==
    ASSUME ListsOK, ListsAligned, NEW s \in Servers, KnowsId(s)
    PROVE  /\ GetConnectionPool(s) \in Nat /\ Exists(GetConnectionPool(s))
           /\ s.id + 1 \in DOMAIN conn_pools
<1>1. s.id + 1 \in DOMAIN conn_pools
  BY DEF Servers, KnowsId, ListsOK
<1> QED BY <1>1 DEF GetConnectionPool, ListsOK

LEMMA CheckOf ==
    ASSUME DetectorOK, NEW i \in DOMAIN fd.checks
    PROVE  /\ fd.checks[i] \in HealthChecks /\ CheckInRange(fd.checks[i]) /\ i \in Nat
           /\ fd.checks[i].server \in Servers /\ fd.checks[i].server.id = i - 1
           /\ fd.checks[i].lease \in AnyLease
<1>1. fd.checks[i] \in HealthChecks /\ i \in Nat
  BY DEF DetectorOK
<1> QED BY <1>1 DEF HealthChecks, DetectorOK

LEMMA FdLookupShape ==
    ASSUME Shape, NEW i \in DOMAIN fd.checks, FdLookup(i)
    PROVE  Shape'
<1> DEFINE c == fd.checks[i]
           p == GetConnectionPool(c.server)
<1>1. /\ c \in HealthChecks /\ CheckInRange(c) /\ c.server \in Servers
      /\ p \in Nat /\ Exists(p)
  BY CheckOf, LookupFacts DEF Shape, FdLookup
<1>2. UNCHANGED <<servers, conn_pools, pool_size, pools, pool_server, main, auth,
                  returns, shutdowns, mode, life, budget>>
  BY DEF FdLookup, ctxVars, poolVars, envVars
<1>3. SameList
  BY <1>2 DEF SameList, Shape, ListsOK
<1> DEFINE Goes(a) == fd' = [fd EXCEPT !.checks[i].at = a, !.checks[i].pool = p,
                                       !.checks[i].size = pool_size]
<1>4. \/ c.at = "lookup" /\ Goes("take")
      \/ c.at = "lookupReturn" /\ Goes("return")
      \/ c.at = "lookupRefresh" /\ Goes("refresh")
  <2>1. PICK step \in {<<"lookup", "take">>, <<"lookupReturn", "return">>,
                       <<"lookupRefresh", "refresh">>} : c.at = step[1] /\ Goes(step[2])
    BY DEF FdLookup
  <2> HIDE DEF c, Goes
  <2> QED BY <2>1
<1>5. PICK a \in {"take", "return", "refresh"} :
        (a = "return" => c.at = "lookupReturn") /\ Goes(a)
  <2> HIDE DEF c, Goes
  <2> QED BY <1>4
<1> DEFINE d == [c EXCEPT !.at = a, !.pool = p, !.size = pool_size]
<1>6. fd' = [fd EXCEPT !.checks[i] = d]
  BY <1>5
<1>7. d \in HealthChecks /\ CheckInRange(d) /\ d.server = c.server
  <2>1. pool_size \in PoolSizes /\ pool_size \in Nat
    BY ContextAssumption DEF Shape, ListsOK
  <2> HIDE DEF c, p
  <2> QED BY <1>1, <1>5, <2>1 DEF HealthChecks, CheckInRange
<1>8. DetectorOK'
  <2> HIDE DEF d
  <2> QED BY <1>2, <1>6, <1>7, CheckUpdate DEF Shape
<1> QED BY <1>2, <1>3, <1>8, SameListShape DEF Shape

LEMMA FdTakeShape ==
    ASSUME Shape, NEW i \in DOMAIN fd.checks, FdTake(i)
    PROVE  Shape'
<1> DEFINE c == fd.checks[i]
           p == c.pool
<1>1. /\ c \in HealthChecks /\ CheckInRange(c) /\ i \in Nat /\ c.at = "take"
      /\ p \in DOMAIN pools
  BY CheckOf DEF Shape, FdTake, CheckInRange, Exists, PoolsOK
<1>2. UNCHANGED <<servers, conn_pools, pool_size, pool_server, main, auth,
                  returns, shutdowns, mode, life, budget>>
  BY DEF FdTake, ctxVars, envVars
<1>3. CASE Parks(p, <<"fd", i>>) /\ UNCHANGED fd
  <2>1. OthersSame(p)
    BY <1>1, <1>3, ParkPools, SleeperKinds DEF Parks, Shape
  <2>2. SameList
    BY <1>2, <2>1 DEF SameList, OthersSame, Shape, ListsOK
  <2> QED BY <1>2, <1>3, <2>1, <2>2, SameListShape DEF Shape, OthersSame
<1>4. CASE /\ Takes(p)
           /\ fd' = [fd EXCEPT !.checks[i].at = "ping", !.checks[i].lease = LeaseFrom(p)]
  <2> DEFINE l == LeaseFrom(p)
             d == [c EXCEPT !.at = "ping", !.lease = l]
  <2>1. OthersSame(p) /\ l \in AnyLease /\ Exists(l.conn.pool)
    BY <1>1, <1>4, TakePools DEF Shape
  <2>2. SameList
    BY <1>2, <2>1 DEF SameList, OthersSame, Shape, ListsOK
  <2>3. d \in HealthChecks /\ d.at = "ping" /\ d.lease = l /\ d.server = c.server
    <3> HIDE DEF l, c
    <3> QED BY <1>1, <2>1 DEF HealthChecks
  <2>4. CheckInRange(d)
    <3>1. Len(pools) \in Nat
      BY DEF Shape, PoolsOK
    <3> HIDE DEF d, l
    <3> QED BY <2>1, <2>3, <3>1 DEF CheckInRange, Exists, Maybe
  <2>5. fd' = [fd EXCEPT !.checks[i] = d]
    BY <1>4
  <2>6. DetectorOK'
    <3> HIDE DEF d
    <3> QED BY <2>1, <2>3, <2>4, <2>5, CheckUpdate DEF Shape, OthersSame
  <2> QED BY <1>2, <2>1, <2>2, <2>6, SameListShape DEF Shape, OthersSame
<1> QED BY <1>3, <1>4 DEF FdTake

(* A check that only moves on: the ping, the connect, the ping of a new one. *)
LEMMA CheckMovesOn ==
    ASSUME Shape, NEW i \in DOMAIN fd.checks, NEW d \in HealthChecks, CheckInRange(d),
           d.server = fd.checks[i].server, fd' = [fd EXCEPT !.checks[i] = d],
           UNCHANGED <<ctxVars, poolVars, main, auth, returns, shutdowns, envVars>>
    PROVE  Shape'
<1>1. UNCHANGED <<servers, conn_pools, pool_size, pools, pool_server, main, auth,
                  returns, shutdowns, mode, life, budget>>
  BY DEF ctxVars, poolVars, envVars
<1>2. SameList
  BY <1>1 DEF SameList, Shape, ListsOK
<1>3. DetectorOK'
  BY <1>1, CheckUpdate DEF Shape
<1> QED BY <1>1, <1>2, <1>3, SameListShape DEF Shape

LEMMA FdPingShape ==
    ASSUME Shape, NEW i \in DOMAIN fd.checks, FdPing(i)
    PROVE  Shape'
<1> DEFINE c == fd.checks[i]
           h == PingSucceeds(UrlOf(c.lease.conn), c.lease.conn)
           d == [c EXCEPT !.at = "lookupReturn", !.ok = h]
<1>1. c \in HealthChecks /\ CheckInRange(c) /\ c.at = "ping"
  BY CheckOf DEF Shape, FdPing
<1>2. h \in BOOLEAN
  BY DEF PingSucceeds, Broken
<1>3. d \in HealthChecks /\ CheckInRange(d) /\ d.server = c.server
  <2> HIDE DEF c, h
  <2> QED BY <1>1, <1>2 DEF HealthChecks, CheckInRange
<1>4. /\ fd' = [fd EXCEPT !.checks[i] = d]
      /\ UNCHANGED <<ctxVars, poolVars, main, auth, returns, shutdowns, envVars>>
  BY DEF FdPing
<1> HIDE DEF d
<1> QED BY <1>3, <1>4, CheckMovesOn

(* How a connection attempt may end. *)
LEMMA ConnectsType ==
    ASSUME EnvOK, NEW u \in Urls
    PROVE  Connects(u) \subseteq BOOLEAN
BY DEF Connects, EnvOK

LEMMA FdConnectShape ==
    ASSUME Shape, NEW i \in DOMAIN fd.checks, FdConnect(i)
    PROVE  Shape'
<1> DEFINE c == fd.checks[i]
           l == Unpooled(c.server.url)
<1>1. c \in HealthChecks /\ CheckInRange(c) /\ c.at = "connect" /\ c.server \in Servers
  BY CheckOf DEF Shape, FdConnect
<1>2. c.server.url \in Urls
  BY <1>1 DEF Servers
<1>3. PICK ok \in BOOLEAN :
        fd' = [fd EXCEPT !.checks[i].at = IF ok THEN "pingNew" ELSE "status",
                         !.checks[i].lease = l, !.checks[i].ok = ok]
  <2>1. Connects(c.server.url) \subseteq BOOLEAN
    BY <1>2, ConnectsType DEF Shape
  <2> QED BY <2>1 DEF FdConnect
<1>4. PICK a \in {"pingNew", "status"} :
        fd' = [fd EXCEPT !.checks[i].at = a, !.checks[i].lease = l, !.checks[i].ok = ok]
  BY <1>3
<1> DEFINE d == [c EXCEPT !.at = a, !.lease = l, !.ok = ok]
<1>5. l \in AnyLease /\ Maybe(l.conn.pool)
  <2>1. life[c.server.url] \in Nat /\ Len(pools) \in Nat
    BY <1>2 DEF Shape, EnvOK, PoolsOK
  <2> QED BY <2>1 DEF Unpooled, AnyLease, Conns, Maybe
<1>6. fd' = [fd EXCEPT !.checks[i] = d]
  BY <1>4
<1>7. d \in HealthChecks /\ CheckInRange(d) /\ d.server = c.server
  <2> HIDE DEF c, l
  <2> QED BY <1>1, <1>4, <1>5 DEF HealthChecks, CheckInRange
<1>8. UNCHANGED <<ctxVars, poolVars, main, auth, returns, shutdowns, envVars>>
  BY DEF FdConnect
<1> HIDE DEF d
<1> QED BY <1>6, <1>7, <1>8, CheckMovesOn

LEMMA FdPingNewShape ==
    ASSUME Shape, NEW i \in DOMAIN fd.checks, FdPingNew(i)
    PROVE  Shape'
<1> DEFINE c == fd.checks[i]
<1>1. c \in HealthChecks /\ CheckInRange(c)
  BY CheckOf DEF Shape
<1>2. PICK a \in {"lookupRefresh", "done"} :
        fd' = [fd EXCEPT !.checks[i].at = a, !.checks[i].lease = NoLease]
  BY DEF FdPingNew
<1> DEFINE d == [c EXCEPT !.at = a, !.lease = NoLease]
<1>3. NoLease \in AnyLease /\ Maybe(NoLease.conn.pool)
  BY NoLeaseType DEF Shape
<1>4. d \in HealthChecks /\ CheckInRange(d) /\ d.server = c.server
  <2> HIDE DEF c
  <2> QED BY <1>1, <1>2, <1>3 DEF HealthChecks, CheckInRange
<1>5. fd' = [fd EXCEPT !.checks[i] = d]
  BY <1>2
<1>6. UNCHANGED <<ctxVars, poolVars, main, auth, returns, shutdowns, envVars>>
  BY DEF FdPingNew
<1> HIDE DEF d
<1> QED BY <1>4, <1>5, <1>6, CheckMovesOn

LEMMA FdReturnShape ==
    ASSUME Shape, NEW i \in DOMAIN fd.checks, FdReturn(i)
    PROVE  Shape'
<1> DEFINE c == fd.checks[i]
           d == [c EXCEPT !.at = "status", !.lease = NoLease]
<1>1. /\ c \in HealthChecks /\ CheckInRange(c) /\ c.at = "return"
      /\ c.pool \in DOMAIN pools /\ c.lease \in AnyLease /\ Exists(c.lease.conn.pool)
  BY CheckOf DEF Shape, FdReturn, CheckInRange, Exists, PoolsOK
<1>2. UNCHANGED <<servers, conn_pools, pool_size, pool_server, main, auth,
                  returns, shutdowns, mode, life, budget>>
  BY DEF FdReturn, ctxVars, envVars
<1>3. OthersSame(c.pool)
  BY <1>1, ReturnPools DEF FdReturn, Shape
<1>4. SameList
  BY <1>2, <1>3 DEF SameList, OthersSame, Shape, ListsOK
<1>5. NoLease \in AnyLease /\ Maybe(NoLease.conn.pool)
  BY NoLeaseType DEF Shape
<1>6. d \in HealthChecks /\ CheckInRange(d) /\ d.server = c.server
  <2> HIDE DEF c
  <2> QED BY <1>1, <1>5 DEF HealthChecks, CheckInRange
<1>7. fd' = [fd EXCEPT !.checks[i] = d]
  BY DEF FdReturn
<1>8. DetectorOK'
  <2> HIDE DEF d
  <2> QED BY <1>3, <1>6, <1>7, CheckUpdate DEF Shape, OthersSame
<1> QED BY <1>2, <1>3, <1>4, <1>8, SameListShape DEF Shape, OthersSame

LEMMA ServerOf ==
    ASSUME ListsOK, PoolsOK, NEW p \in DOMAIN pools
    PROVE  pool_server[p] \in Servers /\ pool_server[p].url \in Urls
<1>1. p \in DOMAIN pool_server
  BY DEF ListsOK, PoolsOK
<1>2. pool_server[p] \in Servers
  BY <1>1 DEF ListsOK
<1> QED BY <1>2 DEF Servers

LEMMA FdRefreshShape ==
    ASSUME Shape, NEW i \in DOMAIN fd.checks, FdRefresh(i)
    PROVE  Shape'
<1> DEFINE c == fd.checks[i]
           p == c.pool
<1>1. /\ c \in HealthChecks /\ CheckInRange(c) /\ c.at = "refresh"
      /\ p \in DOMAIN pools /\ c.size \in PoolSizes
  BY CheckOf DEF Shape, FdRefresh, CheckInRange, Exists, PoolsOK
<1>2. UNCHANGED <<servers, conn_pools, pool_size, pool_server, main, auth,
                  returns, shutdowns, mode, life, budget>>
  BY DEF FdRefresh, ctxVars, envVars
<1>3. PICK ok \in BOOLEAN :
        /\ pools' = [pools EXCEPT ![p] = Refreshed(p, c.size, ok)]
        /\ fd' = [fd EXCEPT !.checks[i].at = "status", !.checks[i].ok = ok]
  <2>1. Connects(pool_server[p].url) \subseteq BOOLEAN
    BY <1>1, ServerOf, ConnectsType DEF Shape
  <2> QED BY <2>1 DEF FdRefresh
<1>4. OthersSame(p)
  BY <1>1, <1>3, RefreshPools DEF Shape, EnvOK
<1>5. SameList
  BY <1>2, <1>4 DEF SameList, OthersSame, Shape, ListsOK
<1> DEFINE d == [c EXCEPT !.at = "status", !.ok = ok]
<1>6. d \in HealthChecks /\ CheckInRange(d) /\ d.server = c.server
  <2> HIDE DEF c
  <2> QED BY <1>1 DEF HealthChecks, CheckInRange
<1>7. fd' = [fd EXCEPT !.checks[i] = d]
  BY <1>3
<1>8. DetectorOK'
  <2> HIDE DEF d
  <2> QED BY <1>4, <1>6, <1>7, CheckUpdate DEF Shape, OthersSame
<1> QED BY <1>2, <1>4, <1>5, <1>8, SameListShape DEF Shape, OthersSame

LEMMA FdStatusShape ==
    ASSUME Shape, NEW i \in DOMAIN fd.checks, FdStatus(i)
    PROVE  Shape'
<1> DEFINE c == fd.checks[i]
           d == [c EXCEPT !.at = "done"]
<1>1. c \in HealthChecks /\ CheckInRange(c) /\ c.server \in Servers /\ c.ok \in BOOLEAN
  BY CheckOf DEF Shape, HealthChecks
<1>2. UNCHANGED <<conn_pools, pool_size, pools, pool_server, main, auth,
                  returns, shutdowns, mode, life, budget>>
  BY DEF FdStatus, poolVars, envVars
<1>3. SameList
  BY <1>1, <1>2, StatusFacts DEF SameList, FdStatus, Shape, ListsOK
<1>4. d \in HealthChecks /\ CheckInRange(d) /\ d.server = c.server
  <2> HIDE DEF c
  <2> QED BY <1>1 DEF HealthChecks, CheckInRange
<1>5. fd' = [fd EXCEPT !.checks[i] = d]
  BY DEF FdStatus
<1>6. DetectorOK'
  <2> HIDE DEF d
  <2> QED BY <1>2, <1>4, <1>5, CheckUpdate DEF Shape
<1> QED BY <1>2, <1>3, <1>6, SameListShape DEF Shape

(* Servers that fail and come back. *)
LEMMA EnvShape ==
    ASSUME Shape, NEW u \in Urls, ComeBack(u) \/ \E m \in FailureModes : Fail(u, m)
    PROVE  Shape'
<1>1. UNCHANGED <<servers, conn_pools, pool_size, pools, pool_server, main, auth,
                  returns, shutdowns, fd>>
  BY DEF ComeBack, Fail, ctxVars, poolVars
<1>2. SameList
  BY <1>1 DEF SameList, Shape, ListsOK
<1>3. EnvOK'
  <2>1. CASE ComeBack(u)
    BY <2>1 DEF ComeBack, Shape, EnvOK
  <2>2. ASSUME NEW m \in FailureModes, Fail(u, m) PROVE EnvOK'
    <3>1. m \in {"down", "silent", "faulty"}
      BY ContextAssumption
    <3>2. mode' \in [Urls -> {"up", "down", "silent", "faulty"}]
      BY <2>2, <3>1 DEF Fail, Shape, EnvOK
    <3>3. life' \in [Urls -> Nat]
      BY <2>2 DEF Fail, Shape, EnvOK
    <3>4. budget' \in [failures : Nat, serverSets : Nat, connSets : Nat]
      BY <2>2 DEF Fail, Shape, EnvOK
    <3> QED BY <3>2, <3>3, <3>4 DEF EnvOK
  <2> QED BY <2>1, <2>2
<1> QED BY <1>1, <1>2, <1>3, SameListShape DEF Shape

(***************************************************************************)
(* The main thread.                                                        *)
(***************************************************************************)
LEMMA NoServerType == NoServer \in Servers
BY ContextAssumption DEF NoServer, Servers

LEMMA MainTypes ==
    ASSUME NEW a \in {"idle", "adding", "pushing", "refreshing", "refreshed"},
           NEW todo \in Seq(Urls \cup Servers)
    PROVE  LET m == [MainIdle EXCEPT !.at = a, !.todo = todo]
           IN  /\ m \in [at : {"idle", "adding", "pushing", "refreshing", "refreshed"},
                         todo : Seq(Urls \cup Servers), server : Servers, ok : BOOLEAN]
               /\ m.at = a /\ m.todo = todo
BY NoServerType DEF MainIdle

LEMMA MainIdleType ==
    /\ MainIdle \in [at : {"idle", "adding", "pushing", "refreshing", "refreshed"},
                     todo : Seq(Urls \cup Servers), server : Servers, ok : BOOLEAN]
    /\ MainIdle.at = "idle"
<1>1. <<>> \in Seq(Urls \cup Servers)
  OBVIOUS
<1> QED BY <1>1, NoServerType DEF MainIdle

(* SeqOf: a sequence over a part is one over the whole. *)
LEMMA SeqOf ==
    ASSUME NEW S, NEW T, S \subseteq T, NEW s \in Seq(S)
    PROVE  s \in Seq(T)
OBVIOUS

LEMMA SetServerListShape ==
    ASSUME Shape, NEW list \in ServerLists, SetServerList(list)
    PROVE  Shape'
<1>1. UNCHANGED <<pool_size, pools, pool_server, auth, returns, fd, mode, life>>
  BY DEF SetServerList
<1>2. PoolsOK' /\ AuthOK' /\ ReturnsOK' /\ DetectorOK'
  BY <1>1 DEF Shape, PoolsOK, AuthOK, ReturnsOK, DetectorOK, AuthInRange, CheckInRange,
              Exists, Maybe
<1>3. EnvOK'
  BY <1>1 DEF Shape, EnvOK, SetServerList
<1>4. ListsOK' /\ ListsAligned'
  BY <1>1 DEF SetServerList, Shape, ListsOK, ListsAligned
<1>5. ShutdownsOK'
  <2>1. /\ conn_pools \in Seq(Nat) /\ \A j \in DOMAIN conn_pools : Exists(conn_pools[j])
        /\ shutdowns' = Append(shutdowns, conn_pools) /\ shutdowns \in Seq(Seq(Nat))
    BY DEF Shape, ListsOK, SetServerList, ShutdownsOK
  <2>2. /\ shutdowns' \in Seq(Seq(Nat))
        /\ \A k \in DOMAIN shutdowns' :
             \/ k \in DOMAIN shutdowns /\ shutdowns'[k] = shutdowns[k]
             \/ shutdowns'[k] = conn_pools
    BY <2>1
  <2> QED BY <1>1, <2>1, <2>2 DEF Shape, ShutdownsOK, Exists
<1>6. MainOK'
  <2>1. list \in Seq(Urls) /\ list \in Seq(Urls \cup Servers)
    BY ContextAssumption, SeqOf
  <2>2. main' = [MainIdle EXCEPT !.at = "adding", !.todo = list]
    BY DEF SetServerList
  <2>3. /\ main' \in [at : {"idle", "adding", "pushing", "refreshing", "refreshed"},
                      todo : Seq(Urls \cup Servers), server : Servers, ok : BOOLEAN]
        /\ main'.at = "adding" /\ main'.todo = list
    BY <2>1, <2>2, MainTypes
  <2> QED BY <2>1, <2>3 DEF MainOK
<1> QED BY <1>2, <1>3, <1>4, <1>5, <1>6 DEF Shape

(* The first of what a handler has to do, and the rest. *)
LEMMA Todo ==
    ASSUME NEW S, NEW s \in Seq(S), s # <<>>
    PROVE  /\ Head(s) \in S /\ Head(s) = s[1] /\ 1 \in DOMAIN s /\ Tail(s) \in Seq(S)
           /\ \A j \in DOMAIN Tail(s) : j + 1 \in DOMAIN s /\ Tail(s)[j] = s[j + 1]
OBVIOUS

(* Pools are only added. *)
LEMMA Grown ==
    ASSUME PoolsOK, NEW q \in Queues, \A j \in DOMAIN q.queue : q.queue[j].pool = Len(pools) + 1,
           pools' = Append(pools, q)
    PROVE  /\ PoolsOK' /\ Len(pools') = Len(pools) + 1
           /\ DOMAIN pools' = DOMAIN pools \cup {Len(pools) + 1}
           /\ \A p \in DOMAIN pools : pools'[p] = pools[p]
           /\ pools'[Len(pools) + 1] = q
<1>1. /\ pools' \in Seq(Queues) /\ Len(pools') = Len(pools) + 1 /\ Len(pools) \in Nat
      /\ DOMAIN pools' = DOMAIN pools \cup {Len(pools) + 1}
      /\ \A p \in DOMAIN pools : pools'[p] = pools[p]
      /\ pools'[Len(pools) + 1] = q
  BY DEF PoolsOK
<1>2. ASSUME NEW p \in DOMAIN pools', NEW j \in DOMAIN pools'[p].queue
      PROVE  pools'[p].queue[j].pool \in 1..Len(pools')
  <2>1. CASE p \in DOMAIN pools
    BY <1>1, <1>2, <2>1 DEF PoolsOK, Exists
  <2>2. CASE p = Len(pools) + 1
    BY <1>1, <1>2, <2>2
  <2> QED BY <1>1, <2>1, <2>2
<1> QED BY <1>1, <1>2 DEF PoolsOK, Exists

(* The step of add_server that opens a pool, spelled out. *)
LEMMA CreatePoolFacts ==
    ASSUME Shape, CreatePool
    PROVE  \E u \in Urls, ok \in BOOLEAN :
             LET n == Len(pools) + 1
                 q == NewPool(n, u, ok)
             IN  /\ main.at = "adding" /\ main.todo # <<>> /\ u = Head(main.todo)
                 /\ pools' = Append(pools, q) /\ q \in Queues
                 /\ \A j \in DOMAIN q.queue : q.queue[j].pool = n
                 /\ pool_server' = Append(pool_server, Server(u, Len(servers), TRUE))
                 /\ main' = [main EXCEPT !.at = "pushing",
                                         !.server = Server(u, Len(servers), ok)]
                 /\ UNCHANGED <<servers, conn_pools, pool_size, auth, returns,
                                shutdowns, fd, mode, life, budget>>
<1> DEFINE u == Head(main.todo)
           n == Len(pools) + 1
<1>1. u \in Urls /\ main.at = "adding" /\ main.todo # <<>>
  BY Todo DEF CreatePool, Shape, MainOK
<1>2. Connects(u) \subseteq BOOLEAN
  BY <1>1, ConnectsType DEF Shape
<1>3. PICK ok \in BOOLEAN :
         /\ pools' = Append(pools, NewPool(n, u, ok))
         /\ pool_server' = Append(pool_server, Server(u, Len(servers), TRUE))
         /\ main' = [main EXCEPT !.at = "pushing", !.server = Server(u, Len(servers), ok)]
  BY <1>2 DEF CreatePool
<1>4. n \in Nat
  BY DEF Shape, PoolsOK
<1>5. life \in [Urls -> Nat] /\ pool_size \in PoolSizes
  BY DEF Shape, EnvOK, ListsOK
<1> DEFINE q == NewPool(n, u, ok)
<1>6. q \in Queues /\ \A j \in DOMAIN q.queue : q.queue[j].pool = n
  <2> HIDE DEF u, n
  <2> QED BY <1>1, <1>4, <1>5, NewPoolFacts
<1>9. UNCHANGED <<servers, conn_pools, pool_size, auth, returns, shutdowns, fd, mode,
                  life, budget>>
  BY DEF CreatePool, ctxVars, envVars
<1> HIDE DEF n, q, u
<1>10. /\ u = Head(main.todo) /\ q = NewPool(n, u, ok) /\ n = Len(pools) + 1
  BY DEF u, q, n
<1> QED BY <1>1, <1>3, <1>6, <1>9, <1>10

LEMMA CreatePoolShape ==
    ASSUME Shape, CreatePool
    PROVE  Shape'
<1>1. PICK u \in Urls, ok \in BOOLEAN :
        LET n == Len(pools) + 1
            q == NewPool(n, u, ok)
        IN  /\ main.at = "adding" /\ main.todo # <<>> /\ u = Head(main.todo)
            /\ pools' = Append(pools, q) /\ q \in Queues
            /\ \A j \in DOMAIN q.queue : q.queue[j].pool = n
            /\ pool_server' = Append(pool_server, Server(u, Len(servers), TRUE))
            /\ main' = [main EXCEPT !.at = "pushing",
                                    !.server = Server(u, Len(servers), ok)]
            /\ UNCHANGED <<servers, conn_pools, pool_size, auth, returns,
                           shutdowns, fd, mode, life, budget>>
  BY CreatePoolFacts
<1>2. PoolsOK' /\ Len(pools') = Len(pools) + 1 /\ Len(pools) \in Nat
  BY <1>1, Grown DEF Shape, PoolsOK
<1>3. AuthOK' /\ ReturnsOK' /\ ShutdownsOK' /\ DetectorOK' /\ EnvOK'
  <2>0. UNCHANGED <<auth, returns, shutdowns, fd, mode, life, budget>>
    BY <1>1
  <2>1. AuthOK'
    BY <1>2, <2>0 DEF Shape, AuthOK, AuthInRange, Exists, Maybe
  <2>2. ReturnsOK' /\ ShutdownsOK'
    BY <1>2, <2>0 DEF Shape, ReturnsOK, ShutdownsOK, Exists
  <2>3. DetectorOK'
    BY <1>2, <2>0 DEF Shape, DetectorOK, CheckInRange, Exists, Maybe
  <2>4. EnvOK'
    BY <2>0 DEF Shape, EnvOK
  <2> QED BY <2>1, <2>2, <2>3, <2>4
<1> DEFINE s == Server(u, Len(servers), TRUE)
           m == Server(u, Len(servers), ok)
<1>4. s \in Servers /\ m \in Servers /\ s.url = m.url /\ s.id = m.id /\ m.id = Len(servers)
  BY DEF Server, Servers, Shape, ListsOK
<1>5. /\ pool_server' \in Seq(Servers) /\ Len(pool_server') = Len(pools')
      /\ pool_server'[Len(pools')] = s
      /\ \A i \in 1..Len(pools) : pool_server'[i] = pool_server[i]
  <2>1. pool_server' = Append(pool_server, s)
    BY <1>1
  <2> HIDE DEF s
  <2> QED BY <1>2, <1>4, <2>1 DEF Shape, ListsOK
<1>6. ListsOK' /\ ListsAligned'
  <2>0. UNCHANGED <<servers, conn_pools, pool_size>>
    BY <1>1
  <2>1. ListsOK'
    BY <1>2, <1>5, <2>0 DEF Shape, ListsOK, Exists
  <2>2. \A i \in DOMAIN servers : pool_server'[conn_pools[i]] = pool_server[conn_pools[i]]
    BY <1>5 DEF Shape, ListsOK, ListsAligned, Exists
  <2> QED BY <2>0, <2>1, <2>2 DEF Shape, ListsAligned
<1>7. MainOK'
  <2>1. /\ main' \in [at : {"idle", "adding", "pushing", "refreshing", "refreshed"},
                      todo : Seq(Urls \cup Servers), server : Servers, ok : BOOLEAN]
        /\ main'.at = "pushing" /\ main'.todo = main.todo /\ main'.server = m
    <3>1. main' = [main EXCEPT !.at = "pushing", !.server = m]
      BY <1>1
    <3> HIDE DEF m
    <3> QED BY <1>4, <3>1 DEF Shape, MainOK
  <2>2. main.todo \in Seq(Urls) /\ main.todo # <<>>
    BY <1>1 DEF Shape, MainOK
  <2>3. servers' = servers /\ Len(pools') \in 1..Len(pools')
    BY <1>1, <1>2
  <2> HIDE DEF m, s
  <2> QED BY <1>4, <1>5, <2>1, <2>2, <2>3 DEF MainOK, Exists
<1> QED BY <1>2, <1>3, <1>6, <1>7 DEF Shape

LEMMA AddServerShape ==
    ASSUME Shape, AddServer
    PROVE  Shape'
<1>1. /\ main.at = "pushing" /\ main.todo \in Seq(Urls) /\ main.todo # <<>>
      /\ main.server \in Servers /\ Exists(Len(pools)) /\ main.server.id = Len(servers)
      /\ pool_server[Len(pools)].id = main.server.id
      /\ pool_server[Len(pools)].url = main.server.url
  BY DEF AddServer, Shape, MainOK
<1>2. UNCHANGED <<pool_size, pools, pool_server, auth, returns, shutdowns, fd, mode,
                  life, budget>>
  BY DEF AddServer, poolVars, envVars
<1>3. PoolsOK' /\ AuthOK' /\ ReturnsOK' /\ ShutdownsOK' /\ DetectorOK' /\ EnvOK'
  BY <1>2 DEF Shape, PoolsOK, AuthOK, ReturnsOK, ShutdownsOK, DetectorOK, EnvOK,
              AuthInRange, CheckInRange, Exists, Maybe
<1>4. /\ servers' = Append(servers, main.server)
      /\ conn_pools' = Append(conn_pools, Len(pools))
      /\ servers \in Seq(Servers) /\ conn_pools \in Seq(Nat)
      /\ Len(servers) = Len(conn_pools) /\ Len(pools) \in Nat
  BY DEF AddServer, Shape, ListsOK, ListsAligned, PoolsOK
<1>5. /\ servers' \in Seq(Servers) /\ conn_pools' \in Seq(Nat)
      /\ Len(servers') = Len(conn_pools') /\ Len(servers') = Len(servers) + 1
      /\ \A i \in DOMAIN servers : i \in DOMAIN conn_pools /\ servers'[i] = servers[i]
                                     /\ conn_pools'[i] = conn_pools[i]
      /\ servers'[Len(servers) + 1] = main.server
      /\ conn_pools'[Len(servers) + 1] = Len(pools)
  BY <1>1, <1>4
<1>6. DOMAIN servers' = DOMAIN servers \cup {Len(servers) + 1}
      /\ DOMAIN conn_pools' = DOMAIN conn_pools \cup {Len(servers) + 1}
      /\ DOMAIN conn_pools = DOMAIN servers
  BY <1>4, <1>5
<1>7. ListsOK'
  <2>1. \A i \in DOMAIN conn_pools' : Exists(conn_pools'[i])
    BY <1>1, <1>5, <1>6 DEF Shape, ListsOK
  <2> QED BY <1>2, <1>5, <2>1 DEF Shape, ListsOK, Exists
<1>8. ListsAligned'
  <2>1. ASSUME NEW i \in DOMAIN servers'
        PROVE  /\ servers'[i].id = i - 1
               /\ pool_server[conn_pools'[i]].url = servers'[i].url
               /\ pool_server[conn_pools'[i]].id = i - 1
    <3>1. CASE i \in DOMAIN servers
      BY <1>5, <3>1 DEF Shape, ListsAligned
    <3>2. CASE i = Len(servers) + 1
      BY <1>1, <1>4, <1>5, <3>2
    <3> QED BY <1>6, <3>1, <3>2
  <2> QED BY <1>2, <1>5, <2>1 DEF ListsAligned
<1>9. MainOK'
  <2> DEFINE s == Tail(main.todo)
  <2>1. s \in Seq(Urls) /\ s \in Seq(Urls \cup Servers)
    BY <1>1, Todo, SeqOf
  <2>2. main' = [main EXCEPT !.at = "adding", !.todo = s]
    BY DEF AddServer
  <2> HIDE DEF s
  <2>3. /\ main' \in [at : {"idle", "adding", "pushing", "refreshing", "refreshed"},
                      todo : Seq(Urls \cup Servers), server : Servers, ok : BOOLEAN]
        /\ main'.at = "adding" /\ main'.todo = s
    BY <2>1, <2>2 DEF Shape, MainOK
  <2> QED BY <2>1, <2>3 DEF MainOK
<1> QED BY <1>3, <1>7, <1>8, <1>9 DEF Shape

(* A handler ends. *)
LEMMA HandlerEndsShape ==
    ASSUME Shape, ServerListDone \/ RefreshDone
    PROVE  Shape'
<1>1. /\ main' = MainIdle
      /\ UNCHANGED <<servers, conn_pools, pool_size, pools, pool_server, auth, returns,
                     shutdowns, fd, mode, life, budget>>
  BY DEF ServerListDone, RefreshDone, ctxVars, poolVars, envVars
<1>2. SameList
  BY <1>1 DEF SameList, Shape, ListsOK
<1>3. MainOK'
  BY <1>1, MainIdleType DEF MainOK
<1> QED BY <1>1, <1>2, <1>3, SameListShape DEF Shape

LEMMA SetPoolSizeShape ==
    ASSUME Shape, NEW n \in PoolSizes, SetPoolSize(n)
    PROVE  Shape'
<1>1. /\ pool_size' = n /\ main' = [MainIdle EXCEPT !.at = "refreshing", !.todo = servers]
      /\ UNCHANGED <<servers, conn_pools, pools, pool_server, auth, returns,
                     shutdowns, fd, mode, life>>
  BY DEF SetPoolSize, poolVars
<1>2. PoolsOK' /\ AuthOK' /\ ReturnsOK' /\ ShutdownsOK' /\ DetectorOK'
  BY <1>1 DEF Shape, PoolsOK, AuthOK, ReturnsOK, ShutdownsOK, DetectorOK,
              AuthInRange, CheckInRange, Exists, Maybe
<1>3. ListsOK' /\ ListsAligned'
  BY <1>1 DEF Shape, ListsOK, ListsAligned, Exists
<1>4. EnvOK'
  <2>1. budget' \in [failures : Nat, serverSets : Nat, connSets : Nat]
    BY DEF SetPoolSize, Shape, EnvOK
  <2> QED BY <1>1, <2>1 DEF Shape, EnvOK
<1>5. MainOK'
  <2>1. servers \in Seq(Servers) /\ servers \in Seq(Urls \cup Servers)
    BY SeqOf DEF Shape, ListsOK
  <2>2. /\ main' \in [at : {"idle", "adding", "pushing", "refreshing", "refreshed"},
                      todo : Seq(Urls \cup Servers), server : Servers, ok : BOOLEAN]
        /\ main'.at = "refreshing" /\ main'.todo = servers
    BY <1>1, <2>1, MainTypes
  <2>3. \A j \in DOMAIN servers : /\ servers[j].id < Len(servers)
                                  /\ servers[j].url = servers[servers[j].id + 1].url
    BY <2>1 DEF Shape, ListsAligned
  <2> QED BY <1>1, <2>1, <2>2, <2>3 DEF MainOK
<1> QED BY <1>2, <1>3, <1>4, <1>5 DEF Shape

(* The server whose pool refresh_connection_settings is about to refresh. *)
LEMMA RefreshAt ==
    ASSUME Shape, main.at = "refreshing", main.todo # <<>>
    PROVE  LET s == Head(main.todo)
           IN  /\ s \in Servers /\ s.id < Len(servers) /\ s.url = servers[s.id + 1].url
               /\ s.url \in Urls /\ s.id + 1 \in DOMAIN servers
               /\ GetConnectionPool(s) \in DOMAIN pools
               /\ GetConnectionPool(s) = conn_pools[s.id + 1]
<1> DEFINE s == Head(main.todo)
<1>1. main.todo \in Seq(Servers)
  BY DEF Shape, MainOK
<1>2. s \in Servers /\ s = main.todo[1] /\ 1 \in DOMAIN main.todo
  BY <1>1, Todo
<1>3. s.id < Len(servers) /\ s.url = servers[s.id + 1].url
  BY <1>2 DEF Shape, MainOK
<1> HIDE DEF s
<1>4. s.url \in Urls /\ s.id \in Nat
  BY <1>2 DEF Servers
<1>5. KnowsId(s) /\ s.id + 1 \in DOMAIN servers
  BY <1>3, <1>4 DEF KnowsId, Shape, ListsAligned, ListsOK
<1>6. Exists(GetConnectionPool(s))
  BY <1>2, <1>5, LookupFacts DEF Shape
<1> QED BY <1>2, <1>3, <1>4, <1>5, <1>6 DEF s, Exists, Shape, PoolsOK, GetConnectionPool

(* The step that refreshes a pool, spelled out. *)
LEMMA RefreshPoolFacts ==
    ASSUME Shape, RefreshPool
    PROVE  \E ok \in BOOLEAN :
             LET s == Head(main.todo)
                 p == conn_pools[s.id + 1]
             IN  /\ main.at = "refreshing" /\ main.todo # <<>> /\ p \in DOMAIN pools
                 /\ s \in Servers /\ s.id + 1 \in DOMAIN servers
                 /\ s.id < Len(servers) /\ s.url = servers[s.id + 1].url
                 /\ pools' = [pools EXCEPT ![p] = Refreshed(p, pool_size, ok)]
                 /\ main' = [main EXCEPT !.at = "refreshed", !.server = s, !.ok = ok]
                 /\ UNCHANGED <<servers, conn_pools, pool_size, pool_server, auth,
                                returns, shutdowns, fd, mode, life, budget>>
<1> DEFINE s == Head(main.todo)
           p == conn_pools[s.id + 1]
<1>1. /\ s \in Servers /\ s.url \in Urls /\ s.id + 1 \in DOMAIN servers
      /\ s.id < Len(servers) /\ s.url = servers[s.id + 1].url
      /\ p \in DOMAIN pools /\ GetConnectionPool(s) = p
      /\ main.at = "refreshing" /\ main.todo # <<>>
  BY RefreshAt DEF RefreshPool
<1>2. Connects(s.url) \subseteq BOOLEAN
  BY <1>1, ConnectsType DEF Shape
<1>3. PICK ok \in BOOLEAN :
         /\ pools' = [pools EXCEPT ![p] = Refreshed(p, pool_size, ok)]
         /\ main' = [main EXCEPT !.at = "refreshed", !.server = s, !.ok = ok]
  BY <1>1, <1>2 DEF RefreshPool
<1>4. UNCHANGED <<servers, conn_pools, pool_size, pool_server, auth, returns, shutdowns,
                  fd, mode, life, budget>>
  BY DEF RefreshPool, ctxVars, envVars
<1> QED BY <1>1, <1>3, <1>4

LEMMA RefreshPoolShape ==
    ASSUME Shape, RefreshPool
    PROVE  Shape'
<1> DEFINE s == Head(main.todo)
           p == conn_pools[s.id + 1]
<1>1. PICK ok \in BOOLEAN :
        /\ main.at = "refreshing" /\ main.todo # <<>> /\ p \in DOMAIN pools
        /\ s \in Servers /\ s.id < Len(servers) /\ s.url = servers[s.id + 1].url
        /\ pools' = [pools EXCEPT ![p] = Refreshed(p, pool_size, ok)]
        /\ main' = [main EXCEPT !.at = "refreshed", !.server = s, !.ok = ok]
        /\ UNCHANGED <<servers, conn_pools, pool_size, pool_server, auth,
                       returns, shutdowns, fd, mode, life, budget>>
  BY RefreshPoolFacts
<1>2. OthersSame(p)
  <2>1. pool_size \in PoolSizes /\ life \in [Urls -> Nat]
    BY DEF Shape, ListsOK, EnvOK
  <2> HIDE DEF p
  <2> QED BY <1>1, <2>1, RefreshPools DEF Shape
<1>3. SameList
  BY <1>1, <1>2 DEF SameList, OthersSame, Shape, ListsOK
<1>4. MainOK'
  <2> HIDE DEF s
  <2>1. /\ main' \in [at : {"idle", "adding", "pushing", "refreshing", "refreshed"},
                      todo : Seq(Urls \cup Servers), server : Servers, ok : BOOLEAN]
        /\ main'.at = "refreshed" /\ main'.todo = main.todo /\ main'.server = s
    BY <1>1 DEF Shape, MainOK
  <2>2. /\ main.todo \in Seq(Servers)
        /\ \A j \in DOMAIN main.todo :
              /\ main.todo[j].id < Len(servers)
              /\ main.todo[j].url = servers[main.todo[j].id + 1].url
    BY <1>1 DEF Shape, MainOK
  <2> QED BY <1>1, <2>1, <2>2 DEF MainOK
<1>5. UNCHANGED <<auth, returns, shutdowns, fd, mode, life, budget>>
  BY <1>1
<1> QED BY <1>2, <1>3, <1>4, <1>5, SameListShape DEF Shape, OthersSame

LEMMA RefreshStatusShape ==
    ASSUME Shape, RefreshStatus
    PROVE  Shape'
<1>1. /\ main.at = "refreshed" /\ main.todo \in Seq(Servers) /\ main.todo # <<>>
      /\ main.server \in Servers /\ main.ok \in BOOLEAN
      /\ \A j \in DOMAIN main.todo :
              /\ main.todo[j].id < Len(servers)
              /\ main.todo[j].url = servers[main.todo[j].id + 1].url
  BY DEF RefreshStatus, Shape, MainOK
<1>2. UNCHANGED <<conn_pools, pool_size, pools, pool_server, auth, returns, shutdowns,
                  fd, mode, life, budget>>
  BY DEF RefreshStatus, poolVars, envVars
<1>3. SameList
  BY <1>1, <1>2, StatusFacts DEF SameList, RefreshStatus, Shape, ListsOK
<1>4. MainOK'
  <2> DEFINE r == Tail(main.todo)
  <2>1. /\ r \in Seq(Servers) /\ r \in Seq(Urls \cup Servers)
        /\ \A j \in DOMAIN r : j + 1 \in DOMAIN main.todo /\ r[j] = main.todo[j + 1]
    BY <1>1, Todo, SeqOf
  <2>2. main' = [main EXCEPT !.at = "refreshing", !.todo = r]
    BY DEF RefreshStatus
  <2> HIDE DEF r
  <2>3. /\ main' \in [at : {"idle", "adding", "pushing", "refreshing", "refreshed"},
                      todo : Seq(Urls \cup Servers), server : Servers, ok : BOOLEAN]
        /\ main'.at = "refreshing" /\ main'.todo = r
    BY <2>1, <2>2 DEF Shape, MainOK
  <2>4. ASSUME NEW j \in DOMAIN r
        PROVE  r[j].id < Len(servers') /\ r[j].url = servers'[r[j].id + 1].url
    <3>1. r[j] \in Servers /\ r[j].id < Len(servers) /\ r[j].url = servers[r[j].id + 1].url
      BY <1>1, <2>1
    <3>2. r[j].id + 1 \in DOMAIN servers
      BY <3>1 DEF Servers, Shape, ListsOK
    <3> QED BY <1>3, <3>1, <3>2 DEF SameList
  <2> QED BY <2>1, <2>3, <2>4 DEF MainOK
<1> QED BY <1>2, <1>3, <1>4, SameListShape DEF Shape

-----------------------------------------------------------------------------
(* Shape holds initially and is preserved by every step.                   *)

LEMMA FirstServers ==
    ASSUME Init
    PROVE  /\ servers \in Seq(Servers) /\ Len(servers) = Len(FirstList)
           /\ conn_pools \in Seq(Nat) /\ Len(conn_pools) = Len(FirstList)
           /\ \A i \in 1..Len(FirstList) :
                /\ servers[i] = Server(FirstList[i], i - 1, TRUE)
                /\ servers[i].url = FirstList[i] /\ servers[i].id = i - 1
                /\ servers[i].healthy
                /\ conn_pools[i] = i
           /\ pool_server = servers
<1>1. Len(FirstList) \in Nat /\ DOMAIN FirstList = 1..Len(FirstList)
  BY ContextAssumption
<1>2. \A i \in 1..Len(FirstList) : Server(FirstList[i], i - 1, TRUE) \in Servers
  BY ContextAssumption DEF Server, Servers
<1>3. servers = [i \in 1..Len(FirstList) |-> Server(FirstList[i], i - 1, TRUE)]
  BY <1>1 DEF Init
<1>4. conn_pools = [i \in 1..Len(FirstList) |-> i]
  BY <1>1 DEF Init
<1>5. servers \in Seq(Servers) /\ Len(servers) = Len(FirstList)
  <2>1. servers \in [1..Len(FirstList) -> Servers]
    BY <1>2, <1>3
  <2> QED BY <1>1, <2>1
<1>6. conn_pools \in Seq(Nat) /\ Len(conn_pools) = Len(FirstList)
  BY <1>1, <1>4
<1>7. \A i \in 1..Len(FirstList) :
        /\ servers[i] = Server(FirstList[i], i - 1, TRUE)
        /\ servers[i].url = FirstList[i] /\ servers[i].id = i - 1
        /\ servers[i].healthy /\ conn_pools[i] = i
  BY <1>3, <1>4 DEF Server
<1> QED BY <1>5, <1>6, <1>7 DEF Init

LEMMA FirstPools ==
    ASSUME Init
    PROVE  /\ pools \in Seq(Queues) /\ Len(pools) = Len(FirstList)
           /\ \A p \in 1..Len(FirstList) :
                /\ pools[p].epoch = 1 /\ pools[p].size = pool_size
                /\ pools[p].waiters = {} /\ pools[p].queue \in Seq(Conns)
                /\ DOMAIN pools[p].queue = 1..pool_size
                /\ \A j \in 1..pool_size : pools[p].queue[j] =
                     [pool |-> p, epoch |-> 1, place |-> j, life |-> 0]
<1>1. Len(FirstList) \in Nat /\ DOMAIN FirstList = 1..Len(FirstList)
  BY ContextAssumption
<1>2. life \in [Urls -> Nat] /\ pool_size \in PoolSizes /\ \A u \in Urls : life[u] = 0
  BY DEF Init
<1>3. ASSUME NEW p \in 1..Len(FirstList)
      PROVE  /\ NewPool(p, FirstList[p], TRUE) \in Queues
             /\ NewPool(p, FirstList[p], TRUE).epoch = 1
             /\ NewPool(p, FirstList[p], TRUE).size = pool_size
             /\ NewPool(p, FirstList[p], TRUE).waiters = {}
             /\ DOMAIN NewPool(p, FirstList[p], TRUE).queue = 1..pool_size
             /\ \A j \in 1..pool_size : NewPool(p, FirstList[p], TRUE).queue[j] =
                     [pool |-> p, epoch |-> 1, place |-> j, life |-> 0]
  <2>1. p \in Nat /\ FirstList[p] \in Urls
    BY ContextAssumption
  <2> DEFINE u == FirstList[p]
  <2>2. u \in Urls /\ life[u] = 0
    BY <1>2, <2>1
  <2> HIDE DEF u
  <2>3. ASSUME NEW ok \in BOOLEAN, ok
        PROVE  /\ NewPool(p, u, ok) \in Queues
               /\ NewPool(p, u, ok).epoch = 1
               /\ NewPool(p, u, ok).size = pool_size
               /\ NewPool(p, u, ok).waiters = {}
               /\ DOMAIN NewPool(p, u, ok).queue = 1..pool_size
               /\ \A j \in 1..pool_size : NewPool(p, u, ok).queue[j] =
                    [pool |-> p, epoch |-> 1, place |-> j, life |-> life[u]]
    <3>1. life \in [Urls -> Nat] /\ pool_size \in PoolSizes
      BY <1>2
    <3>2. /\ NewPool(p, u, ok) \in Queues
          /\ NewPool(p, u, ok).epoch = 1
          /\ NewPool(p, u, ok).size = pool_size
          /\ NewPool(p, u, ok).waiters = {}
      BY <3>1, <2>1, <2>2, NewPoolFacts
    <3>3. DOMAIN NewPool(p, u, ok).queue = 1..pool_size
      BY <3>1, <2>1, <2>2, <2>3, NewPoolFacts
    <3>4. ASSUME NEW j \in 1..pool_size
          PROVE  NewPool(p, u, ok).queue[j] =
                   [pool |-> p, epoch |-> 1, place |-> j, life |-> life[u]]
      <4>1. /\ NewPool(p, u, ok).queue = Fresh(p, u, 1, pool_size, ok)
            /\ 1 \in Nat
        BY <3>1, <2>1, <2>2, NewPoolFacts
      <4>2. Fresh(p, u, 1, pool_size, ok)[j] =
              [pool |-> p, epoch |-> 1, place |-> j, life |-> life[u]]
        BY <2>3, <3>4 DEF Fresh, Opened
      <4> QED BY <4>1, <4>2
    <3> QED BY <3>2, <3>3, <3>4
  <2> DEFINE q == NewPool(p, u, TRUE)
  <2>4. /\ q \in Queues /\ q.epoch = 1 /\ q.size = pool_size /\ q.waiters = {}
        /\ DOMAIN q.queue = 1..pool_size
        /\ \A j \in 1..pool_size : q.queue[j] =
             [pool |-> p, epoch |-> 1, place |-> j, life |-> life[u]]
    BY <2>3, Zenon
  <2> QED BY <2>2, <2>4 DEF u
<1>4. pools = [p \in 1..Len(FirstList) |-> NewPool(p, FirstList[p], TRUE)]
  BY <1>1 DEF Init
<1>5. pools \in Seq(Queues) /\ Len(pools) = Len(FirstList)
  <2>1. pools \in [1..Len(FirstList) -> Queues]
    BY <1>3, <1>4
  <2> QED BY <1>1, <2>1
<1>6. \A p \in 1..Len(FirstList) : pools[p] = NewPool(p, FirstList[p], TRUE)
  BY <1>4
<1>7. \A p \in 1..Len(FirstList) : pools[p].queue \in Seq(Conns)
  BY <1>3, <1>6 DEF Queues
<1> QED BY <1>3, <1>5, <1>6, <1>7

LEMMA InitShape == Init => Shape
<1> SUFFICES ASSUME Init PROVE Shape
  OBVIOUS
<1>1. Len(FirstList) \in Nat /\ pool_size \in PoolSizes
  BY ContextAssumption DEF Init
<1>2. ListsOK /\ ListsAligned
  <2>1. Len(pools) = Len(FirstList)
    BY FirstPools
  <2>2. ListsOK
    <3>1. \A i \in DOMAIN conn_pools : i \in 1..Len(FirstList) /\ conn_pools[i] = i
      <4>1. conn_pools \in Seq(Nat) /\ Len(conn_pools) = Len(FirstList)
        BY FirstServers
      <4>2. DOMAIN conn_pools = 1..Len(FirstList)
        BY <4>1
      <4> QED BY <4>2, FirstServers
    <3>2. \A i \in DOMAIN conn_pools : Exists(conn_pools[i])
      BY <2>1, <3>1 DEF Exists
    <3> QED BY <1>1, <2>1, <3>2, FirstServers DEF ListsOK
  <2>3. Len(servers) = Len(conn_pools) /\ DOMAIN servers = 1..Len(FirstList)
    BY FirstServers
  <2>4. ASSUME NEW i \in DOMAIN servers
        PROVE  /\ servers[i].id = i - 1 /\ pool_server[conn_pools[i]].url = servers[i].url
               /\ pool_server[conn_pools[i]].id = i - 1
    BY <2>3, FirstServers
  <2> QED BY <2>2, <2>3, <2>4 DEF ListsAligned
<1>3. PoolsOK
  <2>1. ASSUME NEW p \in 1..Len(FirstList), NEW j \in DOMAIN pools[p].queue
        PROVE  pools[p].queue[j].pool = p
    <3>1. pools[p].queue[j] = [pool |-> p, epoch |-> 1, place |-> j, life |-> 0]
      BY FirstPools
    <3> QED BY <3>1
  <2> QED BY <2>1, FirstPools DEF PoolsOK, Exists
<1>4. MainOK
  BY MainIdleType DEF MainOK, Init
<1>5. AuthOK
  <2> DEFINE o == [at |-> "find", server |-> NoServer, pool |-> 0, lease |-> NoLease,
                   res |-> "none"]
  <2>1. o \in Operations
    BY NoServerType, NoLeaseType DEF Operations
  <2>2. AuthInRange(o)
    BY <1>3, NoLeaseType DEF AuthInRange, Maybe, PoolsOK
  <2>3. auth = [t \in AuthTasks |-> o]
    BY DEF Init
  <2> HIDE DEF o
  <2> QED BY <2>1, <2>2, <2>3 DEF AuthOK
<1>6. ReturnsOK /\ ShutdownsOK /\ EnvOK
  BY ContextAssumption DEF ReturnsOK, ShutdownsOK, EnvOK, Init
<1>7. DetectorOK
  <2>1. fd = [at |-> "sleep", checks |-> <<>>] /\ <<>> \in Seq(HealthChecks)
    BY DEF Init
  <2> QED BY <2>1 DEF DetectorOK
<1> QED BY <1>2, <1>3, <1>4, <1>5, <1>6, <1>7 DEF Shape

LEMMA NextShape == Shape /\ [Next]_vars => Shape'
<1> SUFFICES ASSUME Shape, [Next]_vars PROVE Shape'
  OBVIOUS
<1>1. CASE UNCHANGED vars
  <2>1. SameList
    BY <1>1 DEF vars, SameList, Shape, ListsOK
  <2> QED BY <1>1, <2>1, SameListShape DEF vars, Shape
<1>2. CASE \E list \in ServerLists : SetServerList(list)
  BY <1>2, SetServerListShape
<1>3. CASE \E n \in PoolSizes : SetPoolSize(n)
  BY <1>3, SetPoolSizeShape
<1>4. CASE MainStep
  BY <1>4, CreatePoolShape, AddServerShape, HandlerEndsShape, RefreshPoolShape,
     RefreshStatusShape DEF MainStep
<1>5. CASE \E t \in AuthTasks : AuthStep(t)
  BY <1>5, AuthFindShape, AuthTakeShape, AuthOpShape, AuthPanicShape,
     AuthFailoverShape DEF AuthStep
<1>6. CASE \E r \in returns : SpawnedReturn(r)
  BY <1>6, SpawnedReturnShape
<1>7. CASE \E k \in DOMAIN shutdowns : ShutdownStep(k)
  BY <1>7, ShutdownStepShape
<1>8. CASE FdStart \/ FdEnd
  BY <1>8, FdStartShape, FdEndShape
<1>9. CASE \E i \in DOMAIN fd.checks : CheckServerHealth(i)
  BY <1>9, FdPanicShape, FdLookupShape, FdTakeShape, FdPingShape, FdReturnShape,
     FdConnectShape, FdPingNewShape, FdRefreshShape, FdStatusShape DEF CheckServerHealth
<1>10. CASE \E u \in Urls : ComeBack(u) \/ \E m \in FailureModes : Fail(u, m)
  BY <1>10, EnvShape
<1> QED BY <1>1, <1>2, <1>3, <1>4, <1>5, <1>6, <1>7, <1>8, <1>9, <1>10 DEF Next

LEMMA ShapeHolds == Spec => []Shape
BY InitShape, NextShape, PTL DEF Spec

LEMMA LeaseType ==
    ASSUME NEW l \in AnyLease, Maybe(l.conn.pool)
    PROVE  l \in Leases
BY DEF AnyLease, Conns, Maybe, Leases, Connections

LEMMA ShapeTypes == Shape => TypeOK
<1> SUFFICES ASSUME Shape PROVE TypeOK
  OBVIOUS
<1>1. /\ servers \in Seq(Servers) /\ pool_size \in PoolSizes
      /\ pool_server \in Seq(Servers) /\ Len(pool_server) = Len(pools)
  BY DEF Shape, ListsOK
<1>2. pools \in Seq(Queues) /\ Len(pools) \in Nat /\ DOMAIN pools = 1..Len(pools)
  BY DEF Shape, PoolsOK
<1>3. \A p \in Nat : Exists(p) <=> p \in DOMAIN pools
  BY <1>2 DEF Exists
<1>4. conn_pools \in Seq(DOMAIN pools)
  <2>1. conn_pools \in Seq(Nat) /\ \A i \in DOMAIN conn_pools : conn_pools[i] \in DOMAIN pools
    BY <1>2 DEF Shape, ListsOK, Exists
  <2> QED BY <2>1
<1>5. ASSUME NEW p \in DOMAIN pools
      PROVE  /\ pools[p].queue \in Seq(Connections)
             /\ pools[p].epoch \in Nat /\ pools[p].size \in PoolSizes
             /\ \A a \in pools[p].waiters : a[1] \in {"auth", "fd", "shutdown"}
  <2>1. /\ pools[p].queue \in Seq(Conns) /\ pools[p].epoch \in Nat
        /\ pools[p].size \in PoolSizes /\ pools[p].waiters \subseteq Sleepers
    <3>1. pools[p] \in Queues
      BY <1>2
    <3> QED BY <3>1 DEF Queues
  <2>2. \A j \in DOMAIN pools[p].queue : pools[p].queue[j] \in Connections
    <3> SUFFICES ASSUME NEW j \in DOMAIN pools[p].queue
                 PROVE  pools[p].queue[j] \in Connections
      OBVIOUS
    <3>1. pools[p].queue[j] \in Conns /\ Exists(pools[p].queue[j].pool)
      BY <2>1 DEF Shape, PoolsOK
    <3> QED BY <1>2, <3>1 DEF Exists, Conns, Connections
  <2>3. \A a \in Sleepers : a[1] \in {"auth", "fd", "shutdown"}
    BY DEF Sleepers
  <2> QED BY <2>1, <2>2, <2>3
<1>6. main.at \in {"idle", "adding", "pushing", "refreshing", "refreshed"}
  BY DEF Shape, MainOK
<1>7. ASSUME NEW t \in AuthTasks
      PROVE  auth[t] \in
               [at : {"find", "take", "op", "failed", "done", "panicked"}, server : Servers,
                pool : 0..Len(pools), lease : Leases,
                res : {"none", "answered", "NoServerConfigured",
                       "NoHealthyServerAvailable"}]
  <2>1. auth[t] \in Operations /\ AuthInRange(auth[t])
    BY DEF Shape, AuthOK
  <2>2. auth[t].lease \in AnyLease
    BY <2>1 DEF Operations
  <2>3. auth[t].lease \in Leases /\ auth[t].pool \in 0..Len(pools)
    BY <2>1, <2>2, LeaseType DEF AuthInRange, Maybe
  <2> QED BY <2>1, <2>3 DEF Operations
<1>8. ASSUME NEW r \in returns
      PROVE  r \in [pool : DOMAIN pools, lease : Leases]
  <2>1. r \in [pool : Nat, lease : AnyLease] /\ Exists(r.pool) /\ Exists(r.lease.conn.pool)
    BY DEF Shape, ReturnsOK
  <2>2. r.lease \in AnyLease /\ Maybe(r.lease.conn.pool)
    BY <1>2, <2>1 DEF Exists, Maybe
  <2>3. r.lease \in Leases
    BY <2>2, LeaseType
  <2> QED BY <1>3, <2>1, <2>3
<1>9. shutdowns \in Seq(Seq(DOMAIN pools))
  <2>1. shutdowns \in Seq(Seq(Nat))
    BY DEF Shape, ShutdownsOK
  <2>2. ASSUME NEW k \in DOMAIN shutdowns
        PROVE  shutdowns[k] \in Seq(DOMAIN pools)
    BY <1>3, <2>1 DEF Shape, ShutdownsOK
  <2> QED BY <2>1, <2>2
<1>10. fd.at \in {"sleep", "checking", "hung"}
  BY DEF Shape, DetectorOK
<1>11. ASSUME NEW i \in DOMAIN fd.checks
       PROVE  fd.checks[i].lease \in Leases
  <2>1. fd.checks[i].lease \in AnyLease /\ Maybe(fd.checks[i].lease.conn.pool)
    BY CheckOf DEF Shape, CheckInRange
  <2> QED BY <2>1, LeaseType
<1>12. auth \in [AuthTasks ->
         [at : {"find", "take", "op", "failed", "done", "panicked"}, server : Servers,
          pool : 0..Len(pools), lease : Leases,
          res : {"none", "answered", "NoServerConfigured", "NoHealthyServerAvailable"}]]
  <2>1. auth = [t \in AuthTasks |-> auth[t]]
    BY DEF Shape, AuthOK
  <2> QED BY <1>7, <2>1
<1>13. returns \subseteq [pool : DOMAIN pools, lease : Leases]
  BY <1>8
<1>14. mode \in [Urls -> {"up", "down", "silent", "faulty"}] /\ life \in [Urls -> Nat]
  BY DEF Shape, EnvOK
<1> QED BY <1>1, <1>4, <1>5, <1>6, <1>9, <1>10, <1>11, <1>12, <1>13, <1>14 DEF TypeOK

-----------------------------------------------------------------------------
(* Hands is preserved.  First what every kind of step does to it.          *)

(* Pools and their epochs only grow, so what is known stays known. *)
PoolsGrow ==
    /\ DOMAIN pools \subseteq DOMAIN pools' /\ Len(pools) <= Len(pools')
    /\ \A p \in DOMAIN pools : pools[p].epoch <= pools'[p].epoch

KnownAfter(c) == c.pool \in 1..Len(pools') /\ c.epoch <= pools'[c.pool].epoch

LEMMA StaysKnown ==
    ASSUME PoolsOK, PoolsOK', PoolsGrow
    PROVE  \A c \in Conns : Known(c) => KnownAfter(c)
<1> SUFFICES ASSUME NEW c \in Conns, Known(c) PROVE KnownAfter(c)
  OBVIOUS
<1>1. c.pool \in DOMAIN pools /\ c.epoch \in Nat /\ c.epoch <= pools[c.pool].epoch
  BY DEF Known, Exists, PoolsOK, Conns
<1>2. c.pool \in DOMAIN pools' /\ pools[c.pool].epoch <= pools'[c.pool].epoch
  BY <1>1 DEF PoolsGrow
<1>3. pools[c.pool].epoch \in Nat /\ pools'[c.pool].epoch \in Nat
  <2>1. pools[c.pool] \in Queues /\ pools'[c.pool] \in Queues
    BY <1>1, <1>2 DEF PoolsOK
  <2> QED BY <2>1 DEF Queues
<1>4. c.pool \in 1..Len(pools')
  BY <1>2 DEF PoolsOK
<1> QED BY <1>1, <1>2, <1>3, <1>4 DEF KnownAfter

LEMMA AllKnownAfter ==
    ASSUME \A t \in Keepers' : KnownAfter(auth'[t].lease.conn),
           \A i \in FdHolders' : KnownAfter(fd'.checks[i].lease.conn),
           \A r \in returns' : KnownAfter(r.lease.conn),
           \A p \in DOMAIN pools' : \A j \in DOMAIN pools'[p].queue :
             KnownAfter(pools'[p].queue[j])
    PROVE  AllKnown'
BY DEF AllKnown, KnownAfter, Known, Exists

(* No hand gets a connection. *)
AuthKeep == \A t \in Keepers' : t \in Keepers /\ auth'[t].lease.conn = auth[t].lease.conn

FdKeep ==
    \A i \in FdHolders' : /\ i \in FdHolders
                          /\ fd'.checks[i].lease.conn = fd.checks[i].lease.conn

QueuesKeep ==
    \A p \in DOMAIN pools' : \A j \in DOMAIN pools'[p].queue :
        /\ p \in DOMAIN pools /\ j \in DOMAIN pools[p].queue
        /\ pools'[p].queue[j] = pools[p].queue[j]

LEMMA HeldTypes ==
    ASSUME Shape
    PROVE  /\ \A t \in Keepers : auth[t].lease.conn \in Conns
           /\ \A i \in FdHolders : fd.checks[i].lease.conn \in Conns
           /\ \A r \in returns : r.lease.conn \in Conns
           /\ \A p \in DOMAIN pools : \A j \in DOMAIN pools[p].queue :
                pools[p].queue[j] \in Conns
<1>1. \A l \in AnyLease : l.conn \in Conns
  BY DEF AnyLease
<1>2. \A t \in Keepers : auth[t].lease \in AnyLease
  BY DEF Shape, AuthOK, Keepers, Operations
<1>3. \A i \in FdHolders : fd.checks[i].lease \in AnyLease
  BY CheckOf DEF Shape, FdHolders
<1>4. \A r \in returns : r.lease \in AnyLease
  BY DEF Shape, ReturnsOK
<1>5. ASSUME NEW p \in DOMAIN pools, NEW j \in DOMAIN pools[p].queue
      PROVE  pools[p].queue[j] \in Conns
  <2>1. pools[p].queue \in Seq(Conns)
    BY PoolOf DEF Shape
  <2> QED BY <2>1
<1> QED BY <1>1, <1>2, <1>3, <1>4, <1>5

LEMMA HandsShrink ==
    ASSUME Shape, Shape', Hands, PoolsGrow, AuthKeep, FdKeep, QueuesKeep,
           returns' \subseteq returns
    PROVE  Hands'
<1>1. AllKnown'
  <2>1. \A t \in Keepers' : KnownAfter(auth'[t].lease.conn)
    BY HeldTypes, StaysKnown DEF Hands, AllKnown, AuthKeep, Shape
  <2>2. \A i \in FdHolders' : KnownAfter(fd'.checks[i].lease.conn)
    BY HeldTypes, StaysKnown DEF Hands, AllKnown, FdKeep, Shape
  <2>3. \A r \in returns' : KnownAfter(r.lease.conn)
    BY HeldTypes, StaysKnown DEF Hands, AllKnown, Shape
  <2>4. \A p \in DOMAIN pools' : \A j \in DOMAIN pools'[p].queue :
          KnownAfter(pools'[p].queue[j])
    BY HeldTypes, StaysKnown DEF Hands, AllKnown, QueuesKeep, Shape
  <2> QED BY <2>1, <2>2, <2>3, <2>4, AllKnownAfter
<1>2. EachInOneHand'
  BY DEF Hands, EachInOneHand, AuthKeep, FdKeep
<1>3. OffTheQueues'
  BY DEF Hands, OffTheQueues, AuthKeep, FdKeep, QueuesKeep
<1>4. EachQueuedOnce'
  BY DEF Hands, EachQueuedOnce, QueuesKeep
<1>5. IsFiniteSet(returns')
  BY FS_Subset DEF Hands
<1> QED BY <1>1, <1>2, <1>3, <1>4, <1>5 DEF Hands

(* One task gets c. *)
AuthGain(t, c) ==
    \A s \in Keepers' :
        \/ s = t /\ auth'[s].lease.conn = c
        \/ s \in Keepers /\ auth'[s].lease.conn = auth[s].lease.conn

FdGain(i, c) ==
    \A h \in FdHolders' :
        \/ h = i /\ fd'.checks[h].lease.conn = c
        \/ h \in FdHolders /\ fd'.checks[h].lease.conn = fd.checks[h].lease.conn

(* Where the connection at place j of pool x was, before one was taken from p. *)
Before(p, x, j) == IF x = p THEN j + 1 ELSE j

LEMMA TakenQueues ==
    ASSUME PoolsOK, NEW p \in DOMAIN pools, Takes(p)
    PROVE  /\ PoolsGrow
           /\ \A x \in DOMAIN pools' : \A j \in DOMAIN pools'[x].queue :
                /\ x \in DOMAIN pools /\ j \in Nat \ {0}
                /\ Before(p, x, j) \in DOMAIN pools[x].queue
                /\ pools'[x].queue[j] = pools[x].queue[Before(p, x, j)]
           /\ 1 \in DOMAIN pools[p].queue
<1>1. /\ OthersSame(p) /\ pools[p].queue # <<>>
      /\ pools'[p].queue = Tail(pools[p].queue) /\ pools'[p].epoch = pools[p].epoch
  BY TakePools
<1>2. \A x \in DOMAIN pools : pools[x].queue \in Seq(Conns) /\ pools[x].epoch \in Nat
  BY PoolOf
<1>3. PoolsGrow
  <2>1. \A x \in DOMAIN pools : pools'[x].epoch = pools[x].epoch
    BY <1>1 DEF OthersSame
  <2> QED BY <1>1, <1>2, <2>1 DEF PoolsGrow, OthersSame, PoolsOK
<1>4. ASSUME NEW x \in DOMAIN pools', NEW j \in DOMAIN pools'[x].queue
      PROVE  /\ x \in DOMAIN pools /\ j \in Nat \ {0}
             /\ Before(p, x, j) \in DOMAIN pools[x].queue
             /\ pools'[x].queue[j] = pools[x].queue[Before(p, x, j)]
  <2>1. x \in DOMAIN pools
    BY <1>1 DEF OthersSame
  <2>2. CASE x = p
    <3>1. j \in DOMAIN Tail(pools[p].queue) /\ Tail(pools[p].queue) \in Seq(Conns)
      BY <1>1, <1>2, <2>2, Todo
    <3>2. j + 1 \in DOMAIN pools[p].queue /\ Tail(pools[p].queue)[j] = pools[p].queue[j + 1]
      BY <1>1, <1>2, <3>1, Todo
    <3>3. j \in Nat \ {0}
      BY <3>1
    <3> QED BY <1>1, <2>1, <2>2, <3>2, <3>3 DEF Before
  <2>3. CASE x # p
    BY <1>1, <1>2, <2>1, <2>3 DEF Before, OthersSame
  <2> QED BY <2>1, <2>2, <2>3
<1>5. 1 \in DOMAIN pools[p].queue
  BY <1>1, <1>2
<1> QED BY <1>3, <1>4, <1>5

LEMMA HandsTake ==
    ASSUME Shape, Shape', Hands, NEW p \in DOMAIN pools, Takes(p), UNCHANGED returns,
           \/ \E t : AuthGain(t, pools[p].queue[1]) /\ FdKeep
           \/ \E i : AuthKeep /\ FdGain(i, pools[p].queue[1])
    PROVE  Hands'
<1> DEFINE c == pools[p].queue[1]
<1>1. /\ PoolsGrow /\ 1 \in DOMAIN pools[p].queue
      /\ \A x \in DOMAIN pools' : \A j \in DOMAIN pools'[x].queue :
           /\ x \in DOMAIN pools /\ j \in Nat \ {0}
           /\ Before(p, x, j) \in DOMAIN pools[x].queue
           /\ pools'[x].queue[j] = pools[x].queue[Before(p, x, j)]
  BY TakenQueues DEF Shape
<1>2. c \in Conns /\ Known(c)
  BY <1>1, HeldTypes DEF Hands, AllKnown
<1>3. \A x \in DOMAIN pools' : \A j \in DOMAIN pools'[x].queue : pools'[x].queue[j] # c
  <2> SUFFICES ASSUME NEW x \in DOMAIN pools', NEW j \in DOMAIN pools'[x].queue,
                      pools'[x].queue[j] = c
               PROVE  FALSE
    OBVIOUS
  <2>1. x = p /\ Before(p, x, j) = 1
    BY <1>1 DEF Hands, EachQueuedOnce
  <2> QED BY <1>1, <2>1 DEF Before
<1>4. /\ \A t \in Keepers : auth[t].lease.conn # c
      /\ \A i \in FdHolders : fd.checks[i].lease.conn # c
      /\ \A r \in returns : r.lease.conn # c
  BY <1>1 DEF Hands, OffTheQueues
<1> HIDE DEF c
<1>5. \/ \E t : AuthGain(t, c) /\ FdKeep
      \/ \E i : AuthKeep /\ FdGain(i, c)
  BY DEF c
<1>6. \A d \in Conns : Known(d) => KnownAfter(d)
  BY <1>1, StaysKnown DEF Shape
<1>7. AllKnown'
  <2>1. \A t \in Keepers' : KnownAfter(auth'[t].lease.conn)
    BY <1>2, <1>5, <1>6, HeldTypes DEF Hands, AllKnown, AuthKeep, AuthGain
  <2>2. \A i \in FdHolders' : KnownAfter(fd'.checks[i].lease.conn)
    BY <1>2, <1>5, <1>6, HeldTypes DEF Hands, AllKnown, FdKeep, FdGain
  <2>3. \A r \in returns' : KnownAfter(r.lease.conn)
    BY <1>6, HeldTypes DEF Hands, AllKnown
  <2>4. \A x \in DOMAIN pools' : \A j \in DOMAIN pools'[x].queue :
          KnownAfter(pools'[x].queue[j])
    BY <1>1, <1>6, HeldTypes DEF Hands, AllKnown
  <2> QED BY <2>1, <2>2, <2>3, <2>4, AllKnownAfter
<1>8. EachInOneHand'
  <2>1. CASE \E t : AuthGain(t, c) /\ FdKeep
    BY <1>4, <2>1 DEF Hands, EachInOneHand, FdKeep, AuthGain
  <2>2. CASE \E i : AuthKeep /\ FdGain(i, c)
    BY <1>4, <2>2 DEF Hands, EachInOneHand, FdGain, AuthKeep
  <2> QED BY <1>5, <2>1, <2>2
<1>9. OffTheQueues'
  <2> SUFFICES ASSUME NEW x \in DOMAIN pools', NEW j \in DOMAIN pools'[x].queue
               PROVE  /\ \A t \in Keepers' : auth'[t].lease.conn # pools'[x].queue[j]
                      /\ \A i \in FdHolders' : fd'.checks[i].lease.conn # pools'[x].queue[j]
                      /\ \A r \in returns' : r.lease.conn # pools'[x].queue[j]
    BY DEF OffTheQueues
  <2>1. /\ x \in DOMAIN pools /\ Before(p, x, j) \in DOMAIN pools[x].queue
        /\ pools'[x].queue[j] = pools[x].queue[Before(p, x, j)]
        /\ pools'[x].queue[j] # c
    BY <1>1, <1>3
  <2>2. /\ \A t \in Keepers : auth[t].lease.conn # pools'[x].queue[j]
        /\ \A i \in FdHolders : fd.checks[i].lease.conn # pools'[x].queue[j]
        /\ \A r \in returns : r.lease.conn # pools'[x].queue[j]
    BY <2>1 DEF Hands, OffTheQueues
  <2>3. CASE \E t : AuthGain(t, c) /\ FdKeep
    BY <2>1, <2>2, <2>3 DEF FdKeep, AuthGain
  <2>4. CASE \E i : AuthKeep /\ FdGain(i, c)
    BY <2>1, <2>2, <2>4 DEF FdGain, AuthKeep
  <2> QED BY <1>5, <2>3, <2>4
<1>10. EachQueuedOnce'
  <2> SUFFICES ASSUME NEW x \in DOMAIN pools', NEW y \in DOMAIN pools',
                      NEW j \in DOMAIN pools'[x].queue, NEW k \in DOMAIN pools'[y].queue,
                      pools'[x].queue[j] = pools'[y].queue[k]
               PROVE  x = y /\ j = k
    BY DEF EachQueuedOnce
  <2>1. x = y /\ Before(p, x, j) = Before(p, y, k)
    BY <1>1 DEF Hands, EachQueuedOnce
  <2> QED BY <1>1, <2>1 DEF Before
<1> QED BY <1>7, <1>8, <1>9, <1>10 DEF Hands

(* A connection in nobody's hands any more is put back, or dropped. *)
LEMMA HandsPut ==
    ASSUME Shape, Shape', Hands, NEW p \in DOMAIN pools, NEW l \in AnyLease,
           pools' = [pools EXCEPT ![p] = ReturnConnection(@, l)],
           AuthKeep, FdKeep, returns' \subseteq returns, Known(l.conn),
           \A x \in DOMAIN pools : \A j \in DOMAIN pools[x].queue :
             pools[x].queue[j] # l.conn,
           \A t \in Keepers' : auth'[t].lease.conn # l.conn,
           \A i \in FdHolders' : fd'.checks[i].lease.conn # l.conn,
           \A r \in returns' : r.lease.conn # l.conn
    PROVE  Hands'
<1> DEFINE c == l.conn
           n == Len(pools[p].queue)
<1>1. c \in Conns /\ Known(c) /\ Exists(c.pool)
  BY DEF AnyLease, Known
<1>2. /\ OthersSame(p) /\ pools'[p].epoch = pools[p].epoch
      /\ \/ pools' = pools
         \/ pools'[p].queue = Append(pools[p].queue, c)
  BY <1>1, ReturnPools DEF Shape
<1>3. /\ pools[p].queue \in Seq(Conns) /\ n \in Nat
      /\ \A x \in DOMAIN pools : pools[x].epoch \in Nat
  BY PoolOf DEF Shape
<1>4. PoolsGrow
  <2>1. \A x \in DOMAIN pools : pools'[x].epoch = pools[x].epoch
    BY <1>2 DEF OthersSame
  <2> QED BY <1>2, <1>3, <2>1 DEF PoolsGrow, OthersSame, Shape, PoolsOK
<1>5. CASE pools' = pools
  <2>1. QueuesKeep
    BY <1>5 DEF QueuesKeep
  <2> QED BY <1>4, <2>1, HandsShrink
<1>6. CASE pools'[p].queue = Append(pools[p].queue, c)
  <2>1. \A x \in DOMAIN pools' : \A j \in DOMAIN pools'[x].queue :
          \/ /\ x \in DOMAIN pools /\ j \in DOMAIN pools[x].queue
             /\ pools'[x].queue[j] = pools[x].queue[j]
          \/ x = p /\ j = n + 1 /\ pools'[x].queue[j] = c
    <3> SUFFICES ASSUME NEW x \in DOMAIN pools', NEW j \in DOMAIN pools'[x].queue
                 PROVE  \/ /\ x \in DOMAIN pools /\ j \in DOMAIN pools[x].queue
                           /\ pools'[x].queue[j] = pools[x].queue[j]
                        \/ x = p /\ j = n + 1 /\ pools'[x].queue[j] = c
      OBVIOUS
    <3>1. CASE x # p
      BY <1>2, <3>1 DEF OthersSame
    <3>2. CASE x = p
      <4>1. j \in 1..(n + 1) /\ DOMAIN pools[p].queue = 1..n
        BY <1>1, <1>3, <1>6, <3>2
      <4>2. CASE j = n + 1
        BY <1>1, <1>3, <1>6, <3>2, <4>2
      <4>3. CASE j # n + 1
        BY <1>1, <1>3, <1>6, <3>2, <4>1, <4>3
      <4> QED BY <4>2, <4>3
    <3> QED BY <3>1, <3>2
  <2> HIDE DEF c, n
  <2>2. /\ \A x \in DOMAIN pools : \A j \in DOMAIN pools[x].queue : pools[x].queue[j] # c
        /\ \A t \in Keepers' : auth'[t].lease.conn # c
        /\ \A i \in FdHolders' : fd'.checks[i].lease.conn # c
        /\ \A r \in returns' : r.lease.conn # c
    BY DEF c
  <2>3. \A d \in Conns : Known(d) => KnownAfter(d)
    BY <1>4, StaysKnown DEF Shape
  <2>4. AllKnown'
    <3>1. \A t \in Keepers' : KnownAfter(auth'[t].lease.conn)
      BY <2>3, HeldTypes DEF Hands, AllKnown, AuthKeep
    <3>2. \A i \in FdHolders' : KnownAfter(fd'.checks[i].lease.conn)
      BY <2>3, HeldTypes DEF Hands, AllKnown, FdKeep
    <3>3. \A r \in returns' : KnownAfter(r.lease.conn)
      BY <2>3, HeldTypes DEF Hands, AllKnown
    <3>4. \A x \in DOMAIN pools' : \A j \in DOMAIN pools'[x].queue :
            KnownAfter(pools'[x].queue[j])
      BY <1>1, <2>1, <2>3, HeldTypes DEF Hands, AllKnown
    <3> QED BY <3>1, <3>2, <3>3, <3>4, AllKnownAfter
  <2>5. EachInOneHand'
    BY DEF Hands, EachInOneHand, AuthKeep, FdKeep
  <2>6. OffTheQueues'
    BY <2>1, <2>2 DEF Hands, OffTheQueues, AuthKeep, FdKeep
  <2>7. EachQueuedOnce'
    <3> SUFFICES ASSUME NEW x \in DOMAIN pools', NEW y \in DOMAIN pools',
                        NEW j \in DOMAIN pools'[x].queue, NEW k \in DOMAIN pools'[y].queue,
                        pools'[x].queue[j] = pools'[y].queue[k]
                 PROVE  x = y /\ j = k
      BY DEF EachQueuedOnce
    <3> QED BY <2>1, <2>2 DEF Hands, EachQueuedOnce
  <2>8. IsFiniteSet(returns')
    BY FS_Subset DEF Hands
  <2> QED BY <2>4, <2>5, <2>6, <2>7, <2>8 DEF Hands
<1> QED BY <1>2, <1>5, <1>6

(* Pool p, new or reset, is filled with new connections. *)
Opens(p) ==
    /\ p \in DOMAIN pools'
    /\ p \in DOMAIN pools => pools[p].epoch < pools'[p].epoch
    /\ \A x \in DOMAIN pools' \ {p} : x \in DOMAIN pools /\ pools'[x] = pools[x]
    /\ \A j \in DOMAIN pools'[p].queue :
         /\ pools'[p].queue[j].pool = p
         /\ pools'[p].queue[j].epoch = pools'[p].epoch
         /\ pools'[p].queue[j].place = j

LEMMA HandsOpen ==
    ASSUME Shape, Shape', Hands, PoolsGrow, NEW p, Opens(p), AuthKeep, FdKeep,
           UNCHANGED returns
    PROVE  Hands'
<1>1. ASSUME NEW c \in Conns, Known(c), NEW j \in DOMAIN pools'[p].queue,
             pools'[p].queue[j] = c
      PROVE  FALSE
  <2>1. p \in DOMAIN pools /\ c.epoch <= pools[p].epoch /\ pools[p].epoch < c.epoch
    BY <1>1 DEF Opens, Known, Exists, Shape, PoolsOK
  <2>2. pools[p].epoch \in Nat /\ c.epoch \in Nat
    BY <2>1, PoolOf DEF Shape, Conns
  <2> QED BY <2>1, <2>2
<1>2. \A d \in Conns : Known(d) => KnownAfter(d)
  BY StaysKnown DEF Shape
<1>3. AllKnown'
  <2>1. \A t \in Keepers' : KnownAfter(auth'[t].lease.conn)
    BY <1>2, HeldTypes DEF Hands, AllKnown, AuthKeep
  <2>2. \A i \in FdHolders' : KnownAfter(fd'.checks[i].lease.conn)
    BY <1>2, HeldTypes DEF Hands, AllKnown, FdKeep
  <2>3. \A r \in returns' : KnownAfter(r.lease.conn)
    BY <1>2, HeldTypes DEF Hands, AllKnown
  <2>4. ASSUME NEW x \in DOMAIN pools', NEW j \in DOMAIN pools'[x].queue
        PROVE  KnownAfter(pools'[x].queue[j])
    <3>1. CASE x # p
      BY <1>2, <3>1, HeldTypes DEF Hands, AllKnown, Opens
    <3>2. CASE x = p
      <4>1. p \in 1..Len(pools') /\ pools'[p].epoch \in Nat
        <5>1. pools' \in Seq(Queues) /\ p \in DOMAIN pools'
          BY DEF Opens, Shape, PoolsOK
        <5>2. p \in 1..Len(pools') /\ pools'[p] \in Queues
          BY <5>1
        <5> QED BY <5>2 DEF Queues
      <4> QED BY <3>2, <4>1 DEF Opens, KnownAfter
    <3> QED BY <3>1, <3>2
  <2> QED BY <2>1, <2>2, <2>3, <2>4, AllKnownAfter
<1>4. EachInOneHand'
  BY DEF Hands, EachInOneHand, AuthKeep, FdKeep
<1>5. OffTheQueues'
  <2> SUFFICES ASSUME NEW x \in DOMAIN pools', NEW j \in DOMAIN pools'[x].queue
               PROVE  /\ \A t \in Keepers' : auth'[t].lease.conn # pools'[x].queue[j]
                      /\ \A i \in FdHolders' : fd'.checks[i].lease.conn # pools'[x].queue[j]
                      /\ \A r \in returns' : r.lease.conn # pools'[x].queue[j]
    BY DEF OffTheQueues
  <2>1. CASE x # p
    BY <2>1 DEF Hands, OffTheQueues, AuthKeep, FdKeep, Opens
  <2>2. CASE x = p
    BY <1>1, <2>2, HeldTypes DEF Hands, AllKnown, AuthKeep, FdKeep
  <2> QED BY <2>1, <2>2
<1>6. EachQueuedOnce'
  <2> SUFFICES ASSUME NEW x \in DOMAIN pools', NEW y \in DOMAIN pools',
                      NEW j \in DOMAIN pools'[x].queue, NEW k \in DOMAIN pools'[y].queue,
                      pools'[x].queue[j] = pools'[y].queue[k]
               PROVE  x = y /\ j = k
    BY DEF EachQueuedOnce
  <2>1. CASE x # p /\ y # p
    BY <2>1 DEF Hands, EachQueuedOnce, Opens
  <2>2. CASE x = p /\ y = p
    BY <2>2 DEF Opens
  <2>3. CASE x # p /\ y = p
    <3>1. pools'[x].queue[j] \in Conns /\ Known(pools'[x].queue[j])
      BY <2>3, HeldTypes DEF Opens, Hands, AllKnown
    <3> QED BY <1>1, <2>3, <3>1
  <2>4. CASE x = p /\ y # p
    <3>1. pools'[y].queue[k] \in Conns /\ Known(pools'[y].queue[k])
      BY <2>4, HeldTypes DEF Opens, Hands, AllKnown
    <3> QED BY <1>1, <2>4, <3>1
  <2> QED BY <2>1, <2>2, <2>3, <2>4
<1> QED BY <1>3, <1>4, <1>5, <1>6 DEF Hands

(* Then the actions. *)

LEMMA HandsStill ==
    ASSUME Shape, Shape', Hands, UNCHANGED <<pools, returns>>, AuthKeep, FdKeep
    PROVE  Hands'
<1>1. PoolsGrow
  <2>1. \A p \in DOMAIN pools : pools[p].epoch \in Nat
    BY PoolOf DEF Shape
  <2> QED BY <2>1 DEF PoolsGrow, Shape, PoolsOK
<1>2. QueuesKeep /\ returns' \subseteq returns
  BY DEF QueuesKeep
<1> QED BY <1>1, <1>2, HandsShrink

LEMMA SameHolders ==
    /\ UNCHANGED auth => AuthKeep
    /\ UNCHANGED fd => FdKeep
BY DEF AuthKeep, Keepers, FdKeep, FdHolders

LEMMA ParkedHands ==
    ASSUME Shape, Shape', Hands, NEW p \in DOMAIN pools, NEW a \in Sleepers,
           pools' = [pools EXCEPT ![p] = NotifyWait(@, a)],
           UNCHANGED <<auth, fd, returns>>
    PROVE  Hands'
<1>1. /\ OthersSame(p)
      /\ pools'[p].queue = pools[p].queue /\ pools'[p].epoch = pools[p].epoch
  BY ParkPools DEF Shape
<1>2. \A x \in DOMAIN pools : /\ pools'[x].queue = pools[x].queue
                               /\ pools'[x].epoch = pools[x].epoch
                               /\ pools[x].epoch \in Nat
  BY <1>1, PoolOf DEF OthersSame, Shape
<1>3. PoolsGrow /\ QueuesKeep
  BY <1>1, <1>2 DEF PoolsGrow, QueuesKeep, OthersSame, Shape, PoolsOK
<1> QED BY <1>3, SameHolders, HandsShrink

(* An operation that looks for a server, or marks one, holds nothing. *)
LEMMA AuthAside ==
    ASSUME Shape, NEW t \in AuthTasks, AuthFind(t) \/ AuthFailover(t)
    PROVE  /\ \A s \in AuthTasks \ {t} : auth'[s] = auth[s]
           /\ auth[t].at \notin {"op", "panicked"} /\ auth'[t].at \notin {"op", "panicked"}
<1>1. auth \in [AuthTasks -> Operations]
  BY DEF Shape, AuthOK
<1>2. auth[t].at \notin {"op", "panicked"}
  BY DEF AuthFind, AuthFailover
<1>3. CASE \E r : auth' = [auth EXCEPT ![t].at = "done", ![t].res = r]
  BY <1>1, <1>2, <1>3 DEF Operations
<1>4. CASE \E v, p : auth' = [auth EXCEPT ![t].at = "take", ![t].server = v, ![t].pool = p]
  BY <1>1, <1>2, <1>4 DEF Operations
<1>5. CASE auth' = [auth EXCEPT ![t].at = "find"]
  BY <1>1, <1>2, <1>5 DEF Operations
<1> QED BY <1>3, <1>4, <1>5 DEF AuthFind, AuthFailover

(* One that panics keeps what it held: nothing ever returns it. *)
LEMMA PanicKeeps ==
    ASSUME Shape, NEW t \in AuthTasks, AuthPanic(t)
    PROVE  /\ \A s \in AuthTasks \ {t} : auth'[s] = auth[s]
           /\ auth[t].at = "op" /\ auth'[t].at = "panicked"
           /\ auth'[t].lease = auth[t].lease /\ auth'[t].pool = auth[t].pool
           /\ Keepers' = Keepers
           /\ UNCHANGED <<pools, returns, fd>>
<1>1. auth \in [AuthTasks -> Operations]
  BY DEF Shape, AuthOK
<1>2. auth[t].at = "op" /\ auth' = [auth EXCEPT ![t].at = "panicked"]
      /\ UNCHANGED <<pools, returns, fd>>
  BY DEF AuthPanic, poolVars
<1>3. /\ \A s \in AuthTasks \ {t} : auth'[s] = auth[s]
      /\ auth'[t].at = "panicked"
      /\ auth'[t].lease = auth[t].lease /\ auth'[t].pool = auth[t].pool
  BY <1>1, <1>2 DEF Operations
<1>4. Keepers' = Keepers
  BY <1>2, <1>3 DEF Keepers
<1> QED BY <1>2, <1>3, <1>4

LEMMA AuthHands ==
    ASSUME Shape, Shape', Hands, NEW t \in AuthTasks, AuthStep(t)
    PROVE  Hands'
<1>0. /\ auth \in [AuthTasks -> Operations] /\ AuthInRange(auth[t])
      /\ auth[t] \in Operations
  BY DEF Shape, AuthOK
<1>1. CASE AuthFind(t) \/ AuthFailover(t)
  <2>1. UNCHANGED <<pools, returns, fd>>
    BY <1>1 DEF AuthFind, AuthFailover, poolVars
  <2>2. /\ \A s \in AuthTasks \ {t} : auth'[s] = auth[s]
        /\ auth[t].at \notin {"op", "panicked"} /\ auth'[t].at \notin {"op", "panicked"}
    BY <1>1, AuthAside
  <2>3. AuthKeep
    BY <2>2 DEF AuthKeep, Keepers
  <2> QED BY <2>1, <2>3, SameHolders, HandsStill
<1>2. CASE AuthTake(t)
  <2> DEFINE p == auth[t].pool
             a == <<"auth", t>>
  <2>1. /\ p \in DOMAIN pools /\ a \in Sleepers /\ auth[t].at = "take"
        /\ UNCHANGED <<returns, fd>>
    BY <1>0, <1>2, SleeperKinds DEF AuthTake, AuthInRange, Exists, Shape, PoolsOK
  <2>2. CASE Parks(p, a) /\ UNCHANGED auth
    <3>1. pools' = [pools EXCEPT ![p] = NotifyWait(@, a)]
      BY <2>2 DEF Parks
    <3> HIDE DEF p, a
    <3> QED BY <2>1, <2>2, <3>1, ParkedHands
  <2>3. CASE Takes(p) /\ auth' = [auth EXCEPT ![t].at = "op", ![t].lease = LeaseFrom(p)]
    <3> DEFINE l == LeaseFrom(p)
    <3>1. l.conn = pools[p].queue[1]
      BY <2>1, <2>3, TakePools DEF Shape
    <3>2. auth' = [auth EXCEPT ![t].at = "op", ![t].lease = l]
      BY <2>3
    <3> HIDE DEF l
    <3>3. /\ \A s \in AuthTasks \ {t} : auth'[s] = auth[s]
          /\ auth'[t].lease = l
      BY <1>0, <3>2 DEF Operations
    <3>4. AuthGain(t, pools[p].queue[1])
      BY <3>1, <3>3 DEF AuthGain, Keepers
    <3> QED BY <2>1, <2>3, <3>4, SameHolders, HandsTake
  <2> QED BY <1>2, <2>2, <2>3 DEF AuthTake
<1>3. CASE AuthOp(t)
  <2> DEFINE b == [pool |-> auth[t].pool, lease |-> auth[t].lease]
             c == auth[t].lease.conn
  <2>1. /\ UNCHANGED <<pools, fd>> /\ returns' = returns \cup {b} /\ auth[t].at = "op"
    BY <1>3 DEF AuthOp, poolVars
  <2>2. /\ \A s \in AuthTasks \ {t} : auth'[s] = auth[s]
        /\ auth'[t].at \notin {"op", "panicked"}
    BY <1>0, <1>3 DEF AuthOp, Operations
  <2>3. b.lease.conn = c /\ t \in Keepers
    BY <2>1 DEF Keepers
  <2> HIDE DEF b, c
  <2>4. \A s \in Keepers' : /\ s \in Keepers /\ s # t
                                /\ auth'[s].lease.conn = auth[s].lease.conn
    BY <2>2 DEF Keepers
  <2>5. c = auth[t].lease.conn
    BY DEF c
  <2>6. FdHolders' = FdHolders /\ UNCHANGED fd
    BY <2>1 DEF FdHolders
  <2>7. AllKnown'
    <3>1. \A d : Known(d) => KnownAfter(d)
      BY <2>1 DEF Known, KnownAfter, Exists
    <3>2. \A s \in Keepers' : KnownAfter(auth'[s].lease.conn)
      BY <2>4, <3>1 DEF Hands, AllKnown
    <3>3. \A i \in FdHolders' : KnownAfter(fd'.checks[i].lease.conn)
      BY <2>6, <3>1 DEF Hands, AllKnown
    <3>4. \A r \in returns' : KnownAfter(r.lease.conn)
      BY <2>1, <2>3, <2>5, <3>1 DEF Hands, AllKnown
    <3>5. \A x \in DOMAIN pools' : \A j \in DOMAIN pools'[x].queue :
            KnownAfter(pools'[x].queue[j])
      BY <2>1, <3>1 DEF Hands, AllKnown
    <3> QED BY <3>2, <3>3, <3>4, <3>5, AllKnownAfter
  <2>8. EachInOneHand'
    BY <2>1, <2>3, <2>4, <2>5, <2>6 DEF Hands, EachInOneHand
  <2>9. OffTheQueues'
    BY <2>1, <2>3, <2>4, <2>5, <2>6 DEF Hands, OffTheQueues
  <2>10. EachQueuedOnce'
    BY <2>1 DEF Hands, EachQueuedOnce
  <2>11. IsFiniteSet(returns')
    BY <2>1, FS_AddElement DEF Hands
  <2> QED BY <2>7, <2>8, <2>9, <2>10, <2>11 DEF Hands
<1>4. CASE AuthPanic(t)
  <2>1. /\ \A s \in AuthTasks \ {t} : auth'[s] = auth[s]
        /\ auth'[t].lease = auth[t].lease /\ Keepers' = Keepers
        /\ UNCHANGED <<pools, returns, fd>>
    BY <1>4, PanicKeeps
  <2>2. AuthKeep
    BY <2>1 DEF AuthKeep, Keepers
  <2> QED BY <2>1, <2>2, SameHolders, HandsStill
<1> QED BY <1>1, <1>2, <1>3, <1>4 DEF AuthStep

LEMMA SpawnedReturnHands ==
    ASSUME Shape, Shape', Hands, NEW r \in returns, SpawnedReturn(r)
    PROVE  Hands'
<1> DEFINE l == r.lease
<1>1. /\ r.pool \in DOMAIN pools /\ l \in AnyLease
  BY DEF Shape, ReturnsOK, Exists, PoolsOK
<1>2. /\ pools' = [pools EXCEPT ![r.pool] = ReturnConnection(@, l)]
      /\ returns' = returns \ {r} /\ UNCHANGED <<auth, fd>>
  BY DEF SpawnedReturn
<1>3. /\ AuthKeep /\ FdKeep /\ Keepers' = Keepers /\ FdHolders' = FdHolders
  BY <1>2, SameHolders DEF Keepers, FdHolders
<1>4. /\ Known(l.conn)
      /\ \A x \in DOMAIN pools : \A j \in DOMAIN pools[x].queue : pools[x].queue[j] # l.conn
  BY DEF Hands, AllKnown, OffTheQueues
<1>5. /\ \A t \in Keepers' : auth'[t].lease.conn # l.conn
      /\ \A i \in FdHolders' : fd'.checks[i].lease.conn # l.conn
      /\ \A q \in returns' : q.lease.conn # l.conn
  BY <1>2, <1>3 DEF Hands, EachInOneHand
<1> HIDE DEF l
<1> QED BY <1>1, <1>2, <1>3, <1>4, <1>5, HandsPut

LEMMA ShutdownHands ==
    ASSUME Shape, Shape', Hands, NEW k \in DOMAIN shutdowns, ShutdownStep(k)
    PROVE  Hands'
<1> DEFINE p == Head(shutdowns[k])
           a == <<"shutdown", k>>
<1>1. /\ p \in DOMAIN pools /\ a \in Sleepers /\ UNCHANGED <<auth, fd, returns>>
  BY ShutdownAt, SleeperKinds DEF ShutdownStep
<1>2. CASE pools' = [pools EXCEPT ![p] = NotifyWait(@, a)]
  <2> HIDE DEF p, a
  <2> QED BY <1>1, <1>2, ParkedHands
<1>3. CASE pools' = [pools EXCEPT ![p] = CloseConnections(@)]
  <2> HIDE DEF p
  <2>1. /\ OthersSame(p) /\ pools'[p].queue = <<>> /\ pools'[p].epoch = pools[p].epoch
    BY <1>1, <1>3, ClosePools DEF Shape
  <2>2. \A x \in DOMAIN pools : /\ pools'[x].epoch = pools[x].epoch
                                 /\ pools[x].epoch \in Nat
    BY <2>1, PoolOf DEF OthersSame, Shape
  <2>3. PoolsGrow
    BY <2>1, <2>2 DEF PoolsGrow, OthersSame, Shape, PoolsOK
  <2>4. QueuesKeep
    BY <2>1 DEF QueuesKeep, OthersSame
  <2> QED BY <1>1, <2>3, <2>4, SameHolders, HandsShrink
<1> QED BY <1>2, <1>3 DEF ShutdownStep

(* A reset opens new connections, or leaves an empty queue. *)
LEMMA RefreshedHands ==
    ASSUME Shape, Shape', Hands, NEW p \in DOMAIN pools, NEW n \in PoolSizes,
           NEW ok \in BOOLEAN, pools' = [pools EXCEPT ![p] = Refreshed(p, n, ok)],
           AuthKeep, FdKeep, UNCHANGED returns
    PROVE  Hands'
<1> DEFINE o == Fresh(p, pool_server[p].url, pools[p].epoch + 1, n, ok)
           e == pools[p].epoch + 1
<1>1. /\ OthersSame(p) /\ pools'[p].epoch = e /\ pools'[p].queue = o
      /\ ok => /\ Len(o) = n
               /\ \A j \in 1..n : o[j] = [pool |-> p, epoch |-> e, place |-> j,
                                          life |-> life[pool_server[p].url]]
      /\ ~ok => o = <<>>
  <2>1. PoolsOK /\ ListsOK /\ life \in [Urls -> Nat]
    BY DEF Shape, EnvOK
  <2> QED BY <2>1, RefreshPools, Zenon
<1>2. \A x \in DOMAIN pools : pools[x].epoch \in Nat
  BY PoolOf DEF Shape
<1>3. \A j \in DOMAIN pools'[p].queue : /\ pools'[p].queue[j].pool = p
                                        /\ pools'[p].queue[j].epoch = e
                                        /\ pools'[p].queue[j].place = j
  <2>1. CASE ok
    <3>1. pools'[p].queue \in Seq(Conns) /\ n \in Nat
      <4>1. pools'[p] \in Queues
        BY <1>1 DEF OthersSame, PoolsOK
      <4> QED BY <4>1, ContextAssumption DEF Queues
    <3>2. DOMAIN pools'[p].queue = 1..Len(pools'[p].queue)
      BY <3>1
    <3> HIDE DEF o, e
    <3>3. DOMAIN o = 1..n /\ pools'[p].queue = o
      BY <1>1, <2>1, <3>2
    <3>4. \A j \in 1..n : o[j].pool = p /\ o[j].epoch = e /\ o[j].place = j
      BY <1>1, <2>1
    <3> QED BY <3>3, <3>4
  <2>2. CASE ~ok
    BY <1>1, <2>2
  <2> QED BY <2>1, <2>2
<1>4. pools[p].epoch < e /\ pools[p].epoch <= e
  BY <1>2
<1> HIDE DEF e, o
<1>5. Opens(p)
  BY <1>1, <1>3, <1>4 DEF Opens, OthersSame
<1>6. PoolsGrow
  <2>1. \A x \in DOMAIN pools : pools[x].epoch <= pools'[x].epoch
    BY <1>1, <1>2, <1>4 DEF OthersSame
  <2> QED BY <1>1, <2>1 DEF PoolsGrow, OthersSame, Shape, PoolsOK
<1> QED BY <1>5, <1>6, HandsOpen

LEMMA MainHands ==
    ASSUME Shape, Shape', Hands,
           \/ \E list \in ServerLists : SetServerList(list)
           \/ \E n \in PoolSizes : SetPoolSize(n)
           \/ MainStep
    PROVE  Hands'
<1>1. UNCHANGED <<auth, fd, returns>>
  BY DEF SetServerList, SetPoolSize, MainStep, CreatePool, AddServer, ServerListDone,
         RefreshPool, RefreshStatus, RefreshDone
<1>2. AuthKeep /\ FdKeep
  BY <1>1, SameHolders
<1>3. CASE UNCHANGED pools
  BY <1>1, <1>2, <1>3, HandsStill
<1>4. CASE CreatePool
  <2>1. PICK u \in Urls, ok \in BOOLEAN :
           pools' = Append(pools, NewPool(Len(pools) + 1, u, ok))
    BY <1>4, CreatePoolFacts
  <2> DEFINE p == Len(pools) + 1
             q == NewPool(p, u, ok)
  <2>2. p \in Nat /\ life \in [Urls -> Nat] /\ pool_size \in PoolSizes
    BY DEF Shape, PoolsOK, EnvOK, ListsOK
  <2>3. /\ q \in Queues /\ q.epoch = 1
        /\ \A j \in DOMAIN q.queue :
             q.queue[j].pool = p /\ q.queue[j].epoch = 1 /\ q.queue[j].place = j
    <3> HIDE DEF p
    <3> QED BY <2>2, NewPoolFacts
  <2>4. pools' = Append(pools, q) /\ p = Len(pools) + 1 /\ p \notin DOMAIN pools
    BY <2>1 DEF Shape, PoolsOK
  <2> HIDE DEF p, q
  <2>5. /\ Len(pools') = p /\ DOMAIN pools' = DOMAIN pools \cup {p}
        /\ \A x \in DOMAIN pools : pools'[x] = pools[x]
        /\ pools'[p] = q
    BY <2>3, <2>4, Grown DEF Shape
  <2>6. Opens(p)
    BY <2>3, <2>4, <2>5 DEF Opens
  <2>7. \A x \in DOMAIN pools : pools[x].epoch \in Nat
    BY PoolOf DEF Shape
  <2>8. PoolsGrow
    BY <2>4, <2>5, <2>7 DEF PoolsGrow, Shape, PoolsOK
  <2> QED BY <1>1, <1>2, <2>6, <2>8, HandsOpen
<1>5. CASE RefreshPool
  <2>1. PICK ok \in BOOLEAN :
          LET s == Head(main.todo)
              p == conn_pools[s.id + 1]
          IN  /\ p \in DOMAIN pools
              /\ pools' = [pools EXCEPT ![p] = Refreshed(p, pool_size, ok)]
    BY <1>5, RefreshPoolFacts
  <2> DEFINE p == conn_pools[Head(main.todo).id + 1]
  <2>2. p \in DOMAIN pools /\ pools' = [pools EXCEPT ![p] = Refreshed(p, pool_size, ok)]
    BY <2>1
  <2>3. pool_size \in PoolSizes
    BY DEF Shape, ListsOK
  <2> HIDE DEF p
  <2> QED BY <1>1, <1>2, <2>2, <2>3, RefreshedHands
<1> QED BY <1>3, <1>4, <1>5 DEF SetServerList, SetPoolSize, MainStep, AddServer,
             ServerListDone, RefreshStatus, RefreshDone, poolVars

(* What a step of check i does to the checks. *)
CheckBecomes(i, d) ==
    /\ fd'.at = fd.at /\ DOMAIN fd'.checks = DOMAIN fd.checks /\ fd'.checks[i] = d
    /\ \A h \in DOMAIN fd.checks \ {i} : fd'.checks[h] = fd.checks[h]

LEMMA CheckSet ==
    ASSUME DetectorOK, NEW i \in DOMAIN fd.checks, NEW d,
           fd' = [fd EXCEPT !.checks[i] = d]
    PROVE  CheckBecomes(i, d)
BY DEF DetectorOK, CheckBecomes

LEMMA LookupStep ==
    ASSUME Shape, NEW i \in DOMAIN fd.checks, FdLookup(i)
    PROVE  \E d : /\ CheckBecomes(i, d) /\ d.server = fd.checks[i].server
                  /\ <<fd.checks[i].at, d.at>> \in
                       {<<"lookup", "take">>, <<"lookupReturn", "return">>,
                        <<"lookupRefresh", "refresh">>}
                  /\ d.pool = conn_pools[i] /\ i \in DOMAIN conn_pools
                  /\ d.lease = fd.checks[i].lease /\ d.ok = fd.checks[i].ok
<1> DEFINE c == fd.checks[i]
<1>1. c \in HealthChecks /\ i \in Nat /\ c.server.id = i - 1 /\ c.server \in Servers
  BY CheckOf DEF Shape
<1>2. PICK step \in {<<"lookup", "take">>, <<"lookupReturn", "return">>,
                       <<"lookupRefresh", "refresh">>} :
        /\ c.at = step[1]
        /\ fd' = [fd EXCEPT !.checks[i].at = step[2],
                            !.checks[i].pool = GetConnectionPool(c.server),
                            !.checks[i].size = pool_size]
  BY DEF FdLookup
<1> DEFINE d == [c EXCEPT !.at = step[2], !.pool = conn_pools[i], !.size = pool_size]
<1>3. GetConnectionPool(c.server) = conn_pools[i] /\ i \in DOMAIN conn_pools
  BY <1>1, LookupFacts DEF FdLookup, Shape, GetConnectionPool
<1>4. fd' = [fd EXCEPT !.checks[i] = d]
  BY <1>2, <1>3
<1>5. CheckBecomes(i, d)
  <2> HIDE DEF d
  <2> QED BY <1>4, CheckSet DEF Shape
<1>6. /\ d.at = step[2] /\ d.pool = conn_pools[i] /\ d.lease = c.lease /\ d.ok = c.ok
      /\ d.server = c.server
  <2> HIDE DEF c
  <2> QED BY <1>1 DEF HealthChecks
<1>7. <<c.at, d.at>> \in {<<"lookup", "take">>, <<"lookupReturn", "return">>,
                          <<"lookupRefresh", "refresh">>}
  <2> HIDE DEF c, d
  <2> QED BY <1>2, <1>6
<1> HIDE DEF d
<1> QED BY <1>3, <1>5, <1>6, <1>7

LEMMA FdTakesStep ==
    ASSUME Shape, NEW i \in DOMAIN fd.checks, NEW p,
           fd' = [fd EXCEPT !.checks[i].at = "ping", !.checks[i].lease = LeaseFrom(p)]
    PROVE  \E d : /\ CheckBecomes(i, d) /\ d.server = fd.checks[i].server
                  /\ d.at = "ping" /\ d.lease = LeaseFrom(p)
<1> DEFINE c == fd.checks[i]
           l == LeaseFrom(p)
           d == [c EXCEPT !.at = "ping", !.lease = l]
<1>1. c \in HealthChecks
  BY CheckOf DEF Shape
<1>2. fd' = [fd EXCEPT !.checks[i] = d]
  OBVIOUS
<1>3. CheckBecomes(i, d)
  <2> HIDE DEF d
  <2> QED BY <1>2, CheckSet DEF Shape
<1>4. d.server = c.server /\ d.at = "ping" /\ d.lease = l
  <2> HIDE DEF c, l
  <2> QED BY <1>1 DEF HealthChecks
<1> HIDE DEF d
<1> QED BY <1>3, <1>4

LEMMA PingStep ==
    ASSUME Shape, NEW i \in DOMAIN fd.checks, FdPing(i)
    PROVE  \E d : /\ CheckBecomes(i, d) /\ d.server = fd.checks[i].server
                  /\ fd.checks[i].at = "ping"
                  /\ d.at = "lookupReturn" /\ d.lease = fd.checks[i].lease
<1> DEFINE c == fd.checks[i]
<1>1. c \in HealthChecks /\ c.at = "ping"
  BY CheckOf DEF Shape, FdPing
<1> DEFINE h == PingSucceeds(UrlOf(c.lease.conn), c.lease.conn)
<1> DEFINE d == [c EXCEPT !.at = "lookupReturn", !.ok = h]
<1>2. fd' = [fd EXCEPT !.checks[i] = d]
  BY DEF FdPing
<1>3. CheckBecomes(i, d)
  <2> HIDE DEF d
  <2> QED BY <1>2, CheckSet DEF Shape
<1>4. d.server = c.server /\ d.at = "lookupReturn" /\ d.lease = c.lease
  <2> HIDE DEF c, h
  <2> QED BY <1>1 DEF HealthChecks
<1> HIDE DEF d
<1> QED BY <1>1, <1>3, <1>4

LEMMA ReturnStep ==
    ASSUME Shape, NEW i \in DOMAIN fd.checks, FdReturn(i)
    PROVE  \E d : /\ CheckBecomes(i, d) /\ d.server = fd.checks[i].server
                  /\ fd.checks[i].at = "return"
                  /\ d.at = "status" /\ d.ok = fd.checks[i].ok
<1> DEFINE c == fd.checks[i]
<1>1. c \in HealthChecks /\ c.at = "return"
  BY CheckOf DEF Shape, FdReturn
<1> DEFINE d == [c EXCEPT !.at = "status", !.lease = NoLease]
<1>2. fd' = [fd EXCEPT !.checks[i] = d]
  BY DEF FdReturn
<1>3. CheckBecomes(i, d)
  <2> HIDE DEF d
  <2> QED BY <1>2, CheckSet DEF Shape
<1>4. d.server = c.server /\ d.at = "status" /\ d.ok = c.ok
  <2> HIDE DEF c
  <2> QED BY <1>1 DEF HealthChecks
<1> HIDE DEF d
<1> QED BY <1>1, <1>3, <1>4

LEMMA ConnectStep ==
    ASSUME Shape, NEW i \in DOMAIN fd.checks, FdConnect(i)
    PROVE  \E d : /\ CheckBecomes(i, d) /\ d.server = fd.checks[i].server
                  /\ fd.checks[i].at = "connect"
                  /\ d.at \in {"pingNew", "status"}
                  /\ d.at = "status" => ~d.ok
<1> DEFINE c == fd.checks[i]
<1>1. c \in HealthChecks /\ c.at = "connect"
  BY CheckOf DEF Shape, FdConnect
<1>2. PICK ok \in BOOLEAN :
         fd' = [fd EXCEPT !.checks[i].at = IF ok THEN "pingNew" ELSE "status",
                          !.checks[i].lease = Unpooled(fd.checks[i].server.url),
                          !.checks[i].ok = ok]
  <2>1. c.server.url \in Urls
    BY <1>1 DEF HealthChecks, Servers
  <2>2. Connects(c.server.url) \subseteq BOOLEAN
    BY <2>1, ConnectsType DEF Shape
  <2> QED BY <2>2 DEF FdConnect
<1> DEFINE l == Unpooled(c.server.url)
<1>3. PICK a \in {"pingNew", "status"} :
               /\ a = "status" => ~ok
               /\ fd' = [fd EXCEPT !.checks[i].at = a, !.checks[i].lease = l,
                                   !.checks[i].ok = ok]
  BY <1>2
<1> DEFINE d == [c EXCEPT !.at = a, !.lease = l, !.ok = ok]
<1>4. fd' = [fd EXCEPT !.checks[i] = d]
  BY <1>3
<1>5. CheckBecomes(i, d)
  <2> HIDE DEF d
  <2> QED BY <1>4, CheckSet DEF Shape
<1>6. d.server = c.server /\ d.at = a /\ d.ok = ok
  <2> HIDE DEF c, l
  <2> QED BY <1>1 DEF HealthChecks
<1>7. d.at \in {"pingNew", "status"} /\ (d.at = "status" => ~d.ok)
  <2> HIDE DEF d
  <2> QED BY <1>3, <1>6
<1> HIDE DEF d
<1> QED BY <1>1, <1>5, <1>6, <1>7

LEMMA PingNewStep ==
    ASSUME Shape, NEW i \in DOMAIN fd.checks, FdPingNew(i)
    PROVE  \E d : /\ CheckBecomes(i, d) /\ d.server = fd.checks[i].server
                  /\ fd.checks[i].at = "pingNew"
                  /\ d.at \in {"lookupRefresh", "done"}
<1> DEFINE c == fd.checks[i]
<1>1. c \in HealthChecks /\ c.at = "pingNew"
  BY CheckOf DEF Shape, FdPingNew
<1> DEFINE h == PingSucceeds(c.server.url, c.lease.conn)
<1> DEFINE d == [c EXCEPT !.at = IF h THEN "lookupRefresh" ELSE "done",
                         !.lease = NoLease]
<1>2. fd' = [fd EXCEPT !.checks[i] = d]
  BY DEF FdPingNew
<1>3. CheckBecomes(i, d)
  <2> HIDE DEF d
  <2> QED BY <1>2, CheckSet DEF Shape
<1>4. d.server = c.server /\ d.at \in {"lookupRefresh", "done"}
  <2> HIDE DEF c, h
  <2> QED BY <1>1 DEF HealthChecks
<1> HIDE DEF d
<1> QED BY <1>1, <1>3, <1>4

LEMMA RefreshStep ==
    ASSUME Shape, NEW i \in DOMAIN fd.checks, FdRefresh(i)
    PROVE  \E d : \E ok \in BOOLEAN :
             LET p == fd.checks[i].pool
             IN  /\ CheckBecomes(i, d) /\ d.server = fd.checks[i].server
                 /\ fd.checks[i].at = "refresh" /\ d.at = "status" /\ d.ok = ok
                 /\ p \in DOMAIN pools /\ fd.checks[i].size \in PoolSizes
                 /\ pools' = [pools EXCEPT ![p] = Refreshed(p, fd.checks[i].size, ok)]
<1> DEFINE c == fd.checks[i]
           p == c.pool
<1>1. /\ c \in HealthChecks /\ c.at = "refresh" /\ p \in DOMAIN pools
      /\ c.size \in PoolSizes
  BY CheckOf DEF Shape, FdRefresh, CheckInRange, Exists, PoolsOK
<1>2. Connects(pool_server[p].url) \subseteq BOOLEAN
  BY <1>1, ServerOf, ConnectsType DEF Shape
<1>3. PICK ok \in BOOLEAN :
        /\ pools' = [pools EXCEPT ![p] = Refreshed(p, c.size, ok)]
        /\ fd' = [fd EXCEPT !.checks[i].at = "status", !.checks[i].ok = ok]
  BY <1>2 DEF FdRefresh
<1> DEFINE d == [c EXCEPT !.at = "status", !.ok = ok]
<1>4. fd' = [fd EXCEPT !.checks[i] = d]
  BY <1>3
<1>5. CheckBecomes(i, d)
  <2> HIDE DEF d
  <2> QED BY <1>4, CheckSet DEF Shape
<1>6. d.server = c.server /\ d.at = "status" /\ d.ok = ok
  <2> HIDE DEF c
  <2> QED BY <1>1 DEF HealthChecks
<1> HIDE DEF d
<1> QED BY <1>1, <1>3, <1>5, <1>6

LEMMA StatusStep ==
    ASSUME Shape, NEW i \in DOMAIN fd.checks, FdStatus(i)
    PROVE  \E d : /\ CheckBecomes(i, d) /\ d.server = fd.checks[i].server
                  /\ fd.checks[i].at = "status"
                  /\ d.at = "done"
<1> DEFINE c == fd.checks[i]
<1>1. c \in HealthChecks /\ c.at = "status"
  BY CheckOf DEF Shape, FdStatus
<1> DEFINE d == [c EXCEPT !.at = "done"]
<1>2. fd' = [fd EXCEPT !.checks[i] = d]
  BY DEF FdStatus
<1>3. CheckBecomes(i, d)
  <2> HIDE DEF d
  <2> QED BY <1>2, CheckSet DEF Shape
<1>4. d.server = c.server /\ d.at = "done"
  <2> HIDE DEF c
  <2> QED BY <1>1 DEF HealthChecks
<1> HIDE DEF d
<1> QED BY <1>1, <1>3, <1>4

LEMMA CheckKeeps ==
    ASSUME NEW i \in DOMAIN fd.checks, NEW d, CheckBecomes(i, d),
           d.at \in {"ping", "lookupReturn", "return"} =>
             /\ fd.checks[i].at \in {"ping", "lookupReturn", "return"}
             /\ d.lease = fd.checks[i].lease
    PROVE  FdKeep
BY DEF CheckBecomes, FdKeep, FdHolders

LEMMA CheckHands ==
    ASSUME Shape, Shape', Hands, NEW i \in DOMAIN fd.checks, CheckServerHealth(i)
    PROVE  Hands'
<1> DEFINE c == fd.checks[i]
<1>0. UNCHANGED <<returns, auth>>
  BY DEF CheckServerHealth, FdPanic, FdLookup, FdTake, FdPing, FdReturn, FdConnect,
         FdPingNew, FdRefresh, FdStatus
<1>1. AuthKeep
  BY <1>0, SameHolders
<1>2. CASE FdPanic(i)
  <2>1. /\ Len(pools') = Len(pools) /\ DOMAIN pools' = DOMAIN pools
        /\ \A p \in DOMAIN pools : /\ pools'[p].queue = pools[p].queue
                                   /\ pools'[p].epoch = pools[p].epoch
    BY <1>2, FdPanicPools DEF Shape
  <2>2. \A p \in DOMAIN pools : pools[p].epoch \in Nat
    BY PoolOf DEF Shape
  <2>3. PoolsGrow /\ QueuesKeep
    BY <2>1, <2>2 DEF PoolsGrow, QueuesKeep, Shape, PoolsOK
  <2>4. FdKeep
    BY <1>2 DEF FdPanic, FdKeep, FdHolders
  <2> QED BY <1>0, <1>1, <2>3, <2>4, HandsShrink
<1>3. CASE FdLookup(i)
  <2>1. FdKeep
    BY <1>3, LookupStep, CheckKeeps
  <2> QED BY <1>0, <1>1, <1>3, <2>1, HandsStill DEF FdLookup, poolVars
<1>4. CASE FdTake(i)
  <2> DEFINE p == c.pool
             a == <<"fd", i>>
  <2>1. p \in DOMAIN pools /\ a \in Sleepers
    BY <1>4, CheckOf, SleeperKinds DEF Shape, FdTake, CheckInRange, Exists, PoolsOK
  <2>2. CASE Parks(p, a) /\ UNCHANGED fd
    <3>1. pools' = [pools EXCEPT ![p] = NotifyWait(@, a)]
      BY <2>2 DEF Parks
    <3> HIDE DEF p, a
    <3> QED BY <1>0, <2>1, <2>2, <3>1, ParkedHands
  <2>3. CASE /\ Takes(p)
             /\ fd' = [fd EXCEPT !.checks[i].at = "ping", !.checks[i].lease = LeaseFrom(p)]
    <3>1. LeaseFrom(p).conn = pools[p].queue[1]
      BY <2>1, <2>3, TakePools DEF Shape
    <3>2. PICK d : CheckBecomes(i, d) /\ d.lease = LeaseFrom(p)
      <4> HIDE DEF p
      <4> QED BY <2>3, FdTakesStep
    <3> HIDE DEF p
    <3>3. FdGain(i, pools[p].queue[1])
      BY <3>1, <3>2 DEF FdGain, CheckBecomes, FdHolders
    <3> QED BY <1>0, <1>1, <2>1, <2>3, <3>3, HandsTake
  <2> QED BY <1>4, <2>2, <2>3 DEF FdTake
<1>5. CASE FdPing(i)
  <2>1. FdKeep
    BY <1>5, PingStep, CheckKeeps
  <2> QED BY <1>0, <1>1, <1>5, <2>1, HandsStill DEF FdPing, poolVars
<1>6. CASE FdReturn(i)
  <2> DEFINE p == c.pool
             l == c.lease
  <2>1. /\ p \in DOMAIN pools /\ l \in AnyLease /\ c.at = "return"
        /\ pools' = [pools EXCEPT ![p] = ReturnConnection(@, l)]
    <3>1. c.at = "return" /\ pools' = [pools EXCEPT ![p] = ReturnConnection(@, l)]
      BY <1>6 DEF FdReturn
    <3>2. CheckInRange(c) /\ l \in AnyLease
      BY CheckOf DEF Shape
    <3>3. Exists(p)
      BY <3>1, <3>2 DEF CheckInRange
    <3>4. p \in DOMAIN pools
      BY <3>3 DEF Exists, Shape, PoolsOK
    <3> QED BY <3>1, <3>2, <3>4
  <2>2. i \in FdHolders
    BY <2>1 DEF FdHolders
  <2>3. PICK d : CheckBecomes(i, d) /\ d.at = "status"
    BY <1>6, ReturnStep
  <2>4. \A h \in FdHolders' : /\ h \in FdHolders /\ h # i
                              /\ fd'.checks[h] = fd.checks[h]
    BY <2>3 DEF CheckBecomes, FdHolders
  <2>5. Keepers' = Keepers /\ FdKeep
    BY <1>0, <2>4 DEF Keepers, FdKeep
  <2>6. /\ Known(l.conn)
        /\ \A x \in DOMAIN pools : \A j \in DOMAIN pools[x].queue :
             pools[x].queue[j] # l.conn
    BY <2>2 DEF Hands, AllKnown, OffTheQueues
  <2>7. /\ \A t \in Keepers' : auth'[t].lease.conn # l.conn
        /\ \A h \in FdHolders' : fd'.checks[h].lease.conn # l.conn
        /\ \A r \in returns' : r.lease.conn # l.conn
    BY <1>0, <2>2, <2>4, <2>5 DEF Hands, EachInOneHand
  <2> HIDE DEF l, p
  <2> QED BY <1>0, <1>1, <2>1, <2>5, <2>6, <2>7, HandsPut
<1>7. CASE FdConnect(i)
  <2>1. FdKeep
    BY <1>7, ConnectStep, CheckKeeps
  <2> QED BY <1>0, <1>1, <1>7, <2>1, HandsStill DEF FdConnect, poolVars
<1>8. CASE FdPingNew(i)
  <2>1. FdKeep
    BY <1>8, PingNewStep, CheckKeeps
  <2> QED BY <1>0, <1>1, <1>8, <2>1, HandsStill DEF FdPingNew, poolVars
<1>9. CASE FdRefresh(i)
  <2> DEFINE p == c.pool
             n == c.size
  <2>1. PICK d : \E ok \in BOOLEAN :
           /\ CheckBecomes(i, d) /\ d.at = "status"
           /\ p \in DOMAIN pools /\ n \in PoolSizes
           /\ pools' = [pools EXCEPT ![p] = Refreshed(p, n, ok)]
    BY <1>9, RefreshStep
  <2>2. PICK ok \in BOOLEAN : pools' = [pools EXCEPT ![p] = Refreshed(p, n, ok)]
    BY <2>1
  <2>3. FdKeep
    BY <2>1, CheckKeeps
  <2> HIDE DEF p, n
  <2> QED BY <1>0, <1>1, <2>1, <2>2, <2>3, RefreshedHands
<1>10. CASE FdStatus(i)
  <2>1. FdKeep
    BY <1>10, StatusStep, CheckKeeps
  <2> QED BY <1>0, <1>1, <1>10, <2>1, HandsStill DEF FdStatus, poolVars
<1> QED BY <1>2, <1>3, <1>4, <1>5, <1>6, <1>7, <1>8, <1>9, <1>10 DEF CheckServerHealth

LEMMA InitHands == Init => Hands
<1> SUFFICES ASSUME Init PROVE Hands
  OBVIOUS
<1>1. Keepers = {} /\ FdHolders = {} /\ returns = {}
  BY DEF Init, Keepers, FdHolders
<1>2. DOMAIN pools = 1..Len(FirstList)
  BY FirstPools
<1>3. ASSUME NEW p \in DOMAIN pools, NEW j \in DOMAIN pools[p].queue
      PROVE  /\ pools[p].queue[j].pool = p /\ pools[p].queue[j].epoch = 1
             /\ pools[p].queue[j].place = j /\ pools[p].epoch = 1
  <2>1. /\ pools[p].queue[j] = [pool |-> p, epoch |-> 1, place |-> j, life |-> 0]
        /\ pools[p].epoch = 1
    BY <1>2, FirstPools
  <2> QED BY <2>1
<1>4. AllKnown
  <2>1. ASSUME NEW p \in DOMAIN pools, NEW j \in DOMAIN pools[p].queue
        PROVE  Known(pools[p].queue[j])
    <3>1. p \in 1..Len(pools)
      BY <1>2, FirstPools
    <3> QED BY <1>3, <3>1 DEF Known, Exists
  <2> QED BY <1>1, <2>1 DEF AllKnown
<1>5. EachInOneHand /\ OffTheQueues /\ IsFiniteSet(returns)
  BY <1>1, FS_EmptySet DEF EachInOneHand, OffTheQueues
<1>6. EachQueuedOnce
  <2> SUFFICES ASSUME NEW x \in DOMAIN pools, NEW y \in DOMAIN pools,
                      NEW j \in DOMAIN pools[x].queue, NEW k \in DOMAIN pools[y].queue,
                      pools[x].queue[j] = pools[y].queue[k]
               PROVE  x = y /\ j = k
    BY DEF EachQueuedOnce
  <2>1. /\ pools[x].queue[j].pool = x /\ pools[y].queue[k].pool = y
        /\ pools[x].queue[j].place = j /\ pools[y].queue[k].place = k
    BY <1>3
  <2> QED BY <2>1
<1> QED BY <1>4, <1>5, <1>6 DEF Hands

LEMMA NextHands == Shape /\ Shape' /\ Hands /\ [Next]_vars => Hands'
<1> SUFFICES ASSUME Shape, Shape', Hands, [Next]_vars PROVE Hands'
  OBVIOUS
<1>1. CASE UNCHANGED vars
  BY <1>1, SameHolders, HandsStill DEF vars
<1>2. CASE \/ \E list \in ServerLists : SetServerList(list)
           \/ \E n \in PoolSizes : SetPoolSize(n)
           \/ MainStep
  BY <1>2, MainHands
<1>3. CASE \E t \in AuthTasks : AuthStep(t)
  BY <1>3, AuthHands
<1>4. CASE \E r \in returns : SpawnedReturn(r)
  BY <1>4, SpawnedReturnHands
<1>5. CASE \E k \in DOMAIN shutdowns : ShutdownStep(k)
  BY <1>5, ShutdownHands
<1>6. CASE FdStart \/ FdEnd
  <2>1. UNCHANGED <<pools, returns, auth>>
    BY <1>6 DEF FdStart, FdEnd, poolVars
  <2>2. FdHolders' = {}
    BY <1>6 DEF FdStart, FdEnd, FdHolders, Check
  <2>3. AuthKeep /\ FdKeep
    BY <2>1, <2>2, SameHolders DEF FdKeep
  <2> QED BY <2>1, <2>3, HandsStill
<1>7. CASE \E i \in DOMAIN fd.checks : CheckServerHealth(i)
  BY <1>7, CheckHands
<1>8. CASE \E u \in Urls : ComeBack(u) \/ \E m \in FailureModes : Fail(u, m)
  <2>1. UNCHANGED <<pools, returns, auth, fd>>
    BY <1>8 DEF ComeBack, Fail, poolVars
  <2> QED BY <2>1, SameHolders, HandsStill
<1> QED BY <1>1, <1>2, <1>3, <1>4, <1>5, <1>6, <1>7, <1>8 DEF Next

LEMMA HandsHolds == Spec => [](Shape /\ Hands)
<1>1. Shape /\ Hands /\ [Next]_vars => Shape' /\ Hands'
  BY NextShape, NextHands
<1> QED BY <1>1, InitShape, InitHands, PTL DEF Spec

LEMMA DistinctImage ==
    ASSUME NEW S, IsFiniteSet(S), NEW f, f = [x \in S |-> f[x]],
           \A x, y \in S : f[x] = f[y] => x = y
    PROVE  LET T == {f[x] : x \in S}
           IN  IsFiniteSet(T) /\ Cardinality(T) = Cardinality(S)
<1> DEFINE T == {f[x] : x \in S}
<1>1. f \in Bijection(S, T)
  BY DEF Bijection, Injection, Surjection, IsInjective
<1>2. ExistsBijection(S, T)
  BY <1>1 DEF ExistsBijection
<1> QED BY <1>2, FS_Bijection

LEMMA DisjointUnion ==
    ASSUME NEW S, IsFiniteSet(S), NEW T, IsFiniteSet(T), S \cap T = {}
    PROVE  /\ IsFiniteSet(S \cup T)
           /\ Cardinality(S \cup T) = Cardinality(S) + Cardinality(T)
<1>1. /\ Cardinality({}) = 0 /\ Cardinality(S) \in Nat /\ Cardinality(T) \in Nat
  BY FS_EmptySet, FS_CardinalityType
<1>2. /\ IsFiniteSet(S \cup T)
      /\ Cardinality(S \cup T) = Cardinality(S) + Cardinality(T) - Cardinality({})
  BY FS_Union
<1> QED BY <1>1, <1>2

LEMMA HandsExclusive == Shape /\ Hands => LeasesExclusive
<1> SUFFICES ASSUME Shape, Hands PROVE LeasesExclusive
  OBVIOUS
<1> DEFINE f == [t \in AuthHolders |-> auth[t].lease.conn]
           g == [i \in FdHolders |-> fd.checks[i].lease.conn]
           h == [r \in returns |-> r.lease.conn]
           A == {f[t] : t \in AuthHolders}
           B == {g[i] : i \in FdHolders}
           C == {h[r] : r \in returns}
<1>1. IsFiniteSet(AuthHolders) /\ IsFiniteSet(FdHolders) /\ IsFiniteSet(returns)
  <2>1. IsFiniteSet(AuthHolders)
    BY ContextAssumption, FS_Subset DEF AuthHolders
  <2>2. fd.checks \in Seq(HealthChecks)
    BY DEF Shape, DetectorOK
  <2>3. IsFiniteSet(1..Len(fd.checks)) /\ FdHolders \subseteq 1..Len(fd.checks)
    BY <2>2, FS_Interval DEF FdHolders
  <2> QED BY <2>1, <2>3, FS_Subset DEF Hands
<1>2. IsFiniteSet(A) /\ Cardinality(A) = Cardinality(AuthHolders)
  <2>1. \A s, t \in AuthHolders : f[s] = f[t] => s = t
    BY DEF Hands, EachInOneHand, AuthHolders, Keepers
  <2> HIDE DEF f
  <2>2. f = [t \in AuthHolders |-> f[t]]
    BY DEF f
  <2> QED BY <1>1, <2>1, <2>2, DistinctImage
<1>3. IsFiniteSet(B) /\ Cardinality(B) = Cardinality(FdHolders)
  <2>1. \A s, t \in FdHolders : g[s] = g[t] => s = t
    BY DEF Hands, EachInOneHand
  <2> HIDE DEF g
  <2>2. g = [t \in FdHolders |-> g[t]]
    BY DEF g
  <2> QED BY <1>1, <2>1, <2>2, DistinctImage
<1>4. IsFiniteSet(C) /\ Cardinality(C) = Cardinality(returns)
  <2>1. \A s, t \in returns : h[s] = h[t] => s = t
    BY DEF Hands, EachInOneHand
  <2> HIDE DEF h
  <2>2. h = [t \in returns |-> h[t]]
    BY DEF h
  <2> QED BY <1>1, <2>1, <2>2, DistinctImage
<1>5. A \cap B = {} /\ (A \cup B) \cap C = {}
  <2>1. AuthHolders \subseteq Keepers
    BY DEF AuthHolders, Keepers
  <2> QED BY <2>1 DEF Hands, EachInOneHand
<1>6. Lent = (A \cup B) \cup C
  BY DEF Lent
<1>7. Lent \cap Queued = {}
  <2> SUFFICES ASSUME NEW c \in Lent, NEW p \in DOMAIN pools,
                      NEW j \in DOMAIN pools[p].queue, c = pools[p].queue[j]
               PROVE  FALSE
    BY DEF Queued, Elems
  <2> QED BY DEF Lent, Hands, OffTheQueues, AuthHolders, Keepers
<1> HIDE DEF A, B, C
<1>8. IsFiniteSet(A \cup B) /\ Cardinality(A \cup B) = Cardinality(A) + Cardinality(B)
  BY <1>2, <1>3, <1>5, DisjointUnion
<1>9. Cardinality(Lent) = Cardinality(A \cup B) + Cardinality(C)
  BY <1>4, <1>5, <1>6, <1>8, DisjointUnion
<1> QED BY <1>2, <1>3, <1>4, <1>7, <1>8, <1>9 DEF LeasesExclusive

(* What a pool has lost is nowhere else. *)
LEMMA KeptAre ==
    ASSUME Hands, NEW p
    PROVE  /\ Kept(p) = Live(p) \cup LostOf(p)
           /\ Live(p) \cap LostOf(p) = {}
<1>1. Kept(p) = Live(p) \cup LostOf(p)
  BY DEF Kept, Live, LostOf, CurrentOf, InUse
<1>2. Lost \cap (Queued \cup Lent) = {}
  <2> SUFFICES ASSUME NEW t \in AuthTasks, auth[t].at = "panicked"
               PROVE  auth[t].lease.conn \notin Queued \cup Lent
    BY DEF Lost
  <2>1. t \in Keepers /\ t \notin AuthHolders /\ AuthHolders \subseteq Keepers
    BY DEF Keepers, AuthHolders
  <2>2. auth[t].lease.conn \notin Queued
    BY <2>1 DEF Hands, OffTheQueues, Queued, Elems
  <2>3. auth[t].lease.conn \notin Lent
    BY <2>1 DEF Hands, EachInOneHand, Lent
  <2> QED BY <2>2, <2>3
<1> QED BY <1>1, <1>2 DEF Live, LostOf, CurrentOf

-----------------------------------------------------------------------------
(* DetectorKnows and AuthKnows are preserved.                              *)

(* While no list is being replaced, only statuses change. *)
SameServers ==
    /\ Len(servers') = Len(servers)
    /\ \A i \in DOMAIN servers : servers'[i].url = servers[i].url
    /\ UNCHANGED conn_pools

LEMMA StatusUpdates ==
    ASSUME Shape
    PROVE  /\ \A t \in AuthTasks : AuthFailover(t) =>
                /\ auth[t].server \in Servers /\ auth[t].at = "failed"
                /\ servers' = UpdateServerStatus(auth[t].server, FALSE)
           /\ \A i \in DOMAIN fd.checks : FdStatus(i) =>
                /\ fd.checks[i].server \in Servers /\ fd.checks[i].ok \in BOOLEAN
                /\ servers' = UpdateServerStatus(fd.checks[i].server, fd.checks[i].ok)
           /\ RefreshStatus =>
                /\ main.server \in Servers /\ main.ok \in BOOLEAN /\ main.at = "refreshed"
                /\ servers' = UpdateServerStatus(main.server, main.ok)
<1>1. ASSUME NEW t \in AuthTasks, AuthFailover(t)
      PROVE  /\ auth[t].server \in Servers /\ auth[t].at = "failed"
             /\ servers' = UpdateServerStatus(auth[t].server, FALSE)
  <2>1. auth[t] \in Operations
    BY DEF Shape, AuthOK
  <2> QED BY <1>1, <2>1 DEF AuthFailover, Operations
<1>2. ASSUME NEW i \in DOMAIN fd.checks, FdStatus(i)
      PROVE  /\ fd.checks[i].server \in Servers /\ fd.checks[i].ok \in BOOLEAN
             /\ servers' = UpdateServerStatus(fd.checks[i].server, fd.checks[i].ok)
  <2>1. fd.checks[i] \in HealthChecks
    BY CheckOf DEF Shape
  <2> QED BY <1>2, <2>1 DEF FdStatus, HealthChecks
<1>3. ASSUME RefreshStatus
      PROVE  /\ main.server \in Servers /\ main.ok \in BOOLEAN /\ main.at = "refreshed"
             /\ servers' = UpdateServerStatus(main.server, main.ok)
  BY <1>3 DEF Shape, MainOK, RefreshStatus
<1> QED BY <1>1, <1>2, <1>3

LEMMA StatusWriters ==
    ASSUME [Next]_vars
    PROVE  \/ UNCHANGED servers
           \/ \E t \in AuthTasks : AuthFailover(t)
           \/ \E i \in DOMAIN fd.checks : FdStatus(i)
           \/ RefreshStatus
           \/ \E list \in ServerLists : SetServerList(list)
           \/ AddServer
<1>1. CASE MainStep
  BY <1>1 DEF MainStep, CreatePool, ServerListDone, RefreshPool, RefreshDone, ctxVars
<1>2. CASE \E t \in AuthTasks : AuthStep(t)
  BY <1>2 DEF AuthStep, AuthFind, AuthTake, AuthOp, AuthPanic, ctxVars
<1>3. CASE \E i \in DOMAIN fd.checks : CheckServerHealth(i)
  BY <1>3 DEF CheckServerHealth, FdPanic, FdLookup, FdTake, FdPing, FdReturn,
       FdConnect, FdPingNew, FdRefresh, ctxVars
<1> QED BY <1>1, <1>2, <1>3 DEF Next, SetPoolSize, SpawnedReturn, ShutdownStep, FdStart,
       FdEnd, ComeBack, Fail, vars, ctxVars

(* The list is replaced under ListBusy alone. *)
LEMMA ListBusySteps ==
    ASSUME Shape, ~ListBusy'
    PROVE  /\ \A list \in ServerLists : ~SetServerList(list)
           /\ AddServer => ListBusy
           /\ AddServer => main'.at = "adding"
<1>1. ASSUME NEW list \in ServerLists, SetServerList(list) PROVE FALSE
  <2>1. main'.at = "adding"
    BY <1>1 DEF SetServerList, MainIdle
  <2> QED BY <2>1 DEF ListBusy
<1>2. main \in [at : {"idle", "adding", "pushing", "refreshing", "refreshed"},
                todo : Seq(Urls \cup Servers), server : Servers, ok : BOOLEAN]
  BY DEF Shape, MainOK
<1> QED BY <1>1, <1>2 DEF AddServer, ListBusy

LEMMA PoolListWriters ==
    ASSUME [Next]_vars
    PROVE  \/ UNCHANGED conn_pools
           \/ \E list \in ServerLists : SetServerList(list)
           \/ AddServer
<1>1. CASE MainStep
  BY <1>1 DEF MainStep, CreatePool, ServerListDone, RefreshPool, RefreshStatus, RefreshDone,
       ctxVars
<1>2. CASE \E t \in AuthTasks : AuthStep(t)
  BY <1>2 DEF AuthStep, AuthFind, AuthTake, AuthOp, AuthPanic, AuthFailover, ctxVars
<1>3. CASE \E i \in DOMAIN fd.checks : CheckServerHealth(i)
  BY <1>3 DEF CheckServerHealth, FdPanic, FdLookup, FdTake, FdPing, FdReturn,
       FdConnect, FdPingNew, FdRefresh, FdStatus, ctxVars
<1> QED BY <1>1, <1>2, <1>3 DEF Next, SetPoolSize, SpawnedReturn, ShutdownStep, FdStart,
       FdEnd, ComeBack, Fail, vars, ctxVars

LEMMA ListStep ==
    ASSUME Shape, ~ListBusy', [Next]_vars
    PROVE  SameServers
<1>1. /\ \A list \in ServerLists : ~SetServerList(list)
      /\ ~AddServer
  BY ListBusySteps DEF ListBusy
<1>2. UNCHANGED conn_pools
  BY <1>1, PoolListWriters
<1>3. CASE UNCHANGED servers
  BY <1>2, <1>3 DEF SameServers
<1>4. CASE \/ \E t \in AuthTasks : AuthFailover(t)
           \/ \E i \in DOMAIN fd.checks : FdStatus(i)
           \/ RefreshStatus
  <2>1. PICK s \in Servers, h \in BOOLEAN : servers' = UpdateServerStatus(s, h)
    BY <1>4, StatusUpdates
  <2>2. /\ Len(servers') = Len(servers)
        /\ \A i \in DOMAIN servers : servers'[i].url = servers[i].url
    BY <2>1, StatusFacts DEF Shape, ListsOK
  <2> QED BY <1>2, <2>2 DEF SameServers
<1> QED BY <1>1, <1>3, <1>4, StatusWriters

(* A check that knows its place in the list finds a pool there. *)
LEMMA NoPanic ==
    ASSUME Shape, DetectorKnows, NEW i \in DOMAIN fd.checks
    PROVE  ~FdPanic(i) /\ i \in DOMAIN servers /\ i \in DOMAIN conn_pools
<1>1. fd.checks[i].server.id = i - 1 /\ i \in Nat /\ i # 0
  BY CheckOf DEF Shape, DetectorOK
<1>2. i <= Len(servers) /\ Len(conn_pools) = Len(servers)
  BY DEF DetectorKnows, Shape, ListsAligned
<1> QED BY <1>1, <1>2 DEF FdPanic, KnowsId, Shape, ListsOK

(* The health checks, between two moments of an iteration. *)
LEMMA FdChange ==
    ASSUME Shape, [Next]_vars
    PROVE  \/ UNCHANGED fd
           \/ FdStart \/ FdEnd
           \/ \E i \in DOMAIN fd.checks : FdPanic(i)
           \/ \E i \in DOMAIN fd.checks : \E d :
                /\ CheckBecomes(i, d) /\ d.server = fd.checks[i].server
                /\ d.at \in {"take", "return", "refresh"} => d.pool = conn_pools[i]
<1>1. CASE \E i \in DOMAIN fd.checks : CheckServerHealth(i)
  <2>1. PICK i \in DOMAIN fd.checks : CheckServerHealth(i)
    BY <1>1
  <2>2. CASE FdLookup(i)
    BY <2>2, LookupStep
  <2>3. CASE FdTake(i)
    <3> DEFINE p == fd.checks[i].pool
    <3>1. CASE UNCHANGED fd
      BY <3>1
    <3>2. CASE fd' = [fd EXCEPT !.checks[i].at = "ping", !.checks[i].lease = LeaseFrom(p)]
      <4> HIDE DEF p
      <4>1. PICK d : CheckBecomes(i, d) /\ d.server = fd.checks[i].server /\ d.at = "ping"
        BY <3>2, FdTakesStep
      <4> QED BY <4>1
    <3> QED BY <2>3, <3>1, <3>2 DEF FdTake
  <2>4. CASE FdPing(i)
    BY <2>4, PingStep
  <2>5. CASE FdReturn(i)
    BY <2>5, ReturnStep
  <2>6. CASE FdConnect(i)
    BY <2>6, ConnectStep
  <2>7. CASE FdPingNew(i)
    BY <2>7, PingNewStep
  <2>8. CASE FdRefresh(i)
    BY <2>8, RefreshStep
  <2>9. CASE FdStatus(i)
    BY <2>9, StatusStep
  <2> QED BY <2>1, <2>2, <2>3, <2>4, <2>5, <2>6, <2>7, <2>8, <2>9 DEF CheckServerHealth
<1>2. CASE MainStep
  BY <1>2 DEF MainStep, CreatePool, AddServer, ServerListDone, RefreshPool, RefreshStatus,
       RefreshDone
<1>3. CASE \E t \in AuthTasks : AuthStep(t)
  BY <1>3 DEF AuthStep, AuthFind, AuthTake, AuthOp, AuthPanic, AuthFailover
<1> QED BY <1>1, <1>2, <1>3 DEF Next, vars, SetServerList, SetPoolSize, SpawnedReturn,
         ShutdownStep, ComeBack, Fail

(* The operations: which server they are about. *)
LEMMA AuthChange ==
    ASSUME Shape, [Next]_vars
    PROVE  \/ UNCHANGED auth
           \/ \E t \in AuthTasks :
                /\ \A s \in AuthTasks \ {t} : auth'[s] = auth[s]
                /\ auth'[t].at \in {"take", "op", "failed"} =>
                     \/ /\ auth[t].at \in {"take", "op", "failed"}
                        /\ auth'[t].server = auth[t].server
                     \/ /\ auth'[t].server.id + 1 \in DOMAIN servers
                        /\ auth'[t].server.id \in Nat
                        /\ auth'[t].server.url = servers[auth'[t].server.id + 1].url
<1>1. CASE \E t \in AuthTasks : AuthStep(t)
  <2>1. PICK t \in AuthTasks : AuthStep(t)
    BY <1>1
  <2>2. auth \in [AuthTasks -> Operations]
    BY DEF Shape, AuthOK
  <2>3. CASE AuthFind(t)
    <3>1. CASE Healthy = {}
      <4>1. /\ \A s \in AuthTasks \ {t} : auth'[s] = auth[s]
            /\ auth'[t].at = "done"
        <5>1. servers = <<>> => Healthy = {}
          BY DEF Healthy
        <5> QED BY <2>2, <2>3, <3>1, <5>1 DEF AuthFind, Operations
      <4> QED BY <4>1
    <3>2. CASE Healthy # {}
      <4> DEFINE f == FindServer
                 q == GetConnectionPool(f)
      <4>1. /\ f \in Servers /\ f.id + 1 \in DOMAIN servers /\ f = servers[f.id + 1]
        BY <3>2, FindServerFacts DEF Shape
      <4>2. f.id \in Nat
        BY <4>1 DEF Servers
      <4>3. auth' = [auth EXCEPT ![t].at = "take", ![t].server = f, ![t].pool = q]
        <5>1. servers # <<>>
          BY <4>1
        <5> QED BY <2>3, <3>2, <5>1 DEF AuthFind
      <4> HIDE DEF f, q
      <4>4. auth'[t].server = f /\ \A s \in AuthTasks \ {t} : auth'[s] = auth[s]
        BY <2>2, <4>3 DEF Operations
      <4> QED BY <4>1, <4>2, <4>4
    <3> QED BY <3>1, <3>2
  <2>4. CASE AuthTake(t)
    <3> DEFINE l == LeaseFrom(auth[t].pool)
    <3>1. CASE UNCHANGED auth
      BY <3>1
    <3>2. CASE auth' = [auth EXCEPT ![t].at = "op", ![t].lease = l] /\ auth[t].at = "take"
      <4> HIDE DEF l
      <4>1. auth'[t].server = auth[t].server /\ \A s \in AuthTasks \ {t} : auth'[s] = auth[s]
        BY <2>2, <3>2 DEF Operations
      <4> QED BY <3>2, <4>1
    <3> QED BY <2>4, <3>1, <3>2 DEF AuthTake
  <2>5. CASE AuthOp(t)
    <3> DEFINE w == Answers(UrlOf(auth[t].lease.conn), auth[t].lease.conn)
    <3>1. PICK a, r : auth' = [auth EXCEPT ![t].lease = NoLease, ![t].at = a, ![t].res = r]
      BY <2>5 DEF AuthOp
    <3>2. auth'[t].server = auth[t].server /\ \A s \in AuthTasks \ {t} : auth'[s] = auth[s]
      BY <2>2, <3>1 DEF Operations
    <3> QED BY <2>5, <3>2 DEF AuthOp
  <2>6. CASE AuthFailover(t)
    <3>1. auth'[t].at = "find" /\ \A s \in AuthTasks \ {t} : auth'[s] = auth[s]
      BY <2>2, <2>6 DEF AuthFailover, Operations
    <3> QED BY <3>1
  <2>7. CASE AuthPanic(t)
    BY <2>7, PanicKeeps
  <2> QED BY <2>1, <2>3, <2>4, <2>5, <2>6, <2>7 DEF AuthStep
<1>2. CASE MainStep
  BY <1>2 DEF MainStep, CreatePool, AddServer, ServerListDone, RefreshPool, RefreshStatus,
       RefreshDone
<1>3. CASE \E i \in DOMAIN fd.checks : CheckServerHealth(i)
  BY <1>3 DEF CheckServerHealth, FdPanic, FdLookup, FdTake, FdPing, FdReturn, FdConnect,
       FdPingNew, FdRefresh, FdStatus
<1> QED BY <1>1, <1>2, <1>3 DEF Next, vars, SetServerList, SetPoolSize, SpawnedReturn,
         ShutdownStep, FdStart, FdEnd, ComeBack, Fail

(* Only a step of an operation itself changes it, and nothing of main. *)
LEMMA AuthChanges ==
    ASSUME [Next]_vars, auth' # auth
    PROVE  UNCHANGED main
<1>1. \E t \in AuthTasks : AuthStep(t)
  <2>1. CASE MainStep
    BY <2>1 DEF MainStep, CreatePool, AddServer, ServerListDone, RefreshPool, RefreshStatus,
         RefreshDone
  <2>2. CASE \E i \in DOMAIN fd.checks : CheckServerHealth(i)
    BY <2>2 DEF CheckServerHealth, FdPanic, FdLookup, FdTake, FdPing, FdReturn, FdConnect,
         FdPingNew, FdRefresh, FdStatus
  <2> QED BY <2>1, <2>2 DEF Next, vars, SetServerList, SetPoolSize, SpawnedReturn,
           ShutdownStep, FdStart, FdEnd, ComeBack, Fail
<1> QED BY <1>1 DEF AuthStep, AuthFind, AuthTake, AuthOp, AuthPanic, AuthFailover

LEMMA InitKnows == Init => DetectorKnows /\ AuthKnows
<1> SUFFICES ASSUME Init PROVE DetectorKnows /\ AuthKnows
  OBVIOUS
<1>1. /\ fd.at = "sleep" /\ fd.checks = <<>>
      /\ \A t \in AuthTasks : auth[t].at = "find"
  BY DEF Init
<1> QED BY <1>1 DEF DetectorKnows, AuthKnows

LEMMA NextDetectorKnows ==
    ASSUME Shape, DetectorKnows, ListApart', [Next]_vars
    PROVE  DetectorKnows'
<1>1. /\ fd.at # "hung" /\ (fd.at = "sleep" => fd.checks = <<>>)
      /\ \A i \in DOMAIN fd.checks :
           /\ ~FdPanic(i) /\ i \in DOMAIN servers
           /\ i <= Len(servers) /\ fd.checks[i].server.url = servers[i].url
           /\ fd.checks[i].at \in {"take", "return", "refresh"}
                => fd.checks[i].pool = conn_pools[i]
  BY NoPanic DEF DetectorKnows
<1>2. CASE FdStart
  <2>1. fd'.at = "checking" /\ UNCHANGED <<servers, conn_pools>>
    BY <1>2 DEF FdStart, ctxVars
  <2>2. \A i \in DOMAIN fd'.checks :
          i \in DOMAIN servers /\ fd'.checks[i] = Check(servers[i])
    BY <1>2 DEF FdStart
  <2>3. \A i \in DOMAIN fd'.checks :
          /\ i <= Len(servers) /\ fd'.checks[i].server.url = servers[i].url
          /\ fd'.checks[i].at \notin {"take", "return", "refresh"}
    <3> SUFFICES ASSUME NEW i \in DOMAIN fd'.checks
                 PROVE  /\ i <= Len(servers)
                        /\ fd'.checks[i].server.url = servers[i].url
                        /\ fd'.checks[i].at \notin {"take", "return", "refresh"}
      OBVIOUS
    <3>1. i \in DOMAIN servers /\ fd'.checks[i] = Check(servers[i])
      BY <2>2
    <3>2. i <= Len(servers)
      BY <3>1 DEF Shape, ListsOK
    <3>3. Check(servers[i]).server = servers[i] /\ Check(servers[i]).at \in {"lookup", "connect"}
      BY DEF Check
    <3> QED BY <3>1, <3>2, <3>3
  <2> QED BY <2>1, <2>3 DEF DetectorKnows
<1>3. CASE FdEnd
  BY <1>3 DEF FdEnd, DetectorKnows
<1>4. CASE UNCHANGED fd \/ \E i \in DOMAIN fd.checks : \E d :
             /\ CheckBecomes(i, d) /\ d.server = fd.checks[i].server
             /\ d.at \in {"take", "return", "refresh"} => d.pool = conn_pools[i]
  <2>1. /\ fd'.at = fd.at /\ DOMAIN fd'.checks = DOMAIN fd.checks
        /\ \A i \in DOMAIN fd.checks :
             /\ fd'.checks[i].server.url = servers[i].url
             /\ fd'.checks[i].at \in {"take", "return", "refresh"}
                  => fd'.checks[i].pool = conn_pools[i]
    BY <1>1, <1>4 DEF CheckBecomes
  <2>2. CASE fd.checks = <<>>
    <3>1. UNCHANGED fd
      BY <1>4, <2>2
    <3> QED BY <1>1, <2>2, <3>1 DEF DetectorKnows
  <2>3. CASE fd.checks # <<>>
    <3>1. DOMAIN fd.checks # {}
      BY <2>3 DEF Shape, DetectorOK
    <3>2. SameServers
      BY <2>1, <3>1, ListStep DEF ListApart
    <3> QED BY <1>1, <2>1, <2>3, <3>2 DEF DetectorKnows, SameServers
  <2> QED BY <2>2, <2>3
<1> QED BY <1>1, <1>2, <1>3, <1>4, FdChange

LEMMA NextAuthKnows ==
    ASSUME Shape, AuthKnows, ListQuiet, ListQuiet', [Next]_vars
    PROVE  AuthKnows'
<1> SUFFICES ASSUME NEW t \in AuthTasks, auth'[t].at \in {"take", "op", "failed"}
             PROVE  /\ auth'[t].server.id < Len(servers')
                    /\ auth'[t].server.url = servers'[auth'[t].server.id + 1].url
  BY DEF AuthKnows
<1>1. SameServers
  BY ListStep DEF ListQuiet
<1>2. ASSUME auth[t].at \in {"take", "op", "failed"}, auth'[t].server = auth[t].server
      PROVE  /\ auth'[t].server.id + 1 \in DOMAIN servers /\ auth'[t].server.id \in Nat
             /\ auth'[t].server.url = servers[auth'[t].server.id + 1].url
  <2>1. auth[t].server.id \in Nat
    BY DEF Shape, AuthOK, Operations, Servers
  <2> QED BY <1>2, <2>1 DEF AuthKnows, Shape, ListsOK
<1>3. /\ auth'[t].server.id + 1 \in DOMAIN servers /\ auth'[t].server.id \in Nat
      /\ auth'[t].server.url = servers[auth'[t].server.id + 1].url
  BY <1>2, AuthChange
<1>4. auth'[t].server.id < Len(servers)
  BY <1>3 DEF Shape, ListsOK
<1> QED BY <1>1, <1>3, <1>4 DEF SameServers

-----------------------------------------------------------------------------
(* HomeParts is preserved.  Again first the kinds of steps.                *)


LEMMA InUseAt ==
    ASSUME NEW c
    PROVE  c \in InUse <=>
             \/ \E t \in Keepers : auth[t].lease.conn = c
             \/ \E i \in FdHolders : fd.checks[i].lease.conn = c
             \/ \E r \in returns : r.lease.conn = c
             \/ \E p \in DOMAIN pools : \E j \in DOMAIN pools[p].queue : pools[p].queue[j] = c
BY DEF InUse, Queued, Elems, Lent, Lost, AuthHolders, Keepers

LEMMA InUseAtNext ==
    ASSUME NEW c
    PROVE  c \in InUse' <=>
             \/ \E t \in Keepers' : auth'[t].lease.conn = c
             \/ \E i \in FdHolders' : fd'.checks[i].lease.conn = c
             \/ \E r \in returns' : r.lease.conn = c
             \/ \E p \in DOMAIN pools' : \E j \in DOMAIN pools'[p].queue :
                  pools'[p].queue[j] = c
BY DEF InUse, Queued, Elems, Lent, Lost, AuthHolders, Keepers

CompleteAt(p) ==
    \/ Kept(p) = {}
    \/ \E c \in Kept(p) : Kept(p) = Lot(p, pools[p].epoch, pools[p].size, c.life)

LEMMA CompleteStays ==
    ASSUME NEW p, CompleteAt(p), pools'[p].epoch = pools[p].epoch,
           pools'[p].size = pools[p].size,
           \A c : c.pool = p /\ c.epoch = pools[p].epoch => (c \in InUse' <=> c \in InUse)
    PROVE  CompleteAt(p)' /\ Kept(p)' = Kept(p)
<1>1. Kept(p)' = Kept(p)
  <2>1. Kept(p) = {c \in InUse : c.pool = p /\ c.epoch = pools[p].epoch}
    BY DEF Kept, CurrentOf, InUse
  <2>2. Kept(p)' = {c \in InUse' : c.pool = p /\ c.epoch = pools'[p].epoch}
    BY DEF Kept, CurrentOf, InUse
  <2> HIDE DEF InUse
  <2> QED BY <2>1, <2>2
<1> QED BY <1>1 DEF CompleteAt, Lot

(***************************************************************************)
(* What a step does to the connections that the pools have: keep them all; *)
(* open new ones for pool p, or fail to; close those of p, all of them     *)
(* idle.                                                                   *)
(***************************************************************************)
KeepsAll == \A x \in DOMAIN pools : Kept(x)' = Kept(x)

KeepsOthers(p) == \A x \in DOMAIN pools \ {p} : Kept(x)' = Kept(x)

Renews(p) ==
    /\ KeepsOthers(p)
    /\ \A x : x = p => /\ \A d \in Kept(x)' : d \notin InUse
                       /\ pools'[x].queue # <<>> => Kept(x)' # {}

Closes(p) ==
    /\ KeepsOthers(p)
    /\ \A x : x = p => Kept(x)' = {}
    /\ \A d \in Kept(p) : \E j \in DOMAIN pools[p].queue : pools[p].queue[j] = d

(* The hands and the queues stay as they are. *)
AuthStays ==
    /\ Keepers' = Keepers
    /\ \A t \in Keepers : auth'[t].lease = auth[t].lease /\ auth'[t].pool = auth[t].pool

FdStays ==
    /\ FdHolders' = FdHolders
    /\ \A i \in FdHolders : /\ fd'.checks[i].lease = fd.checks[i].lease
                            /\ conn_pools'[i] = conn_pools[i]

PoolsStay ==
    /\ DOMAIN pools' = DOMAIN pools
    /\ \A p \in DOMAIN pools : /\ pools'[p].queue = pools[p].queue
                               /\ pools'[p].epoch = pools[p].epoch
                               /\ pools'[p].size = pools[p].size

LEMMA HomeStill ==
    ASSUME HomeParts, AuthStays, FdStays, PoolsStay, UNCHANGED returns, NoSleeperMissed'
    PROVE  HomeParts' /\ KeepsAll
<1>1. LeasesCameFrom'
  BY DEF HomeParts, LeasesCameFrom, CameFrom, AuthStays, FdStays
<1>2. HomeConnections'
  BY DEF HomeParts, HomeConnections, PoolsStay, Elems
<1>3. InUse' = InUse
  <2>1. \A c : c \in InUse' <=> c \in InUse
    BY InUseAt, InUseAtNext DEF AuthStays, FdStays, PoolsStay
  <2> QED BY <2>1
<1>4. ASSUME NEW p \in DOMAIN pools PROVE CompleteAt(p)' /\ Kept(p)' = Kept(p)
  <2>1. p \in DOMAIN pools /\ CompleteAt(p)
    BY DEF PoolsStay, HomeParts, Complete, CompleteAt
  <2> HIDE DEF InUse
  <2> QED BY <1>3, <2>1, CompleteStays DEF PoolsStay
<1>5. Complete' /\ KeepsAll
  BY <1>4 DEF Complete, CompleteAt, KeepsAll, PoolsStay
<1> QED BY <1>1, <1>2, <1>5 DEF HomeParts

(* A waiter that is new does not miss anything, the others no more than before. *)
LEMMA NobodyMisses ==
    ASSUME NoSleeperMissed, PoolsStay,
           \A p \in DOMAIN pools : \A a \in pools'[p].waiters \ pools[p].waiters :
             IF a[1] = "shutdown" THEN ~HasAllConnections(pools[p]) ELSE IsEmpty(pools[p])
    PROVE  NoSleeperMissed'
<1> SUFFICES ASSUME NEW p \in DOMAIN pools', NEW a \in pools'[p].waiters
             PROVE  IF a[1] = "shutdown" THEN ~HasAllConnections(pools[p])'
                    ELSE IsEmpty(pools[p])'
  BY DEF NoSleeperMissed
<1>1. /\ p \in DOMAIN pools
      /\ IF a[1] = "shutdown" THEN ~HasAllConnections(pools[p]) ELSE IsEmpty(pools[p])
  BY DEF NoSleeperMissed, PoolsStay
<1>2. HasAllConnections(pools[p])' <=> HasAllConnections(pools[p])
  BY <1>1 DEF HasAllConnections, PoolsStay
<1>3. IsEmpty(pools[p])' <=> IsEmpty(pools[p])
  BY <1>1 DEF IsEmpty, PoolsStay
<1> QED BY <1>1, <1>2, <1>3

LEMMA DistinctRange ==
    ASSUME NEW n \in Nat, NEW f, f = [x \in 1..n |-> f[x]],
           \A x, y \in 1..n : f[x] = f[y] => x = y
    PROVE  LET T == {f[x] : x \in 1..n}
           IN  IsFiniteSet(T) /\ Cardinality(T) = n
<1> DEFINE S == 1..n
<1>1. IsFiniteSet(S) /\ Cardinality(S) = n
  <2>1. /\ IsFiniteSet(1..n)
        /\ Cardinality(1..n) = IF 1 > n THEN 0 ELSE n - 1 + 1
    BY FS_Interval, 1 \in Int, n \in Int
  <2> QED BY <2>1
<1>2. f = [x \in S |-> f[x]] /\ \A x, y \in S : f[x] = f[y] => x = y
  OBVIOUS
<1> HIDE DEF S
<1>3. IsFiniteSet({f[x] : x \in S}) /\ Cardinality({f[x] : x \in S}) = n
  BY <1>1, <1>2, DistinctImage
<1> QED BY <1>3 DEF S

LEMMA LotSize ==
    ASSUME NEW p, NEW e, NEW n \in Nat, NEW l
    PROVE  IsFiniteSet(Lot(p, e, n, l)) /\ Cardinality(Lot(p, e, n, l)) = n
<1> DEFINE f == [i \in 1..n |-> [pool |-> p, epoch |-> e, place |-> i, life |-> l]]
<1>1. \A i, j \in 1..n : f[i] = f[j] => i = j
  <2> SUFFICES ASSUME NEW i \in 1..n, NEW j \in 1..n, f[i] = f[j] PROVE i = j
    OBVIOUS
  <2>1. f[i].place = i /\ f[j].place = j
    OBVIOUS
  <2> QED BY <2>1
<1>2. Lot(p, e, n, l) = {f[i] : i \in 1..n}
  BY DEF Lot
<1>3. f = [i \in 1..n |-> f[i]]
  OBVIOUS
<1> HIDE DEF f
<1>4. IsFiniteSet({f[i] : i \in 1..n}) /\ Cardinality({f[i] : i \in 1..n}) = n
  BY <1>1, <1>3, DistinctRange
<1> QED BY <1>2, <1>4

(* A queue never holds more than the pool's size, and when it has all, nobody else has one. *)
LEMMA QueueFits ==
    ASSUME Shape, Hands, HomeConnections, Complete, NEW p \in DOMAIN pools
    PROVE  /\ Len(pools[p].queue) <= pools[p].size
           /\ Len(pools[p].queue) = pools[p].size => Kept(p) = Elems(pools[p].queue)
<1> DEFINE q == pools[p].queue
           n == pools[p].size
           S == Elems(q)
<1>1. q \in Seq(Conns) /\ n \in Nat /\ n # 0
  BY PoolOf, ContextAssumption DEF Shape
<1>2. S \subseteq Kept(p)
  BY DEF HomeConnections, Kept, CurrentOf, InUse, Queued
<1>3. IsFiniteSet(S) /\ Cardinality(S) = Len(q)
  <2>1. DOMAIN q = 1..Len(q) /\ Len(q) \in Nat
    BY <1>1
  <2>2. \A i, j \in DOMAIN q : q[i] = q[j] => i = j
    BY DEF Hands, EachQueuedOnce
  <2> HIDE DEF q
  <2>3. S = {q[i] : i \in 1..Len(q)}
    BY <2>1 DEF Elems
  <2>4. q = [i \in 1..Len(q) |-> q[i]]
    BY <1>1
  <2>5. \A i, j \in 1..Len(q) : q[i] = q[j] => i = j
    BY <2>1, <2>2
  <2> QED BY <2>1, <2>3, <2>4, <2>5, DistinctRange
<1>4. CASE Kept(p) = {}
  <2>1. Len(q) = 0
    BY <1>2, <1>3, <1>4, FS_EmptySet
  <2> QED BY <1>1, <2>1
<1>5. CASE \E c \in Kept(p) : Kept(p) = Lot(p, pools[p].epoch, n, c.life)
  <2>1. IsFiniteSet(Kept(p)) /\ Cardinality(Kept(p)) = n
    BY <1>1, <1>5, LotSize
  <2>2. S \in SUBSET Kept(p)
    BY <1>2
  <2> HIDE DEF S
  <2>3. Cardinality(S) <= n /\ (Cardinality(S) = n => Kept(p) = S)
    BY <2>1, <2>2, FS_Subset
  <2> QED BY <1>3, <2>3 DEF S
<1> QED BY <1>4, <1>5 DEF Complete

(* Who has a connection. *)
AuthHas(c) == \E t \in Keepers : auth[t].lease.conn = c
FdHas(c) == \E i \in FdHolders : fd.checks[i].lease.conn = c
ReturnHas(c) == \E r \in returns : r.lease.conn = c
QueueHas(p, c) == \E j \in DOMAIN pools[p].queue : pools[p].queue[j] = c

LEMMA Users ==
    ASSUME NEW c
    PROVE  /\ c \in InUse <=> \/ AuthHas(c) \/ FdHas(c) \/ ReturnHas(c)
                              \/ \E p \in DOMAIN pools : QueueHas(p, c)
           /\ c \in InUse' <=> \/ AuthHas(c)' \/ FdHas(c)' \/ ReturnHas(c)'
                               \/ \E p \in DOMAIN pools' : QueueHas(p, c)'
BY DEF InUse, Queued, Elems, Lent, Lost, AuthHolders, Keepers, AuthHas, FdHas, ReturnHas, QueueHas

LEMMA TakenQueue ==
    ASSUME PoolsOK, NEW p \in DOMAIN pools, Takes(p)
    PROVE  \A d : QueueHas(p, d) <=> d = pools[p].queue[1] \/ QueueHas(p, d)'
<1> DEFINE q == pools[p].queue
<1>1. pools'[p].queue = Tail(q) /\ q # <<>> /\ q \in Seq(Conns)
  BY TakePools, PoolOf
<1>2. q = pools[p].queue
  OBVIOUS
<1> HIDE DEF q
<1>3. /\ DOMAIN q = 1..Len(q) /\ Len(q) \in Nat /\ Len(q) # 0
      /\ DOMAIN Tail(q) = 1..(Len(q) - 1)
      /\ \A j \in 1..(Len(q) - 1) : Tail(q)[j] = q[j + 1]
  BY <1>1
<1>4. 1 \in DOMAIN q
  BY <1>3
<1>5. \A j \in DOMAIN q : j = 1 \/ (j - 1 \in DOMAIN Tail(q) /\ Tail(q)[j - 1] = q[j])
  BY <1>3
<1>6. \A j \in DOMAIN Tail(q) : j + 1 \in DOMAIN q /\ Tail(q)[j] = q[j + 1]
  BY <1>3
<1>7. ASSUME NEW d, QueueHas(p, d)
      PROVE  d = q[1] \/ \E j \in DOMAIN Tail(q) : Tail(q)[j] = d
  <2>1. PICK j \in DOMAIN q : q[j] = d
    BY <1>2, <1>7 DEF QueueHas
  <2> QED BY <1>5, <2>1
<1>8. ASSUME NEW d, d = q[1] \/ \E j \in DOMAIN Tail(q) : Tail(q)[j] = d
      PROVE  QueueHas(p, d)
  <2>1. CASE d = q[1]
    BY <1>2, <1>4, <2>1 DEF QueueHas
  <2>2. CASE \E j \in DOMAIN Tail(q) : Tail(q)[j] = d
    <3>1. PICK j \in DOMAIN Tail(q) : Tail(q)[j] = d
      BY <2>2
    <3>2. j + 1 \in DOMAIN q /\ q[j + 1] = d
      BY <1>6, <3>1
    <3> QED BY <1>2, <3>2 DEF QueueHas
  <2> QED BY <1>8, <2>1, <2>2
<1>9. \A d : QueueHas(p, d)' <=> \E j \in DOMAIN Tail(q) : Tail(q)[j] = d
  BY <1>1 DEF QueueHas
<1> QED BY <1>2, <1>7, <1>8, <1>9

LEMMA HomeTake ==
    ASSUME Shape, Shape', Hands, HomeParts, NEW p \in DOMAIN pools, Takes(p),
           UNCHANGED returns, LeasesCameFrom',
           \A d : /\ AuthHas(d) => AuthHas(d)'
                  /\ FdHas(d) => FdHas(d)'
                  /\ AuthHas(d)' \/ FdHas(d)' =>
                       d = pools[p].queue[1] \/ AuthHas(d) \/ FdHas(d),
           \A d : d = pools[p].queue[1] => AuthHas(d)' \/ FdHas(d)'
    PROVE  HomeParts' /\ KeepsAll
<1> DEFINE c == pools[p].queue[1]
<1>1. /\ OthersSame(p) /\ pools[p].queue # <<>>
      /\ pools'[p].queue = Tail(pools[p].queue) /\ pools'[p].epoch = pools[p].epoch
      /\ pools'[p].size = pools[p].size /\ pools'[p].waiters = pools[p].waiters
  BY TakePools DEF Shape
<1>2. \A d : QueueHas(p, d) <=> d = c \/ QueueHas(p, d)'
  BY TakenQueue DEF Shape
<1>3. \A x \in DOMAIN pools \ {p} : \A d : QueueHas(x, d)' <=> QueueHas(x, d)
  BY <1>1 DEF OthersSame, QueueHas
<1>4. \A d : ReturnHas(d)' <=> ReturnHas(d)
  BY DEF ReturnHas
<1>5. DOMAIN pools' = DOMAIN pools
  BY <1>1 DEF OthersSame
<1> HIDE DEF c
<1>6. /\ \A d : /\ AuthHas(d) => AuthHas(d)'
                /\ FdHas(d) => FdHas(d)'
                /\ AuthHas(d)' \/ FdHas(d)' => d = c \/ AuthHas(d) \/ FdHas(d)
      /\ \A d : d = c => AuthHas(d)' \/ FdHas(d)'
  BY DEF c
<1>7. \A d : d \in InUse' <=> d \in InUse
  <2> SUFFICES ASSUME NEW d PROVE d \in InUse' <=> d \in InUse
    OBVIOUS
  <2>1. (\E x \in DOMAIN pools : QueueHas(x, d))
          <=> d = c \/ \E x \in DOMAIN pools' : QueueHas(x, d)'
    BY <1>2, <1>3, <1>5
  <2> QED BY <1>4, <1>6, <2>1, Users
<1>8. HomeConnections'
  <2> SUFFICES ASSUME NEW x \in DOMAIN pools', NEW d, QueueHas(x, d)'
               PROVE  d.pool = x /\ d.epoch = pools'[x].epoch
    BY DEF HomeConnections, Elems, QueueHas
  <2>1. QueueHas(x, d) /\ x \in DOMAIN pools
    BY <1>2, <1>3, <1>5
  <2>2. d.pool = x /\ d.epoch = pools[x].epoch
    BY <2>1 DEF HomeParts, HomeConnections, Elems, QueueHas
  <2> QED BY <1>1, <2>1, <2>2 DEF OthersSame
<1>9. ASSUME NEW x \in DOMAIN pools PROVE CompleteAt(x)' /\ Kept(x)' = Kept(x)
  <2>1. /\ CompleteAt(x) /\ pools'[x].epoch = pools[x].epoch
        /\ pools'[x].size = pools[x].size
    BY <1>1, <1>5 DEF HomeParts, Complete, CompleteAt, OthersSame
  <2> HIDE DEF InUse
  <2> QED BY <1>7, <2>1, CompleteStays
<1>10. NoSleeperMissed'
  <2> SUFFICES ASSUME NEW x \in DOMAIN pools', NEW a \in pools'[x].waiters
               PROVE  IF a[1] = "shutdown" THEN Len(pools'[x].queue) # pools'[x].size
                      ELSE pools'[x].queue = <<>>
    BY DEF NoSleeperMissed, HasAllConnections, IsEmpty
  <2>1. /\ x \in DOMAIN pools /\ a \in pools[x].waiters
    BY <1>1, <1>5 DEF OthersSame
  <2>2. IF a[1] = "shutdown" THEN Len(pools[x].queue) # pools[x].size
        ELSE pools[x].queue = <<>>
    BY <2>1 DEF HomeParts, NoSleeperMissed, HasAllConnections, IsEmpty
  <2>3. CASE x # p
    BY <1>1, <2>1, <2>2, <2>3 DEF OthersSame
  <2>4. CASE x = p
    <3>1. a[1] = "shutdown"
      BY <1>1, <2>2, <2>4
    <3>2. Len(pools[p].queue) <= pools[p].size
      BY QueueFits DEF HomeParts
    <3>3. /\ pools[p].queue \in Seq(Conns) /\ pools[p].size \in Nat
      BY PoolOf, ContextAssumption DEF Shape
    <3>4. Len(Tail(pools[p].queue)) = Len(pools[p].queue) - 1
          /\ Len(pools[p].queue) \in Nat
      BY <1>1, <3>3
    <3>5. Len(pools'[p].queue) # pools'[p].size
      BY <1>1, <3>2, <3>3, <3>4
    <3> QED BY <2>4, <3>1, <3>5
  <2> QED BY <2>3, <2>4
<1>11. Complete' /\ KeepsAll
  BY <1>5, <1>9 DEF Complete, CompleteAt, KeepsAll
<1> QED BY <1>8, <1>10, <1>11 DEF HomeParts

LEMMA HomePut ==
    ASSUME Shape, Shape', Hands, HomeParts, NEW p \in DOMAIN pools, NEW l \in AnyLease,
           CameFrom(l, p), pools' = [pools EXCEPT ![p] = ReturnConnection(@, l)],
           LeasesCameFrom',
           AuthHas(l.conn) \/ FdHas(l.conn) \/ ReturnHas(l.conn),
           \A d : d # l.conn =>
             (AuthHas(d)' \/ FdHas(d)' \/ ReturnHas(d)'
                <=> AuthHas(d) \/ FdHas(d) \/ ReturnHas(d))
    PROVE  HomeParts' /\ KeepsAll
<1> DEFINE c == l.conn
<1>1. c \in Conns /\ c.pool = p /\ c.epoch = l.from_epoch /\ Exists(c.pool)
  BY DEF AnyLease, CameFrom, Exists, Shape, PoolsOK
<1>2. /\ OthersSame(p) /\ pools'[p].epoch = pools[p].epoch /\ pools'[p].size = pools[p].size
      /\ pools[p].epoch = l.from_epoch =>
           pools'[p].queue = Append(pools[p].queue, c) /\ pools'[p].waiters = {}
      /\ pools[p].epoch # l.from_epoch => pools' = pools
  BY <1>1, ReturnPools DEF Shape
<1>3. DOMAIN pools' = DOMAIN pools
  BY <1>2 DEF OthersSame
<1>4. \A x \in DOMAIN pools : /\ pools'[x].epoch = pools[x].epoch
                              /\ pools'[x].size = pools[x].size
  BY <1>2 DEF OthersSame
<1>5. \A x \in DOMAIN pools \ {p} : \A d : QueueHas(x, d)' <=> QueueHas(x, d)
  BY <1>2 DEF OthersSame, QueueHas
<1>6. \A d : QueueHas(p, d)' <=>
               QueueHas(p, d) \/ (d = c /\ pools[p].epoch = c.epoch)
  <2>1. CASE pools[p].epoch = l.from_epoch
    <3> DEFINE q == pools[p].queue
    <3>1. q \in Seq(Conns)
      BY PoolOf DEF Shape
    <3>2. q = pools[p].queue /\ pools'[p].queue = Append(q, c)
      BY <1>2, <2>1
    <3> HIDE DEF q, c
    <3>3. /\ DOMAIN q = 1..Len(q) /\ Len(q) \in Nat
          /\ DOMAIN Append(q, c) = 1..(Len(q) + 1) /\ Append(q, c)[Len(q) + 1] = c
          /\ \A j \in 1..Len(q) : Append(q, c)[j] = q[j]
      BY <1>1, <3>1
    <3>4. \A d : (\E j \in DOMAIN Append(q, c) : Append(q, c)[j] = d)
                   <=> d = c \/ \E j \in DOMAIN q : q[j] = d
      <4>1. DOMAIN Append(q, c) = DOMAIN q \cup {Len(q) + 1}
        BY <3>3
      <4> QED BY <3>3, <4>1
    <3> QED BY <1>1, <2>1, <3>2, <3>4 DEF QueueHas
  <2>2. CASE pools[p].epoch # l.from_epoch
    BY <1>1, <1>2, <2>2 DEF QueueHas
  <2> QED BY <2>1, <2>2
<1> HIDE DEF c
<1>7. /\ AuthHas(c) \/ FdHas(c) \/ ReturnHas(c)
      /\ \A d : d # c => (AuthHas(d)' \/ FdHas(d)' \/ ReturnHas(d)'
                            <=> AuthHas(d) \/ FdHas(d) \/ ReturnHas(d))
  BY DEF c
<1>8. ASSUME NEW x \in DOMAIN pools, NEW d, d.pool = x /\ d.epoch = pools[x].epoch
      PROVE  d \in InUse' <=> d \in InUse
  <2>1. CASE d = c
    <3>1. QueueHas(p, d)' /\ d \in InUse
      BY <1>1, <1>6, <1>7, <1>8, <2>1, Users
    <3> QED BY <1>3, <3>1, Users
  <2>2. CASE d # c
    <3>1. (\E y \in DOMAIN pools : QueueHas(y, d))
            <=> \E y \in DOMAIN pools' : QueueHas(y, d)'
      BY <1>3, <1>5, <1>6, <2>2
    <3> QED BY <1>7, <2>2, <3>1, Users
  <2> QED BY <2>1, <2>2
<1>9. HomeConnections'
  <2> SUFFICES ASSUME NEW x \in DOMAIN pools', NEW d, QueueHas(x, d)'
               PROVE  d.pool = x /\ d.epoch = pools'[x].epoch
    BY DEF HomeConnections, Elems, QueueHas
  <2>1. CASE QueueHas(x, d)
    <3>1. d.pool = x /\ d.epoch = pools[x].epoch
      BY <1>3, <2>1 DEF HomeParts, HomeConnections, Elems, QueueHas
    <3> QED BY <1>3, <1>4, <3>1
  <2>2. CASE x = p /\ d = c /\ pools[p].epoch = c.epoch
    BY <1>1, <1>4, <2>2
  <2> QED BY <1>3, <1>5, <1>6, <2>1, <2>2
<1>10. ASSUME NEW x \in DOMAIN pools PROVE CompleteAt(x)' /\ Kept(x)' = Kept(x)
  <2>1. CompleteAt(x) /\ x \in DOMAIN pools
    BY <1>3 DEF HomeParts, Complete, CompleteAt
  <2> HIDE DEF InUse
  <2> QED BY <1>4, <1>8, <2>1, CompleteStays
<1>11. NoSleeperMissed'
  <2> SUFFICES ASSUME NEW x \in DOMAIN pools', NEW a \in pools'[x].waiters
               PROVE  IF a[1] = "shutdown" THEN Len(pools'[x].queue) # pools'[x].size
                      ELSE pools'[x].queue = <<>>
    BY DEF NoSleeperMissed, HasAllConnections, IsEmpty
  <2>1. pools'[x] = pools[x] /\ x \in DOMAIN pools
    BY <1>2 DEF OthersSame
  <2> QED BY <2>1 DEF HomeParts, NoSleeperMissed, HasAllConnections, IsEmpty
<1>12. Complete' /\ KeepsAll
  BY <1>3, <1>10 DEF Complete, CompleteAt, KeepsAll
<1> QED BY <1>9, <1>11, <1>12 DEF HomeParts

LEMMA HomeClose ==
    ASSUME Shape, Shape', Hands, HomeParts, NEW p \in DOMAIN pools,
           HasAllConnections(pools[p]),
           pools' = [pools EXCEPT ![p] = CloseConnections(@)],
           LeasesCameFrom',
           \A d : AuthHas(d)' \/ FdHas(d)' \/ ReturnHas(d)'
                    <=> AuthHas(d) \/ FdHas(d) \/ ReturnHas(d)
    PROVE  HomeParts' /\ Closes(p)
<1>1. /\ OthersSame(p) /\ pools'[p].queue = <<>> /\ pools'[p].epoch = pools[p].epoch
      /\ pools'[p].size = pools[p].size /\ pools'[p].waiters = pools[p].waiters
  BY ClosePools DEF Shape
<1>2. DOMAIN pools' = DOMAIN pools
  BY <1>1 DEF OthersSame
<1>3. \A x \in DOMAIN pools : /\ pools'[x].epoch = pools[x].epoch
                              /\ pools'[x].size = pools[x].size
  BY <1>1 DEF OthersSame
<1>4. \A x \in DOMAIN pools \ {p} : \A d : QueueHas(x, d)' <=> QueueHas(x, d)
  BY <1>1 DEF OthersSame, QueueHas
<1>5. \A d : ~QueueHas(p, d)'
  BY <1>1 DEF QueueHas
<1>6. \A x \in DOMAIN pools : \A d : QueueHas(x, d) => d.pool = x
  BY DEF HomeParts, HomeConnections, Elems, QueueHas
<1>7. HomeConnections'
  <2> SUFFICES ASSUME NEW x \in DOMAIN pools', NEW d, QueueHas(x, d)'
               PROVE  d.pool = x /\ d.epoch = pools'[x].epoch
    BY DEF HomeConnections, Elems, QueueHas
  <2>1. QueueHas(x, d)
    BY <1>2, <1>4, <1>5
  <2>2. d.pool = x /\ d.epoch = pools[x].epoch
    BY <1>2, <2>1 DEF HomeParts, HomeConnections, Elems, QueueHas
  <2> QED BY <1>2, <1>3, <2>2
<1>8. Complete' /\ Closes(p)
  <2>1. ASSUME NEW x \in DOMAIN pools \ {p} PROVE CompleteAt(x)' /\ Kept(x)' = Kept(x)
    <3>0. CompleteAt(x)
      BY <1>2 DEF HomeParts, Complete, CompleteAt
    <3>1. ASSUME NEW d, d.pool = x
          PROVE  d \in InUse' <=> d \in InUse
      BY <1>2, <1>4, <1>5, <1>6, <3>1, Users
    <3> HIDE DEF InUse
    <3> QED BY <1>3, <3>0, <3>1, CompleteStays
  <2>2. Kept(p)' = {} /\ Kept(p) = Elems(pools[p].queue)
    <3>1. Kept(p) = Elems(pools[p].queue)
      BY QueueFits DEF HomeParts, HasAllConnections
    <3>2. Kept(p)' = {}
      <4> SUFFICES ASSUME NEW d \in InUse', d.pool = p, d.epoch = pools'[p].epoch
                   PROVE  FALSE
        BY DEF Kept, CurrentOf, InUse
      <4>1. d \in InUse /\ (AuthHas(d) \/ FdHas(d) \/ ReturnHas(d))
        BY <1>2, <1>4, <1>5, <1>6, Users
      <4>2. d \in Kept(p)
        BY <1>1, <4>1 DEF Kept, CurrentOf, InUse
      <4>3. \E j \in DOMAIN pools[p].queue : pools[p].queue[j] = d
        BY <3>1, <4>2 DEF Elems
      <4> QED BY <4>1, <4>3 DEF Hands, OffTheQueues, AuthHas, FdHas, ReturnHas
    <3> QED BY <3>1, <3>2
  <2>3. Complete'
    BY <1>2, <2>1, <2>2 DEF Complete, CompleteAt
  <2> QED BY <2>1, <2>2, <2>3 DEF Closes, KeepsOthers, Elems
<1>9. NoSleeperMissed'
  <2> SUFFICES ASSUME NEW x \in DOMAIN pools', NEW a \in pools'[x].waiters
               PROVE  IF a[1] = "shutdown" THEN Len(pools'[x].queue) # pools'[x].size
                      ELSE pools'[x].queue = <<>>
    BY DEF NoSleeperMissed, HasAllConnections, IsEmpty
  <2>1. x \in DOMAIN pools /\ a \in pools[x].waiters
    BY <1>1, <1>2 DEF OthersSame
  <2>2. IF a[1] = "shutdown" THEN Len(pools[x].queue) # pools[x].size
        ELSE pools[x].queue = <<>>
    BY <2>1 DEF HomeParts, NoSleeperMissed, HasAllConnections, IsEmpty
  <2>3. CASE x # p
    BY <1>1, <2>1, <2>2, <2>3 DEF OthersSame
  <2>4. CASE x = p
    <3>1. a[1] # "shutdown"
      BY <2>2, <2>4 DEF HasAllConnections
    <3> QED BY <1>1, <2>4, <3>1
  <2> QED BY <2>3, <2>4
<1> QED BY <1>7, <1>8, <1>9 DEF HomeParts

(* Pool p is filled to its size, and everyone told, or it is empty. *)
Fills(p) ==
    \/ /\ pools'[p].waiters = {}
       /\ DOMAIN pools'[p].queue = 1..pools'[p].size
       /\ \E l : \A j \in 1..pools'[p].size : pools'[p].queue[j] =
            [pool |-> p, epoch |-> pools'[p].epoch, place |-> j, life |-> l]
    \/ pools'[p].queue = <<>>

LEMMA HomeOpen ==
    ASSUME Shape, Shape', Hands, HomeParts, PoolsGrow, NEW p, Opens(p), Fills(p),
           LeasesCameFrom',
           \A d : AuthHas(d)' \/ FdHas(d)' \/ ReturnHas(d)'
                    <=> AuthHas(d) \/ FdHas(d) \/ ReturnHas(d)
    PROVE  HomeParts' /\ Renews(p)
<1>1. /\ p \in DOMAIN pools'
      /\ p \in DOMAIN pools => pools[p].epoch < pools'[p].epoch
      /\ \A x \in DOMAIN pools' \ {p} : x \in DOMAIN pools /\ pools'[x] = pools[x]
      /\ \A d : QueueHas(p, d)' => d.pool = p /\ d.epoch = pools'[p].epoch
  BY DEF Opens, QueueHas
<1>2. pools'[p].size \in Nat /\ pools'[p].size # 0
  <2>1. pools'[p] \in Queues
    BY <1>1 DEF Shape, PoolsOK
  <2> QED BY <2>1, ContextAssumption DEF Queues
<1>3. \A x \in DOMAIN pools \ {p} : \A d : QueueHas(x, d)' <=> QueueHas(x, d)
  BY <1>1 DEF PoolsGrow, QueueHas
<1>4. \A x \in DOMAIN pools : \A d : QueueHas(x, d) => d.pool = x
  BY DEF HomeParts, HomeConnections, Elems, QueueHas
<1>5. HomeConnections'
  <2> SUFFICES ASSUME NEW x \in DOMAIN pools', NEW d, QueueHas(x, d)'
               PROVE  d.pool = x /\ d.epoch = pools'[x].epoch
    BY DEF HomeConnections, Elems, QueueHas
  <2>1. CASE x = p
    BY <1>1, <2>1
  <2>2. CASE x # p
    <3>1. x \in DOMAIN pools /\ QueueHas(x, d)
      BY <1>1, <1>3, <2>2
    <3> QED BY <1>1, <2>2, <3>1 DEF HomeParts, HomeConnections, Elems, QueueHas
  <2> QED BY <2>1, <2>2
<1>6. \A d : d \in InUse => d \in Conns /\ Known(d)
  <2> SUFFICES ASSUME NEW d, d \in InUse PROVE d \in Conns /\ Known(d)
    OBVIOUS
  <2>1. \/ AuthHas(d) \/ FdHas(d) \/ ReturnHas(d)
        \/ \E x \in DOMAIN pools : QueueHas(x, d)
    BY Users
  <2> QED BY <2>1, HeldTypes DEF Hands, AllKnown, AuthHas, FdHas, ReturnHas, QueueHas
<1>7. ASSUME NEW d \in InUse, d.pool = p, d.epoch = pools'[p].epoch
      PROVE  FALSE
  <2>1. d.epoch \in Nat /\ Exists(p) /\ d.epoch <= pools[p].epoch
    BY <1>6, <1>7 DEF Known, Conns
  <2>2. p \in DOMAIN pools
    BY <2>1 DEF Exists, Shape, PoolsOK
  <2>3. pools[p].epoch \in Nat
    BY <2>2, PoolOf DEF Shape
  <2> QED BY <1>1, <1>7, <2>1, <2>2, <2>3
<1>8. Complete' /\ Renews(p)
  <2>1. ASSUME NEW x \in DOMAIN pools' \ {p}
        PROVE  x \in DOMAIN pools /\ CompleteAt(x)' /\ Kept(x)' = Kept(x)
    <3>1. /\ CompleteAt(x) /\ x \in DOMAIN pools /\ pools'[x] = pools[x]
      BY <1>1 DEF HomeParts, Complete, CompleteAt
    <3>2. ASSUME NEW d, d.pool = x
          PROVE  d \in InUse' <=> d \in InUse
      <4>1. \A y \in DOMAIN pools' : QueueHas(y, d)' => y = x
        <5> SUFFICES ASSUME NEW y \in DOMAIN pools', QueueHas(y, d)', y # x PROVE FALSE
          OBVIOUS
        <5>1. y # p
          BY <1>1, <3>2
        <5>2. y \in DOMAIN pools /\ QueueHas(y, d)
          BY <1>1, <1>3, <5>1
        <5> QED BY <1>4, <3>2, <5>2
      <4>2. (\E y \in DOMAIN pools' : QueueHas(y, d)') <=> QueueHas(x, d)
        BY <1>3, <3>1, <4>1
      <4>3. (\E y \in DOMAIN pools : QueueHas(y, d)) <=> QueueHas(x, d)
        BY <1>4, <3>1, <3>2
      <4> QED BY <4>2, <4>3, Users
    <3> HIDE DEF InUse
    <3> QED BY <3>1, <3>2, CompleteStays
  <2>2. CompleteAt(p)' /\ (pools'[p].queue # <<>> => Kept(p)' # {})
    <3> DEFINE n == pools'[p].size
               e == pools'[p].epoch
    <3>1. \A d : d \in Kept(p)' <=> QueueHas(p, d)'
      <4>1. ASSUME NEW d \in Kept(p)'
            PROVE  QueueHas(p, d)'
        <5>1. d \in InUse' /\ d.pool = p /\ d.epoch = e
          BY <4>1 DEF Kept, CurrentOf, InUse
        <5>2. d \notin InUse
          BY <1>7, <5>1
        <5>3. PICK y \in DOMAIN pools' : QueueHas(y, d)'
          BY <5>1, <5>2, Users
        <5>4. CASE y # p
          <6>1. y \in DOMAIN pools /\ QueueHas(y, d)
            BY <1>1, <1>3, <5>3, <5>4
          <6> QED BY <5>2, <6>1, Users
        <5> QED BY <5>3, <5>4
      <4>2. ASSUME NEW d, QueueHas(p, d)'
            PROVE  d \in Kept(p)'
        <5>1. d \in InUse' /\ d.pool = p /\ d.epoch = e
          BY <1>1, <4>2, Users
        <5> QED BY <5>1 DEF Kept, CurrentOf, InUse
      <4> QED BY <4>1, <4>2
    <3>2. CASE pools'[p].queue = <<>>
      <4>1. Kept(p)' = {}
        BY <3>1, <3>2 DEF QueueHas
      <4> QED BY <3>2, <4>1 DEF CompleteAt
    <3>3. CASE /\ DOMAIN pools'[p].queue = 1..n
               /\ \E l : \A j \in 1..n : pools'[p].queue[j] =
                    [pool |-> p, epoch |-> e, place |-> j, life |-> l]
      <4>1. PICK l : \A j \in 1..n : pools'[p].queue[j] =
                    [pool |-> p, epoch |-> e, place |-> j, life |-> l]
        BY <3>3
      <4>2. Kept(p)' = Lot(p, e, n, l)
        <5>1. \A d : QueueHas(p, d)' <=> \E j \in 1..n :
                        d = [pool |-> p, epoch |-> e, place |-> j, life |-> l]
          BY <3>3, <4>1 DEF QueueHas
        <5>2. \A d : d \in Lot(p, e, n, l) <=> \E j \in 1..n :
                        d = [pool |-> p, epoch |-> e, place |-> j, life |-> l]
          BY DEF Lot
        <5>3. \A d : d \in Kept(p)' <=> d \in Lot(p, e, n, l)
          BY <3>1, <5>1, <5>2
        <5> DEFINE S == Kept(p)'
                   T == Lot(p, e, n, l)
        <5>4. \A d : d \in S <=> d \in T
          BY <5>3
        <5> HIDE DEF S, T
        <5>5. S = T
          BY <5>4
        <5> QED BY <5>5 DEF S, T
      <4> DEFINE c == [pool |-> p, epoch |-> e, place |-> 1, life |-> l]
      <4>3. c \in Kept(p)' /\ c.life = l
        BY <1>2, <4>2 DEF Lot
      <4> HIDE DEF c
      <4> QED BY <4>2, <4>3 DEF CompleteAt, Lot
    <3> QED BY <3>2, <3>3 DEF Fills
  <2>3. Complete'
    BY <2>1, <2>2 DEF Complete, CompleteAt
  <2>4. KeepsOthers(p)
    BY <2>1 DEF KeepsOthers, PoolsGrow
  <2>5. \A d \in Kept(p)' : d \notin InUse
    <3>1. \A d \in Kept(p)' : d.pool = p /\ d.epoch = pools'[p].epoch
      BY DEF Kept, CurrentOf
    <3> HIDE DEF InUse
    <3> QED BY <1>7, <3>1
  <2> QED BY <2>2, <2>3, <2>4, <2>5 DEF Renews
<1>9. NoSleeperMissed'
  <2> SUFFICES ASSUME NEW x \in DOMAIN pools', NEW a \in pools'[x].waiters
               PROVE  IF a[1] = "shutdown" THEN Len(pools'[x].queue) # pools'[x].size
                      ELSE pools'[x].queue = <<>>
    BY DEF NoSleeperMissed, HasAllConnections, IsEmpty
  <2>1. CASE x # p
    <3>1. x \in DOMAIN pools /\ pools'[x] = pools[x]
      BY <1>1, <2>1
    <3> QED BY <3>1 DEF HomeParts, NoSleeperMissed, HasAllConnections, IsEmpty
  <2>2. CASE x = p
    <3>1. pools'[p].queue = <<>>
      BY <2>2 DEF Fills
    <3> QED BY <1>2, <2>2, <3>1
  <2> QED BY <2>1, <2>2
<1> QED BY <1>5, <1>8, <1>9 DEF HomeParts

(* When the detector and the replacement of the list keep apart. *)
LEMMA ListKept ==
    ASSUME Shape, DetectorKnows, ListApart, ListApart', [Next]_vars
    PROVE  /\ \A i \in FdHolders : conn_pools'[i] = conn_pools[i]
           /\ \A i \in DOMAIN fd.checks :
                /\ ~FdPanic(i)
                /\ fd.checks[i].at \in {"take", "return", "refresh"}
                     => fd.checks[i].pool = conn_pools[i]
<1>1. CASE fd.checks = <<>>
  BY <1>1 DEF FdHolders
<1>2. CASE fd.checks # <<>>
  <2>1. ~ListBusy
    BY <1>2 DEF ListApart
  <2>2. UNCHANGED conn_pools
    <3>1. CASE \E list \in ServerLists : SetServerList(list)
      <4>1. main'.at = "adding" /\ UNCHANGED fd
        BY <3>1 DEF SetServerList, MainIdle
      <4> QED BY <1>2, <4>1 DEF ListApart, ListBusy
    <3> QED BY <2>1, <3>1, PoolListWriters DEF AddServer, ListBusy
  <2> QED BY <2>2, NoPanic DEF DetectorKnows
<1> QED BY <1>1, <1>2

LEMMA SameHands ==
    /\ UNCHANGED auth => AuthStays /\ \A d : AuthHas(d)' <=> AuthHas(d)
    /\ UNCHANGED fd => /\ FdHolders' = FdHolders
                       /\ \A i \in FdHolders : fd'.checks[i].lease = fd.checks[i].lease
                       /\ \A d : FdHas(d)' <=> FdHas(d)
    /\ UNCHANGED returns => \A d : ReturnHas(d)' <=> ReturnHas(d)
BY DEF AuthStays, Keepers, FdHolders, AuthHas, FdHas, ReturnHas

LEMMA SameLeases ==
    ASSUME LeasesCameFrom, UNCHANGED <<auth, fd, returns>>,
           \A i \in FdHolders : conn_pools'[i] = conn_pools[i]
    PROVE  LeasesCameFrom' /\ AuthStays /\ FdStays
<1>1. AuthStays /\ FdStays
  BY SameHands DEF FdStays
<1> QED BY <1>1 DEF LeasesCameFrom, CameFrom, AuthStays, FdStays

LEMMA SamePools ==
    ASSUME HomeParts, UNCHANGED <<pools, returns>>, AuthStays, FdStays
    PROVE  HomeParts' /\ KeepsAll
<1>1. PoolsStay /\ \A p \in DOMAIN pools : pools'[p].waiters \ pools[p].waiters = {}
  BY DEF PoolsStay
<1>2. NoSleeperMissed'
  BY <1>1, NobodyMisses DEF HomeParts
<1> QED BY <1>1, <1>2, HomeStill

LEMMA ParkedHome ==
    ASSUME Shape, HomeParts, NEW p \in DOMAIN pools, NEW a \in Sleepers,
           IF a[1] = "shutdown" THEN ~HasAllConnections(pools[p]) ELSE IsEmpty(pools[p]),
           pools' = [pools EXCEPT ![p] = NotifyWait(@, a)],
           UNCHANGED <<auth, fd, returns>>,
           \A i \in FdHolders : conn_pools'[i] = conn_pools[i]
    PROVE  HomeParts' /\ KeepsAll
<1>1. /\ OthersSame(p)
      /\ pools'[p].queue = pools[p].queue /\ pools'[p].epoch = pools[p].epoch
      /\ pools'[p].size = pools[p].size /\ pools'[p].waiters = pools[p].waiters \cup {a}
  BY ParkPools DEF Shape
<1>2. PoolsStay
  BY <1>1 DEF PoolsStay, OthersSame
<1>3. NoSleeperMissed'
  <2>1. \A x \in DOMAIN pools : \A b \in pools'[x].waiters \ pools[x].waiters :
          x = p /\ b = a
    BY <1>1 DEF OthersSame
  <2> QED BY <1>2, <2>1, NobodyMisses DEF HomeParts
<1>4. AuthStays /\ FdStays
  BY SameLeases DEF HomeParts
<1> QED BY <1>2, <1>3, <1>4, HomeStill

(* A reset. *)
LEMMA RefreshedOpens ==
    ASSUME Shape, HomeParts, NEW p \in DOMAIN pools, NEW n \in PoolSizes,
           NEW ok \in BOOLEAN, pools' = [pools EXCEPT ![p] = Refreshed(p, n, ok)]
    PROVE  Opens(p) /\ Fills(p) /\ PoolsGrow /\ (ok <=> pools'[p].queue # <<>>)
<1> DEFINE o == Fresh(p, pool_server[p].url, pools[p].epoch + 1, n, ok)
           e == pools[p].epoch + 1
           l == life[pool_server[p].url]
<1>1. /\ OthersSame(p) /\ pools'[p].epoch = e /\ pools'[p].queue = o /\ pools'[p].size = n
      /\ pools'[p].waiters = IF ok THEN {} ELSE pools[p].waiters
      /\ ok => /\ Len(o) = n
               /\ \A j \in 1..n : o[j] = [pool |-> p, epoch |-> e, place |-> j, life |-> l]
      /\ ~ok => o = <<>>
  <2>1. PoolsOK /\ ListsOK /\ life \in [Urls -> Nat]
    BY DEF Shape, EnvOK
  <2> QED BY <2>1, RefreshPools, Zenon
<1>2. \A x \in DOMAIN pools : pools[x].epoch \in Nat
  BY PoolOf DEF Shape
<1>3. pools[p].epoch < e /\ pools[p].epoch <= e
  BY <1>2
<1>4. pools'[p].queue \in Seq(Conns) /\ n \in Nat
  <2>1. pools'[p] \in Queues
    BY <1>1 DEF OthersSame, PoolsOK
  <2> QED BY <2>1, ContextAssumption DEF Queues
<1>5. DOMAIN pools'[p].queue = 1..Len(pools'[p].queue)
  BY <1>4
<1> HIDE DEF o, e, l
<1>6. ok => DOMAIN o = 1..n
  BY <1>1, <1>5
<1>7. Fills(p)
  <2>1. CASE ok
    <3>1. pools'[p].waiters = {} /\ DOMAIN pools'[p].queue = 1..n /\ pools'[p].size = n
      BY <1>1, <1>6, <2>1
    <3>2. \A j \in 1..n : pools'[p].queue[j] =
            [pool |-> p, epoch |-> pools'[p].epoch, place |-> j, life |-> l]
      BY <1>1, <2>1
    <3> QED BY <3>1, <3>2 DEF Fills
  <2>2. CASE ~ok
    BY <1>1, <2>2 DEF Fills
  <2> QED BY <2>1, <2>2
<1>8. \A j \in DOMAIN pools'[p].queue : /\ pools'[p].queue[j].pool = p
                                        /\ pools'[p].queue[j].epoch = e
                                        /\ pools'[p].queue[j].place = j
  <2>1. CASE ok
    <3>1. \A j \in 1..n : o[j].pool = p /\ o[j].epoch = e /\ o[j].place = j
      BY <1>1, <2>1
    <3>2. DOMAIN o = 1..n /\ pools'[p].queue = o
      BY <1>1, <1>6, <2>1
    <3> QED BY <3>1, <3>2
  <2>2. CASE ~ok
    BY <1>1, <2>2
  <2> QED BY <2>1, <2>2
<1>9. Opens(p)
  BY <1>1, <1>3, <1>8 DEF Opens, OthersSame
<1>10. PoolsGrow
  <2>1. \A x \in DOMAIN pools : pools[x].epoch <= pools'[x].epoch
    BY <1>1, <1>2, <1>3 DEF OthersSame
  <2> QED BY <1>1, <2>1 DEF PoolsGrow, OthersSame, Shape, PoolsOK
<1>11. ok <=> pools'[p].queue # <<>>
  <2>1. n # 0 /\ n \in Nat
    BY ContextAssumption
  <2> QED BY <1>1, <2>1
<1> QED BY <1>7, <1>9, <1>10, <1>11

LEMMA MainHome ==
    ASSUME Shape, Shape', Hands, HomeParts,
           \A i \in FdHolders : conn_pools'[i] = conn_pools[i],
           \/ \E list \in ServerLists : SetServerList(list)
           \/ \E n \in PoolSizes : SetPoolSize(n)
           \/ MainStep
    PROVE  /\ HomeParts'
           /\ CreatePool => Renews(Len(pools) + 1)
           /\ RefreshPool => Renews(conn_pools[Head(main.todo).id + 1])
           /\ ~CreatePool /\ ~RefreshPool => KeepsAll
<1>1. UNCHANGED <<auth, fd, returns>>
  BY DEF SetServerList, SetPoolSize, MainStep, CreatePool, AddServer, ServerListDone,
         RefreshPool, RefreshStatus, RefreshDone
<1>2. LeasesCameFrom' /\ AuthStays /\ FdStays
  BY <1>1, SameLeases DEF HomeParts
<1>3. \A d : AuthHas(d)' \/ FdHas(d)' \/ ReturnHas(d)'
               <=> AuthHas(d) \/ FdHas(d) \/ ReturnHas(d)
  BY <1>1, SameHands
<1>4. ASSUME UNCHANGED pools PROVE HomeParts' /\ KeepsAll
  BY <1>1, <1>2, <1>4, SamePools
<1>5. ASSUME CreatePool PROVE HomeParts' /\ Renews(Len(pools) + 1)
  <2>1. PICK u \in Urls, ok \in BOOLEAN :
           pools' = Append(pools, NewPool(Len(pools) + 1, u, ok))
    BY <1>5, CreatePoolFacts
  <2> DEFINE p == Len(pools) + 1
             q == NewPool(p, u, ok)
  <2>2. p \in Nat /\ life \in [Urls -> Nat] /\ pool_size \in PoolSizes
    BY DEF Shape, PoolsOK, EnvOK, ListsOK
  <2>3. /\ q \in Queues /\ q.epoch = 1 /\ q.size = pool_size /\ q.waiters = {}
        /\ \A j \in DOMAIN q.queue :
             q.queue[j].pool = p /\ q.queue[j].epoch = 1 /\ q.queue[j].place = j
        /\ ok => /\ DOMAIN q.queue = 1..pool_size
                 /\ \A j \in 1..pool_size : q.queue[j] =
                      [pool |-> p, epoch |-> 1, place |-> j, life |-> life[u]]
        /\ ~ok => q.queue = <<>>
    <3> HIDE DEF p
    <3> QED BY <2>2, NewPoolFacts
  <2>4. pools' = Append(pools, q) /\ p = Len(pools) + 1 /\ p \notin DOMAIN pools
    BY <2>1 DEF Shape, PoolsOK
  <2> HIDE DEF p, q
  <2>5. /\ Len(pools') = p /\ DOMAIN pools' = DOMAIN pools \cup {p}
        /\ \A x \in DOMAIN pools : pools'[x] = pools[x]
        /\ pools'[p] = q
    BY <2>3, <2>4, Grown DEF Shape
  <2>6. Opens(p)
    BY <2>3, <2>4, <2>5 DEF Opens
  <2>7. \A x \in DOMAIN pools : pools[x].epoch \in Nat
    BY PoolOf DEF Shape
  <2>8. PoolsGrow
    BY <2>4, <2>5, <2>7 DEF PoolsGrow, Shape, PoolsOK
  <2>9. Fills(p)
    <3>1. CASE ok
      <4>1. \A j \in 1..pool_size : q.queue[j] =
              [pool |-> p, epoch |-> q.epoch, place |-> j, life |-> life[u]]
        BY <2>3, <3>1
      <4>2. /\ pools'[p].waiters = {} /\ DOMAIN pools'[p].queue = 1..pools'[p].size
            /\ pools'[p].size = pool_size
        BY <2>3, <2>5, <3>1
      <4>3. \A j \in 1..pools'[p].size : pools'[p].queue[j] =
              [pool |-> p, epoch |-> pools'[p].epoch, place |-> j, life |-> life[u]]
        BY <2>5, <4>1, <4>2
      <4>4. \E l : \A j \in 1..pools'[p].size : pools'[p].queue[j] =
              [pool |-> p, epoch |-> pools'[p].epoch, place |-> j, life |-> l]
        BY <4>3
      <4> QED BY <4>2, <4>4 DEF Fills
    <3>2. CASE ~ok
      BY <2>3, <2>5, <3>2 DEF Fills
    <3> QED BY <3>1, <3>2
  <2>10. HomeParts' /\ Renews(p)
    BY <1>2, <1>3, <2>6, <2>8, <2>9, HomeOpen
  <2> QED BY <2>10 DEF p
<1>6. ASSUME RefreshPool PROVE HomeParts' /\ Renews(conn_pools[Head(main.todo).id + 1])
  <2>1. PICK ok \in BOOLEAN :
          LET s == Head(main.todo)
              p == conn_pools[s.id + 1]
          IN  /\ p \in DOMAIN pools
              /\ pools' = [pools EXCEPT ![p] = Refreshed(p, pool_size, ok)]
    BY <1>6, RefreshPoolFacts
  <2> DEFINE p == conn_pools[Head(main.todo).id + 1]
  <2>2. p \in DOMAIN pools /\ pools' = [pools EXCEPT ![p] = Refreshed(p, pool_size, ok)]
    BY <2>1
  <2>3. pool_size \in PoolSizes
    BY DEF Shape, ListsOK
  <2> HIDE DEF p
  <2>4. Opens(p) /\ Fills(p) /\ PoolsGrow
    BY <2>2, <2>3, RefreshedOpens
  <2>5. HomeParts' /\ Renews(p)
    BY <1>2, <1>3, <2>4, HomeOpen
  <2> QED BY <2>5 DEF p
<1>7. CreatePool \/ RefreshPool \/ UNCHANGED pools
  BY DEF SetServerList, SetPoolSize, MainStep, AddServer, ServerListDone, RefreshStatus,
         RefreshDone, poolVars
<1>8. ~(CreatePool /\ RefreshPool)
  BY DEF CreatePool, RefreshPool
<1> QED BY <1>4, <1>5, <1>6, <1>7, <1>8

LEMMA AuthHome ==
    ASSUME Shape, Shape', Hands, HomeParts,
           \A i \in FdHolders : conn_pools'[i] = conn_pools[i],
           NEW t \in AuthTasks, AuthStep(t)
    PROVE  HomeParts' /\ KeepsAll
<1>0. /\ auth \in [AuthTasks -> Operations] /\ AuthInRange(auth[t])
      /\ auth[t] \in Operations
  BY DEF Shape, AuthOK
<1>1. CASE AuthFind(t) \/ AuthFailover(t)
  <2>1. UNCHANGED <<pools, returns, fd>>
    BY <1>1 DEF AuthFind, AuthFailover, poolVars
  <2>2. /\ \A s \in AuthTasks \ {t} : auth'[s] = auth[s]
        /\ auth[t].at \notin {"op", "panicked"} /\ auth'[t].at \notin {"op", "panicked"}
    BY <1>1, AuthAside
  <2>3. AuthStays
    BY <2>2 DEF AuthStays, Keepers
  <2>4. FdStays
    BY <2>1, SameHands DEF FdStays
  <2> QED BY <2>1, <2>3, <2>4, SamePools
<1>2. CASE AuthTake(t)
  <2> DEFINE p == auth[t].pool
             a == <<"auth", t>>
  <2>1. /\ p \in DOMAIN pools /\ a \in Sleepers /\ auth[t].at = "take"
        /\ UNCHANGED <<returns, fd>>
    BY <1>0, <1>2, SleeperKinds DEF AuthTake, AuthInRange, Exists, Shape, PoolsOK
  <2>4. a[1] # "shutdown"
    OBVIOUS
  <2>2. CASE Parks(p, a) /\ UNCHANGED auth
    <3>1. pools' = [pools EXCEPT ![p] = NotifyWait(@, a)] /\ IsEmpty(pools[p])
      BY <2>2 DEF Parks
    <3> HIDE DEF p, a
    <3> QED BY <2>1, <2>2, <2>4, <3>1, ParkedHome
  <2>3. CASE Takes(p) /\ auth' = [auth EXCEPT ![t].at = "op", ![t].lease = LeaseFrom(p)]
    <3> DEFINE l == LeaseFrom(p)
    <3>1. /\ l.conn = pools[p].queue[1] /\ l.from_epoch = pools[p].epoch
          /\ pools[p].queue # <<>>
      BY <2>1, <2>3, TakePools DEF Shape
    <3>2. auth' = [auth EXCEPT ![t].at = "op", ![t].lease = l]
      BY <2>3
    <3>3. 1 \in DOMAIN pools[p].queue
      <4>1. pools[p].queue \in Seq(Conns)
        BY <2>1, PoolOf DEF Shape
      <4> QED BY <3>1, <4>1
    <3>4. CameFrom(l, p)
      <4> HIDE DEF l, p
      <4> QED BY <2>1, <3>1, <3>3 DEF CameFrom, HomeParts, HomeConnections, Elems
    <3> HIDE DEF l
    <3>5. /\ \A s \in AuthTasks \ {t} : auth'[s] = auth[s]
          /\ auth'[t].lease = l /\ auth'[t].at = "op" /\ auth'[t].pool = p
      BY <1>0, <3>2 DEF Operations
    <3>6. Keepers' = Keepers \cup {t} /\ t \notin Keepers
      BY <2>1, <3>5 DEF Keepers
    <3>7. \A d : AuthHas(d)' <=> d = l.conn \/ AuthHas(d)
      <4>1. \A s \in Keepers : auth'[s] = auth[s]
        BY <3>5, <3>6 DEF Keepers
      <4> QED BY <3>5, <3>6, <4>1 DEF AuthHas
    <3>8. /\ FdHolders' = FdHolders /\ \A d : FdHas(d)' <=> FdHas(d)
          /\ \A i \in FdHolders : fd'.checks[i].lease = fd.checks[i].lease
      BY <2>1, SameHands
    <3>9. LeasesCameFrom'
      <4>1. \A s \in Keepers' : CameFrom(auth'[s].lease, auth'[s].pool)
        BY <3>4, <3>5, <3>6 DEF HomeParts, LeasesCameFrom, Keepers
      <4>2. \A i \in FdHolders' : CameFrom(fd'.checks[i].lease, conn_pools'[i])
        BY <3>8 DEF HomeParts, LeasesCameFrom
      <4> QED BY <2>1, <4>1, <4>2 DEF HomeParts, LeasesCameFrom
    <3> HIDE DEF p
    <3> QED BY <2>1, <2>3, <3>1, <3>7, <3>8, <3>9, HomeTake
  <2> QED BY <1>2, <2>2, <2>3 DEF AuthTake
<1>3. CASE AuthOp(t)
  <2> DEFINE b == [pool |-> auth[t].pool, lease |-> auth[t].lease]
             c == auth[t].lease.conn
  <2>1. /\ UNCHANGED <<pools, fd>> /\ returns' = returns \cup {b} /\ auth[t].at = "op"
    BY <1>3 DEF AuthOp, poolVars
  <2>2. /\ \A s \in AuthTasks \ {t} : auth'[s] = auth[s]
        /\ auth'[t].at \notin {"op", "panicked"}
    BY <1>0, <1>3 DEF AuthOp, Operations
  <2>3. b.lease.conn = c /\ t \in Keepers /\ b.lease = auth[t].lease /\ b.pool = auth[t].pool
    BY <2>1 DEF Keepers
  <2>4. \A s \in Keepers' : s \in Keepers /\ s # t /\ auth'[s] = auth[s]
    BY <2>2 DEF Keepers
  <2>5. \A s \in Keepers \ {t} : s \in Keepers' /\ auth'[s] = auth[s]
    BY <2>2 DEF Keepers
  <2>6. c = auth[t].lease.conn
    OBVIOUS
  <2> HIDE DEF b, c
  <2>7. \A d : (AuthHas(d)' \/ ReturnHas(d)') <=> (AuthHas(d) \/ ReturnHas(d))
    <3>1. \A d : AuthHas(d) <=> AuthHas(d)' \/ d = c
      BY <2>3, <2>4, <2>5, <2>6 DEF AuthHas
    <3>2. \A d : ReturnHas(d)' <=> ReturnHas(d) \/ d = c
      BY <2>1, <2>3 DEF ReturnHas
    <3> QED BY <3>1, <3>2
  <2>8. /\ FdHolders' = FdHolders /\ \A d : FdHas(d)' <=> FdHas(d)
        /\ \A i \in FdHolders : fd'.checks[i].lease = fd.checks[i].lease
    BY <2>1, SameHands
  <2>9. LeasesCameFrom'
    <3>1. \A s \in Keepers' : CameFrom(auth'[s].lease, auth'[s].pool)
      BY <2>4 DEF HomeParts, LeasesCameFrom
    <3>2. \A i \in FdHolders' : CameFrom(fd'.checks[i].lease, conn_pools'[i])
      BY <2>8 DEF HomeParts, LeasesCameFrom
    <3>3. \A r \in returns' : CameFrom(r.lease, r.pool)
      BY <2>1, <2>3 DEF HomeParts, LeasesCameFrom
    <3> QED BY <3>1, <3>2, <3>3 DEF LeasesCameFrom
  <2>10. HomeConnections' /\ NoSleeperMissed'
    BY <2>1 DEF HomeParts, HomeConnections, NoSleeperMissed, HasAllConnections, IsEmpty, Elems
  <2>11. \A d : d \in InUse' <=> d \in InUse
    <3>1. \A x, d : QueueHas(x, d)' <=> QueueHas(x, d)
      BY <2>1 DEF QueueHas
    <3>2. DOMAIN pools' = DOMAIN pools
      BY <2>1
    <3> HIDE DEF InUse
    <3> QED BY <2>7, <2>8, <3>1, <3>2, Users
  <2>12. ASSUME NEW x \in DOMAIN pools PROVE CompleteAt(x)' /\ Kept(x)' = Kept(x)
    <3>1. CompleteAt(x) /\ pools' = pools
      BY <2>1 DEF HomeParts, Complete, CompleteAt
    <3> HIDE DEF InUse
    <3> QED BY <2>11, <3>1, CompleteStays
  <2>13. Complete' /\ KeepsAll
    BY <2>1, <2>12 DEF Complete, CompleteAt, KeepsAll
  <2> QED BY <2>9, <2>10, <2>13 DEF HomeParts
<1>4. CASE AuthPanic(t)
  <2>1. /\ \A s \in AuthTasks \ {t} : auth'[s] = auth[s]
        /\ auth'[t].lease = auth[t].lease /\ auth'[t].pool = auth[t].pool
        /\ Keepers' = Keepers
        /\ UNCHANGED <<pools, returns, fd>>
    BY <1>4, PanicKeeps
  <2>2. AuthStays
    BY <2>1 DEF AuthStays, Keepers
  <2>3. FdStays
    BY <2>1, SameHands DEF FdStays
  <2> QED BY <2>1, <2>2, <2>3, SamePools
<1> QED BY <1>1, <1>2, <1>3, <1>4 DEF AuthStep

LEMMA SpawnedReturnHome ==
    ASSUME Shape, Shape', Hands, HomeParts,
           \A i \in FdHolders : conn_pools'[i] = conn_pools[i],
           NEW r \in returns, SpawnedReturn(r)
    PROVE  HomeParts' /\ KeepsAll
<1> DEFINE l == r.lease
           p == r.pool
<1>1. /\ p \in DOMAIN pools /\ l \in AnyLease
  BY DEF Shape, ReturnsOK, Exists, PoolsOK
<1>2. /\ pools' = [pools EXCEPT ![p] = ReturnConnection(@, l)]
      /\ returns' = returns \ {r} /\ UNCHANGED <<auth, fd>>
  BY DEF SpawnedReturn
<1>3. CameFrom(l, p) /\ ReturnHas(l.conn)
  BY DEF HomeParts, LeasesCameFrom, ReturnHas
<1>4. /\ Keepers' = Keepers /\ FdHolders' = FdHolders
      /\ \A d : (AuthHas(d)' <=> AuthHas(d)) /\ (FdHas(d)' <=> FdHas(d))
  BY <1>2, SameHands DEF AuthStays
<1>5. LeasesCameFrom'
  BY <1>2, <1>4 DEF HomeParts, LeasesCameFrom
<1>6. \A d : d # l.conn => (ReturnHas(d)' <=> ReturnHas(d))
  BY <1>2 DEF ReturnHas
<1> HIDE DEF l, p
<1> QED BY <1>1, <1>2, <1>3, <1>4, <1>5, <1>6, HomePut

LEMMA ShutdownHome ==
    ASSUME Shape, Shape', Hands, HomeParts,
           \A i \in FdHolders : conn_pools'[i] = conn_pools[i],
           NEW k \in DOMAIN shutdowns, ShutdownStep(k)
    PROVE  /\ HomeParts'
           /\ HasAllConnections(pools[Head(shutdowns[k])]) => Closes(Head(shutdowns[k]))
           /\ ~HasAllConnections(pools[Head(shutdowns[k])]) => KeepsAll
<1> DEFINE p == Head(shutdowns[k])
           a == <<"shutdown", k>>
<1>1. /\ p \in DOMAIN pools /\ a \in Sleepers /\ UNCHANGED <<auth, fd, returns>>
  BY ShutdownAt, SleeperKinds DEF ShutdownStep
<1>2. a[1] = "shutdown"
  OBVIOUS
<1>3. ASSUME ~HasAllConnections(pools[p]), pools' = [pools EXCEPT ![p] = NotifyWait(@, a)]
      PROVE  HomeParts' /\ KeepsAll
  <2> HIDE DEF p, a
  <2> QED BY <1>1, <1>2, <1>3, ParkedHome
<1>4. ASSUME HasAllConnections(pools[p]), pools' = [pools EXCEPT ![p] = CloseConnections(@)]
      PROVE  HomeParts' /\ Closes(p)
  <2> HIDE DEF p, a
  <2>1. LeasesCameFrom'
    BY <1>1, SameLeases DEF HomeParts
  <2>2. \A d : AuthHas(d)' \/ FdHas(d)' \/ ReturnHas(d)'
                 <=> AuthHas(d) \/ FdHas(d) \/ ReturnHas(d)
    BY <1>1, SameHands
  <2> QED BY <1>1, <1>4, <2>1, <2>2, HomeClose
<1> QED BY <1>3, <1>4 DEF ShutdownStep

LEMMA CheckStays ==
    ASSUME NEW i \in DOMAIN fd.checks, NEW d, CheckBecomes(i, d),
           d.at \in {"ping", "lookupReturn", "return"}
             <=> fd.checks[i].at \in {"ping", "lookupReturn", "return"},
           d.at \in {"ping", "lookupReturn", "return"} => d.lease = fd.checks[i].lease,
           \A h \in FdHolders : conn_pools'[h] = conn_pools[h]
    PROVE  FdStays /\ \A c : FdHas(c)' <=> FdHas(c)
<1>1. FdHolders' = FdHolders
  BY DEF CheckBecomes, FdHolders
<1>2. \A h \in FdHolders : fd'.checks[h].lease = fd.checks[h].lease
  BY DEF CheckBecomes, FdHolders
<1> QED BY <1>1, <1>2 DEF FdStays, FdHas

LEMMA CheckHome ==
    ASSUME Shape, Shape', Hands, HomeParts, NEW i \in DOMAIN fd.checks,
           CheckServerHealth(i), ~FdPanic(i),
           \A h \in FdHolders : conn_pools'[h] = conn_pools[h],
           fd.checks[i].at \in {"take", "return", "refresh"}
             => fd.checks[i].pool = conn_pools[i]
    PROVE  /\ HomeParts'
           /\ FdRefresh(i) => Renews(conn_pools[i])
           /\ ~FdRefresh(i) => KeepsAll
<1> DEFINE c == fd.checks[i]
<1>0. UNCHANGED <<returns, auth, conn_pools>>
  BY DEF CheckServerHealth, FdLookup, FdTake, FdPing, FdReturn, FdConnect,
         FdPingNew, FdRefresh, FdStatus, ctxVars
<1>1. AuthStays /\ \A d : (AuthHas(d)' <=> AuthHas(d)) /\ (ReturnHas(d)' <=> ReturnHas(d))
  BY <1>0, SameHands
<1>2. ASSUME FdLookup(i) \/ FdPing(i) \/ FdConnect(i) \/ FdPingNew(i) \/ FdStatus(i)
      PROVE  HomeParts' /\ KeepsAll
  <2>1. UNCHANGED pools
    BY <1>2 DEF FdLookup, FdPing, FdConnect, FdPingNew, FdStatus, poolVars
  <2>2. FdStays
    <3>1. CASE FdLookup(i)
      BY <3>1, LookupStep, CheckStays
    <3>2. CASE FdPing(i)
      BY <3>2, PingStep, CheckStays
    <3>3. CASE FdConnect(i)
      BY <3>3, ConnectStep, CheckStays
    <3>4. CASE FdPingNew(i)
      BY <3>4, PingNewStep, CheckStays
    <3>5. CASE FdStatus(i)
      BY <3>5, StatusStep, CheckStays
    <3> QED BY <1>2, <3>1, <3>2, <3>3, <3>4, <3>5
  <2> QED BY <1>0, <1>1, <2>1, <2>2, SamePools
<1>3. ASSUME FdTake(i) PROVE HomeParts' /\ KeepsAll
  <2> DEFINE p == c.pool
             a == <<"fd", i>>
  <2>1. p \in DOMAIN pools /\ a \in Sleepers /\ c.at = "take" /\ p = conn_pools[i]
    BY <1>3, CheckOf, SleeperKinds DEF Shape, FdTake, CheckInRange, Exists, PoolsOK
  <2>2. a[1] # "shutdown"
    OBVIOUS
  <2>3. CASE Parks(p, a) /\ UNCHANGED fd
    <3>1. pools' = [pools EXCEPT ![p] = NotifyWait(@, a)] /\ IsEmpty(pools[p])
      BY <2>3 DEF Parks
    <3> HIDE DEF p, a
    <3> QED BY <1>0, <2>1, <2>2, <2>3, <3>1, ParkedHome
  <2>4. CASE /\ Takes(p)
             /\ fd' = [fd EXCEPT !.checks[i].at = "ping", !.checks[i].lease = LeaseFrom(p)]
    <3> DEFINE l == LeaseFrom(p)
    <3>1. /\ l.conn = pools[p].queue[1] /\ l.from_epoch = pools[p].epoch
          /\ pools[p].queue # <<>>
      BY <2>1, <2>4, TakePools DEF Shape
    <3>2. PICK d : CheckBecomes(i, d) /\ d.lease = l /\ d.at = "ping"
      <4> HIDE DEF p
      <4> QED BY <2>4, FdTakesStep
    <3>3. 1 \in DOMAIN pools[p].queue
      <4>1. pools[p].queue \in Seq(Conns)
        BY <2>1, PoolOf DEF Shape
      <4> QED BY <3>1, <4>1
    <3> HIDE DEF l, p
    <3>4. CameFrom(l, p)
      BY <2>1, <3>1, <3>3 DEF CameFrom, HomeParts, HomeConnections, Elems
    <3>5. /\ FdHolders' = FdHolders \cup {i} /\ i \notin FdHolders
          /\ \A h \in FdHolders : fd'.checks[h] = fd.checks[h]
          /\ fd'.checks[i].lease = l
      BY <2>1, <3>2 DEF CheckBecomes, FdHolders
    <3>6. \A e : FdHas(e)' <=> e = l.conn \/ FdHas(e)
      BY <3>5 DEF FdHas
    <3>7. LeasesCameFrom'
      <4>1. \A t \in Keepers' : CameFrom(auth'[t].lease, auth'[t].pool)
        BY <1>0, <1>1 DEF HomeParts, LeasesCameFrom, AuthStays
      <4>2. \A h \in FdHolders' : CameFrom(fd'.checks[h].lease, conn_pools'[h])
        BY <1>0, <2>1, <3>4, <3>5 DEF HomeParts, LeasesCameFrom
      <4> QED BY <1>0, <4>1, <4>2 DEF HomeParts, LeasesCameFrom
    <3> QED BY <1>0, <1>1, <2>1, <2>4, <3>1, <3>6, <3>7, HomeTake
  <2> QED BY <1>3, <2>3, <2>4 DEF FdTake
<1>4. ASSUME FdReturn(i) PROVE HomeParts' /\ KeepsAll
  <2> DEFINE p == c.pool
             l == c.lease
  <2>1. /\ p \in DOMAIN pools /\ l \in AnyLease /\ c.at = "return" /\ p = conn_pools[i]
        /\ pools' = [pools EXCEPT ![p] = ReturnConnection(@, l)]
    <3>1. c.at = "return" /\ pools' = [pools EXCEPT ![p] = ReturnConnection(@, l)]
      BY <1>4 DEF FdReturn
    <3>2. CheckInRange(c) /\ l \in AnyLease
      BY CheckOf DEF Shape
    <3>3. Exists(p)
      BY <3>1, <3>2 DEF CheckInRange
    <3>4. p \in DOMAIN pools
      BY <3>3 DEF Exists, Shape, PoolsOK
    <3> QED BY <3>1, <3>2, <3>4
  <2>2. i \in FdHolders
    BY <2>1 DEF FdHolders
  <2>3. CameFrom(l, p) /\ FdHas(l.conn)
    BY <2>1, <2>2 DEF HomeParts, LeasesCameFrom, FdHas
  <2>4. PICK d : CheckBecomes(i, d) /\ d.at = "status"
    BY <1>4, ReturnStep
  <2>5. /\ FdHolders' = FdHolders \ {i}
        /\ \A h \in FdHolders' : fd'.checks[h] = fd.checks[h]
    BY <2>4 DEF CheckBecomes, FdHolders
  <2>6. \A e : e # l.conn => (FdHas(e)' <=> FdHas(e))
    BY <2>5 DEF FdHas
  <2>7. LeasesCameFrom'
    <3>1. \A t \in Keepers' : CameFrom(auth'[t].lease, auth'[t].pool)
      BY <1>0, <1>1 DEF HomeParts, LeasesCameFrom, AuthStays
    <3>2. \A h \in FdHolders' : CameFrom(fd'.checks[h].lease, conn_pools'[h])
      BY <1>0, <2>5 DEF HomeParts, LeasesCameFrom
    <3> QED BY <1>0, <3>1, <3>2 DEF HomeParts, LeasesCameFrom
  <2> HIDE DEF l, p
  <2> QED BY <1>1, <2>1, <2>3, <2>6, <2>7, HomePut
<1>5. ASSUME FdRefresh(i) PROVE HomeParts' /\ Renews(conn_pools[i])
  <2> DEFINE p == c.pool
             n == c.size
  <2>1. PICK d : \E ok \in BOOLEAN :
           /\ CheckBecomes(i, d) /\ d.at = "status" /\ c.at = "refresh"
           /\ p \in DOMAIN pools /\ n \in PoolSizes
           /\ pools' = [pools EXCEPT ![p] = Refreshed(p, n, ok)]
    BY <1>5, RefreshStep
  <2>2. PICK ok \in BOOLEAN : pools' = [pools EXCEPT ![p] = Refreshed(p, n, ok)]
    BY <2>1
  <2>3. FdStays /\ \A e : FdHas(e)' <=> FdHas(e)
    BY <2>1, CheckStays
  <2>4. LeasesCameFrom'
    BY <1>0, <1>1, <2>3 DEF HomeParts, LeasesCameFrom, CameFrom, AuthStays, FdStays
  <2> HIDE DEF p, n
  <2>5. Opens(p) /\ Fills(p) /\ PoolsGrow
    BY <2>1, <2>2, RefreshedOpens
  <2>6. HomeParts' /\ Renews(p)
    BY <1>1, <2>3, <2>4, <2>5, HomeOpen
  <2>7. p = conn_pools[i]
    BY <2>1 DEF p
  <2> QED BY <2>6, <2>7
<1>6. ~(FdRefresh(i) /\ (FdLookup(i) \/ FdTake(i) \/ FdPing(i) \/ FdReturn(i) \/ FdConnect(i)
                          \/ FdPingNew(i) \/ FdStatus(i)))
  <2>1. FdLookup(i) => c.at \in {"lookup", "lookupReturn", "lookupRefresh"}
    BY DEF FdLookup
  <2>2. /\ FdTake(i) => c.at = "take"
        /\ FdPing(i) => c.at = "ping"
        /\ FdReturn(i) => c.at = "return"
        /\ FdConnect(i) => c.at = "connect"
        /\ FdPingNew(i) => c.at = "pingNew"
        /\ FdStatus(i) => c.at = "status"
        /\ FdRefresh(i) => c.at = "refresh"
    BY DEF FdRefresh, FdTake, FdPing, FdReturn, FdConnect, FdPingNew, FdStatus
  <2> HIDE DEF c
  <2> QED BY <2>1, <2>2
<1> QED BY <1>2, <1>3, <1>4, <1>5, <1>6 DEF CheckServerHealth

LEMMA InitHome == Init => HomeParts
<1> SUFFICES ASSUME Init PROVE HomeParts
  OBVIOUS
<1>1. Keepers = {} /\ FdHolders = {} /\ returns = {}
  BY DEF Init, Keepers, FdHolders
<1>2. /\ DOMAIN pools = 1..Len(FirstList) /\ pool_size \in Nat /\ pool_size # 0
  BY FirstPools, ContextAssumption DEF Init
<1>3. ASSUME NEW p \in DOMAIN pools
      PROVE  /\ pools[p].epoch = 1 /\ pools[p].size = pool_size /\ pools[p].waiters = {}
             /\ DOMAIN pools[p].queue = 1..pool_size
             /\ \A j \in 1..pool_size : pools[p].queue[j] =
                  [pool |-> p, epoch |-> 1, place |-> j, life |-> 0]
  BY <1>2, FirstPools
<1>4. LeasesCameFrom
  BY <1>1 DEF LeasesCameFrom
<1>5. HomeConnections /\ NoSleeperMissed
  <2>1. ASSUME NEW p \in DOMAIN pools, NEW j \in DOMAIN pools[p].queue
        PROVE  pools[p].queue[j].pool = p /\ pools[p].queue[j].epoch = pools[p].epoch
    <3>1. /\ pools[p].queue[j] = [pool |-> p, epoch |-> 1, place |-> j, life |-> 0]
          /\ pools[p].epoch = 1
      BY <1>3
    <3> QED BY <3>1
  <2> QED BY <1>3, <2>1 DEF HomeConnections, NoSleeperMissed, Elems
<1>6. Complete
  <2> SUFFICES ASSUME NEW p \in DOMAIN pools PROVE CompleteAt(p)
    BY DEF Complete, CompleteAt
  <2>1. \A d : d \in Kept(p) <=> \E j \in 1..pool_size :
                 d = [pool |-> p, epoch |-> 1, place |-> j, life |-> 0]
    <3>1. ASSUME NEW d \in Kept(p)
          PROVE  \E j \in 1..pool_size : d = [pool |-> p, epoch |-> 1, place |-> j, life |-> 0]
      <4>1. d \in InUse /\ d.pool = p
        BY <3>1 DEF Kept, CurrentOf, InUse
      <4>2. PICK x \in DOMAIN pools : QueueHas(x, d)
        BY <1>1, <4>1, Users DEF AuthHas, FdHas, ReturnHas
      <4>3. PICK j \in 1..pool_size : d = [pool |-> x, epoch |-> 1, place |-> j, life |-> 0]
        BY <1>3, <4>2 DEF QueueHas
      <4> QED BY <4>1, <4>3
    <3>2. ASSUME NEW j \in 1..pool_size
          PROVE  [pool |-> p, epoch |-> 1, place |-> j, life |-> 0] \in Kept(p)
      <4> DEFINE d == [pool |-> p, epoch |-> 1, place |-> j, life |-> 0]
      <4>1. d.pool = p /\ d.epoch = pools[p].epoch /\ QueueHas(p, d)
        BY <1>3 DEF QueueHas
      <4> HIDE DEF d
      <4>2. d \in InUse
        BY <4>1, Users
      <4> QED BY <4>1, <4>2 DEF Kept, CurrentOf, InUse, d
    <3> QED BY <3>1, <3>2
  <2>2. \A d : d \in Lot(p, 1, pool_size, 0) <=> \E j \in 1..pool_size :
                 d = [pool |-> p, epoch |-> 1, place |-> j, life |-> 0]
    BY DEF Lot
  <2> DEFINE S == Kept(p)
             T == Lot(p, 1, pool_size, 0)
             d == [pool |-> p, epoch |-> 1, place |-> 1, life |-> 0]
  <2>3. \A x : x \in S <=> x \in T
    BY <2>1, <2>2
  <2>4. d \in S /\ d.life = 0
    BY <1>2, <2>1
  <2> HIDE DEF S, T, d
  <2>5. S = T
    BY <2>3
  <2> QED BY <1>3, <2>4, <2>5 DEF CompleteAt, S, T
<1> QED BY <1>4, <1>5, <1>6 DEF HomeParts

LEMMA NextHome ==
    ASSUME Shape, Shape', Hands, DetectorKnows, HomeParts, ListApart, ListApart',
           [Next]_vars
    PROVE  HomeParts'
<1>0. /\ \A i \in FdHolders : conn_pools'[i] = conn_pools[i]
      /\ \A i \in DOMAIN fd.checks :
           /\ ~FdPanic(i)
           /\ fd.checks[i].at \in {"take", "return", "refresh"}
                => fd.checks[i].pool = conn_pools[i]
  BY ListKept
<1>1. CASE UNCHANGED <<pools, returns, auth, fd>>
  BY <1>0, <1>1, SameLeases, SamePools DEF HomeParts
<1>2. CASE \/ \E list \in ServerLists : SetServerList(list)
           \/ \E n \in PoolSizes : SetPoolSize(n)
           \/ MainStep
  BY <1>0, <1>2, MainHome
<1>3. CASE \E t \in AuthTasks : AuthStep(t)
  BY <1>0, <1>3, AuthHome
<1>4. CASE \E r \in returns : SpawnedReturn(r)
  BY <1>0, <1>4, SpawnedReturnHome
<1>5. CASE \E k \in DOMAIN shutdowns : ShutdownStep(k)
  BY <1>0, <1>5, ShutdownHome
<1>6. CASE FdStart \/ FdEnd
  <2>1. UNCHANGED <<pools, returns, auth>>
    BY <1>6 DEF FdStart, FdEnd, poolVars
  <2>2. FdHolders' = {}
    BY <1>6 DEF FdStart, FdEnd, FdHolders, Check
  <2>3. FdHolders = {}
    BY <1>6 DEF FdStart, FdEnd, FdHolders, DetectorKnows
  <2>4. AuthStays /\ FdStays
    BY <2>1, <2>2, <2>3, SameHands DEF FdStays
  <2> QED BY <2>1, <2>4, SamePools
<1>7. CASE \E i \in DOMAIN fd.checks : CheckServerHealth(i)
  BY <1>0, <1>7, CheckHome
<1>8. CASE \E u \in Urls : ComeBack(u) \/ \E m \in FailureModes : Fail(u, m)
  BY <1>1, <1>8 DEF ComeBack, Fail, poolVars
<1> QED BY <1>1, <1>2, <1>3, <1>4, <1>5, <1>6, <1>7, <1>8 DEF Next, vars

HomeInv == Shape /\ Hands /\ DetectorKnows /\ HomeParts

LEMMA NextHomeInv == HomeInv /\ ListApart /\ ListApart' /\ [Next]_vars => HomeInv'
<1> SUFFICES ASSUME HomeInv, ListApart, ListApart', [Next]_vars PROVE HomeInv'
  OBVIOUS
<1>1. Shape /\ Hands /\ DetectorKnows /\ HomeParts
  BY DEF HomeInv
<1>2. Shape' /\ Hands'
  BY <1>1, NextShape, NextHands
<1>3. DetectorKnows' /\ HomeParts'
  BY <1>1, <1>2, NextDetectorKnows, NextHome
<1> QED BY <1>2, <1>3 DEF HomeInv

LEMMA HomeHolds == Spec /\ []ListApart => []HomeInv
<1>1. Init => HomeInv
  BY InitShape, InitHands, InitKnows, InitHome DEF HomeInv
<1> QED BY <1>1, NextHomeInv, PTL DEF Spec

-----------------------------------------------------------------------------
(* The theorems.                                                           *)

(***************************************************************************)
(* Type correctness.  In particular every index at which the code looks up *)
(* a pool exists, get_connection_pool of a health check excepted.          *)
(***************************************************************************)
THEOREM TypeCorrect == Spec => []TypeOK
BY ShapeHolds, ShapeTypes, PTL

(***************************************************************************)
(* add_server and clear_server_list keep servers, conn_pools and the ids   *)
(* in step, also between the two halves of add_server.                     *)
(***************************************************************************)
THEOREM ListsStayAligned == Spec => []ListsAligned
<1>1. Shape => ListsAligned
  BY DEF Shape
<1> QED BY <1>1, ShapeHolds, PTL

(***************************************************************************)
(* Whatever CONFIG SET, the detector and the AUTHs do, and even when the   *)
(* detector returns a connection to a pool that never lent it, nobody      *)
(* binds on a connection that somebody else can get.                       *)
(***************************************************************************)
THEOREM ConnectionsNotShared == Spec => []LeasesExclusive
BY HandsHolds, HandsExclusive, PTL

(***************************************************************************)
(* When no iteration of the detector overlaps a replacement of the list,   *)
(* return_connection puts back only what the pool has lent in its current  *)
(* epoch, however often the pools are reset and the lists replaced.        *)
(***************************************************************************)
THEOREM ConnectionsComeHome == Spec /\ []ListApart => []HomeConnections
<1>1. HomeInv => HomeConnections
  BY DEF HomeInv, HomeParts
<1> QED BY <1>1, HomeHolds, PTL

(***************************************************************************)
(* Under the same condition a pool has the whole of its last reset, in the *)
(* queue, lent or gone with a panic of search, or nothing of it: no error  *)
(* path of an AUTH or of a check and no failover loses a connection, each  *)
(* panic loses the one it holds, and a shutdown closes all or none.        *)
(***************************************************************************)
THEOREM NoConnectionLost == Spec /\ []ListApart => []ConnectionsConserved
<1>1. HomeInv => ConnectionsConserved
  <2>0. HomeInv => \A p \in DOMAIN pools :
                     /\ Kept(p) = Live(p) \cup LostOf(p)
                     /\ Live(p) \cap LostOf(p) = {}
    BY KeptAre DEF HomeInv
  <2> SUFFICES ASSUME HomeInv, NEW p \in DOMAIN pools, Kept(p) # {}
               PROVE  Cardinality(Live(p)) + Cardinality(LostOf(p)) = pools[p].size
    BY <2>0 DEF ConnectionsConserved
  <2>1. PICK c \in Kept(p) : Kept(p) = Lot(p, pools[p].epoch, pools[p].size, c.life)
    BY DEF HomeInv, HomeParts, Complete
  <2>2. pools[p].size \in Nat
    BY PoolOf, ContextAssumption DEF HomeInv, Shape
  <2>3. IsFiniteSet(Kept(p)) /\ Cardinality(Kept(p)) = pools[p].size
    BY <2>1, <2>2, LotSize
  <2>4. IsFiniteSet(Live(p)) /\ IsFiniteSet(LostOf(p))
    BY <2>0, <2>3, FS_Subset
  <2> QED BY <2>0, <2>3, <2>4, DisjointUnion
<1> QED BY <1>1, HomeHolds, PTL

(***************************************************************************)
(* Under the same condition notify_waiters reaches everyone it has to: a   *)
(* task asleep on a pool has nothing to take there, and a shutdown asleep  *)
(* is still short of connections.                                          *)
(***************************************************************************)
THEOREM NoWakeupMissed == Spec /\ []ListApart => []NoSleeperMissed
<1>1. HomeInv => NoSleeperMissed
  BY DEF HomeInv, HomeParts
<1> QED BY <1>1, HomeHolds, PTL

(***************************************************************************)
(* Only a replacement of the list that overlaps an iteration can make a    *)
(* lookup of the detector panic.                                           *)
(***************************************************************************)
THEOREM DetectorSurvivesApart == Spec /\ []ListApart => []DetectorSurvives
<1>1. HomeInv => DetectorSurvives
  BY DEF HomeInv, DetectorKnows, DetectorSurvives
<1> QED BY <1>1, HomeHolds, PTL

(***************************************************************************)
(* As long as neither an iteration nor an operation that has found a       *)
(* server overlaps a replacement of the list, update_server_status changes *)
(* the status of the very server that the AUTH, the health check or the    *)
(* refresh has dealt with, although it goes by the id alone.               *)
(***************************************************************************)
THEOREM StatusReported == Spec /\ []ListQuiet => StatusIsReported
<1>1. ASSUME HomeInv, AuthKnows, [Next]_vars
      PROVE  [\A i \in DOMAIN servers \cap DOMAIN servers' :
                servers'[i].healthy # servers[i].healthy
                  => Reports(servers[i].url, servers'[i].healthy)]_vars
  <2>4. Shape /\ DetectorKnows
    BY <1>1 DEF HomeInv
  <2> SUFFICES ASSUME NEW i \in DOMAIN servers, i \in DOMAIN servers',
                      servers'[i].healthy # servers[i].healthy
               PROVE  Reports(servers[i].url, servers'[i].healthy)
    OBVIOUS
  <2>0. servers \in Seq(Servers) /\ i \in Nat
    BY <2>4 DEF Shape, ListsOK
  <2>1. CASE \E t \in AuthTasks : AuthFailover(t)
    <3>1. PICK t \in AuthTasks : AuthFailover(t)
      BY <2>1
    <3> DEFINE s == auth[t].server
    <3>2. s \in Servers /\ auth[t].at = "failed" /\ servers' = UpdateServerStatus(s, FALSE)
      BY <2>4, <3>1, StatusUpdates
    <3>3. s.url = servers[s.id + 1].url
      BY <1>1, <3>2 DEF AuthKnows
    <3> HIDE DEF s
    <3>4. i = s.id + 1 /\ servers'[i].healthy = FALSE
      BY <2>0, <3>2, StatusFacts
    <3> QED BY <3>2, <3>3, <3>4 DEF Reports, s
  <2>2. CASE \E h \in DOMAIN fd.checks : FdStatus(h)
    <3>1. PICK h \in DOMAIN fd.checks : FdStatus(h)
      BY <2>2
    <3> DEFINE s == fd.checks[h].server
               ok == fd.checks[h].ok
    <3>2. /\ s \in Servers /\ ok \in BOOLEAN /\ fd.checks[h].at = "status"
          /\ servers' = UpdateServerStatus(s, ok)
      BY <2>4, <3>1, StatusUpdates DEF FdStatus
    <3>3. s.url = servers[h].url /\ s.id = h - 1 /\ h \in Nat
      BY <2>4, CheckOf DEF DetectorKnows, Shape
    <3> HIDE DEF s, ok
    <3>4. i = s.id + 1 /\ servers'[i].healthy = ok
      BY <2>0, <3>2, StatusFacts
    <3>5. i = h
      BY <2>0, <3>3, <3>4
    <3> QED BY <3>2, <3>3, <3>4, <3>5 DEF Reports, s, ok
  <2>3. CASE RefreshStatus
    <3> DEFINE s == main.server
               ok == main.ok
    <3>1. /\ s \in Servers /\ ok \in BOOLEAN /\ main.at = "refreshed"
          /\ servers' = UpdateServerStatus(s, ok)
      BY <2>4, <2>3, StatusUpdates
    <3>2. s.url = servers[s.id + 1].url
      BY <2>4, <3>1 DEF Shape, MainOK
    <3> HIDE DEF s, ok
    <3>3. i = s.id + 1 /\ servers'[i].healthy = ok
      BY <2>0, <3>1, StatusFacts
    <3> QED BY <3>1, <3>2, <3>3 DEF Reports, s, ok
  <2>5. CASE \E list \in ServerLists : SetServerList(list)
    BY <2>5 DEF SetServerList
  <2>6. CASE AddServer
    <3>1. servers' = Append(servers, main.server)
      BY <2>6 DEF AddServer
    <3> QED BY <2>0, <3>1
  <2> QED BY <1>1, <2>1, <2>2, <2>3, <2>5, <2>6, StatusWriters
<1>2. Init => HomeInv /\ AuthKnows
  BY InitShape, InitHands, InitKnows, InitHome DEF HomeInv
<1>3. ListQuiet => ListApart
  BY DEF ListQuiet, ListApart
<1>4. HomeInv /\ AuthKnows /\ ListQuiet /\ ListQuiet' /\ [Next]_vars => AuthKnows'
  BY NextAuthKnows DEF HomeInv
<1> QED BY <1>1, <1>2, <1>3, <1>4, NextHomeInv, PTL DEF Spec, StatusIsReported
=============================================================================
