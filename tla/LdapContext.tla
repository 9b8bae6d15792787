----------------------------- MODULE LdapContext -----------------------------
(***************************************************************************)
(* The LDAP context (context.rs) and the tasks that share it: the LDAP     *)
(* operations of AUTH commands, the CONFIG SET handlers of the main thread *)
(* (configs.rs), the iterations of the failure detector                    *)
(* (failure_detector.rs), the shutdowns of replaced pools, and the LDAP    *)
(* servers, which stop, hang and come back.                                *)
(*                                                                         *)
(* VK_LDAP_CONTEXT's mutex is never held across an await, and a pool's     *)
(* mutex never together with it, so one action is one critical section of  *)
(* one of the two.  Sections are merged only where nothing that the next   *)
(* one reads can change in between.                                        *)
(***************************************************************************)
EXTENDS ConnectionQueue, FiniteSets

CONSTANTS
    Urls,           \* the LDAP servers there are
    AuthTasks,      \* the LDAP operations of AUTH commands
    FirstList,      \* the server list at the start, a sequence of Urls
    ServerLists,    \* the values CONFIG SET ldap.servers is given
    PoolSizes,      \* the values of ldap.connection_pool_size
    BrokenEntries,  \* the AuthTasks whose user's DN attribute has no value
    FailureModes,   \* how servers fail: "down" (stopped), "silent" (hung),
                    \* "faulty" (it answers with errors)
    MaxFailures,    \* bound: failures of all the servers together
    MaxServerSets,  \* bound: CONFIG SETs of ldap.servers
    MaxConnSets,    \* bound: CONFIG SETs of a connection setting
    DetectorRuns    \* FALSE: its interval outlasts the behaviour

ASSUME ContextAssumption ==
    /\ Urls # {}
    /\ IsFiniteSet(AuthTasks)
    /\ FirstList \in Seq(Urls)
    /\ ServerLists \subseteq Seq(Urls)
    /\ PoolSizes \subseteq Nat \ {0}
    /\ BrokenEntries \subseteq AuthTasks
    /\ FailureModes \subseteq {"down", "silent", "faulty"}
    /\ {MaxFailures, MaxServerSets, MaxConnSets} \subseteq Nat
    /\ DetectorRuns \in BOOLEAN

VARIABLES
    servers,      \* VkLdapContext.servers
    conn_pools,   \* VkLdapContext.conn_pools, each an index of pools
    pool_size,    \* connection_settings.connection_pool_size
    pools,        \* the VkConnectionPools created so far, in that order
    pool_server,  \* the server each of them was created for
    main,         \* the main thread, in a CONFIG SET handler or not
    auth,         \* auth[t]: the run_ldap_op_with_failover of task t
    returns,      \* the spawned return_connection tasks
    shutdowns,    \* the spawned shutdown tasks: the pools each has to do
    fd,           \* the failure detector
    mode,         \* mode[u]: "up", or how u fails
    life,         \* life[u]: how many times u has stopped
    budget        \* what is left of the three bounds

ctxVars == <<servers, conn_pools, pool_size>>
poolVars == <<pools, pool_server>>
envVars == <<mode, life, budget>>
vars == <<servers, conn_pools, pool_size, pools, pool_server, main, auth,
          returns, shutdowns, fd, mode, life, budget>>

-----------------------------------------------------------------------------
(* Servers, and what can be told of them over the network.                 *)

Server(u, id, healthy) == [url |-> u, id |-> id, healthy |-> healthy]

NoServer == [url |-> CHOOSE u \in Urls : TRUE, id |-> 0, healthy |-> FALSE]

(***************************************************************************)
(* Connecting fails when the server is down.  A hung one may still accept  *)
(* (the kernel does it), or the connection timeout ends the attempt; with  *)
(* a faulty one the TLS set-up or StartTLS may fail, on either side.       *)
(***************************************************************************)
Connects(u) ==
    CASE mode[u] = "up"   -> {TRUE}
      [] mode[u] = "down" -> {FALSE}
      [] OTHER            -> {TRUE, FALSE}

(***************************************************************************)
(* A connection, named by the pool, the reset and the place in it, lives   *)
(* as long as the server process it was opened to.                         *)
(***************************************************************************)
Opened(p, u, e, n) ==
    [i \in 1..n |-> [pool |-> p, epoch |-> e, place |-> i, life |-> life[u]]]

UrlOf(c) == pool_server[c.pool].url

Broken(u, c) == c.life # life[u] \/ mode[u] = "down"

Answers(u, c) == ~Broken(u, c) /\ mode[u] \in {"up", "faulty"}

(* A faulty server answers a WhoAmI with an LDAP error. *)
PingSucceeds(u, c) == ~Broken(u, c) /\ mode[u] = "up"

NoLease ==
    [conn |-> [pool |-> 0, epoch |-> 0, place |-> 0, life |-> 0], from_epoch |-> 0]

(* The connection that a check of an unhealthy server opens for itself. *)
Unpooled(u) ==
    [conn |-> [pool |-> 0, epoch |-> 0, place |-> 0, life |-> life[u]], from_epoch |-> 0]

(***************************************************************************)
(* What a refresh or the creation of pool p for u opens: everything, or    *)
(* nothing that stays open.                                                *)
(***************************************************************************)
Fresh(p, u, e, n, ok) == IF ok THEN Opened(p, u, e, n) ELSE <<>>

NewPool_Slip(p, u, ok) == ResetConnections(NewQueue, pool_size - 1, <<>>)

NewPool(p, u, ok) ==
    ResetConnections(NewQueue, pool_size, Fresh(p, u, 1, pool_size, ok))

Refreshed(p, n, ok) ==
    RefreshConnections(pools[p], n,
                       Fresh(p, pool_server[p].url, pools[p].epoch + 1, n, ok))

-----------------------------------------------------------------------------
(* VkLdapContext.  Server ids count from 0.                                *)

KnowsId(s) == s.id < Len(conn_pools)

GetConnectionPool(s) == conn_pools[s.id + 1]

(***************************************************************************)
(* update_server_status.  The check of the URL compares the server at that *)
(* place of the list with itself, so only the id decides which server gets *)
(* the new status.                                                         *)
(***************************************************************************)
UpdateServerStatus(s, healthy) ==
    IF s.id >= Len(servers) THEN servers
    ELSE [servers EXCEPT ![s.id + 1].healthy = healthy]

Healthy == {i \in DOMAIN servers : servers[i].healthy}

FindServer == servers[CHOOSE i \in Healthy : \A j \in Healthy : i <= j]

-----------------------------------------------------------------------------
MainIdle == [at |-> "idle", todo |-> <<>>, server |-> NoServer, ok |-> TRUE]

Init ==
    /\ pool_size \in PoolSizes
    /\ mode = [u \in Urls |-> "up"]
    /\ life = [u \in Urls |-> 0]
    /\ servers = [i \in DOMAIN FirstList |-> Server(FirstList[i], i - 1, TRUE)]
    /\ conn_pools = [i \in DOMAIN FirstList |-> i]
    /\ pool_server = servers
    /\ pools = [i \in DOMAIN FirstList |-> NewPool(i, FirstList[i], TRUE)]
    /\ main = MainIdle
    /\ auth = [t \in AuthTasks |-> [at |-> "find", server |-> NoServer, pool |-> 0,
                                    lease |-> NoLease, res |-> "none"]]
    /\ returns = {}
    /\ shutdowns = <<>>
    /\ fd = [at |-> "sleep", checks |-> <<>>]
    /\ budget = [failures |-> MaxFailures, serverSets |-> MaxServerSets,
                 connSets |-> MaxConnSets]

-----------------------------------------------------------------------------
(* CONFIG SET, on the main thread: one handler at a time, each of its      *)
(* sync tasks waited for.                                                  *)

(* The pools are not cleared. *)
SetServerList_Slip(list) ==
    /\ main.at = "idle"
    /\ budget.serverSets > 0
    /\ budget' = [budget EXCEPT !.serverSets = @ - 1]
    /\ servers' = <<>>
    /\ shutdowns' = Append(shutdowns, conn_pools)
    /\ main' = [MainIdle EXCEPT !.at = "adding", !.todo = list]
    /\ UNCHANGED <<conn_pools, pool_size, poolVars, auth, returns, fd, mode, life>>

(***************************************************************************)
(* process_server_list: clear_server_list, whose pools one spawned task    *)
(* shuts down in turn, then add_server for each URL.                       *)
(***************************************************************************)
SetServerList(list) ==
    /\ main.at = "idle"
    /\ budget.serverSets > 0
    /\ budget' = [budget EXCEPT !.serverSets = @ - 1]
    /\ servers' = <<>>
    /\ conn_pools' = <<>>
    /\ shutdowns' = Append(shutdowns, conn_pools)
    /\ main' = [MainIdle EXCEPT !.at = "adding", !.todo = list]
    /\ UNCHANGED <<pool_size, pools, pool_server, auth, returns, fd, mode, life>>

(***************************************************************************)
(* add_server: the id is the length of the list, the pool is filled        *)
(* without the lock, and then both are pushed.                             *)
(***************************************************************************)
CreatePool ==
    /\ main.at = "adding"
    /\ main.todo # <<>>
    /\ LET u == Head(main.todo)
           p == Len(pools) + 1
       IN  \E ok \in Connects(u) :
             /\ pools' = Append(pools, NewPool(p, u, ok))
             /\ pool_server' = Append(pool_server, Server(u, Len(servers), TRUE))
             /\ main' = [main EXCEPT !.at = "pushing",
                                     !.server = Server(u, Len(servers), ok)]
    /\ UNCHANGED <<ctxVars, auth, returns, shutdowns, fd, envVars>>

AddServer ==
    /\ main.at = "pushing"
    /\ servers' = Append(servers, main.server)
    /\ conn_pools' = Append(conn_pools, Len(pools))
    /\ main' = [main EXCEPT !.at = "adding", !.todo = Tail(@)]
    /\ UNCHANGED <<pool_size, poolVars, auth, returns, shutdowns, fd, envVars>>

ServerListDone ==
    /\ main.at = "adding"
    /\ main.todo = <<>>
    /\ main' = MainIdle
    /\ UNCHANGED <<ctxVars, poolVars, auth, returns, shutdowns, fd, envVars>>

(***************************************************************************)
(* refresh_connection_settings: every listed pool is reset in turn, and    *)
(* after each the status of its server is updated.                         *)
(***************************************************************************)
SetPoolSize(n) ==
    /\ main.at = "idle"
    /\ budget.connSets > 0
    /\ budget' = [budget EXCEPT !.connSets = @ - 1]
    /\ pool_size' = n
    /\ main' = [MainIdle EXCEPT !.at = "refreshing", !.todo = servers]
    /\ UNCHANGED <<servers, conn_pools, poolVars, auth, returns, shutdowns, fd,
                   mode, life>>

RefreshPool ==
    /\ main.at = "refreshing"
    /\ main.todo # <<>>
    /\ LET s == Head(main.todo)
           p == GetConnectionPool(s)
       IN  \E ok \in Connects(s.url) :
             /\ pools' = [pools EXCEPT ![p] = Refreshed(p, pool_size, ok)]
             /\ main' = [main EXCEPT !.at = "refreshed", !.server = s, !.ok = ok]
    /\ UNCHANGED <<ctxVars, pool_server, auth, returns, shutdowns, fd, envVars>>

RefreshStatus ==
    /\ main.at = "refreshed"
    /\ servers' = UpdateServerStatus(main.server, main.ok)
    /\ main' = [main EXCEPT !.at = "refreshing", !.todo = Tail(@)]
    /\ UNCHANGED <<conn_pools, pool_size, poolVars, auth, returns, shutdowns, fd,
                   envVars>>

RefreshDone ==
    /\ main.at = "refreshing"
    /\ main.todo = <<>>
    /\ main' = MainIdle
    /\ UNCHANGED <<ctxVars, poolVars, auth, returns, shutdowns, fd, envVars>>

MainStep ==
    \/ CreatePool \/ AddServer \/ ServerListDone
    \/ RefreshPool \/ RefreshStatus \/ RefreshDone

-----------------------------------------------------------------------------
(* run_ldap_op_with_failover.                                              *)

(* The first healthy server and its pool, or the error of find_server. *)
AuthFind(t) ==
    /\ auth[t].at = "find"
    /\ \/ /\ servers = <<>>
          /\ auth' = [auth EXCEPT ![t].at = "done", ![t].res = "NoServerConfigured"]
       \/ /\ servers # <<>>
          /\ Healthy = {}
          /\ auth' = [auth EXCEPT ![t].at = "done",
                                  ![t].res = "NoHealthyServerAvailable"]
       \/ /\ Healthy # {}
          /\ auth' = [auth EXCEPT ![t].at = "take",
                                  ![t].server = FindServer,
                                  ![t].pool = GetConnectionPool(FindServer)]
    /\ UNCHANGED <<ctxVars, poolVars, main, returns, shutdowns, fd, envVars>>

(***************************************************************************)
(* take_connection of pool p by task a, for AUTH and the failure detector. *)
(***************************************************************************)
CanTake(p, a) == a \notin pools[p].waiters

Parks(p, a) ==
    /\ IsEmpty(pools[p])
    /\ pools' = [pools EXCEPT ![p] = NotifyWait(@, a)]

Takes_Slip(p) == ~IsEmpty(pools[p]) /\ UNCHANGED pools

Takes(p) ==
    /\ ~IsEmpty(pools[p])
    /\ pools' = [pools EXCEPT ![p] = Take(@)]

LeaseFrom(p) == [conn |-> Head(pools[p].queue), from_epoch |-> pools[p].epoch]

AuthTake(t) ==
    LET p == auth[t].pool
        a == <<"auth", t>>
    IN  /\ auth[t].at = "take"
        /\ CanTake(p, a)
        /\ \/ Parks(p, a) /\ UNCHANGED auth
           \/ /\ Takes(p)
              /\ auth' = [auth EXCEPT ![t].at = "op", ![t].lease = LeaseFrom(p)]
        /\ UNCHANGED <<ctxVars, pool_server, main, returns, shutdowns, fd, envVars>>

(* A connection that failed is dropped. *)
AuthOp_Slip(t) ==
    LET c == auth[t].lease.conn
        answered == Answers(UrlOf(c), c)
        back == [pool |-> auth[t].pool, lease |-> auth[t].lease]
    IN  /\ auth[t].at = "op"
        /\ returns' = IF answered THEN returns \cup {back} ELSE returns
        /\ auth' = [auth EXCEPT ![t].lease = NoLease,
                                ![t].at  = IF answered THEN "done" ELSE "failed",
                                ![t].res = IF answered THEN "answered" ELSE "none"]
        /\ UNCHANGED <<ctxVars, poolVars, main, shutdowns, fd, envVars>>

(***************************************************************************)
(* The LDAP operation ends, its timeout sees to that: with an answer, good *)
(* or bad, or with an LdapConnectionError.  The return is spawned in both  *)
(* cases, also for a connection that has just proved dead.                 *)
(***************************************************************************)
AuthOp(t) ==
    /\ auth[t].at = "op"
    /\ returns' = returns \cup {[pool |-> auth[t].pool, lease |-> auth[t].lease]}
    /\ LET c == auth[t].lease.conn
           answered == Answers(UrlOf(c), c)
       IN  auth' = [auth EXCEPT ![t].lease = NoLease,
                                ![t].at  = IF answered THEN "done" ELSE "failed",
                                ![t].res = IF answered THEN "answered" ELSE "none"]
    /\ UNCHANGED <<ctxVars, poolVars, main, shutdowns, fd, envVars>>

(***************************************************************************)
(* Or it panics: search takes the first value of an attribute that has     *)
(* none.  The task ends before the return is spawned, and the connection   *)
(* is dropped with it.  The lease stays noted, as what was lost.           *)
(***************************************************************************)
AuthPanic(t) ==
    /\ auth[t].at = "op"
    /\ t \in BrokenEntries
    /\ LET c == auth[t].lease.conn IN Answers(UrlOf(c), c)
    /\ auth' = [auth EXCEPT ![t].at = "panicked"]
    /\ UNCHANGED <<ctxVars, poolVars, main, returns, shutdowns, fd, envVars>>

(* The server is marked UNHEALTHY, and the loop starts over. *)
AuthFailover(t) ==
    /\ auth[t].at = "failed"
    /\ servers' = UpdateServerStatus(auth[t].server, FALSE)
    /\ auth' = [auth EXCEPT ![t].at = "find"]
    /\ UNCHANGED <<conn_pools, pool_size, poolVars, main, returns, shutdowns, fd,
                   envVars>>

AuthStep(t) ==
    AuthFind(t) \/ AuthTake(t) \/ AuthOp(t) \/ AuthPanic(t) \/ AuthFailover(t)

(* The connection is closed and not returned. *)
SpawnedReturn_Slip(r) ==
    /\ returns' = returns \ {r}
    /\ UNCHANGED <<ctxVars, poolVars, main, auth, shutdowns, fd, envVars>>

SpawnedReturn(r) ==
    /\ pools' = [pools EXCEPT ![r.pool] = ReturnConnection(@, r.lease)]
    /\ returns' = returns \ {r}
    /\ UNCHANGED <<ctxVars, pool_server, main, auth, shutdowns, fd, envVars>>

(***************************************************************************)
(* The task that clear_server_list spawned shuts its pools down in turn.   *)
(***************************************************************************)
ShutdownStep(k) ==
    LET p == Head(shutdowns[k])
        a == <<"shutdown", k>>
    IN  /\ shutdowns[k] # <<>>
        /\ a \notin pools[p].waiters
        /\ \/ /\ ~HasAllConnections(pools[p])
              /\ pools' = [pools EXCEPT ![p] = NotifyWait(@, a)]
              /\ UNCHANGED shutdowns
           \/ /\ HasAllConnections(pools[p])
              /\ pools' = [pools EXCEPT ![p] = CloseConnections(@)]
              /\ shutdowns' = [shutdowns EXCEPT ![k] = Tail(@)]
        /\ UNCHANGED <<ctxVars, pool_server, main, auth, returns, fd, envVars>>

-----------------------------------------------------------------------------
(* The failure detector: failure_detector_iteration takes a snapshot of    *)
(* the servers and runs a check_server_health for each, all in one task.   *)

(* Also an unhealthy server is checked with a connection of its pool. *)
Check_Slip(s) ==
    [at |-> "lookup", server |-> s, pool |-> 0, size |-> 0, lease |-> NoLease,
     ok |-> TRUE]

Check(s) == [at |-> IF s.healthy THEN "lookup" ELSE "connect",
             server |-> s, pool |-> 0, size |-> 0, lease |-> NoLease, ok |-> TRUE]

FdStart ==
    /\ DetectorRuns
    /\ fd.at = "sleep"
    /\ fd' = [at |-> "checking", checks |-> [i \in DOMAIN servers |-> Check(servers[i])]]
    /\ UNCHANGED <<ctxVars, poolVars, main, auth, returns, shutdowns, envVars>>

FdEnd ==
    /\ fd.at = "checking"
    /\ \A i \in DOMAIN fd.checks : fd.checks[i].at = "done"
    /\ fd' = [at |-> "sleep", checks |-> <<>>]
    /\ UNCHANGED <<ctxVars, poolVars, main, auth, returns, shutdowns, envVars>>

(***************************************************************************)
(* get_connection_pool for an id that the list no longer has is an index   *)
(* out of bounds.  The panic ends the task of the iteration with all its   *)
(* checks and what they hold, its callback never runs, and the detector's  *)
(* thread waits for ever in submit_sync_task.                              *)
(***************************************************************************)
FdPanic(i) ==
    /\ fd.checks[i].at \in {"lookup", "lookupReturn", "lookupRefresh"}
    /\ ~KnowsId(fd.checks[i].server)
    /\ fd' = [at |-> "hung", checks |-> <<>>]
    /\ pools' = [p \in DOMAIN pools |->
                    [pools[p] EXCEPT !.waiters = {a \in @ : a[1] # "fd"}]]
    /\ UNCHANGED <<ctxVars, pool_server, main, auth, returns, shutdowns, envVars>>

(***************************************************************************)
(* get_connection_pool: for the ping, for the return and for the refresh,  *)
(* which reads the connection settings with it.                            *)
(***************************************************************************)
FdLookup(i) ==
    LET s == fd.checks[i].server
    IN  /\ KnowsId(s)
        /\ \E step \in {<<"lookup", "take">>, <<"lookupReturn", "return">>,
                         <<"lookupRefresh", "refresh">>} :
              /\ fd.checks[i].at = step[1]
              /\ fd' = [fd EXCEPT !.checks[i].at = step[2],
                                  !.checks[i].pool = GetConnectionPool(s),
                                  !.checks[i].size = pool_size]
        /\ UNCHANGED <<ctxVars, poolVars, main, auth, returns, shutdowns, envVars>>

FdTake(i) ==
    LET p == fd.checks[i].pool
        a == <<"fd", i>>
    IN  /\ fd.checks[i].at = "take"
        /\ CanTake(p, a)
        /\ \/ Parks(p, a) /\ UNCHANGED fd
           \/ /\ Takes(p)
              /\ fd' = [fd EXCEPT !.checks[i].at = "ping",
                                  !.checks[i].lease = LeaseFrom(p)]
        /\ UNCHANGED <<ctxVars, pool_server, main, auth, returns, shutdowns, envVars>>

(***************************************************************************)
(* The ping has no timeout: on a hung server it ends when the server goes  *)
(* on, or stops.  A pooled connection is returned before the status is     *)
(* updated; after the ping of a new one, a good answer leads to a refresh  *)
(* of the pool and a bad one to nothing.                                   *)
(***************************************************************************)
FdPing(i) ==
    LET c == fd.checks[i].lease.conn
    IN  /\ fd.checks[i].at = "ping"
        /\ Broken(UrlOf(c), c) \/ Answers(UrlOf(c), c)
        /\ fd' = [fd EXCEPT !.checks[i].at = "lookupReturn",
                            !.checks[i].ok = PingSucceeds(UrlOf(c), c)]
        /\ UNCHANGED <<ctxVars, poolVars, main, auth, returns, shutdowns, envVars>>

(* The connection is not returned. *)
FdReturn_Slip(i) ==
    /\ fd.checks[i].at = "return"
    /\ fd' = [fd EXCEPT !.checks[i].at = "status", !.checks[i].lease = NoLease]
    /\ UNCHANGED <<ctxVars, poolVars, main, auth, returns, shutdowns, envVars>>

FdReturn(i) ==
    LET c == fd.checks[i]
    IN  /\ c.at = "return"
        /\ pools' = [pools EXCEPT ![c.pool] = ReturnConnection(@, c.lease)]
        /\ fd' = [fd EXCEPT !.checks[i].at = "status", !.checks[i].lease = NoLease]
        /\ UNCHANGED <<ctxVars, pool_server, main, auth, returns, shutdowns, envVars>>

FdConnect(i) ==
    /\ fd.checks[i].at = "connect"
    /\ \E ok \in Connects(fd.checks[i].server.url) :
         fd' = [fd EXCEPT !.checks[i].at = IF ok THEN "pingNew" ELSE "status",
                          !.checks[i].lease = Unpooled(fd.checks[i].server.url),
                          !.checks[i].ok = ok]
    /\ UNCHANGED <<ctxVars, poolVars, main, auth, returns, shutdowns, envVars>>

FdPingNew(i) ==
    LET c == fd.checks[i].lease.conn
        u == fd.checks[i].server.url
    IN  /\ fd.checks[i].at = "pingNew"
        /\ Broken(u, c) \/ Answers(u, c)
        /\ fd' = [fd EXCEPT !.checks[i].at = IF PingSucceeds(u, c) THEN "lookupRefresh"
                                             ELSE "done",
                            !.checks[i].lease = NoLease]
        /\ UNCHANGED <<ctxVars, poolVars, main, auth, returns, shutdowns, envVars>>

(* HEALTHY whether the refresh succeeded or not. *)
FdRefresh_Slip(i) ==
    LET p == fd.checks[i].pool
    IN  /\ fd.checks[i].at = "refresh"
        /\ \E ok \in Connects(pool_server[p].url) :
             pools' = [pools EXCEPT ![p] = Refreshed(p, fd.checks[i].size, ok)]
        /\ fd' = [fd EXCEPT !.checks[i].at = "status", !.checks[i].ok = TRUE]
        /\ UNCHANGED <<ctxVars, pool_server, main, auth, returns, shutdowns, envVars>>

FdRefresh(i) ==
    LET p == fd.checks[i].pool
    IN  /\ fd.checks[i].at = "refresh"
        /\ \E ok \in Connects(pool_server[p].url) :
             /\ pools' = [pools EXCEPT ![p] = Refreshed(p, fd.checks[i].size, ok)]
             /\ fd' = [fd EXCEPT !.checks[i].at = "status", !.checks[i].ok = ok]
        /\ UNCHANGED <<ctxVars, pool_server, main, auth, returns, shutdowns, envVars>>

FdStatus(i) ==
    /\ fd.checks[i].at = "status"
    /\ servers' = UpdateServerStatus(fd.checks[i].server, fd.checks[i].ok)
    /\ fd' = [fd EXCEPT !.checks[i].at = "done"]
    /\ UNCHANGED <<conn_pools, pool_size, poolVars, main, auth, returns, shutdowns,
                   envVars>>

CheckServerHealth(i) ==
    \/ FdPanic(i) \/ FdLookup(i) \/ FdTake(i) \/ FdPing(i) \/ FdReturn(i)
    \/ FdConnect(i) \/ FdPingNew(i) \/ FdRefresh(i) \/ FdStatus(i)

-----------------------------------------------------------------------------
(* The LDAP servers.                                                       *)

Fail(u, m) ==
    /\ budget.failures > 0
    /\ mode[u] \notin {m, "down"}
    /\ mode' = [mode EXCEPT ![u] = m]
    /\ life' = [life EXCEPT ![u] = IF m = "down" THEN @ + 1 ELSE @]
    /\ budget' = [budget EXCEPT !.failures = @ - 1]
    /\ UNCHANGED <<ctxVars, poolVars, main, auth, returns, shutdowns, fd>>

ComeBack(u) ==
    /\ mode[u] # "up"
    /\ mode' = [mode EXCEPT ![u] = "up"]
    /\ UNCHANGED <<ctxVars, poolVars, main, auth, returns, shutdowns, fd, life, budget>>

-----------------------------------------------------------------------------
Next ==
    \/ \E list \in ServerLists : SetServerList(list)
    \/ \E n \in PoolSizes : SetPoolSize(n)
    \/ MainStep
    \/ \E t \in AuthTasks : AuthStep(t)
    \/ \E r \in returns : SpawnedReturn(r)
    \/ \E k \in DOMAIN shutdowns : ShutdownStep(k)
    \/ FdStart
    \/ \E i \in DOMAIN fd.checks : CheckServerHealth(i)
    \/ FdEnd
    \/ \E u \in Urls : ComeBack(u) \/ \E m \in FailureModes : Fail(u, m)

Spec == Init /\ [][Next]_vars

(***************************************************************************)
(* The main thread goes on with a handler it has begun, the runtime polls  *)
(* every task that can go on, the detector's thread wakes from its sleep.  *)
(* Nothing is assumed of the servers, or of when CONFIG SET is used.       *)
(* Strong fairness of taking: tokio's mutex is first come first served, a  *)
(* woken task queues on it at once, and the detector, the only one to take *)
(* connections for ever, comes back only after its sleep.                  *)
(***************************************************************************)
Checks == UNION {DOMAIN list : list \in ServerLists \cup {FirstList}}

Fairness ==
    /\ WF_vars(MainStep)
    /\ \A t \in AuthTasks : /\ WF_vars(AuthStep(t))
                             /\ SF_vars(AuthTake(t) /\ auth'[t].at = "op")
    /\ WF_vars(\E r \in returns : SpawnedReturn(r))
    /\ \A k \in 1..MaxServerSets :
         WF_vars(k \in DOMAIN shutdowns /\ ShutdownStep(k))
    /\ WF_vars(FdStart) /\ WF_vars(FdEnd)
    /\ \A i \in Checks : WF_vars(i \in DOMAIN fd.checks /\ CheckServerHealth(i))

FairSpec == Spec /\ Fairness

-----------------------------------------------------------------------------
Elems(q) == {q[i] : i \in DOMAIN q}

AuthHolders == {t \in AuthTasks : auth[t].at = "op"}

FdHolders == {i \in DOMAIN fd.checks :
                fd.checks[i].at \in {"ping", "lookupReturn", "return"}}

Lent == {auth[t].lease.conn : t \in AuthHolders}
          \cup {fd.checks[i].lease.conn : i \in FdHolders}
          \cup {r.lease.conn : r \in returns}

Queued == UNION {Elems(pools[p].queue) : p \in DOMAIN pools}

(* The connections that went with a panic. *)
Lost == {auth[t].lease.conn : t \in {s \in AuthTasks : auth[s].at = "panicked"}}

(* Of pool p's connections of its current epoch: those it still has         *)
(* somewhere, and those it has lost.                                       *)
CurrentOf(p, conns) == {c \in conns : c.pool = p /\ c.epoch = pools[p].epoch}

Live(p) == CurrentOf(p, Queued \cup Lent)

LostOf(p) == CurrentOf(p, Lost)

Connections ==
    [pool : 0..Len(pools), epoch : Nat, place : Nat, life : Nat]

Leases == [conn : Connections, from_epoch : Nat]

Servers == [url : Urls, id : Nat, healthy : BOOLEAN]

(***************************************************************************)
(* The types of the variables.                                             *)
(***************************************************************************)
TypeOK ==
    /\ servers \in Seq(Servers)
    /\ conn_pools \in Seq(DOMAIN pools)
    /\ pool_size \in PoolSizes
    /\ \A p \in DOMAIN pools :
         /\ pools[p].queue \in Seq(Connections)
         /\ pools[p].epoch \in Nat /\ pools[p].size \in PoolSizes
         /\ \A a \in pools[p].waiters : a[1] \in {"auth", "fd", "shutdown"}
    /\ pool_server \in Seq(Servers) /\ Len(pool_server) = Len(pools)
    /\ main.at \in {"idle", "adding", "pushing", "refreshing", "refreshed"}
    /\ auth \in [AuthTasks ->
         [at : {"find", "take", "op", "failed", "done", "panicked"}, server : Servers,
          pool : 0..Len(pools), lease : Leases,
          res : {"none", "answered", "NoServerConfigured", "NoHealthyServerAvailable"}]]
    /\ returns \subseteq [pool : DOMAIN pools, lease : Leases]
    /\ shutdowns \in Seq(Seq(DOMAIN pools))
    /\ fd.at \in {"sleep", "checking", "hung"}
    /\ \A i \in DOMAIN fd.checks : fd.checks[i].lease \in Leases
    /\ mode \in [Urls -> {"up", "down", "silent", "faulty"}] /\ life \in [Urls -> Nat]

(***************************************************************************)
(* Place i of the list, the server with id i - 1 and the pool at place i   *)
(* are about the same LDAP server, also while a list is replaced: every    *)
(* lookup by id rests on it.                                               *)
(***************************************************************************)
ListsAligned ==
    /\ Len(servers) = Len(conn_pools)
    /\ \A i \in DOMAIN servers :
         /\ servers[i].id = i - 1
         /\ pool_server[conn_pools[i]].url = servers[i].url
         /\ pool_server[conn_pools[i]].id = i - 1

(***************************************************************************)
(* Three things that nothing in the code sees to, and that the guarantees  *)
(* below may need: no iteration of the detector overlaps a replacement of  *)
(* the server list, none overlaps any CONFIG SET handler, neither an       *)
(* iteration nor an operation that has found a server overlaps a           *)
(* replacement.                                                            *)
(***************************************************************************)
ListBusy == main.at \in {"adding", "pushing"}

ListApart == ListBusy => fd.checks = <<>>

ConfigApart == main.at # "idle" => fd.checks = <<>>

ListQuiet ==
    ListBusy => /\ fd.checks = <<>>
                /\ \A t \in AuthTasks : auth[t].at \notin {"take", "op", "failed"}

(***************************************************************************)
(* A pool only lends connections it opened itself, to its own server and   *)
(* in its current epoch.                                                   *)
(***************************************************************************)
HomeConnections ==
    \A p \in DOMAIN pools : \A c \in Elems(pools[p].queue) :
        c.pool = p /\ c.epoch = pools[p].epoch

(***************************************************************************)
(* No connection is in two hands, of an AUTH, a health check, a spawned    *)
(* return or a queue: two users never bind on one connection at a time.    *)
(***************************************************************************)
LeasesExclusive ==
    /\ Cardinality(Lent) = Cardinality(AuthHolders) + Cardinality(FdHolders)
                             + Cardinality(returns)
    /\ Lent \cap Queued = {}

(***************************************************************************)
(* A panic of search is all that can cost a pool a connection, and costs   *)
(* it just that one: those the pool has, lent or not, and those it lost in *)
(* that way are all that its last reset asked for.  Or it has none, after  *)
(* a failed reset or its shutdown.                                         *)
(***************************************************************************)
ConnectionsConserved ==
    \A p \in DOMAIN pools :
        \/ Live(p) = {} /\ LostOf(p) = {}
        \/ Cardinality(Live(p)) + Cardinality(LostOf(p)) = pools[p].size

(***************************************************************************)
(* No task sleeps on a pool's Notify while what it waits for is there.     *)
(***************************************************************************)
NoSleeperMissed ==
    \A p \in DOMAIN pools : \A a \in pools[p].waiters :
        IF a[1] = "shutdown" THEN ~HasAllConnections(pools[p]) ELSE IsEmpty(pools[p])

(***************************************************************************)
(* The pool of a server listed as healthy has connections, lent or not,    *)
(* unless panics have cost it all of them: the task that empties a pool by *)
(* a failed reset sees to the status, and no late report overwrites it.    *)
(* The exception is the moment between the reset and the status update.    *)
(* An AUTH that has been sent to the pool before may still wait there.     *)
(***************************************************************************)
HealthyHasConnections ==
    \A i \in DOMAIN servers :
        servers[i].healthy =>
            \/ Live(conn_pools[i]) \cup LostOf(conn_pools[i]) # {}
            \/ main.at = "refreshed" /\ main.server.id = i - 1 /\ ~main.ok

(***************************************************************************)
(* The status of a server changes only by a task that has just dealt with  *)
(* that server, and to what the task found: ids of an earlier list, or of  *)
(* another order of it, never mark the wrong server.                       *)
(***************************************************************************)
Reports(u, healthy) ==
    \/ ~healthy /\ \E t \in AuthTasks : auth[t].at = "failed" /\ auth[t].server.url = u
    \/ \E i \in DOMAIN fd.checks : /\ fd.checks[i].at = "status"
                                   /\ fd.checks[i].server.url = u
                                   /\ fd.checks[i].ok = healthy
    \/ main.at = "refreshed" /\ main.server.url = u /\ main.ok = healthy

StatusIsReported ==
    [][\A i \in DOMAIN servers \cap DOMAIN servers' :
         servers'[i].healthy # servers[i].healthy
           => Reports(servers[i].url, servers'[i].healthy)]_vars

AllUp == \A u \in Urls : mode[u] = "up"

(***************************************************************************)
(* README.md: ldap.failure_detector_interval is the time between two       *)
(* iterations of the failure detector.  An iteration never dies half way,  *)
(* which would leave the detector's thread waiting for it for ever.        *)
(***************************************************************************)
DetectorSurvives == fd.at # "hung"

(***************************************************************************)
(* README.md: an unavailable server leads to the ACL fallback.  Every AUTH *)
(* gets an answer or an error, also when servers stay down.                *)
(***************************************************************************)
Ended(t) == auth[t].at \in {"done", "panicked"}

AuthEnds == \A t \in AuthTasks : <>Ended(t)

(***************************************************************************)
(* When the LDAP servers stay up, every AUTH gets its answer or error: no  *)
(* round of the failover loop and no wait for a connection lasts for ever. *)
(* That is so without broken entries; panics may use up a pool.            *)
(***************************************************************************)
AuthAnswered == <>[]AllUp => \A t \in AuthTasks : <>Ended(t)

(***************************************************************************)
(* When the LDAP servers stay up, the failure detector lists all of them   *)
(* as healthy again, for good.                                             *)
(***************************************************************************)
ServersRecover ==
    <>[]AllUp => <>[](Healthy = DOMAIN servers)

(***************************************************************************)
(* The pools of a replaced list are shut down, all of them, up to the      *)
(* first that will never have its connections together: its last reset     *)
(* failed and left it none, or a panic has cost it one.  For that one the  *)
(* task waits for ever, as nobody resets a pool off the list.              *)
(***************************************************************************)
NeverTogether(p) == Live(p) = {} \/ LostOf(p) # {}

ShutdownsEnd ==
    \A k \in 1..MaxServerSets :
        k \in DOMAIN shutdowns
          ~> k \in DOMAIN shutdowns /\ (\/ shutdowns[k] = <<>>
                                       \/ NeverTogether(Head(shutdowns[k])))

-----------------------------------------------------------------------------
(* A pool is in use from its creation until its shutdown has closed it. *)
InService(p) ==
    \/ p \in Elems(conn_pools)
    \/ \E k \in DOMAIN shutdowns : p \in Elems(shutdowns[k])
    \/ main.at = "pushing" /\ p = Len(pools)

Takers == ({"auth"} \X AuthTasks) \cup ({"fd"} \X Checks)

LeaseOf(b) ==
    IF b[1] = "auth"
    THEN {auth[t].lease.conn : t \in AuthHolders \cap {b[2]}}
    ELSE {fd.checks[i].lease.conn : i \in FdHolders \cap {b[2]}}

(***************************************************************************)
(* Pool p as PoolLease has it: what it lends to AUTHs and health checks.   *)
(* A connection on its way back is no longer lent.                         *)
(***************************************************************************)
Lease(p) == INSTANCE PoolLease WITH
    Borrowers  <- Takers,
    Connection <- [pool : {p}, epoch : Nat, place : Nat, life : Nat],
    live       <- IF p \in DOMAIN pools THEN Live(p) ELSE {},
    lent       <- [b \in Takers |-> {c \in LeaseOf(b) : c.pool = p}],
    drained    <- p \in DOMAIN pools /\ ~InService(p)

(* As many pools as can have been created. *)
PoolIds == 1..(Len(FirstList) + MaxServerSets * Cardinality(Checks))

(***************************************************************************)
(* Every pool of the context is used as its VkConnectionPool promises: the *)
(* AUTHs, the detector and the CONFIG SET handlers together keep to the    *)
(* lease discipline, and clear_server_list's task closes a pool only when  *)
(* none of its connections is lent.                                        *)
(***************************************************************************)
PoolsLease ==
    /\ \A p \in PoolIds : Lease(p)!Init
    /\ [][\A p \in PoolIds : [Lease(p)!Next]_(Lease(p)!leaseVars)]_vars
=============================================================================
