---------------------- MODULE LdapContext_pools_proofs -----------------------
(***************************************************************************)
(* Proofs about the pools of LdapContext as a whole: where each of them    *)
(* is, that a server listed as healthy has connections, and that every     *)
(* pool keeps to PoolLease.                                                *)
(***************************************************************************)
EXTENDS LdapContext_proofs

-----------------------------------------------------------------------------
(* A pool is at one place: in the list once, in one place of one shutdown  *)
(* task, or new and not yet in the list.                                   *)

Listed(p) == \E i \in DOMAIN conn_pools : conn_pools[i] = p

Closing(p) == \E k \in DOMAIN shutdowns : \E j \in DOMAIN shutdowns[k] : shutdowns[k][j] = p

OnePlace ==
    /\ \A i, j \in DOMAIN conn_pools : conn_pools[i] = conn_pools[j] => i = j
    /\ \A k, l \in DOMAIN shutdowns :
         \A j \in DOMAIN shutdowns[k], h \in DOMAIN shutdowns[l] :
           shutdowns[k][j] = shutdowns[l][h] => k = l /\ j = h
    /\ \A p : ~(Listed(p) /\ Closing(p))
    /\ main.at = "pushing" => ~Listed(Len(pools)) /\ ~Closing(Len(pools))

(* Everything else leaves the pools at their places. *)
PlacesStay ==
    /\ UNCHANGED <<conn_pools, shutdowns>> /\ Len(pools') = Len(pools)
    /\ main'.at = "pushing" <=> main.at = "pushing"

LEMMA SamePoolCount ==
    ASSUME Shape, NEW p \in DOMAIN pools, NEW q, pools' = [pools EXCEPT ![p] = q]
    PROVE  Len(pools') = Len(pools)
BY DEF Shape, PoolsOK

LEMMA PlacesStayed ==
    ASSUME Shape, [Next]_vars,
           \A list \in ServerLists : ~SetServerList(list),
           ~CreatePool, ~AddServer, \A k \in DOMAIN shutdowns : ~ShutdownStep(k)
    PROVE  PlacesStay
<1>1. CASE MainStep \/ \E n \in PoolSizes : SetPoolSize(n)
  <2>1. /\ UNCHANGED <<conn_pools, shutdowns>>
        /\ main'.at = "pushing" <=> main.at = "pushing"
    <3>1. main \in [at : {"idle", "adding", "pushing", "refreshing", "refreshed"},
                    todo : Seq(Urls \cup Servers), server : Servers, ok : BOOLEAN]
      BY DEF Shape, MainOK
    <3>2. CASE RefreshPool
      <4>1. /\ UNCHANGED <<conn_pools, shutdowns>> /\ main.at = "refreshing"
            /\ \E s, ok : main' = [main EXCEPT !.at = "refreshed", !.server = s, !.ok = ok]
        BY <3>2 DEF RefreshPool, ctxVars
      <4> QED BY <3>1, <4>1
    <3>4. CASE RefreshStatus
      <4>1. /\ UNCHANGED <<conn_pools, shutdowns>> /\ main.at = "refreshed"
            /\ \E x : main' = [main EXCEPT !.at = "refreshing", !.todo = x]
        BY <3>4 DEF RefreshStatus
      <4> QED BY <3>1, <4>1
    <3>3. CASE ServerListDone \/ RefreshDone
      BY <3>3 DEF ServerListDone, RefreshDone, MainIdle, ctxVars
    <3>5. CASE \E n \in PoolSizes : SetPoolSize(n)
      <4>1. /\ UNCHANGED <<conn_pools, shutdowns>> /\ main.at = "idle"
            /\ main'.at = "refreshing"
        BY <3>5 DEF SetPoolSize, MainIdle
      <4> QED BY <4>1
    <3> QED BY <1>1, <3>2, <3>3, <3>4, <3>5 DEF MainStep
  <2>2. CASE RefreshPool
    <3>1. PICK p, q : p \in DOMAIN pools /\ pools' = [pools EXCEPT ![p] = q]
      BY <2>2, RefreshPoolFacts
    <3> QED BY <2>1, <3>1, SamePoolCount DEF PlacesStay
  <2>3. CASE UNCHANGED pools
    BY <2>1, <2>3 DEF PlacesStay
  <2> QED BY <1>1, <2>2, <2>3 DEF MainStep, RefreshStatus, RefreshDone, ServerListDone,
           SetPoolSize, poolVars
<1>2. CASE \E t \in AuthTasks : AuthStep(t)
  <2>1. PICK t \in AuthTasks : AuthStep(t)
    BY <1>2
  <2>2. UNCHANGED <<conn_pools, shutdowns, main>>
    BY <2>1 DEF AuthStep, AuthFind, AuthTake, AuthOp, AuthPanic, AuthFailover, ctxVars
  <2>3. Len(pools') = Len(pools)
    <3>1. CASE AuthTake(t)
      <4>1. auth[t].pool \in DOMAIN pools
        BY <3>1 DEF AuthTake, Shape, AuthOK, AuthInRange, Exists, PoolsOK
      <4> QED BY <3>1, <4>1, SamePoolCount DEF AuthTake, Parks, Takes
    <3> QED BY <2>1, <3>1 DEF AuthStep, AuthFind, AuthOp, AuthPanic, AuthFailover, poolVars
  <2> QED BY <2>2, <2>3 DEF PlacesStay
<1>3. CASE \E r \in returns : SpawnedReturn(r)
  <2>1. PICK r \in returns : SpawnedReturn(r)
    BY <1>3
  <2>2. r.pool \in DOMAIN pools
    BY DEF Shape, ReturnsOK, Exists, PoolsOK
  <2> QED BY <2>1, <2>2, SamePoolCount DEF SpawnedReturn, PlacesStay, ctxVars
<1>4. CASE \E i \in DOMAIN fd.checks : CheckServerHealth(i)
  <2>1. PICK i \in DOMAIN fd.checks : CheckServerHealth(i)
    BY <1>4
  <2>2. UNCHANGED <<conn_pools, shutdowns, main>>
    BY <2>1 DEF CheckServerHealth, FdPanic, FdLookup, FdTake, FdPing, FdReturn, FdConnect,
         FdPingNew, FdRefresh, FdStatus, ctxVars
  <2>3. fd.checks[i].at \in {"take", "return", "refresh"} => fd.checks[i].pool \in DOMAIN pools
    BY CheckOf DEF Shape, CheckInRange, Exists, PoolsOK
  <2>4. Len(pools') = Len(pools)
    <3>1. CASE FdPanic(i)
      BY <3>1 DEF FdPanic, Shape, PoolsOK
    <3>2. CASE FdTake(i)
      BY <2>3, <3>2, SamePoolCount DEF FdTake, Parks, Takes
    <3>3. CASE FdReturn(i)
      BY <2>3, <3>3, SamePoolCount DEF FdReturn
    <3>4. CASE FdRefresh(i)
      BY <2>3, <3>4, SamePoolCount DEF FdRefresh
    <3> QED BY <2>1, <3>1, <3>2, <3>3, <3>4 DEF CheckServerHealth, FdLookup, FdPing,
             FdConnect, FdPingNew, FdStatus, poolVars
  <2> QED BY <2>2, <2>4 DEF PlacesStay
<1>5. CASE \/ FdStart \/ FdEnd
           \/ \E u \in Urls : ComeBack(u) \/ \E m \in FailureModes : Fail(u, m)
  BY <1>5 DEF FdStart, FdEnd, ComeBack, Fail, PlacesStay, ctxVars, poolVars
<1>6. CASE UNCHANGED vars
  BY <1>6 DEF vars, PlacesStay
<1> QED BY <1>1, <1>2, <1>3, <1>4, <1>5, <1>6 DEF Next

LEMMA InitOnePlace == Init => OnePlace
<1> SUFFICES ASSUME Init PROVE OnePlace
  OBVIOUS
<1>1. main.at = "idle" /\ shutdowns = <<>> /\ \A i \in DOMAIN conn_pools : conn_pools[i] = i
  BY DEF Init, MainIdle
<1> QED BY <1>1 DEF OnePlace, Closing

LEMMA NextOnePlace ==
    ASSUME Shape, OnePlace, [Next]_vars
    PROVE  OnePlace'
<1>0. /\ conn_pools \in Seq(Nat) /\ shutdowns \in Seq(Seq(Nat)) /\ pools \in Seq(Queues)
      /\ \A p : Listed(p) \/ Closing(p) => p \in 1..Len(pools)
  BY DEF Shape, ListsOK, ShutdownsOK, PoolsOK, Exists, Listed, Closing
<1>1. ASSUME NEW list \in ServerLists, SetServerList(list) PROVE OnePlace'
  <2>1. /\ conn_pools' = <<>> /\ shutdowns' = Append(shutdowns, conn_pools)
        /\ main'.at = "adding"
    BY <1>1 DEF SetServerList, MainIdle
  <2> DEFINE n == Len(shutdowns) + 1
  <2>2. /\ DOMAIN shutdowns' = DOMAIN shutdowns \cup {n} /\ shutdowns'[n] = conn_pools
        /\ n \notin DOMAIN shutdowns
        /\ \A k \in DOMAIN shutdowns : shutdowns'[k] = shutdowns[k]
    BY <1>0, <2>1
  <2> HIDE DEF n
  <2>3. \A k, l \in DOMAIN shutdowns' :
          \A j \in DOMAIN shutdowns'[k], h \in DOMAIN shutdowns'[l] :
            shutdowns'[k][j] = shutdowns'[l][h] => k = l /\ j = h
    BY <2>2 DEF OnePlace, Listed, Closing
  <2> QED BY <2>1, <2>3 DEF OnePlace, Listed
<1>2. CASE CreatePool
  <2>1. /\ UNCHANGED <<conn_pools, shutdowns>> /\ Len(pools') = Len(pools) + 1
    <3>1. PICK q \in Queues : pools' = Append(pools, q) /\ UNCHANGED <<conn_pools, shutdowns>>
      BY <1>2, CreatePoolFacts
    <3> QED BY <1>0, <3>1
  <2>2. \A p : Listed(p)' <=> Listed(p)
    BY <2>1 DEF Listed
  <2>3. \A p : Closing(p)' <=> Closing(p)
    BY <2>1 DEF Closing
  <2>4. Len(pools') \notin 1..Len(pools)
    BY <1>0, <2>1
  <2> QED BY <1>0, <2>1, <2>2, <2>3, <2>4 DEF OnePlace
<1>3. CASE AddServer
  <2>1. /\ main.at = "pushing" /\ UNCHANGED <<shutdowns, pools>>
        /\ conn_pools' = Append(conn_pools, Len(pools)) /\ main'.at = "adding"
    BY <1>3 DEF AddServer, poolVars, Shape, MainOK
  <2>2. ~Listed(Len(pools)) /\ ~Closing(Len(pools))
    BY <2>1 DEF OnePlace
  <2> DEFINE n == Len(conn_pools) + 1
  <2>3. /\ DOMAIN conn_pools' = DOMAIN conn_pools \cup {n} /\ conn_pools'[n] = Len(pools)
        /\ n \notin DOMAIN conn_pools
        /\ \A k \in DOMAIN conn_pools : conn_pools'[k] = conn_pools[k]
    <3>1. Len(pools) \in Nat
      BY <1>0
    <3> QED BY <1>0, <2>1, <3>1
  <2> HIDE DEF n
  <2>4. \A p : Listed(p)' <=> Listed(p) \/ p = Len(pools)
    BY <2>3 DEF Listed
  <2>5. \A p : Closing(p)' <=> Closing(p)
    BY <2>1 DEF Closing
  <2>6. \A i, j \in DOMAIN conn_pools' : conn_pools'[i] = conn_pools'[j] => i = j
    BY <2>2, <2>3 DEF OnePlace, Listed
  <2> QED BY <2>1, <2>2, <2>4, <2>5, <2>6 DEF OnePlace
<1>4. ASSUME NEW k \in DOMAIN shutdowns, ShutdownStep(k) PROVE OnePlace'
  <2>0. /\ UNCHANGED <<conn_pools, main>> /\ shutdowns[k] # <<>>
        /\ \/ UNCHANGED shutdowns
           \/ shutdowns' = [shutdowns EXCEPT ![k] = Tail(@)]
    BY <1>4 DEF ShutdownStep, ctxVars
  <2>1. Len(pools') = Len(pools)
    BY <1>4, <2>0, ShutdownAt, SamePoolCount DEF ShutdownStep
  <2>2. /\ DOMAIN shutdowns' = DOMAIN shutdowns
        /\ \/ UNCHANGED shutdowns
           \/ /\ shutdowns'[k] = Tail(shutdowns[k])
              /\ \A l \in DOMAIN shutdowns \ {k} : shutdowns'[l] = shutdowns[l]
    BY <1>0, <2>0
  <2>3. /\ shutdowns[k] \in Seq(Nat) /\ Tail(shutdowns[k]) \in Seq(Nat)
        /\ \A j \in DOMAIN Tail(shutdowns[k]) :
             /\ j + 1 \in DOMAIN shutdowns[k]
             /\ Tail(shutdowns[k])[j] = shutdowns[k][j + 1]
    BY <2>0, ShutdownAt
  <2>4. \E f \in [DOMAIN shutdowns -> {0, 1}] : \A l \in DOMAIN shutdowns :
          \A j \in DOMAIN shutdowns'[l] :
            /\ j \in Nat /\ j + f[l] \in DOMAIN shutdowns[l]
            /\ shutdowns'[l][j] = shutdowns[l][j + f[l]]
    <3>0. \A l \in DOMAIN shutdowns : \A j \in DOMAIN shutdowns[l] : j \in Nat /\ j + 0 = j
      BY <1>0
    <3>1. CASE UNCHANGED shutdowns
      <4> DEFINE f == [l \in DOMAIN shutdowns |-> 0]
      <4>1. f \in [DOMAIN shutdowns -> {0, 1}] /\ \A l \in DOMAIN shutdowns : f[l] = 0
        OBVIOUS
      <4> HIDE DEF f
      <4> QED BY <3>0, <3>1, <4>1
    <3>2. CASE /\ shutdowns'[k] = Tail(shutdowns[k])
               /\ \A l \in DOMAIN shutdowns \ {k} : shutdowns'[l] = shutdowns[l]
      <4> DEFINE g(l) == IF l = k THEN 1 ELSE 0
                 f == [l \in DOMAIN shutdowns |-> g(l)]
      <4>0. g(k) = 1 /\ \A l : g(l) \in {0, 1} /\ (l # k => g(l) = 0)
        OBVIOUS
      <4> HIDE DEF g
      <4>1. /\ f \in [DOMAIN shutdowns -> {0, 1}]
            /\ f[k] = 1 /\ \A l \in DOMAIN shutdowns \ {k} : f[l] = 0
        BY <4>0
      <4>2. \A j \in DOMAIN Tail(shutdowns[k]) : j \in Nat
        BY <2>3
      <4> HIDE DEF f
      <4>3. ASSUME NEW l \in DOMAIN shutdowns, NEW j \in DOMAIN shutdowns'[l]
            PROVE  /\ j \in Nat /\ j + f[l] \in DOMAIN shutdowns[l]
                   /\ shutdowns'[l][j] = shutdowns[l][j + f[l]]
        <5>1. CASE l = k
          BY <2>3, <3>2, <4>1, <4>2, <5>1
        <5>2. CASE l # k
          BY <3>0, <3>2, <4>1, <5>2
        <5> QED BY <5>1, <5>2
      <4> QED BY <4>1, <4>3
    <3> QED BY <2>2, <3>1, <3>2
  <2>5. PICK f \in [DOMAIN shutdowns -> {0, 1}] : \A l \in DOMAIN shutdowns :
          \A j \in DOMAIN shutdowns'[l] :
            /\ j \in Nat /\ j + f[l] \in DOMAIN shutdowns[l]
            /\ shutdowns'[l][j] = shutdowns[l][j + f[l]]
    BY <2>4
  <2>6. \A p : Closing(p)' => Closing(p)
    BY <2>2, <2>5 DEF Closing
  <2>7. \A p : Listed(p)' <=> Listed(p)
    BY <2>0 DEF Listed
  <2>8. ASSUME NEW l \in DOMAIN shutdowns, NEW m \in DOMAIN shutdowns,
               NEW j \in DOMAIN shutdowns'[l], NEW h \in DOMAIN shutdowns'[m],
               shutdowns'[l][j] = shutdowns'[m][h]
        PROVE  l = m /\ j = h
    <3>1. l = m /\ j + f[l] = h + f[m]
      BY <2>5, <2>8 DEF OnePlace
    <3>2. j \in Nat /\ h \in Nat /\ f[l] \in Nat
      BY <2>5
    <3> QED BY <3>1, <3>2
  <2> QED BY <2>0, <2>1, <2>2, <2>6, <2>7, <2>8 DEF OnePlace
<1>5. CASE PlacesStay
  <2>1. \A p : (Listed(p)' <=> Listed(p)) /\ (Closing(p)' <=> Closing(p))
    BY <1>5 DEF PlacesStay, Listed, Closing
  <2> QED BY <1>5, <2>1 DEF PlacesStay, OnePlace
<1> QED BY <1>1, <1>2, <1>3, <1>4, <1>5, PlacesStayed

LEMMA OnePlaceHolds == Spec => []OnePlace
<1>1. Init => Shape /\ OnePlace
  BY InitShape, InitOnePlace
<1>2. Shape /\ OnePlace /\ [Next]_vars => Shape' /\ OnePlace'
  BY NextShape, NextOnePlace
<1> QED BY <1>1, <1>2, PTL DEF Spec

-----------------------------------------------------------------------------
(* The steps, by what they do to the connections that the pools have.      *)

LEMMA KeptStep ==
    ASSUME HomeInv, Shape', ListApart, ListApart', [Next]_vars
    PROVE  \/ KeepsAll
           \/ CreatePool /\ Renews(Len(pools) + 1)
           \/ RefreshPool /\ Renews(conn_pools[Head(main.todo).id + 1])
           \/ \E k \in DOMAIN shutdowns :
                /\ ShutdownStep(k) /\ HasAllConnections(pools[Head(shutdowns[k])])
                /\ Closes(Head(shutdowns[k]))
           \/ \E i \in DOMAIN fd.checks : FdRefresh(i) /\ Renews(conn_pools[i])
<1>0. Shape /\ Hands /\ DetectorKnows /\ HomeParts
  BY DEF HomeInv
<1>1. /\ \A i \in FdHolders : conn_pools'[i] = conn_pools[i]
      /\ \A i \in DOMAIN fd.checks :
           /\ ~FdPanic(i)
           /\ fd.checks[i].at \in {"take", "return", "refresh"}
                => fd.checks[i].pool = conn_pools[i]
  BY <1>0, ListKept
<1>2. CASE UNCHANGED <<pools, returns, auth, fd>>
  BY <1>0, <1>1, <1>2, SameLeases, SamePools DEF HomeParts
<1>3. CASE \/ \E list \in ServerLists : SetServerList(list)
           \/ \E n \in PoolSizes : SetPoolSize(n)
           \/ MainStep
  BY <1>0, <1>1, <1>3, MainHome
<1>4. CASE \E t \in AuthTasks : AuthStep(t)
  BY <1>0, <1>1, <1>4, AuthHome
<1>5. CASE \E r \in returns : SpawnedReturn(r)
  BY <1>0, <1>1, <1>5, SpawnedReturnHome
<1>6. CASE \E k \in DOMAIN shutdowns : ShutdownStep(k)
  BY <1>0, <1>1, <1>6, ShutdownHome
<1>7. CASE FdStart \/ FdEnd
  <2>1. UNCHANGED <<pools, returns, auth>> /\ FdHolders' = {} /\ FdHolders = {}
    BY <1>0, <1>7 DEF FdStart, FdEnd, FdHolders, Check, DetectorKnows, poolVars
  <2>2. AuthStays /\ FdStays
    BY <2>1, SameHands DEF FdStays
  <2> QED BY <1>0, <2>1, <2>2, SamePools
<1>8. CASE \E i \in DOMAIN fd.checks : CheckServerHealth(i)
  BY <1>0, <1>1, <1>8, CheckHome
<1>9. CASE \E u \in Urls : ComeBack(u) \/ \E m \in FailureModes : Fail(u, m)
  BY <1>2, <1>9 DEF ComeBack, Fail, poolVars
<1> QED BY <1>2, <1>3, <1>4, <1>5, <1>6, <1>7, <1>8, <1>9 DEF Next, vars

-----------------------------------------------------------------------------
(***************************************************************************)
(* HealthParts: a server listed as healthy has connections, or had them    *)
(* until panics took them.  The main thread and the health checks are      *)
(* about to write the status they found, so what they found has to be true *)
(* until they do.  For a check this needs that no CONFIG SET handler       *)
(* resets its pool in between (ConfigApart).                               *)
(***************************************************************************)
HealthyKept ==
    \A i \in DOMAIN servers :
        servers[i].healthy =>
            \/ Kept(conn_pools[i]) # {}
            \/ main.at = "refreshed" /\ main.server.id = i - 1 /\ ~main.ok

NewServes == main.at = "pushing" /\ main.server.healthy => Kept(Len(pools)) # {}

ResetServes ==
    main.at = "refreshed" /\ main.ok => Kept(conn_pools[main.server.id + 1]) # {}

CheckServes(i) ==
    /\ fd.checks[i].at \in {"lookup", "take", "ping", "lookupReturn", "return"}
         => Kept(conn_pools[i]) # {}
    /\ fd.checks[i].at = "status" /\ fd.checks[i].ok => Kept(conn_pools[i]) # {}
    /\ fd.checks[i].at \in {"connect", "pingNew", "lookupRefresh", "refresh"}
         => ~servers[i].healthy

ChecksServe == \A i \in DOMAIN fd.checks : CheckServes(i)

HealthParts == HealthyKept /\ NewServes /\ ResetServes /\ ChecksServe

(* What a step keeps of the pools that are listed or about to be. *)
KeepsListed ==
    \A x \in DOMAIN pools :
      Listed(x) \/ (main.at = "pushing" /\ x = Len(pools)) => Kept(x)' = Kept(x)

LEMMA ListedExist ==
    ASSUME Shape
    PROVE  /\ \A i \in DOMAIN conn_pools : conn_pools[i] \in DOMAIN pools /\ Listed(conn_pools[i])
           /\ DOMAIN servers = DOMAIN conn_pools
           /\ main.at = "pushing" => Len(pools) \in DOMAIN pools
<1>1. DOMAIN servers = DOMAIN conn_pools
  BY DEF Shape, ListsAligned, ListsOK
<1> QED BY <1>1 DEF Shape, ListsOK, PoolsOK, MainOK, Exists, Listed

(* Steps that turn no server healthy and reset no listed pool. *)
LEMMA HealthKept ==
    ASSUME Shape, HealthParts, KeepsListed, UNCHANGED <<conn_pools, main, fd>>,
           Len(pools') = Len(pools), DOMAIN servers' = DOMAIN servers,
           \A i \in DOMAIN servers : servers'[i].healthy => servers[i].healthy,
           DetectorKnows
    PROVE  HealthParts'
<1>1. /\ \A i \in DOMAIN conn_pools : Kept(conn_pools[i])' = Kept(conn_pools[i])
      /\ DOMAIN servers = DOMAIN conn_pools
      /\ main.at = "pushing" => Kept(Len(pools))' = Kept(Len(pools))
  BY ListedExist DEF KeepsListed
<1>2. HealthyKept'
  BY <1>1 DEF HealthParts, HealthyKept
<1>3. NewServes'
  BY <1>1 DEF HealthParts, NewServes
<1>4. ResetServes'
  <2>1. main.at = "refreshed" => main.server.id + 1 \in DOMAIN conn_pools
    BY <1>1 DEF Shape, MainOK, ListsOK, Servers
  <2> QED BY <1>1, <2>1 DEF HealthParts, ResetServes
<1>5. ChecksServe'
  <2>1. \A i \in DOMAIN fd.checks : i \in DOMAIN servers /\ i \in DOMAIN conn_pools
    BY NoPanic
  <2> QED BY <1>1, <2>1 DEF HealthParts, ChecksServe, CheckServes
<1> QED BY <1>2, <1>3, <1>4, <1>5 DEF HealthParts

(* While a CONFIG SET handler is at work. *)
LEMMA HealthOfMain ==
    ASSUME fd'.checks = <<>>, HealthyKept', NewServes', ResetServes'
    PROVE  HealthParts'
BY DEF HealthParts, ChecksServe

LEMMA MainHealth ==
    ASSUME HomeInv, OnePlace, HealthParts, Shape', ConfigApart, ConfigApart', [Next]_vars,
           \/ \E list \in ServerLists : SetServerList(list)
           \/ \E n \in PoolSizes : SetPoolSize(n)
           \/ MainStep
    PROVE  HealthParts'
<1>0. /\ Shape /\ HealthyKept /\ ListApart /\ ListApart'
      /\ main \in [at : {"idle", "adding", "pushing", "refreshing", "refreshed"},
                    todo : Seq(Urls \cup Servers), server : Servers, ok : BOOLEAN]
  BY DEF HomeInv, HealthParts, ConfigApart, ListApart, ListBusy, Shape, MainOK
<1>1. /\ \A i \in DOMAIN conn_pools : conn_pools[i] \in DOMAIN pools
      /\ DOMAIN servers = DOMAIN conn_pools
      /\ main.at = "pushing" => Len(pools) \in DOMAIN pools
  BY <1>0, ListedExist
<1>2. \A i \in FdHolders : conn_pools'[i] = conn_pools[i]
  BY <1>0, ListKept DEF HomeInv
<1>3. /\ CreatePool => Renews(Len(pools) + 1)
      /\ RefreshPool => Renews(conn_pools[Head(main.todo).id + 1])
      /\ ~CreatePool /\ ~RefreshPool => KeepsAll
  BY <1>0, <1>2, MainHome DEF HomeInv
<1>4. CASE \E list \in ServerLists : SetServerList(list)
  <2>1. servers' = <<>> /\ main'.at = "adding"
    BY <1>4 DEF SetServerList, MainIdle
  <2> QED BY <2>1, HealthOfMain DEF ConfigApart, HealthyKept, NewServes, ResetServes
<1>5. CASE CreatePool
  <2>0. PICK p : p = Len(pools) + 1
    OBVIOUS
  <2>1. PICK u \in Urls, ok \in BOOLEAN :
           /\ pools' = Append(pools, NewPool(p, u, ok)) /\ main.at = "adding"
           /\ main' = [main EXCEPT !.at = "pushing", !.server = Server(u, Len(servers), ok)]
           /\ UNCHANGED <<servers, conn_pools>>
    BY <1>0, <1>5, <2>0, CreatePoolFacts
  <2>2. main'.at = "pushing" /\ (main'.server.healthy => ok)
    <3> DEFINE v == Server(u, Len(servers), ok)
    <3>1. v.healthy => ok
      BY DEF Server
    <3>2. main' = [main EXCEPT !.at = "pushing", !.server = v]
      BY <2>1
    <3> HIDE DEF v
    <3>3. main'.at = "pushing" /\ main'.server = v
      BY <1>0, <3>2
    <3> QED BY <3>1, <3>3
  <2>3. /\ pools \in Seq(Queues) /\ p \in Nat /\ p \notin DOMAIN pools
        /\ pool_size \in PoolSizes /\ life \in [Urls -> Nat]
    BY <1>0, <2>0 DEF Shape, PoolsOK, ListsOK, EnvOK
  <2>4. NewPool(p, u, ok) \in Queues /\ (ok => NewPool(p, u, ok).queue # <<>>)
    <3>1. /\ NewPool(p, u, ok) \in Queues
          /\ ok => DOMAIN NewPool(p, u, ok).queue = 1..pool_size
      BY <2>3, NewPoolFacts
    <3>2. pool_size \in Nat \ {0}
      BY <2>3, ContextAssumption
    <3>3. 1 \in 1..pool_size
      BY <3>2
    <3>4. ok => 1 \in DOMAIN NewPool(p, u, ok).queue
      BY <3>1, <3>3
    <3> QED BY <3>1, <3>4
  <2>5. Len(pools') = p /\ pools'[p] = NewPool(p, u, ok)
    BY <2>0, <2>1, <2>3, <2>4
  <2>6. /\ ok => Kept(p)' # {}
        /\ \A x \in DOMAIN pools : Kept(x)' = Kept(x)
    <3>1. Renews(Len(pools) + 1)
      BY <1>3, <1>5
    <3> QED BY <2>0, <2>3, <2>4, <2>5, <3>1 DEF Renews, KeepsOthers
  <2>7. HealthyKept'
    BY <1>0, <1>1, <2>1, <2>6 DEF HealthyKept
  <2>8. NewServes' /\ ResetServes'
    <3>1. main'.server.healthy => Kept(p)' # {}
      BY <2>2, <2>6
    <3> QED BY <2>2, <2>5, <3>1 DEF NewServes, ResetServes
  <2> QED BY <2>2, <2>7, <2>8, HealthOfMain DEF ConfigApart
<1>6. CASE AddServer
  <2>1. /\ main.at = "pushing" /\ main'.at = "adding" /\ KeepsAll
        /\ servers' = Append(servers, main.server)
        /\ conn_pools' = Append(conn_pools, Len(pools))
    BY <1>0, <1>3, <1>6 DEF AddServer, CreatePool, RefreshPool
  <2>2. servers \in Seq(Servers) /\ conn_pools \in Seq(Nat) /\ Len(pools) \in Nat
    BY <1>0 DEF Shape, ListsOK, PoolsOK
  <2>3. ASSUME NEW i \in DOMAIN servers', servers'[i].healthy
        PROVE  Kept(conn_pools[i])' # {}
    <3>1. CASE i \in DOMAIN servers
      <4>1. servers'[i] = servers[i] /\ conn_pools'[i] = conn_pools[i]
        BY <1>1, <2>1, <2>2, <3>1
      <4>2. Kept(conn_pools[i]) # {} /\ conn_pools[i] \in DOMAIN pools
        BY <1>0, <1>1, <2>1, <2>3, <3>1, <4>1 DEF HealthyKept
      <4> QED BY <2>1, <4>1, <4>2 DEF KeepsAll
    <3>2. CASE i \notin DOMAIN servers
      <4>1. servers'[i] = main.server /\ conn_pools'[i] = Len(pools)
        <5>1. i = Len(servers) + 1 /\ Len(servers) = Len(conn_pools)
          BY <1>0, <2>1, <2>2, <3>2 DEF Shape, ListsAligned
        <5> QED BY <1>0, <2>1, <2>2, <5>1
      <4>2. Kept(Len(pools)) # {} /\ Len(pools) \in DOMAIN pools
        BY <1>1, <2>1, <2>3, <4>1 DEF HealthParts, NewServes
      <4> QED BY <2>1, <4>1, <4>2 DEF KeepsAll
    <3> QED BY <3>1, <3>2
  <2> QED BY <2>1, <2>3, HealthOfMain DEF ConfigApart, HealthyKept, NewServes,
           ResetServes
<1>7. CASE ServerListDone \/ RefreshDone \/ \E n \in PoolSizes : SetPoolSize(n)
  <2>1. /\ UNCHANGED <<servers, conn_pools, fd>> /\ main.at \notin {"pushing", "refreshed"}
        /\ main'.at \in {"idle", "refreshing"} /\ KeepsAll
    <3>1. CASE ServerListDone \/ RefreshDone
      <4>1. /\ UNCHANGED <<servers, conn_pools, fd>> /\ main.at \in {"adding", "refreshing"}
            /\ main' = MainIdle /\ main.todo = <<>>
        BY <3>1 DEF ServerListDone, RefreshDone, ctxVars
      <4>2. main'.at = "idle"
        BY <4>1 DEF MainIdle
      <4>3. ~CreatePool /\ ~RefreshPool
        BY <4>1 DEF CreatePool, RefreshPool
      <4> QED BY <1>3, <4>1, <4>2, <4>3
    <3>2. CASE \E n \in PoolSizes : SetPoolSize(n)
      <4>1. UNCHANGED <<servers, conn_pools, fd>> /\ main.at = "idle"
        BY <3>2 DEF SetPoolSize
      <4>2. main'.at = "refreshing"
        BY <3>2 DEF SetPoolSize, MainIdle
      <4> QED BY <1>3, <4>1, <4>2 DEF CreatePool, RefreshPool
    <3> QED BY <1>7, <3>1, <3>2
  <2>2. \A i \in DOMAIN conn_pools : Kept(conn_pools[i])' = Kept(conn_pools[i])
    BY <1>1, <2>1 DEF KeepsAll
  <2>3. HealthyKept'
    BY <1>0, <1>1, <2>1, <2>2 DEF HealthyKept
  <2>4. ChecksServe'
    <3>1. \A i \in DOMAIN fd.checks : i \in DOMAIN conn_pools
      BY NoPanic DEF HomeInv
    <3> QED BY <2>1, <2>2, <3>1 DEF HealthParts, ChecksServe, CheckServes
  <2> QED BY <2>1, <2>3, <2>4 DEF HealthParts, NewServes, ResetServes
<1>8. CASE RefreshPool
  <2>0. PICK s, p : s = Head(main.todo) /\ p = conn_pools[s.id + 1]
    OBVIOUS
  <2>1. PICK ok \in BOOLEAN :
           /\ main.at = "refreshing" /\ p \in DOMAIN pools /\ s.id + 1 \in DOMAIN servers
           /\ s \in Servers /\ pools' = [pools EXCEPT ![p] = Refreshed(p, pool_size, ok)]
           /\ main' = [main EXCEPT !.at = "refreshed", !.server = s, !.ok = ok]
           /\ UNCHANGED <<servers, conn_pools>>
    BY <1>0, <1>8, <2>0, RefreshPoolFacts
  <2>2. Renews(p)
    BY <1>3, <1>8, <2>0
  <2>3. main'.at = "refreshed" /\ main'.server = s /\ main'.ok = ok
    BY <1>0, <2>1
  <2>4. ok => Kept(p)' # {}
    <3>1. pool_size \in PoolSizes
      BY <1>0 DEF Shape, ListsOK
    <3>2. ok => pools'[p].queue # <<>>
      BY <1>0, <2>1, <3>1, RefreshedOpens DEF HomeInv
    <3> QED BY <2>2, <3>2 DEF Renews
  <2>5. p = conn_pools'[s.id + 1] /\ s.id \in Nat
    BY <2>0, <2>1 DEF Servers
  <2>6. ASSUME NEW i \in DOMAIN servers, servers[i].healthy, i # s.id + 1
        PROVE  Kept(conn_pools[i])' # {}
    <3>1. Kept(conn_pools[i]) # {} /\ conn_pools[i] \in DOMAIN pools
      BY <1>0, <1>1, <2>1, <2>6 DEF HealthyKept
    <3>2. conn_pools[i] # p
      BY <1>1, <2>0, <2>1, <2>6 DEF OnePlace
    <3> QED BY <2>1, <2>2, <3>1, <3>2 DEF Renews, KeepsOthers
  <2>7. HealthyKept'
    <3> SUFFICES ASSUME NEW i \in DOMAIN servers, servers[i].healthy
                 PROVE  \/ Kept(conn_pools[i])' # {}
                        \/ s.id = i - 1 /\ ~main'.ok
      BY <2>1, <2>3 DEF HealthyKept
    <3>1. CASE i = s.id + 1
      <4>1. CASE ok
        BY <2>4, <2>5, <3>1, <4>1
      <4>2. CASE ~ok
        BY <2>3, <2>5, <3>1, <4>2
      <4> QED BY <4>1, <4>2
    <3> QED BY <2>6, <3>1
  <2>8. NewServes' /\ ResetServes'
    <3>1. main'.ok => Kept(p)' # {}
      BY <2>3, <2>4
    <3>2. p = conn_pools'[main'.server.id + 1] /\ main'.at = "refreshed"
      BY <2>3, <2>5
    <3> QED BY <3>1, <3>2 DEF NewServes, ResetServes
  <2> QED BY <2>3, <2>7, <2>8, HealthOfMain DEF ConfigApart
<1>9. CASE RefreshStatus
  <2>1. /\ main.at = "refreshed" /\ main'.at = "refreshing" /\ UNCHANGED conn_pools
        /\ servers' = UpdateServerStatus(main.server, main.ok) /\ KeepsAll
    <3>1. \E x : main' = [main EXCEPT !.at = "refreshing", !.todo = x]
      BY <1>9 DEF RefreshStatus
    <3> QED BY <1>0, <1>3, <1>9, <3>1 DEF RefreshStatus, CreatePool, RefreshPool
  <2>2. /\ Len(servers') = Len(servers) /\ servers' \in Seq(Servers)
        /\ \A i \in DOMAIN servers : i # main.server.id + 1 => servers'[i] = servers[i]
        /\ main.server.id + 1 \in DOMAIN servers
             => servers'[main.server.id + 1].healthy = main.ok
    BY <1>0, <2>1, StatusFacts DEF Shape, ListsOK
  <2>3. ASSUME NEW i \in DOMAIN servers', servers'[i].healthy
        PROVE  Kept(conn_pools[i])' # {}
    <3>1. i \in DOMAIN servers /\ conn_pools[i] \in DOMAIN pools
      <4>1. DOMAIN servers' = DOMAIN servers
        BY <1>0, <2>2 DEF Shape, ListsOK
      <4> QED BY <1>1, <4>1
    <3>2. i \in Nat /\ main.server.id \in Nat
      <4>1. main.server \in Servers /\ servers \in Seq(Servers)
        BY <1>0 DEF Shape, ListsOK
      <4>2. main.server.id \in Nat
        BY <4>1 DEF Servers
      <4>3. i \in Nat
        BY <3>1, <4>1
      <4> QED BY <4>2, <4>3
    <3>3. CASE i = main.server.id + 1
      BY <2>1, <2>2, <2>3, <3>1, <3>3 DEF HealthParts, ResetServes, KeepsAll
    <3>4. CASE i # main.server.id + 1
      <4>1. servers[i].healthy /\ main.server.id # i - 1
        BY <2>2, <2>3, <3>1, <3>2, <3>4
      <4> QED BY <1>0, <2>1, <3>1, <4>1 DEF HealthyKept, KeepsAll
    <3> QED BY <3>3, <3>4
  <2> QED BY <2>1, <2>3, HealthOfMain DEF ConfigApart, HealthyKept, NewServes,
           ResetServes
<1> QED BY <1>4, <1>5, <1>6, <1>7, <1>8, <1>9 DEF MainStep

(* The tasks other than the detector. *)
LEMMA TaskHealth ==
    ASSUME HomeInv, OnePlace, HealthParts, Shape', ListApart, ListApart', [Next]_vars,
           \/ \E t \in AuthTasks : AuthStep(t)
           \/ \E r \in returns : SpawnedReturn(r)
           \/ \E k \in DOMAIN shutdowns : ShutdownStep(k)
           \/ \E u \in Urls : ComeBack(u) \/ \E m \in FailureModes : Fail(u, m)
           \/ UNCHANGED vars
    PROVE  HealthParts'
<1>0. Shape /\ DetectorKnows
  BY DEF HomeInv
<1>1. UNCHANGED <<conn_pools, main, fd>>
  BY DEF AuthStep, AuthFind, AuthTake, AuthOp, AuthPanic, AuthFailover, SpawnedReturn, ShutdownStep,
         ComeBack, Fail, ctxVars, vars
<1>2. /\ DOMAIN servers' = DOMAIN servers
      /\ \A i \in DOMAIN servers : servers'[i].healthy => servers[i].healthy
  <2>1. CASE \E t \in AuthTasks : AuthFailover(t)
    <3>1. PICK s \in Servers : servers' = UpdateServerStatus(s, FALSE)
      BY <1>0, <2>1, StatusUpdates
    <3>2. /\ servers \in Seq(Servers) /\ servers' \in Seq(Servers)
          /\ Len(servers') = Len(servers)
          /\ \A i \in DOMAIN servers : i # s.id + 1 => servers'[i] = servers[i]
          /\ s.id + 1 \in DOMAIN servers => servers'[s.id + 1].healthy = FALSE
      BY <1>0, <3>1, StatusFacts DEF Shape, ListsOK
    <3>3. DOMAIN servers' = DOMAIN servers
      BY <3>2
    <3> QED BY <3>2, <3>3
  <2>2. CASE UNCHANGED servers
    BY <2>2
  <2> QED BY <2>1, <2>2 DEF AuthStep, AuthFind, AuthTake, AuthOp, AuthPanic, SpawnedReturn, ShutdownStep,
         ComeBack, Fail, ctxVars, vars
<1>3. KeepsListed /\ Len(pools') = Len(pools)
  <2>0. \A i \in FdHolders : conn_pools'[i] = conn_pools[i]
    BY <1>1
  <2>1. CASE \E k \in DOMAIN shutdowns : ShutdownStep(k)
    <3>1. PICK k \in DOMAIN shutdowns : ShutdownStep(k)
      BY <2>1
    <3> DEFINE p == Head(shutdowns[k])
    <3>2. /\ shutdowns[k] # <<>> /\ p \in DOMAIN pools /\ shutdowns[k] \in Seq(Nat)
          /\ \E q : pools' = [pools EXCEPT ![p] = q]
      BY <1>0, <3>1, ShutdownAt DEF ShutdownStep
    <3>3. Closing(p)
      <4>1. 1 \in DOMAIN shutdowns[k] /\ p = shutdowns[k][1]
        BY <3>2
      <4> QED BY <4>1 DEF Closing
    <3>4. KeepsAll \/ KeepsOthers(p)
      BY <2>0, <3>1, ShutdownHome DEF HomeInv, Closes
    <3> HIDE DEF p
    <3>5. KeepsListed
      BY <3>3, <3>4 DEF KeepsListed, KeepsAll, KeepsOthers, OnePlace
    <3> QED BY <1>0, <3>2, <3>5, SamePoolCount
  <2>2. CASE ~\E k \in DOMAIN shutdowns : ShutdownStep(k)
    <3>1. ~CreatePool /\ ~RefreshPool /\ ~AddServer /\ \A list \in ServerLists : ~SetServerList(list)
      <4>1. main \in [at : {"idle", "adding", "pushing", "refreshing", "refreshed"},
                      todo : Seq(Urls \cup Servers), server : Servers, ok : BOOLEAN]
        BY <1>0 DEF Shape, MainOK
      <4>2. CreatePool => main'.at = "pushing" /\ main.at = "adding"
        BY <4>1 DEF CreatePool
      <4>3. RefreshPool => main'.at = "refreshed" /\ main.at = "refreshing"
        BY <4>1 DEF RefreshPool
      <4>4. AddServer => main'.at = "adding" /\ main.at = "pushing"
        BY <4>1 DEF AddServer
      <4>5. \A list \in ServerLists : SetServerList(list) => main'.at = "adding" /\ main.at = "idle"
        BY DEF SetServerList, MainIdle
      <4> QED BY <1>1, <4>2, <4>3, <4>4, <4>5
    <3>2. Len(pools') = Len(pools)
      BY <1>0, <2>2, <3>1, PlacesStayed DEF PlacesStay
    <3>3. KeepsAll
      <4>1. CASE \E t \in AuthTasks : AuthStep(t)
        BY <1>0, <2>0, <4>1, AuthHome DEF HomeInv
      <4>2. CASE \E r \in returns : SpawnedReturn(r)
        BY <1>0, <2>0, <4>2, SpawnedReturnHome DEF HomeInv
      <4>3. CASE UNCHANGED <<pools, returns, auth, fd>>
        BY <2>0, <4>3, SameLeases, SamePools DEF HomeInv, HomeParts
      <4> QED BY <2>2, <4>1, <4>2, <4>3 DEF ComeBack, Fail, poolVars, vars
    <3> QED BY <3>2, <3>3 DEF KeepsListed, KeepsAll
  <2> QED BY <2>1, <2>2
<1> QED BY <1>0, <1>1, <1>2, <1>3, HealthKept

LEMMA StartHealth ==
    ASSUME HomeInv, HealthParts, Shape', ConfigApart', [Next]_vars, FdStart \/ FdEnd
    PROVE  HealthParts'
<1>0. Shape /\ Hands /\ DetectorKnows /\ HomeParts
  BY DEF HomeInv
<1>1. UNCHANGED <<pools, returns, auth, conn_pools, main, servers>>
  BY DEF FdStart, FdEnd, poolVars, ctxVars
<1>2. KeepsAll
  <2>1. FdHolders' = {} /\ FdHolders = {}
    BY <1>0 DEF FdStart, FdEnd, FdHolders, Check, DetectorKnows
  <2>2. AuthStays /\ FdStays
    BY <1>1, <2>1, SameHands DEF FdStays
  <2> QED BY <1>0, <1>1, <2>2, SamePools
<1>3. /\ \A i \in DOMAIN conn_pools : Kept(conn_pools[i])' = Kept(conn_pools[i])
      /\ DOMAIN servers = DOMAIN conn_pools
      /\ main.at = "pushing" => Kept(Len(pools))' = Kept(Len(pools))
  BY <1>0, <1>1, <1>2, ListedExist DEF KeepsAll
<1>4. HealthyKept'
  BY <1>1, <1>3 DEF HealthParts, HealthyKept
<1>5. NewServes'
  BY <1>1, <1>3 DEF HealthParts, NewServes
<1>6. ResetServes'
  <2>1. main.at = "refreshed" => main.server.id + 1 \in DOMAIN conn_pools
    BY <1>0, <1>3 DEF Shape, MainOK, ListsOK, Servers
  <2> QED BY <1>1, <1>3, <2>1 DEF HealthParts, ResetServes
<1>7. ASSUME NEW i \in DOMAIN fd'.checks PROVE CheckServes(i)'
  <2>1. FdStart
    BY DEF FdEnd
  <2>2. i \in DOMAIN servers /\ fd'.checks[i] = Check(servers[i])
    BY <2>1 DEF FdStart
  <2>3. main.at = "idle"
    BY <1>1, <1>7 DEF ConfigApart
  <2>4. \/ fd'.checks[i].at = "lookup" /\ servers[i].healthy
        \/ fd'.checks[i].at = "connect" /\ ~servers[i].healthy
    BY <2>2 DEF Check
  <2>5. servers[i].healthy => Kept(conn_pools[i])' # {}
    BY <1>3, <2>2, <2>3 DEF HealthParts, HealthyKept
  <2> QED BY <1>1, <2>4, <2>5 DEF CheckServes
<1> QED BY <1>4, <1>5, <1>6, <1>7 DEF HealthParts, ChecksServe

LEMMA CheckHealth ==
    ASSUME HomeInv, OnePlace, HealthParts, Shape', ConfigApart, ListApart, ListApart',
           [Next]_vars, NEW i \in DOMAIN fd.checks, CheckServerHealth(i)
    PROVE  HealthParts'
<1> DEFINE c == fd.checks[i]
<1>0. /\ Shape /\ Hands /\ DetectorKnows /\ HomeParts /\ HealthyKept
      /\ \A h \in DOMAIN fd.checks : CheckServes(h)
  BY DEF HomeInv, HealthParts, ChecksServe
<1>1. /\ main.at = "idle" /\ UNCHANGED <<conn_pools, main>> /\ ~FdPanic(i)
      /\ \A h \in DOMAIN fd.checks : h \in DOMAIN servers /\ h \in DOMAIN conn_pools
      /\ c \in HealthChecks /\ c.server \in Servers /\ c.server.id + 1 = i
  <2>1. UNCHANGED <<conn_pools, main>>
    BY DEF CheckServerHealth, FdPanic, FdLookup, FdTake, FdPing, FdReturn, FdConnect,
         FdPingNew, FdRefresh, FdStatus, ctxVars
  <2>2. c \in HealthChecks /\ c.server \in Servers /\ c.server.id + 1 = i
    BY <1>0, CheckOf DEF Shape
  <2> QED BY <1>0, <2>1, <2>2, NoPanic DEF ConfigApart
<1>2. /\ \A h \in DOMAIN conn_pools : conn_pools[h] \in DOMAIN pools
      /\ DOMAIN servers = DOMAIN conn_pools
  BY <1>0, ListedExist
<1>3. /\ FdRefresh(i) => Renews(conn_pools[i])
      /\ ~FdRefresh(i) => KeepsAll
  BY <1>0, <1>1, ListKept, CheckHome
<1>4. \A h \in DOMAIN conn_pools : h # i => Kept(conn_pools[h])' = Kept(conn_pools[h])
  <2> SUFFICES ASSUME NEW h \in DOMAIN conn_pools, h # i
               PROVE  Kept(conn_pools[h])' = Kept(conn_pools[h])
    OBVIOUS
  <2>1. conn_pools[h] # conn_pools[i] /\ conn_pools'[h] = conn_pools[h]
    BY <1>1 DEF OnePlace
  <2> QED BY <1>2, <1>3, <2>1 DEF Renews, KeepsOthers, KeepsAll
<1>5. ~FdRefresh(i) => Kept(conn_pools[i])' = Kept(conn_pools[i])
  BY <1>1, <1>2, <1>3 DEF KeepsAll
<1>6. ASSUME DOMAIN servers' = DOMAIN servers,
             \A h \in DOMAIN servers : h # i => servers'[h] = servers[h],
             DOMAIN fd'.checks = DOMAIN fd.checks,
             \A h \in DOMAIN fd.checks : h # i => fd'.checks[h] = fd.checks[h],
             servers'[i].healthy => Kept(conn_pools[i])' # {},
             CheckServes(i)'
      PROVE  HealthParts'
  <2>1. HealthyKept'
    BY <1>0, <1>1, <1>2, <1>4, <1>6 DEF HealthyKept
  <2>2. NewServes' /\ ResetServes'
    BY <1>1 DEF NewServes, ResetServes
  <2>3. ASSUME NEW h \in DOMAIN fd.checks, h # i PROVE CheckServes(h)'
    BY <1>0, <1>1, <1>2, <1>4, <1>6, <2>3 DEF CheckServes
  <2> QED BY <1>6, <2>1, <2>2, <2>3 DEF HealthParts, ChecksServe
<1>7. ASSUME NEW d, CheckBecomes(i, d), UNCHANGED servers, ~FdRefresh(i),
             d.at \in {"lookup", "take", "ping", "lookupReturn", "return"} =>
               c.at \in {"lookup", "take", "ping", "lookupReturn", "return"},
             d.at \in {"connect", "pingNew", "lookupRefresh", "refresh"} =>
               c.at \in {"connect", "pingNew", "lookupRefresh", "refresh"},
             d.at = "status" /\ d.ok =>
               c.at \in {"lookup", "take", "ping", "lookupReturn", "return"}
      PROVE  HealthParts'
  <2>1. /\ DOMAIN fd'.checks = DOMAIN fd.checks /\ fd'.checks[i] = d
        /\ \A h \in DOMAIN fd.checks : h # i => fd'.checks[h] = fd.checks[h]
    BY <1>7 DEF CheckBecomes
  <2>2. Kept(conn_pools[i])' = Kept(conn_pools[i])
    BY <1>5, <1>7
  <2>3. CheckServes(i)'
    BY <1>0, <1>7, <2>1, <2>2 DEF CheckServes
  <2>4. servers'[i].healthy => Kept(conn_pools[i])' # {}
    BY <1>0, <1>1, <1>7, <2>2 DEF HealthyKept
  <2> QED BY <1>6, <1>7, <2>1, <2>3, <2>4
<1>8. ASSUME ~FdRefresh(i), ~FdStatus(i) PROVE UNCHANGED servers
  BY <1>8 DEF CheckServerHealth, FdPanic, FdLookup, FdTake, FdPing, FdReturn, FdConnect,
       FdPingNew, ctxVars
<1>9. /\ FdLookup(i) => c.at \in {"lookup", "lookupReturn", "lookupRefresh"}
      /\ FdTake(i) => c.at = "take"
      /\ FdPing(i) => c.at = "ping"
      /\ FdReturn(i) => c.at = "return"
      /\ FdConnect(i) => c.at = "connect"
      /\ FdPingNew(i) => c.at = "pingNew"
      /\ FdStatus(i) => c.at = "status"
      /\ FdRefresh(i) => c.at = "refresh"
  <2>1. FdLookup(i) => c.at \in {"lookup", "lookupReturn", "lookupRefresh"}
    BY DEF FdLookup
  <2> QED BY <2>1 DEF FdRefresh, FdTake, FdPing, FdReturn, FdConnect, FdPingNew, FdStatus
<1>10. CASE FdLookup(i)
  <2>1. ~FdRefresh(i) /\ ~FdStatus(i)
    BY <1>9, <1>10
  <2>2. PICK d : /\ CheckBecomes(i, d)
                 /\ <<c.at, d.at>> \in {<<"lookup", "take">>, <<"lookupReturn", "return">>,
                                         <<"lookupRefresh", "refresh">>}
    BY <1>0, <1>10, LookupStep
  <2> HIDE DEF c
  <2>3. \/ c.at = "lookup" /\ d.at = "take"
        \/ c.at = "lookupReturn" /\ d.at = "return"
        \/ c.at = "lookupRefresh" /\ d.at = "refresh"
    BY <2>2
  <2> QED BY <1>7, <1>8, <2>1, <2>2, <2>3
<1>11. CASE FdTake(i)
  <2>1. ~FdRefresh(i) /\ ~FdStatus(i) /\ c.at = "take"
    BY <1>9, <1>11
  <2>2. CASE UNCHANGED fd
    BY <1>7, <1>8, <2>1, <2>2 DEF CheckBecomes
  <2>3. CASE fd' = [fd EXCEPT !.checks[i].at = "ping", !.checks[i].lease = LeaseFrom(c.pool)]
    <3>1. PICK p : p = c.pool
      OBVIOUS
    <3>2. fd' = [fd EXCEPT !.checks[i].at = "ping", !.checks[i].lease = LeaseFrom(p)]
      BY <2>3, <3>1
    <3>3. PICK d : CheckBecomes(i, d) /\ d.at = "ping"
      BY <1>0, <3>2, FdTakesStep
    <3> HIDE DEF c
    <3> QED BY <1>7, <1>8, <2>1, <3>3
  <2> QED BY <1>11, <2>2, <2>3 DEF FdTake
<1>12. CASE FdPing(i)
  <2>1. ~FdRefresh(i) /\ ~FdStatus(i) /\ c.at = "ping"
    BY <1>9, <1>12
  <2>2. PICK d : CheckBecomes(i, d) /\ d.at = "lookupReturn"
    BY <1>0, <1>12, PingStep
  <2> HIDE DEF c
  <2> QED BY <1>7, <1>8, <2>1, <2>2
<1>13. CASE FdReturn(i)
  <2>1. ~FdRefresh(i) /\ ~FdStatus(i) /\ c.at = "return"
    BY <1>9, <1>13
  <2>2. PICK d : CheckBecomes(i, d) /\ d.at = "status"
    BY <1>0, <1>13, ReturnStep
  <2> HIDE DEF c
  <2> QED BY <1>7, <1>8, <2>1, <2>2
<1>14. CASE FdConnect(i)
  <2>1. ~FdRefresh(i) /\ ~FdStatus(i) /\ c.at = "connect"
    BY <1>9, <1>14
  <2>2. PICK d : /\ CheckBecomes(i, d) /\ d.at \in {"pingNew", "status"}
                 /\ d.at = "status" => ~d.ok
    BY <1>0, <1>14, ConnectStep
  <2> HIDE DEF c
  <2> QED BY <1>7, <1>8, <2>1, <2>2
<1>15. CASE FdPingNew(i)
  <2>1. ~FdRefresh(i) /\ ~FdStatus(i) /\ c.at = "pingNew"
    BY <1>9, <1>15
  <2>2. PICK d : CheckBecomes(i, d) /\ d.at \in {"lookupRefresh", "done"}
    BY <1>0, <1>15, PingNewStep
  <2> HIDE DEF c
  <2> QED BY <1>7, <1>8, <2>1, <2>2
<1>16. CASE FdRefresh(i)
  <2>1. PICK d : \E ok \in BOOLEAN :
           /\ CheckBecomes(i, d) /\ c.at = "refresh" /\ d.at = "status" /\ d.ok = ok
           /\ c.pool \in DOMAIN pools /\ c.size \in PoolSizes
           /\ pools' = [pools EXCEPT ![c.pool] = Refreshed(c.pool, c.size, ok)]
    BY <1>0, <1>16, RefreshStep
  <2>2. PICK p, n : p = c.pool /\ n = c.size
    OBVIOUS
  <2>8. PICK ok \in BOOLEAN :
           /\ d.ok = ok /\ p \in DOMAIN pools /\ n \in PoolSizes
           /\ pools' = [pools EXCEPT ![p] = Refreshed(p, n, ok)]
    BY <2>1, <2>2
  <2>3. p = conn_pools[i] /\ p = conn_pools'[i]
    BY <1>0, <1>1, <2>1, <2>2, ListKept
  <2>4. d.ok => Kept(p)' # {}
    <3>1. ok => pools'[p].queue # <<>>
      BY <1>0, <2>8, RefreshedOpens
    <3>2. Renews(p)
      BY <1>3, <1>16, <2>3
    <3>3. ok => Kept(p)' # {}
      BY <3>1, <3>2 DEF Renews
    <3> QED BY <2>8, <3>3
  <2>5. UNCHANGED servers /\ ~servers[i].healthy
    BY <1>0, <1>16, <2>1 DEF FdRefresh, ctxVars, CheckServes
  <2>6. /\ DOMAIN fd'.checks = DOMAIN fd.checks /\ fd'.checks[i] = d
        /\ \A h \in DOMAIN fd.checks : h # i => fd'.checks[h] = fd.checks[h]
    BY <2>1 DEF CheckBecomes
  <2>7. CheckServes(i)'
    BY <2>1, <2>3, <2>4, <2>6 DEF CheckServes
  <2> QED BY <1>6, <2>5, <2>6, <2>7
<1>17. CASE FdStatus(i)
  <2>1. PICK d : CheckBecomes(i, d) /\ c.at = "status" /\ d.at = "done"
    BY <1>0, <1>17, StatusStep
  <2>2. /\ c.server \in Servers /\ c.ok \in BOOLEAN
        /\ servers' = UpdateServerStatus(c.server, c.ok)
    BY <1>0, <1>17, StatusUpdates
  <2>3. /\ servers \in Seq(Servers) /\ servers' \in Seq(Servers)
        /\ Len(servers') = Len(servers)
        /\ \A h \in DOMAIN servers : h # c.server.id + 1 => servers'[h] = servers[h]
        /\ c.server.id + 1 \in DOMAIN servers
             => servers'[c.server.id + 1].healthy = c.ok
    <3> HIDE DEF c
    <3> QED BY <1>0, <2>2, StatusFacts DEF Shape, ListsOK
  <2>4. DOMAIN servers' = DOMAIN servers
    BY <2>3
  <2>5. servers'[i].healthy = c.ok /\ \A h \in DOMAIN servers : h # i => servers'[h] = servers[h]
    <3> HIDE DEF c
    <3> QED BY <1>1, <2>3
  <2>6. c.ok => Kept(conn_pools[i])' # {}
    <3>1. ~FdRefresh(i)
      BY <1>9, <1>17
    <3>2. c.ok => Kept(conn_pools[i]) # {}
      BY <1>0, <2>1 DEF CheckServes
    <3> QED BY <1>5, <3>1, <3>2
  <2>7. /\ DOMAIN fd'.checks = DOMAIN fd.checks /\ fd'.checks[i] = d
        /\ \A h \in DOMAIN fd.checks : h # i => fd'.checks[h] = fd.checks[h]
    BY <2>1 DEF CheckBecomes
  <2>8. CheckServes(i)'
    BY <2>1, <2>7 DEF CheckServes
  <2>9. servers'[i].healthy => Kept(conn_pools[i])' # {}
    BY <2>5, <2>6
  <2> QED BY <1>6, <2>4, <2>5, <2>7, <2>8, <2>9
<1> QED BY <1>1, <1>10, <1>11, <1>12, <1>13, <1>14, <1>15, <1>16, <1>17 DEF CheckServerHealth

LEMMA InitHealth == Init => HealthParts
<1> SUFFICES ASSUME Init PROVE HealthParts
  OBVIOUS
<1>1. /\ main.at = "idle" /\ fd.checks = <<>> /\ pool_size \in PoolSizes
      /\ DOMAIN servers = DOMAIN FirstList
      /\ \A i \in DOMAIN FirstList : conn_pools[i] = i
  BY DEF Init, MainIdle
<1>2. DOMAIN FirstList = 1..Len(FirstList) /\ pool_size \in Nat /\ pool_size # 0
  BY <1>1, ContextAssumption
<1>3. ASSUME NEW p \in 1..Len(FirstList) PROVE Kept(p) # {}
  <2>1. /\ p \in DOMAIN pools /\ pools[p].epoch = 1
        /\ DOMAIN pools[p].queue = 1..pool_size
        /\ \A j \in 1..pool_size : pools[p].queue[j] =
             [pool |-> p, epoch |-> 1, place |-> j, life |-> 0]
    BY FirstPools
  <2> DEFINE d == [pool |-> p, epoch |-> 1, place |-> 1, life |-> 0]
  <2>2. d.pool = p /\ d.epoch = 1
    OBVIOUS
  <2>3. 1 \in DOMAIN pools[p].queue /\ pools[p].queue[1] = d
    BY <1>2, <2>1
  <2> HIDE DEF d
  <2>4. d \in Queued
    <3>1. d \in Elems(pools[p].queue)
      BY <2>3 DEF Elems
    <3> QED BY <2>1, <3>1 DEF Queued
  <2> QED BY <2>1, <2>2, <2>4 DEF Kept, CurrentOf, InUse
<1>4. HealthyKept
  BY <1>1, <1>2, <1>3 DEF HealthyKept
<1> QED BY <1>1, <1>4 DEF HealthParts, NewServes, ResetServes, ChecksServe

LEMMA NextHealth ==
    ASSUME HomeInv, OnePlace, HealthParts, Shape', ConfigApart, ConfigApart', [Next]_vars
    PROVE  HealthParts'
<1>1. ListApart /\ ListApart'
  BY DEF ConfigApart, ListApart, ListBusy
<1>2. CASE \/ \E list \in ServerLists : SetServerList(list)
           \/ \E n \in PoolSizes : SetPoolSize(n)
           \/ MainStep
  BY <1>2, MainHealth
<1>3. CASE \/ \E t \in AuthTasks : AuthStep(t)
           \/ \E r \in returns : SpawnedReturn(r)
           \/ \E k \in DOMAIN shutdowns : ShutdownStep(k)
           \/ \E u \in Urls : ComeBack(u) \/ \E m \in FailureModes : Fail(u, m)
           \/ UNCHANGED vars
  BY <1>1, <1>3, TaskHealth
<1>4. CASE FdStart \/ FdEnd
  BY <1>4, StartHealth
<1>5. CASE \E i \in DOMAIN fd.checks : CheckServerHealth(i)
  BY <1>1, <1>5, CheckHealth
<1> QED BY <1>2, <1>3, <1>4, <1>5 DEF Next

(***************************************************************************)
(* When no iteration of the detector overlaps a CONFIG SET handler: a      *)
(* server that find_server may pick has a pool with connections, in the    *)
(* queue or lent, unless panics of search have taken them all.             *)
(* refresh_connections, add_server and check_server_health fill the pool   *)
(* before the status turns HEALTHY, and a pool that is shut down is never  *)
(* one of the list.                                                        *)
(***************************************************************************)
THEOREM HealthyCanServe == Spec /\ []ConfigApart => []HealthyHasConnections
<1> DEFINE I == HomeInv /\ OnePlace /\ HealthParts
<1>1. Init => I
  BY InitShape, InitHands, InitKnows, InitHome, InitOnePlace, InitHealth DEF HomeInv
<1>2. I /\ ConfigApart /\ ConfigApart' /\ [Next]_vars => I'
  <2> SUFFICES ASSUME HomeInv, OnePlace, HealthParts, ConfigApart, ConfigApart', [Next]_vars
               PROVE  HomeInv' /\ OnePlace' /\ HealthParts'
    OBVIOUS
  <2>1. ListApart /\ ListApart' /\ Shape
    BY DEF ConfigApart, ListApart, ListBusy, HomeInv
  <2>2. HomeInv' /\ OnePlace'
    BY <2>1, NextHomeInv, NextOnePlace
  <2>3. Shape'
    BY <2>2 DEF HomeInv
  <2> QED BY <2>2, <2>3, NextHealth
<1>3. I => HealthyHasConnections
  BY KeptAre DEF HealthParts, HealthyKept, HealthyHasConnections, HomeInv
<1> HIDE DEF I
<1> QED BY <1>1, <1>2, <1>3, PTL DEF Spec

-----------------------------------------------------------------------------
(***************************************************************************)
(* The iterations of the detector check places that some server list has,  *)
(* so Checks names all of them.                                            *)
(***************************************************************************)
Ahead == IF ListBusy THEN Len(main.todo) ELSE 0

Fits(n) == \E list \in ServerLists \cup {FirstList} : n <= Len(list)

ChecksFit == Fits(Len(servers) + Ahead) /\ DOMAIN fd.checks \subseteq Checks

LEMMA FitsChecks ==
    ASSUME NEW n \in Nat, Fits(n)
    PROVE  1..n \subseteq Checks
<1>1. PICK list \in ServerLists \cup {FirstList} : n <= Len(list)
  BY DEF Fits
<1>2. list \in Seq(Urls)
  BY ContextAssumption
<1>3. 1..n \subseteq DOMAIN list
  BY <1>1, <1>2
<1> QED BY <1>3 DEF Checks

LEMMA InitChecksFit == Init => ChecksFit
<1> SUFFICES ASSUME Init PROVE ChecksFit
  OBVIOUS
<1>1. FirstList \in Seq(Urls) /\ Len(FirstList) \in Nat
  BY ContextAssumption
<1>2. /\ main.at = "idle" /\ fd.checks = <<>>
  BY DEF Init, MainIdle
<1>3. Len(servers) = Len(FirstList)
  BY FirstServers
<1>4. Ahead = 0
  BY <1>2 DEF Ahead, ListBusy
<1> QED BY <1>1, <1>2, <1>3, <1>4 DEF ChecksFit, Fits

LEMMA BusySteps ==
    ASSUME Shape, ListBusy', [Next]_vars
    PROVE  \/ UNCHANGED main
           \/ \E list \in ServerLists : SetServerList(list)
           \/ CreatePool \/ AddServer
<1>0. main \in [at : {"idle", "adding", "pushing", "refreshing", "refreshed"},
                todo : Seq(Urls \cup Servers), server : Servers, ok : BOOLEAN]
  BY DEF Shape, MainOK
<1>1. ~ServerListDone /\ ~RefreshDone
  BY DEF ServerListDone, RefreshDone, MainIdle, ListBusy
<1>2. ~RefreshPool
  BY <1>0 DEF RefreshPool, ListBusy
<1>3. ~RefreshStatus
  <2> SUFFICES ASSUME RefreshStatus PROVE FALSE
    OBVIOUS
  <2>1. \E x : main' = [main EXCEPT !.at = "refreshing", !.todo = x]
    BY DEF RefreshStatus
  <2>2. main'.at = "refreshing"
    BY <1>0, <2>1
  <2> QED BY <2>2 DEF ListBusy
<1>4. \A n \in PoolSizes : ~SetPoolSize(n)
  <2> SUFFICES ASSUME NEW n \in PoolSizes, SetPoolSize(n) PROVE FALSE
    OBVIOUS
  <2>1. main'.at = "refreshing"
    BY DEF SetPoolSize, MainIdle
  <2> QED BY <2>1 DEF ListBusy
<1>5. CASE \E t \in AuthTasks : AuthStep(t)
  BY <1>5 DEF AuthStep, AuthFind, AuthTake, AuthOp, AuthPanic, AuthFailover
<1>6. CASE \E i \in DOMAIN fd.checks : CheckServerHealth(i)
  BY <1>6 DEF CheckServerHealth, FdPanic, FdLookup, FdTake, FdPing, FdReturn, FdConnect,
       FdPingNew, FdRefresh, FdStatus
<1> QED BY <1>1, <1>2, <1>3, <1>4, <1>5, <1>6 DEF Next, MainStep, SpawnedReturn, ShutdownStep,
         FdStart, FdEnd, ComeBack, Fail, vars

LEMMA NextListFits ==
    ASSUME Shape, Fits(Len(servers) + Ahead), [Next]_vars
    PROVE  Fits(Len(servers') + Ahead')
<1>0. /\ main \in [at : {"idle", "adding", "pushing", "refreshing", "refreshed"},
                    todo : Seq(Urls \cup Servers), server : Servers, ok : BOOLEAN]
      /\ main.at = "pushing" => main.todo # <<>>
      /\ servers \in Seq(Servers) /\ Len(servers) \in Nat
  BY DEF Shape, MainOK, ListsOK
<1>1. Len(main.todo) \in Nat
  BY <1>0
<1>2. Ahead \in Nat
  BY <1>1 DEF Ahead
<1>3. ASSUME NEW m \in Nat, m <= Len(servers) + Ahead PROVE Fits(m)
  <2>1. PICK list \in ServerLists \cup {FirstList} : Len(servers) + Ahead <= Len(list)
    BY DEF Fits
  <2>2. Len(list) \in Nat
    BY ContextAssumption
  <2>3. m <= Len(list)
    BY <1>0, <1>2, <1>3, <2>1, <2>2
  <2> QED BY <2>3 DEF Fits
<1>4. CASE ~ListBusy'
  <2>1. Len(servers') = Len(servers)
    BY <1>4, ListStep DEF SameServers
  <2>2. Ahead' = 0
    BY <1>4 DEF Ahead
  <2>3. Len(servers') + Ahead' \in Nat /\ Len(servers') + Ahead' <= Len(servers) + Ahead
    BY <1>0, <1>2, <2>1, <2>2
  <2> QED BY <1>3, <2>3
<1>5. ASSUME NEW list \in ServerLists, SetServerList(list) PROVE Fits(Len(servers') + Ahead')
  <2>1. servers' = <<>> /\ main'.at = "adding" /\ main'.todo = list
    BY <1>5 DEF SetServerList, MainIdle
  <2>2. Ahead' = Len(list) /\ Len(servers') = 0 /\ Len(list) \in Nat
    BY <2>1, ContextAssumption DEF Ahead, ListBusy
  <2> QED BY <2>2 DEF Fits
<1>6. CASE CreatePool
  <2>1. PICK v : /\ main.at = "adding" /\ UNCHANGED servers
                 /\ main' = [main EXCEPT !.at = "pushing", !.server = v]
    BY <1>6, CreatePoolFacts
  <2>2. main'.at = "pushing" /\ main'.todo = main.todo
    BY <1>0, <2>1
  <2>3. Ahead' = Ahead
    BY <2>1, <2>2 DEF Ahead, ListBusy
  <2> QED BY <2>1, <2>3
<1>7. CASE AddServer
  <2>1. /\ main.at = "pushing" /\ servers' = Append(servers, main.server)
        /\ main' = [main EXCEPT !.at = "adding", !.todo = Tail(main.todo)]
    BY <1>7 DEF AddServer
  <2>2. main'.at = "adding" /\ main'.todo = Tail(main.todo)
    BY <1>0, <2>1
  <2>3. Len(servers') = Len(servers) + 1
    BY <1>0, <2>1
  <2>4. Len(Tail(main.todo)) = Len(main.todo) - 1
    BY <1>0, <2>1
  <2>5. Ahead = Len(main.todo) /\ Ahead' = Len(main.todo) - 1
    BY <2>1, <2>2, <2>4 DEF Ahead, ListBusy
  <2>6. Len(servers') + Ahead' = Len(servers) + Ahead
    BY <1>0, <1>1, <2>3, <2>5
  <2> QED BY <2>6
<1>8. CASE UNCHANGED main /\ ~AddServer /\ \A list \in ServerLists : ~SetServerList(list)
  <2>1. Len(servers') = Len(servers)
    <3>1. CASE \/ \E t \in AuthTasks : AuthFailover(t)
               \/ \E i \in DOMAIN fd.checks : FdStatus(i)
               \/ RefreshStatus
      <4>1. PICK s \in Servers, h \in BOOLEAN : servers' = UpdateServerStatus(s, h)
        BY <3>1, StatusUpdates
      <4> QED BY <1>0, <4>1, StatusFacts
    <3> QED BY <1>8, <3>1, StatusWriters
  <2>2. Ahead' = Ahead
    BY <1>8 DEF Ahead, ListBusy
  <2> QED BY <2>1, <2>2
<1> QED BY <1>4, <1>5, <1>6, <1>7, <1>8, BusySteps

LEMMA NextChecksFit ==
    ASSUME Shape, Shape', ChecksFit, [Next]_vars
    PROVE  ChecksFit'
<1>1. Fits(Len(servers) + Ahead)'
  <2>1. Fits(Len(servers') + Ahead')
    BY NextListFits DEF ChecksFit
  <2> QED BY <2>1 DEF Fits
<1>2. DOMAIN fd'.checks \subseteq Checks
  <2>1. CASE FdStart
    <3>1. DOMAIN fd'.checks = DOMAIN servers
      BY <2>1 DEF FdStart
    <3>2. /\ servers \in Seq(Servers) /\ Len(servers) \in Nat /\ Len(main.todo) \in Nat
      BY DEF Shape, ListsOK, MainOK
    <3>3. PICK list \in ServerLists \cup {FirstList} : Len(servers) + Ahead <= Len(list)
      BY DEF ChecksFit, Fits
    <3>4. Len(list) \in Nat /\ Ahead \in Nat
      BY <3>2, ContextAssumption DEF Ahead
    <3>5. Len(servers) <= Len(list)
      BY <3>2, <3>3, <3>4
    <3>6. 1..Len(servers) \subseteq Checks
      BY <3>2, <3>5, FitsChecks DEF Fits
    <3> QED BY <3>1, <3>2, <3>6
  <2>2. CASE FdEnd \/ \E i \in DOMAIN fd.checks : FdPanic(i)
    BY <2>2 DEF FdEnd, FdPanic
  <2>3. CASE UNCHANGED fd \/ \E i \in DOMAIN fd.checks : \E d : CheckBecomes(i, d)
    BY <2>3 DEF CheckBecomes, ChecksFit
  <2> QED BY <2>1, <2>2, <2>3, FdChange
<1> QED BY <1>1, <1>2 DEF ChecksFit

-----------------------------------------------------------------------------
(***************************************************************************)
(* The refinement of PoolLease, pool by pool: what Lease(p) puts for its   *)
(* variables, and its steps in these terms.                                *)
(***************************************************************************)
LiveOf(p) == IF p \in DOMAIN pools THEN Live(p) ELSE {}

LentBy(p, b) == {c \in LeaseOf(b) : c.pool = p}

LentOf(p) == [b \in Takers |-> LentBy(p, b)]

DrainedOf(p) == p \in DOMAIN pools /\ ~InService(p)

LEMMA LeaseStays ==
    ASSUME NEW p, LiveOf(p)' = LiveOf(p), LentOf(p)' = LentOf(p), DrainedOf(p)' <=> DrainedOf(p)
    PROVE  [Lease(p)!Next]_(Lease(p)!leaseVars)
<1>1. DrainedOf(p)' = DrainedOf(p)
  BY DEF DrainedOf
<1>2. UNCHANGED <<LiveOf(p), LentOf(p), DrainedOf(p)>>
  BY <1>1
<1>3. UNCHANGED Lease(p)!leaseVars
  BY <1>2 DEF Lease!leaseVars, LiveOf, LentOf, LentBy, DrainedOf
<1> QED BY <1>3

LEMMA LeaseLend ==
    ASSUME NEW p, NEW b \in Takers, NEW c \in LiveOf(p), LentBy(p, b) = {},
           \A a \in Takers : c \notin LentBy(p, a),
           LentOf(p)' = [LentOf(p) EXCEPT ![b] = {c}],
           LiveOf(p)' = LiveOf(p), DrainedOf(p)' <=> DrainedOf(p)
    PROVE  Lease(p)!Next
<1>1. DrainedOf(p)' = DrainedOf(p)
  BY DEF DrainedOf
<1>2. /\ LentOf(p)[b] = {}
      /\ c \in LiveOf(p) \ UNION {LentOf(p)[a] : a \in Takers}
      /\ LentOf(p)' = [LentOf(p) EXCEPT ![b] = {c}]
      /\ UNCHANGED <<LiveOf(p), DrainedOf(p)>>
  BY <1>1 DEF LentOf
<1>3. Lease(p)!Lend(b, c)
  BY <1>2 DEF Lease!Lend, Lease!InUse, LiveOf, LentOf, LentBy, DrainedOf
<1> QED BY <1>3 DEF Lease!Next, LiveOf

LEMMA LeaseReclaim ==
    ASSUME NEW p, NEW b \in Takers, LentBy(p, b) # {},
           LentOf(p)' = [LentOf(p) EXCEPT ![b] = {}],
           LiveOf(p)' = LiveOf(p), DrainedOf(p)' <=> DrainedOf(p)
    PROVE  Lease(p)!Next
<1>1. DrainedOf(p)' = DrainedOf(p)
  BY DEF DrainedOf
<1>2. /\ LentOf(p)[b] # {}
      /\ LentOf(p)' = [LentOf(p) EXCEPT ![b] = {}]
      /\ UNCHANGED <<LiveOf(p), DrainedOf(p)>>
  BY <1>1 DEF LentOf
<1>3. Lease(p)!Reclaim(b)
  BY <1>2 DEF Lease!Reclaim, LiveOf, LentOf, LentBy, DrainedOf
<1> QED BY <1>3 DEF Lease!Next

LEMMA LeaseLose ==
    ASSUME NEW p, NEW b \in Takers, LentBy(p, b) # {},
           LentOf(p)' = [LentOf(p) EXCEPT ![b] = {}],
           LiveOf(p)' = LiveOf(p) \ LentBy(p, b), DrainedOf(p)' <=> DrainedOf(p)
    PROVE  Lease(p)!Next
<1>1. DrainedOf(p)' = DrainedOf(p)
  BY DEF DrainedOf
<1>2. /\ LentOf(p)[b] # {}
      /\ LentOf(p)' = [LentOf(p) EXCEPT ![b] = {}]
      /\ LiveOf(p)' = LiveOf(p) \ LentOf(p)[b]
      /\ UNCHANGED DrainedOf(p)
  BY <1>1 DEF LentOf
<1>3. Lease(p)!Lose(b)
  BY <1>2 DEF Lease!Lose, LiveOf, LentOf, LentBy, DrainedOf
<1> QED BY <1>3 DEF Lease!Next

LEMMA LeaseRenew ==
    ASSUME NEW p, LiveOf(p)' \subseteq [pool : {p}, epoch : Nat, place : Nat, life : Nat],
           LiveOf(p)' \cap LiveOf(p) = {},
           \A b \in Takers : LiveOf(p)' \cap LentBy(p, b) = {},
           LentOf(p)' = LentOf(p), DrainedOf(p)' <=> DrainedOf(p)
    PROVE  Lease(p)!Next
<1>1. DrainedOf(p)' = DrainedOf(p)
  BY DEF DrainedOf
<1>2. /\ LiveOf(p)' \in SUBSET [pool : {p}, epoch : Nat, place : Nat, life : Nat]
      /\ LiveOf(p)' \cap (LiveOf(p) \cup UNION {LentOf(p)[b] : b \in Takers}) = {}
      /\ UNCHANGED <<LentOf(p), DrainedOf(p)>>
  BY <1>1 DEF LentOf
<1>3. Lease(p)!Renew
  BY <1>2 DEF Lease!Renew, Lease!InUse, LiveOf, LentOf, LentBy, DrainedOf
<1> QED BY <1>3 DEF Lease!Next

LEMMA LeaseDrain ==
    ASSUME NEW p, ~DrainedOf(p), DrainedOf(p)', LiveOf(p)' = {},
           \A b \in Takers : LiveOf(p) \cap LentBy(p, b) = {},
           LentOf(p)' = LentOf(p)
    PROVE  Lease(p)!Next
<1>1. DrainedOf(p)' = TRUE
  BY DEF DrainedOf
<1>2. /\ ~DrainedOf(p)
      /\ LiveOf(p) \cap UNION {LentOf(p)[b] : b \in Takers} = {}
      /\ LiveOf(p)' = {} /\ DrainedOf(p)' = TRUE /\ UNCHANGED LentOf(p)
  BY <1>1 DEF LentOf
<1>3. Lease(p)!Drain
  BY <1>2 DEF Lease!Drain, Lease!InUse, LiveOf, LentOf, LentBy, DrainedOf
<1> QED BY <1>3 DEF Lease!Next

-----------------------------------------------------------------------------
(* When a pool is drained. *)

LEMMA ServiceAt ==
    ASSUME NEW p
    PROVE  /\ InService(p) <=> Listed(p) \/ Closing(p) \/ (main.at = "pushing" /\ p = Len(pools))
           /\ InService(p)' <=> \/ Listed(p)' \/ Closing(p)'
                                \/ (main'.at = "pushing" /\ p = Len(pools'))
BY DEF InService, Listed, Closing, Elems

LEMMA DrainedAsBefore ==
    ASSUME DOMAIN pools' = DOMAIN pools, NEW p, InService(p)' <=> InService(p)
    PROVE  DrainedOf(p)' <=> DrainedOf(p)
BY DEF DrainedOf

LEMMA SetListDrains ==
    ASSUME Shape, NEW list \in ServerLists, SetServerList(list), NEW p
    PROVE  DrainedOf(p)' <=> DrainedOf(p)
<1>1. /\ conn_pools' = <<>> /\ shutdowns' = Append(shutdowns, conn_pools)
      /\ main.at = "idle" /\ main'.at = "adding" /\ UNCHANGED pools
  BY DEF SetServerList, MainIdle
<1> DEFINE n == Len(shutdowns) + 1
<1>2. /\ DOMAIN shutdowns' = DOMAIN shutdowns \cup {n} /\ shutdowns'[n] = conn_pools
      /\ \A k \in DOMAIN shutdowns : shutdowns'[k] = shutdowns[k]
  <2>1. conn_pools \in Seq(Nat) /\ shutdowns \in Seq(Seq(Nat))
    BY DEF Shape, ListsOK, ShutdownsOK
  <2> QED BY <1>1, <2>1
<1> HIDE DEF n
<1>3. Closing(p)' <=> Closing(p) \/ Listed(p)
  BY <1>2 DEF Closing, Listed
<1>4. ~Listed(p)'
  BY <1>1 DEF Listed
<1>5. InService(p)' <=> InService(p)
  BY <1>1, <1>3, <1>4, ServiceAt
<1> QED BY <1>1, <1>5, DrainedAsBefore

LEMMA CreateDrains ==
    ASSUME Shape, CreatePool, NEW p
    PROVE  DrainedOf(p)' <=> DrainedOf(p)
<1>1. PICK u \in Urls, ok \in BOOLEAN, q \in Queues :
        /\ main.at = "adding"
        /\ pools' = Append(pools, q) /\ \A j \in DOMAIN q.queue : q.queue[j].pool = Len(pools) + 1
        /\ main' = [main EXCEPT !.at = "pushing", !.server = Server(u, Len(servers), ok)]
        /\ UNCHANGED <<conn_pools, shutdowns>>
  BY CreatePoolFacts
<1>2. /\ Len(pools') = Len(pools) + 1 /\ DOMAIN pools' = DOMAIN pools \cup {Len(pools) + 1}
  BY <1>1, Grown DEF Shape
<1>3. main'.at = "pushing" /\ Len(pools) + 1 \notin DOMAIN pools
  BY <1>1 DEF Shape, MainOK, PoolsOK
<1>4. (Listed(p)' <=> Listed(p)) /\ (Closing(p)' <=> Closing(p))
  BY <1>1 DEF Listed, Closing
<1> QED BY <1>1, <1>2, <1>3, <1>4, ServiceAt DEF DrainedOf

LEMMA AddDrains ==
    ASSUME Shape, AddServer, NEW p
    PROVE  DrainedOf(p)' <=> DrainedOf(p)
<1>1. /\ main.at = "pushing" /\ UNCHANGED <<shutdowns, pools>>
      /\ conn_pools' = Append(conn_pools, Len(pools)) /\ main'.at = "adding"
  BY DEF AddServer, poolVars, Shape, MainOK
<1> DEFINE n == Len(conn_pools) + 1
<1>2. /\ DOMAIN conn_pools' = DOMAIN conn_pools \cup {n} /\ conn_pools'[n] = Len(pools)
      /\ \A k \in DOMAIN conn_pools : conn_pools'[k] = conn_pools[k]
  <2>1. conn_pools \in Seq(Nat) /\ Len(pools) \in Nat
    BY DEF Shape, ListsOK, PoolsOK
  <2> QED BY <1>1, <2>1
<1> HIDE DEF n
<1>3. Listed(p)' <=> Listed(p) \/ p = Len(pools)
  BY <1>2 DEF Listed
<1>4. Closing(p)' <=> Closing(p)
  BY <1>1 DEF Closing
<1>5. InService(p)' <=> InService(p)
  BY <1>1, <1>3, <1>4, ServiceAt
<1> QED BY <1>1, <1>5, DrainedAsBefore

LEMMA PlacesDrain ==
    ASSUME Shape, Shape', PlacesStay, NEW p
    PROVE  DrainedOf(p)' <=> DrainedOf(p)
<1>1. (Listed(p)' <=> Listed(p)) /\ (Closing(p)' <=> Closing(p))
  BY DEF PlacesStay, Listed, Closing
<1>2. DOMAIN pools' = DOMAIN pools
  BY DEF PlacesStay, Shape, PoolsOK
<1>3. InService(p)' <=> InService(p)
  BY <1>1, ServiceAt DEF PlacesStay
<1> QED BY <1>2, <1>3, DrainedAsBefore

(* A shutdown task that waits drains nothing, one that goes on its next pool. *)
LEMMA ShutdownDrains ==
    ASSUME Shape, Shape', OnePlace, NEW k \in DOMAIN shutdowns, ShutdownStep(k), NEW p
    PROVE  LET q == Head(shutdowns[k])
           IN  /\ ~HasAllConnections(pools[q]) \/ p # q => (DrainedOf(p)' <=> DrainedOf(p))
               /\ HasAllConnections(pools[q]) /\ p = q => ~DrainedOf(p) /\ DrainedOf(p)'
<1> DEFINE s == shutdowns[k]
<1>0. /\ UNCHANGED <<conn_pools, main>> /\ s # <<>>
      /\ ~HasAllConnections(pools[Head(s)]) => UNCHANGED shutdowns
      /\ HasAllConnections(pools[Head(s)]) => shutdowns' = [shutdowns EXCEPT ![k] = Tail(@)]
  BY DEF ShutdownStep, ctxVars
<1>1. Len(pools') = Len(pools) /\ Head(s) \in DOMAIN pools
  BY <1>0, ShutdownAt, SamePoolCount DEF ShutdownStep
<1>2. DOMAIN pools' = DOMAIN pools
  BY <1>1 DEF Shape, PoolsOK
<1>3. Listed(p)' <=> Listed(p)
  BY <1>0 DEF Listed
<1>4. CASE ~HasAllConnections(pools[Head(s)])
  <2>1. PlacesStay
    BY <1>0, <1>1, <1>4 DEF PlacesStay
  <2> QED BY <1>4, <2>1, PlacesDrain
<1>5. CASE HasAllConnections(pools[Head(s)])
  <2>1. /\ s \in Seq(Nat) /\ 1 \in DOMAIN s /\ Head(s) = s[1]
        /\ Tail(s) \in Seq(Nat) /\ DOMAIN Tail(s) = 1..(Len(s) - 1)
        /\ \A j \in DOMAIN Tail(s) : /\ j + 1 \in DOMAIN s /\ Tail(s)[j] = s[j + 1]
        /\ \A j \in DOMAIN s : j # 1 => j - 1 \in DOMAIN Tail(s) /\ Tail(s)[j - 1] = s[j]
    <3>1. s \in Seq(Nat)
      BY <1>0, ShutdownAt
    <3> HIDE DEF s
    <3> QED BY <1>0, <3>1
  <2>2. /\ DOMAIN shutdowns' = DOMAIN shutdowns /\ shutdowns'[k] = Tail(s)
        /\ \A l \in DOMAIN shutdowns \ {k} : shutdowns'[l] = shutdowns[l]
    BY <1>0, <1>5 DEF Shape, ShutdownsOK
  <2>3. p # Head(s) => (Closing(p)' <=> Closing(p))
    <3> SUFFICES ASSUME p # Head(s) PROVE Closing(p)' <=> Closing(p)
      OBVIOUS
    <3>1. ASSUME NEW l \in DOMAIN shutdowns', NEW j \in DOMAIN shutdowns'[l],
                 shutdowns'[l][j] = p
          PROVE  Closing(p)
      <4>1. CASE l = k
        BY <2>1, <2>2, <3>1, <4>1 DEF Closing
      <4>2. CASE l # k
        BY <2>2, <3>1, <4>2 DEF Closing
      <4> QED BY <4>1, <4>2
    <3>2. ASSUME NEW l \in DOMAIN shutdowns, NEW j \in DOMAIN shutdowns[l], shutdowns[l][j] = p
          PROVE  Closing(p)'
      <4>1. CASE l = k
        <5>1. j # 1
          BY <2>1, <3>2, <4>1
        <5>2. j - 1 \in DOMAIN Tail(s) /\ Tail(s)[j - 1] = p
          BY <2>1, <3>2, <4>1, <5>1
        <5> HIDE DEF s
        <5> QED BY <2>2, <5>2 DEF Closing
      <4>2. CASE l # k
        BY <2>2, <3>2, <4>2 DEF Closing
      <4> QED BY <4>1, <4>2
    <3> QED BY <3>1, <3>2 DEF Closing
  <2>4. p = Head(s) => Closing(p) /\ ~Closing(p)'
    <3> SUFFICES ASSUME p = Head(s) PROVE Closing(p) /\ ~Closing(p)'
      OBVIOUS
    <3>1. Closing(p)
      BY <2>1 DEF Closing
    <3>2. ASSUME NEW l \in DOMAIN shutdowns', NEW j \in DOMAIN shutdowns'[l],
                 shutdowns'[l][j] = p
          PROVE  FALSE
      <4>1. CASE l = k
        <5>1. j + 1 \in DOMAIN s /\ s[j + 1] = s[1] /\ j \in Nat /\ j # 0
          BY <2>1, <2>2, <3>2, <4>1
        <5>2. j + 1 = 1
          BY <2>1, <5>1 DEF OnePlace
        <5> QED BY <5>1, <5>2
      <4>2. CASE l # k
        BY <2>1, <2>2, <3>2, <4>2 DEF OnePlace
      <4> QED BY <4>1, <4>2
    <3> QED BY <3>1, <3>2 DEF Closing
  <2>5. p # Head(s) => (DrainedOf(p)' <=> DrainedOf(p))
    <3>1. p # Head(s) => (InService(p)' <=> InService(p))
      BY <1>0, <1>1, <1>3, <2>3, ServiceAt
    <3> QED BY <1>2, <3>1, DrainedAsBefore
  <2>6. p = Head(s) => ~DrainedOf(p) /\ DrainedOf(p)'
    <3>1. Closing(p) => ~Listed(p) /\ ~(main.at = "pushing" /\ p = Len(pools))
      BY DEF OnePlace
    <3> QED BY <1>0, <1>1, <1>2, <1>3, <2>4, <3>1, ServiceAt DEF DrainedOf
  <2> QED BY <1>5, <2>5, <2>6
<1> QED BY <1>4, <1>5

-----------------------------------------------------------------------------
(* Who has what on loan. *)

LEMMA TakerKinds ==
    \A b \in Takers :
      \/ \E t \in AuthTasks : b = <<"auth", t>>
      \/ \E i \in Checks : b = <<"fd", i>>
BY DEF Takers

LEMMA AuthLease ==
    ASSUME NEW t
    PROVE  /\ LeaseOf(<<"auth", t>>) = {auth[t].lease.conn : s \in AuthHolders \cap {t}}
           /\ LeaseOf(<<"auth", t>>)' = {auth'[t].lease.conn : s \in AuthHolders' \cap {t}}
BY DEF LeaseOf

LEMMA FdLease ==
    ASSUME NEW i
    PROVE  /\ LeaseOf(<<"fd", i>>) = {fd.checks[i].lease.conn : h \in FdHolders \cap {i}}
           /\ LeaseOf(<<"fd", i>>)' = {fd'.checks[i].lease.conn : h \in FdHolders' \cap {i}}
BY DEF LeaseOf

LEMMA LoanKept ==
    /\ \A t : (/\ t \in AuthHolders' <=> t \in AuthHolders
               /\ t \in AuthHolders => auth'[t].lease.conn = auth[t].lease.conn)
                => LeaseOf(<<"auth", t>>)' = LeaseOf(<<"auth", t>>)
    /\ \A i : (/\ i \in FdHolders' <=> i \in FdHolders
               /\ i \in FdHolders => fd'.checks[i].lease.conn = fd.checks[i].lease.conn)
                => LeaseOf(<<"fd", i>>)' = LeaseOf(<<"fd", i>>)
<1>1. ASSUME NEW t, t \in AuthHolders' <=> t \in AuthHolders,
             t \in AuthHolders => auth'[t].lease.conn = auth[t].lease.conn
      PROVE  LeaseOf(<<"auth", t>>)' = LeaseOf(<<"auth", t>>)
  BY <1>1, AuthLease
<1>2. ASSUME NEW i, i \in FdHolders' <=> i \in FdHolders,
             i \in FdHolders => fd'.checks[i].lease.conn = fd.checks[i].lease.conn
      PROVE  LeaseOf(<<"fd", i>>)' = LeaseOf(<<"fd", i>>)
  BY <1>2, FdLease
<1> QED BY <1>1, <1>2

LEMMA LeasesHeld ==
    ASSUME NEW b \in Takers, NEW c \in LeaseOf(b)
    PROVE  AuthHas(c) \/ FdHas(c)
<1>1. CASE \E t \in AuthTasks : b = <<"auth", t>>
  BY <1>1, AuthLease DEF AuthHas, AuthHolders, Keepers
<1>2. CASE \E i \in Checks : b = <<"fd", i>>
  BY <1>2, FdLease DEF FdHas
<1> QED BY <1>1, <1>2, TakerKinds

(* The three things that can happen to the loans. *)
LoansStay == \A b \in Takers : LeaseOf(b)' = LeaseOf(b)

OthersKeepLoans(b) == \A a \in Takers \ {b} : LeaseOf(a)' = LeaseOf(a)

Loan ==
    \E b \in Takers : \E c :
      /\ LeaseOf(b) = {} /\ LeaseOf(b)' = {c} /\ OthersKeepLoans(b)
      /\ c.pool \in DOMAIN pools /\ c \in Live(c.pool)
      /\ \A a \in Takers : c \notin LeaseOf(a)

LoanEnds ==
    \E b \in Takers : \E c :
      LeaseOf(b) = {c} /\ LeaseOf(b)' = {} /\ OthersKeepLoans(b)

LEMMA LoansOfStay ==
    ASSUME AuthHolders' = AuthHolders, FdHolders' = FdHolders,
           \A t \in AuthHolders : auth'[t].lease.conn = auth[t].lease.conn,
           \A i \in FdHolders : fd'.checks[i].lease.conn = fd.checks[i].lease.conn
    PROVE  LoansStay
<1> SUFFICES ASSUME NEW b \in Takers PROVE LeaseOf(b)' = LeaseOf(b)
  BY DEF LoansStay
<1>1. ASSUME NEW t \in AuthTasks, b = <<"auth", t>> PROVE LeaseOf(b)' = LeaseOf(b)
  <2>1. t \in AuthHolders => auth'[t].lease.conn = auth[t].lease.conn
    OBVIOUS
  <2> QED BY <1>1, <2>1, LoanKept
<1>2. ASSUME NEW i \in Checks, b = <<"fd", i>> PROVE LeaseOf(b)' = LeaseOf(b)
  <2>1. i \in FdHolders => fd'.checks[i].lease.conn = fd.checks[i].lease.conn
    OBVIOUS
  <2> QED BY <1>2, <2>1, LoanKept
<1> QED BY <1>1, <1>2, TakerKinds

LEMMA OtherLoans ==
    ASSUME NEW kind \in {"auth", "fd"}, NEW x,
           \A t \in AuthTasks : kind = "fd" \/ t # x =>
             /\ t \in AuthHolders' <=> t \in AuthHolders
             /\ t \in AuthHolders => auth'[t].lease.conn = auth[t].lease.conn,
           \A i \in Checks : kind = "auth" \/ i # x =>
             /\ i \in FdHolders' <=> i \in FdHolders
             /\ i \in FdHolders => fd'.checks[i].lease.conn = fd.checks[i].lease.conn
    PROVE  OthersKeepLoans(<<kind, x>>)
<1> SUFFICES ASSUME NEW b \in Takers, b # <<kind, x>> PROVE LeaseOf(b)' = LeaseOf(b)
  BY DEF OthersKeepLoans
<1>1. ASSUME NEW t \in AuthTasks, b = <<"auth", t>> PROVE LeaseOf(b)' = LeaseOf(b)
  <2>1. kind = "fd" \/ t # x
    BY <1>1
  <2>2. /\ t \in AuthHolders' <=> t \in AuthHolders
        /\ t \in AuthHolders => auth'[t].lease.conn = auth[t].lease.conn
    BY <2>1
  <2> QED BY <1>1, <2>2, LoanKept
<1>2. ASSUME NEW i \in Checks, b = <<"fd", i>> PROVE LeaseOf(b)' = LeaseOf(b)
  <2>1. kind = "auth" \/ i # x
    BY <1>2
  <2>2. /\ i \in FdHolders' <=> i \in FdHolders
        /\ i \in FdHolders => fd'.checks[i].lease.conn = fd.checks[i].lease.conn
    BY <2>1
  <2> QED BY <1>2, <2>2, LoanKept
<1> QED BY <1>1, <1>2, TakerKinds

(* The connection at the head of a queue is the pool's, and on loan to nobody. *)
LEMMA HeadIsFree ==
    ASSUME Shape, Hands, HomeConnections, NEW p \in DOMAIN pools, pools[p].queue # <<>>, NEW c,
           c = pools[p].queue[1]
    PROVE  /\ c.pool = p /\ c \in Live(p)
           /\ \A b \in Takers : c \notin LeaseOf(b)
<1>1. 1 \in DOMAIN pools[p].queue
  BY PoolOf DEF Shape
<1>2. c \in Elems(pools[p].queue)
  BY <1>1 DEF Elems
<1>3. c.pool = p /\ c.epoch = pools[p].epoch
  BY <1>2 DEF HomeConnections
<1>4. c \in Live(p)
  BY <1>2, <1>3 DEF Live, CurrentOf, Queued
<1>5. ~AuthHas(c) /\ ~FdHas(c)
  BY <1>1 DEF Hands, OffTheQueues, AuthHas, FdHas
<1> QED BY <1>3, <1>4, <1>5, LeasesHeld

(* A panic ends a loan too, and takes the connection from the pool. *)
LEMMA PanicLoan ==
    ASSUME Shape, NEW t \in AuthTasks, AuthPanic(t)
    PROVE  \E b \in Takers : \E c :
             /\ LeaseOf(b) = {c} /\ LeaseOf(b)' = {} /\ OthersKeepLoans(b)
             /\ Lost' = Lost \cup {c}
<1> DEFINE b == <<"auth", t>>
           c == auth[t].lease.conn
<1>1. /\ \A s \in AuthTasks \ {t} : auth'[s] = auth[s]
      /\ auth[t].at = "op" /\ auth'[t].at = "panicked"
      /\ auth'[t].lease = auth[t].lease /\ UNCHANGED fd
  BY PanicKeeps
<1>2. t \in AuthHolders /\ t \notin AuthHolders'
  BY <1>1 DEF AuthHolders
<1>3. b \in Takers /\ LeaseOf(b) = {c} /\ LeaseOf(b)' = {}
  BY <1>2, AuthLease DEF Takers
<1>4. OthersKeepLoans(b)
  <2>1. \A s \in AuthTasks : s # t =>
          /\ s \in AuthHolders' <=> s \in AuthHolders
          /\ auth'[s].lease.conn = auth[s].lease.conn
    BY <1>1 DEF AuthHolders
  <2>2. FdHolders' = FdHolders
    BY <1>1 DEF FdHolders
  <2> QED BY <1>1, <2>1, <2>2, OtherLoans
<1>5. Lost' = Lost \cup {c}
  <2>1. {s \in AuthTasks : auth'[s].at = "panicked"}
          = {s \in AuthTasks : auth[s].at = "panicked"} \cup {t}
    BY <1>1
  <2>2. \A s \in AuthTasks : auth'[s].lease = auth[s].lease
    BY <1>1
  <2> QED BY <2>1, <2>2 DEF Lost
<1> QED BY <1>3, <1>4, <1>5

LEMMA AuthLoans ==
    ASSUME HomeInv, NEW t \in AuthTasks, AuthStep(t)
    PROVE  LoansStay \/ Loan \/ LoanEnds
<1>0. Shape /\ Hands /\ HomeConnections /\ auth \in [AuthTasks -> Operations]
  BY DEF HomeInv, HomeParts, Shape, AuthOK
<1>1. UNCHANGED fd
  BY DEF AuthStep, AuthFind, AuthTake, AuthOp, AuthPanic, AuthFailover
<1>2. FdHolders' = FdHolders /\ \A i \in FdHolders : fd'.checks[i] = fd.checks[i]
  BY <1>1 DEF FdHolders
<1>3. ASSUME \A s \in AuthTasks \ {t} : auth'[s] = auth[s]
      PROVE  OthersKeepLoans(<<"auth", t>>)
  <2>1. \A s \in AuthTasks : s # t =>
          /\ s \in AuthHolders' <=> s \in AuthHolders
          /\ auth'[s].lease.conn = auth[s].lease.conn
    BY <1>3 DEF AuthHolders
  <2> QED BY <1>2, <2>1, OtherLoans
<1>4. <<"auth", t>> \in Takers
  BY DEF Takers
<1>5. CASE AuthFind(t) \/ AuthFailover(t)
  <2>1. /\ \A s \in AuthTasks \ {t} : auth'[s] = auth[s]
        /\ auth[t].at \notin {"op", "panicked"} /\ auth'[t].at \notin {"op", "panicked"}
    BY <1>0, <1>5, AuthAside
  <2>2. AuthHolders' = AuthHolders /\ \A s \in AuthHolders : auth'[s] = auth[s]
    BY <2>1 DEF AuthHolders
  <2> QED BY <1>2, <2>2, LoansOfStay
<1>6. CASE AuthTake(t)
  <2>1. CASE UNCHANGED auth
    <3>1. AuthHolders' = AuthHolders
      BY <2>1 DEF AuthHolders
    <3> QED BY <1>2, <2>1, <3>1, LoansOfStay
  <2>2. ASSUME Takes(auth[t].pool),
               auth' = [auth EXCEPT ![t].at = "op", ![t].lease = LeaseFrom(auth[t].pool)]
        PROVE  Loan
    <3>1. PICK p, c : p = auth[t].pool /\ c = pools[p].queue[1]
      OBVIOUS
    <3>2. p \in DOMAIN pools /\ auth[t].at = "take"
      BY <1>0, <1>6, <3>1 DEF AuthTake, Shape, AuthOK, AuthInRange, Exists, PoolsOK
    <3>3. pools[p].queue # <<>> /\ LeaseFrom(p).conn = c /\ LeaseFrom(p) \in AnyLease
      BY <1>0, <2>2, <3>1, <3>2, TakePools DEF Shape
    <3>4. /\ c.pool = p /\ c \in Live(p) /\ \A b \in Takers : c \notin LeaseOf(b)
      BY <1>0, <3>1, <3>2, <3>3, HeadIsFree
    <3>5. /\ \A s \in AuthTasks \ {t} : auth'[s] = auth[s]
          /\ auth'[t].at = "op" /\ auth'[t].lease = LeaseFrom(p)
      BY <1>0, <2>2, <3>1
    <3>6. LeaseOf(<<"auth", t>>) = {} /\ LeaseOf(<<"auth", t>>)' = {c}
      <4>1. t \notin AuthHolders /\ t \in AuthHolders'
        BY <3>2, <3>5 DEF AuthHolders
      <4>2. auth'[t].lease.conn = c
        BY <3>3, <3>5
      <4> QED BY <4>1, <4>2, AuthLease
    <3>7. OthersKeepLoans(<<"auth", t>>)
      BY <1>3, <3>5
    <3> QED BY <1>4, <3>2, <3>4, <3>6, <3>7 DEF Loan
  <2> QED BY <1>6, <2>1, <2>2 DEF AuthTake
<1>7. CASE AuthOp(t)
  <2>1. PICK a, r :
            /\ a \in {"done", "failed"} /\ auth[t].at = "op"
            /\ auth' = [auth EXCEPT ![t].lease = NoLease, ![t].at = a, ![t].res = r]
    BY <1>7 DEF AuthOp
  <2>2. /\ \A s \in AuthTasks \ {t} : auth'[s] = auth[s]
        /\ auth'[t].at # "op"
    BY <1>0, <2>1
  <2>3. LeaseOf(<<"auth", t>>) = {auth[t].lease.conn} /\ LeaseOf(<<"auth", t>>)' = {}
    <3>1. t \in AuthHolders /\ t \notin AuthHolders'
      BY <2>1, <2>2 DEF AuthHolders
    <3> QED BY <3>1, AuthLease
  <2>4. OthersKeepLoans(<<"auth", t>>)
    BY <1>3, <2>2
  <2> QED BY <1>4, <2>3, <2>4 DEF LoanEnds
<1>8. CASE AuthPanic(t)
  BY <1>0, <1>8, PanicLoan DEF LoanEnds
<1> QED BY <1>5, <1>6, <1>7, <1>8 DEF AuthStep

Holding == {"ping", "lookupReturn", "return"}

LEMMA CheckOthers ==
    ASSUME NEW i \in DOMAIN fd.checks, NEW d, CheckBecomes(i, d), UNCHANGED auth
    PROVE  /\ i \in FdHolders <=> fd.checks[i].at \in Holding
           /\ i \in FdHolders' <=> d.at \in Holding
           /\ fd'.checks[i] = d
           /\ OthersKeepLoans(<<"fd", i>>)
<1>1. /\ i \in FdHolders <=> fd.checks[i].at \in Holding
      /\ i \in FdHolders' <=> d.at \in Holding /\ fd'.checks[i] = d
  BY DEF FdHolders, Holding, CheckBecomes
<1>2. \A h : h # i => /\ h \in FdHolders' <=> h \in FdHolders
                      /\ h \in FdHolders => fd'.checks[h].lease.conn = fd.checks[h].lease.conn
  BY DEF FdHolders, CheckBecomes
<1>3. AuthHolders' = AuthHolders
  BY DEF AuthHolders
<1>4. OthersKeepLoans(<<"fd", i>>)
  BY <1>2, <1>3, OtherLoans
<1> QED BY <1>1, <1>4 DEF CheckBecomes

LEMMA CheckKeepsLoan ==
    ASSUME NEW i \in DOMAIN fd.checks, NEW d, CheckBecomes(i, d), UNCHANGED auth,
           d.at \in Holding <=> fd.checks[i].at \in Holding,
           d.at \in Holding => d.lease = fd.checks[i].lease
    PROVE  LoansStay
<1>1. /\ i \in FdHolders <=> fd.checks[i].at \in Holding
      /\ i \in FdHolders' <=> d.at \in Holding
      /\ fd'.checks[i] = d
      /\ OthersKeepLoans(<<"fd", i>>)
  BY CheckOthers
<1>2. i \in FdHolders' <=> i \in FdHolders
  BY <1>1
<1>3. i \in FdHolders => fd'.checks[i].lease.conn = fd.checks[i].lease.conn
  BY <1>1
<1>4. LeaseOf(<<"fd", i>>)' = LeaseOf(<<"fd", i>>)
  BY <1>2, <1>3, LoanKept
<1> QED BY <1>1, <1>4 DEF LoansStay, OthersKeepLoans

LEMMA CheckLoans ==
    ASSUME HomeInv, DOMAIN fd.checks \subseteq Checks, NEW i \in DOMAIN fd.checks,
           CheckServerHealth(i), ~FdPanic(i)
    PROVE  LoansStay \/ Loan \/ LoanEnds
<1>0. Shape /\ Hands /\ HomeConnections
  BY DEF HomeInv, HomeParts
<1>1. UNCHANGED auth
  BY DEF CheckServerHealth, FdPanic, FdLookup, FdTake, FdPing, FdReturn, FdConnect,
       FdPingNew, FdRefresh, FdStatus
<1>2. <<"fd", i>> \in Takers
  BY DEF Takers
<1>3. CASE FdLookup(i)
  <2>1. PICK d : /\ CheckBecomes(i, d) /\ d.lease = fd.checks[i].lease
                 /\ <<fd.checks[i].at, d.at>> \in
                      {<<"lookup", "take">>, <<"lookupReturn", "return">>,
                       <<"lookupRefresh", "refresh">>}
    BY <1>0, <1>3, LookupStep
  <2>2. d.at \in Holding <=> fd.checks[i].at \in Holding
    BY <2>1 DEF Holding
  <2> QED BY <1>1, <2>1, <2>2, CheckKeepsLoan
<1>4. CASE FdTake(i)
  <2>1. CASE UNCHANGED fd
    <3>1. /\ AuthHolders' = AuthHolders /\ FdHolders' = FdHolders
      BY <1>1, <2>1 DEF AuthHolders, FdHolders
    <3> QED BY <1>1, <2>1, <3>1, LoansOfStay
  <2>2. ASSUME Takes(fd.checks[i].pool),
               fd' = [fd EXCEPT !.checks[i].at = "ping",
                                !.checks[i].lease = LeaseFrom(fd.checks[i].pool)]
        PROVE  Loan
    <3>1. PICK p, c : p = fd.checks[i].pool /\ c = pools[p].queue[1]
      OBVIOUS
    <3>2. p \in DOMAIN pools /\ fd.checks[i].at = "take"
      BY <1>0, <1>4, <3>1, CheckOf DEF FdTake, Shape, CheckInRange, Exists, PoolsOK
    <3>3. pools[p].queue # <<>> /\ LeaseFrom(p).conn = c
      BY <1>0, <2>2, <3>1, <3>2, TakePools DEF Shape
    <3>4. c.pool = p /\ c \in Live(p) /\ \A b \in Takers : c \notin LeaseOf(b)
      BY <1>0, <3>1, <3>2, <3>3, HeadIsFree
    <3>5. fd' = [fd EXCEPT !.checks[i].at = "ping", !.checks[i].lease = LeaseFrom(p)]
      BY <2>2, <3>1
    <3>6. PICK d : CheckBecomes(i, d) /\ d.at = "ping" /\ d.lease = LeaseFrom(p)
      BY <1>0, <3>5, FdTakesStep
    <3>7. /\ i \in FdHolders <=> fd.checks[i].at \in Holding
          /\ i \in FdHolders' <=> d.at \in Holding
          /\ fd'.checks[i] = d
          /\ OthersKeepLoans(<<"fd", i>>)
      BY <1>1, <3>6, CheckOthers
    <3>8. LeaseOf(<<"fd", i>>) = {} /\ LeaseOf(<<"fd", i>>)' = {c}
      <4>1. i \notin FdHolders /\ i \in FdHolders'
        BY <3>2, <3>6, <3>7 DEF Holding
      <4>2. fd'.checks[i].lease.conn = c
        BY <3>3, <3>6, <3>7
      <4> QED BY <4>1, <4>2, FdLease
    <3> QED BY <1>2, <3>2, <3>4, <3>7, <3>8 DEF Loan
  <2> QED BY <1>4, <2>1, <2>2 DEF FdTake
<1>5. CASE FdPing(i)
  <2>1. PICK d : /\ CheckBecomes(i, d) /\ d.lease = fd.checks[i].lease
                 /\ fd.checks[i].at = "ping" /\ d.at = "lookupReturn"
    BY <1>0, <1>5, PingStep
  <2> QED BY <1>1, <2>1, CheckKeepsLoan DEF Holding
<1>6. CASE FdReturn(i)
  <2>1. PICK d : CheckBecomes(i, d) /\ fd.checks[i].at = "return" /\ d.at = "status"
    BY <1>0, <1>6, ReturnStep
  <2>2. /\ i \in FdHolders <=> fd.checks[i].at \in Holding
        /\ i \in FdHolders' <=> d.at \in Holding
        /\ OthersKeepLoans(<<"fd", i>>)
    BY <1>1, <2>1, CheckOthers
  <2>3. i \in FdHolders /\ i \notin FdHolders'
    BY <2>1, <2>2 DEF Holding
  <2>4. LeaseOf(<<"fd", i>>) = {fd.checks[i].lease.conn} /\ LeaseOf(<<"fd", i>>)' = {}
    BY <2>3, FdLease
  <2> QED BY <1>2, <2>2, <2>4 DEF LoanEnds
<1>7. CASE FdConnect(i) \/ FdPingNew(i) \/ FdRefresh(i) \/ FdStatus(i)
  <2>1. PICK d : CheckBecomes(i, d) /\ fd.checks[i].at \notin Holding /\ d.at \notin Holding
    <3>1. CASE FdConnect(i)
      BY <1>0, <3>1, ConnectStep DEF Holding
    <3>2. CASE FdPingNew(i)
      BY <1>0, <3>2, PingNewStep DEF Holding
    <3>3. CASE FdRefresh(i)
      BY <1>0, <3>3, RefreshStep DEF Holding
    <3>4. CASE FdStatus(i)
      BY <1>0, <3>4, StatusStep DEF Holding
    <3> QED BY <1>7, <3>1, <3>2, <3>3, <3>4
  <2> QED BY <1>1, <2>1, CheckKeepsLoan
<1> QED BY <1>3, <1>4, <1>5, <1>6, <1>7 DEF CheckServerHealth

LEMMA LoanStep ==
    ASSUME HomeInv, ChecksFit, ListApart, ListApart', [Next]_vars
    PROVE  LoansStay \/ Loan \/ LoanEnds
<1>0. Shape /\ DetectorKnows
  BY DEF HomeInv
<1>1. CASE UNCHANGED <<auth, fd>>
  <2>1. AuthHolders' = AuthHolders /\ FdHolders' = FdHolders
    BY <1>1 DEF AuthHolders, FdHolders
  <2> QED BY <1>1, <2>1, LoansOfStay
<1>2. CASE \E t \in AuthTasks : AuthStep(t)
  BY <1>2, AuthLoans
<1>3. CASE \E i \in DOMAIN fd.checks : CheckServerHealth(i)
  BY <1>0, <1>3, ListKept, CheckLoans DEF ChecksFit
<1>4. CASE FdStart \/ FdEnd
  <2>1. UNCHANGED auth /\ FdHolders' = {} /\ FdHolders = {}
    BY <1>0, <1>4 DEF FdStart, FdEnd, FdHolders, Check, DetectorKnows
  <2>2. AuthHolders' = AuthHolders
    BY <2>1 DEF AuthHolders
  <2> QED BY <2>1, <2>2, LoansOfStay
<1>5. CASE MainStep
  BY <1>1, <1>5 DEF MainStep, CreatePool, AddServer, ServerListDone, RefreshPool, RefreshStatus,
       RefreshDone
<1> QED BY <1>1, <1>2, <1>3, <1>4, <1>5 DEF Next, SetServerList, SetPoolSize, SpawnedReturn,
         ShutdownStep, ComeBack, Fail, vars

-----------------------------------------------------------------------------
(* Every step of the context is a step of each pool's lease, or none. *)

LEMMA LentSame ==
    ASSUME NEW p, \A b \in Takers : LentBy(p, b)' = LentBy(p, b)
    PROVE  LentOf(p)' = LentOf(p)
BY DEF LentOf

LEMMA LentChanges ==
    ASSUME NEW p, NEW b \in Takers, NEW S, LentBy(p, b)' = S,
           \A a \in Takers \ {b} : LentBy(p, a)' = LentBy(p, a)
    PROVE  LentOf(p)' = [LentOf(p) EXCEPT ![b] = S]
BY DEF LentOf

LEMMA LoansLent ==
    ASSUME NEW p, LoansStay
    PROVE  LentOf(p)' = LentOf(p)
<1>1. \A b \in Takers : LentBy(p, b)' = LentBy(p, b)
  BY DEF LoansStay, LentBy
<1> QED BY <1>1, LentSame

(* What a pool has is what it is accounted for without what it has lost. *)
KeepsLive == \A x \in DOMAIN pools : Live(x)' = Live(x)

LiveSplit == \A x : Live(x) = Kept(x) \ Lost

LEMMA LiveIs == Hands => LiveSplit
<1> SUFFICES ASSUME Hands, NEW x PROVE Live(x) = Kept(x) \ Lost
  BY DEF LiveSplit
<1>1. Kept(x) = Live(x) \cup LostOf(x) /\ Live(x) \cap LostOf(x) = {}
  BY KeptAre
<1>2. Live(x) \cap Lost \subseteq LostOf(x) /\ LostOf(x) \subseteq Lost
  BY DEF Live, LostOf, CurrentOf
<1> QED BY <1>1, <1>2

LEMMA LiveIsNext == Hands' => LiveSplit'
BY LiveIs, PTL

(* Only a panic loses a connection. *)
LEMMA NothingLost ==
    ASSUME Shape, [Next]_vars, \A t \in AuthTasks : ~AuthPanic(t)
    PROVE  Lost' = Lost
<1>1. auth \in [AuthTasks -> Operations]
  BY DEF Shape, AuthOK
<1>2. CASE UNCHANGED auth
  BY <1>2 DEF Lost
<1>3. ASSUME NEW t \in AuthTasks, AuthStep(t), ~UNCHANGED auth PROVE Lost' = Lost
  <2>1. /\ \A s \in AuthTasks \ {t} : auth'[s] = auth[s]
        /\ auth[t].at # "panicked" /\ auth'[t].at # "panicked"
    <3>1. CASE AuthFind(t) \/ AuthFailover(t)
      BY <3>1, AuthAside
    <3>2. CASE AuthTake(t)
      <4>1. \E l : /\ auth[t].at = "take"
                   /\ auth' = [auth EXCEPT ![t].at = "op", ![t].lease = l]
        BY <1>3, <3>2 DEF AuthTake
      <4> QED BY <1>1, <4>1
    <3>3. CASE AuthOp(t)
      <4>1. \E a \in {"done", "failed"} : \E r :
              /\ auth[t].at = "op"
              /\ auth' = [auth EXCEPT ![t].lease = NoLease, ![t].at = a, ![t].res = r]
        BY <3>3 DEF AuthOp
      <4> QED BY <1>1, <4>1
    <3> QED BY <1>3, <3>1, <3>2, <3>3 DEF AuthStep
  <2>2. {s \in AuthTasks : auth'[s].at = "panicked"}
          = {s \in AuthTasks : auth[s].at = "panicked"}
    BY <2>1
  <2>3. \A s \in AuthTasks : auth[s].at = "panicked" => auth'[s] = auth[s]
    BY <2>1
  <2> QED BY <2>2, <2>3 DEF Lost
<1>4. UNCHANGED auth \/ \E t \in AuthTasks : AuthStep(t)
  <2>1. CASE MainStep
    BY <2>1 DEF MainStep, CreatePool, AddServer, ServerListDone, RefreshPool, RefreshStatus,
         RefreshDone
  <2>2. CASE \E i \in DOMAIN fd.checks : CheckServerHealth(i)
    BY <2>2 DEF CheckServerHealth, FdPanic, FdLookup, FdTake, FdPing, FdReturn, FdConnect,
         FdPingNew, FdRefresh, FdStatus
  <2> QED BY <2>1, <2>2 DEF Next, vars, SetServerList, SetPoolSize, SpawnedReturn,
           ShutdownStep, FdStart, FdEnd, ComeBack, Fail
<1> QED BY <1>2, <1>3, <1>4

LEMMA KeptLease ==
    ASSUME NEW p, KeepsLive, DOMAIN pools' = DOMAIN pools, DrainedOf(p)' <=> DrainedOf(p),
           LoansStay \/ Loan \/ LoanEnds
    PROVE  [Lease(p)!Next]_(Lease(p)!leaseVars)
<1>1. LiveOf(p)' = LiveOf(p)
  BY DEF KeepsLive, LiveOf
<1>2. CASE LoansStay
  BY <1>1, <1>2, LoansLent, LeaseStays
<1>3. CASE Loan
  <2>1. PICK b, c :
          /\ b \in Takers
          /\ LeaseOf(b) = {} /\ LeaseOf(b)' = {c} /\ OthersKeepLoans(b)
          /\ c.pool \in DOMAIN pools /\ c \in Live(c.pool)
          /\ \A a \in Takers : c \notin LeaseOf(a)
    BY <1>3 DEF Loan
  <2>2. \A a \in Takers \ {b} : LentBy(p, a)' = LentBy(p, a)
    BY <2>1 DEF OthersKeepLoans, LentBy
  <2>3. LentBy(p, b) = {} /\ \A a \in Takers : c \notin LentBy(p, a)
    BY <2>1 DEF LentBy
  <2>4. CASE c.pool = p
    <3>1. LentBy(p, b)' = {c}
      BY <2>1, <2>4 DEF LentBy
    <3>2. LentOf(p)' = [LentOf(p) EXCEPT ![b] = {c}]
      BY <2>1, <2>2, <3>1, LentChanges
    <3>3. c \in LiveOf(p)
      BY <2>1, <2>4 DEF LiveOf
    <3> QED BY <1>1, <2>1, <2>3, <3>2, <3>3, LeaseLend
  <2>5. CASE c.pool # p
    <3>1. LentBy(p, b)' = {}
      BY <2>1, <2>5 DEF LentBy
    <3>2. LentOf(p)' = LentOf(p)
      BY <2>1, <2>2, <2>3, <3>1, LentSame
    <3> QED BY <1>1, <3>2, LeaseStays
  <2> QED BY <2>4, <2>5
<1>4. CASE LoanEnds
  <2>1. PICK b, c :
          b \in Takers /\ LeaseOf(b) = {c} /\ LeaseOf(b)' = {} /\ OthersKeepLoans(b)
    BY <1>4 DEF LoanEnds
  <2>2. \A a \in Takers \ {b} : LentBy(p, a)' = LentBy(p, a)
    BY <2>1 DEF OthersKeepLoans, LentBy
  <2>3. LentBy(p, b)' = {}
    BY <2>1 DEF LentBy
  <2>4. CASE c.pool = p
    <3>1. LentBy(p, b) # {}
      BY <2>1, <2>4 DEF LentBy
    <3>2. LentOf(p)' = [LentOf(p) EXCEPT ![b] = {}]
      BY <2>1, <2>2, <2>3, LentChanges
    <3> QED BY <1>1, <2>1, <3>1, <3>2, LeaseReclaim
  <2>5. CASE c.pool # p
    <3>1. LentBy(p, b) = {}
      BY <2>1, <2>5 DEF LentBy
    <3>2. LentOf(p)' = LentOf(p)
      BY <2>1, <2>2, <2>3, <3>1, LentSame
    <3> QED BY <1>1, <3>2, LeaseStays
  <2> QED BY <2>4, <2>5
<1> QED BY <1>2, <1>3, <1>4

LiveConnections ==
    \A p \in DOMAIN pools :
      Live(p) \subseteq [pool : {p}, epoch : Nat, place : Nat, life : Nat]

LEMMA LiveTyped == Shape => LiveConnections
<1> SUFFICES ASSUME Shape, NEW p \in DOMAIN pools, NEW c \in Live(p)
             PROVE  c \in [pool : {p}, epoch : Nat, place : Nat, life : Nat]
  BY DEF LiveConnections
<1>1. c \in InUse /\ c.pool = p
  BY DEF Live, CurrentOf, InUse
<1>2. c \in Conns
  BY <1>1, InUseAt, HeldTypes
<1> QED BY <1>1, <1>2 DEF Conns

LEMMA LiveTypedNext == Shape' => LiveConnections'
BY LiveTyped, PTL

LEMMA LentInUse ==
    ASSUME NEW p, NEW b \in Takers, NEW c \in LentBy(p, b)
    PROVE  c \in InUse
BY LeasesHeld, Users DEF LentBy

LEMMA RenewedLease ==
    ASSUME Hands, Hands', NEW p, NEW q, Renews(q), Shape', UNCHANGED auth, q \in DOMAIN pools',
           DOMAIN pools' = DOMAIN pools \cup {q},
           LoansStay, DrainedOf(p)' <=> DrainedOf(p)
    PROVE  [Lease(p)!Next]_(Lease(p)!leaseVars)
<1>1. LentOf(p)' = LentOf(p)
  BY LoansLent
<1>4. \A x : Live(x) = Kept(x) \ Lost /\ Live(x)' = Kept(x)' \ Lost
  <2>1. Lost' = Lost
    BY DEF Lost
  <2> QED BY <2>1, LiveIs, LiveIsNext DEF LiveSplit
<1>2. CASE p # q
  <2>1. LiveOf(p)' = LiveOf(p)
    BY <1>2, <1>4 DEF Renews, KeepsOthers, LiveOf
  <2> QED BY <1>1, <2>1, LeaseStays
<1>3. CASE p = q
  <2>1. \A d \in LiveOf(p)' : d \notin InUse
    BY <1>3, <1>4 DEF Renews, LiveOf
  <2>2. LiveOf(p) \subseteq InUse
    BY DEF LiveOf, Live, CurrentOf, InUse
  <2>3. LiveOf(p)' \subseteq [pool : {p}, epoch : Nat, place : Nat, life : Nat]
    <3>1. Live(p)' \subseteq [pool : {p}, epoch : Nat, place : Nat, life : Nat]
      BY <1>3, LiveTypedNext DEF LiveConnections
    <3> QED BY <1>3, <3>1 DEF LiveOf
  <2>4. LiveOf(p)' \cap LiveOf(p) = {}
    BY <2>1, <2>2
  <2>5. \A b \in Takers : LiveOf(p)' \cap LentBy(p, b) = {}
    BY <2>1, LentInUse
  <2> QED BY <1>1, <2>3, <2>4, <2>5, LeaseRenew
<1> QED BY <1>2, <1>3

LEMMA ClosedLease ==
    ASSUME Shape, Hands, Hands', NEW p, NEW q \in DOMAIN pools, Closes(q),
           DOMAIN pools' = DOMAIN pools, UNCHANGED auth, LoansStay,
           p # q => (DrainedOf(p)' <=> DrainedOf(p)),
           p = q => ~DrainedOf(p) /\ DrainedOf(p)'
    PROVE  [Lease(p)!Next]_(Lease(p)!leaseVars)
<1>1. LentOf(p)' = LentOf(p)
  BY LoansLent
<1>4. \A x : Live(x) = Kept(x) \ Lost /\ Live(x)' = Kept(x)' \ Lost
  <2>1. Lost' = Lost
    BY DEF Lost
  <2> QED BY <2>1, LiveIs, LiveIsNext DEF LiveSplit
<1>2. CASE p # q
  <2>1. LiveOf(p)' = LiveOf(p)
    BY <1>2, <1>4 DEF Closes, KeepsOthers, LiveOf
  <2> QED BY <1>1, <1>2, <2>1, LeaseStays
<1>3. CASE p = q
  <2>1. LiveOf(p)' = {}
    BY <1>3, <1>4 DEF Closes, LiveOf
  <2>2. ASSUME NEW b \in Takers, NEW d \in LiveOf(p), d \in LentBy(p, b) PROVE FALSE
    <3>1. \E j \in DOMAIN pools[p].queue : pools[p].queue[j] = d
      BY <1>3, <1>4, <2>2 DEF Closes, LiveOf
    <3>2. ~AuthHas(d) /\ ~FdHas(d)
      BY <1>3, <3>1 DEF Hands, OffTheQueues, AuthHas, FdHas
    <3> QED BY <2>2, <3>2, LeasesHeld DEF LentBy
  <2>3. \A b \in Takers : LiveOf(p) \cap LentBy(p, b) = {}
    BY <2>2
  <2> QED BY <1>1, <1>3, <2>1, <2>3, LeaseDrain
<1> QED BY <1>2, <1>3

LEMMA UnchangedLoans ==
    ASSUME UNCHANGED <<auth, fd>>
    PROVE  LoansStay
<1>1. AuthHolders' = AuthHolders /\ FdHolders' = FdHolders
  BY DEF AuthHolders, FdHolders
<1> QED BY <1>1, LoansOfStay

LEMMA LiveKept ==
    ASSUME Hands, Hands', KeepsAll, Lost' = Lost
    PROVE  KeepsLive
BY LiveIs, LiveIsNext DEF KeepsLive, KeepsAll, LiveSplit

(* A panic, as a step of the lease of the pool it takes from. *)
LEMMA LostLease ==
    ASSUME Shape, Hands, Hands', NEW t \in AuthTasks, AuthPanic(t), KeepsAll, NEW p,
           DOMAIN pools' = DOMAIN pools, DrainedOf(p)' <=> DrainedOf(p)
    PROVE  [Lease(p)!Next]_(Lease(p)!leaseVars)
<1>1. PICK b, c :
        /\ b \in Takers
        /\ LeaseOf(b) = {c} /\ LeaseOf(b)' = {} /\ OthersKeepLoans(b)
        /\ Lost' = Lost \cup {c}
  BY PanicLoan
<1>2. \A a \in Takers \ {b} : LentBy(p, a)' = LentBy(p, a)
  BY <1>1 DEF OthersKeepLoans, LentBy
<1>3. LentBy(p, b)' = {}
  BY <1>1 DEF LentBy
<1>4. LiveOf(p)' = LiveOf(p) \ {c}
  <2>1. \A x \in DOMAIN pools : Live(x)' = Live(x) \ {c}
    BY <1>1, LiveIs, LiveIsNext DEF KeepsAll, LiveSplit
  <2> QED BY <2>1 DEF LiveOf
<1>5. CASE c.pool = p
  <2>1. LentBy(p, b) = {c}
    BY <1>1, <1>5 DEF LentBy
  <2>2. LentOf(p)' = [LentOf(p) EXCEPT ![b] = {}]
    BY <1>1, <1>2, <1>3, LentChanges
  <2> QED BY <1>1, <1>4, <2>1, <2>2, LeaseLose
<1>6. CASE c.pool # p
  <2>1. LentBy(p, b) = {}
    BY <1>1, <1>6 DEF LentBy
  <2>2. LentOf(p)' = LentOf(p)
    BY <1>1, <1>2, <1>3, <2>1, LentSame
  <2>3. c \notin LiveOf(p)
    BY <1>6 DEF LiveOf, Live, CurrentOf
  <2> QED BY <1>4, <2>2, <2>3, LeaseStays
<1> QED BY <1>5, <1>6

LEMMA NextLease ==
    ASSUME HomeInv, HomeInv', OnePlace, ChecksFit, ListApart, ListApart', [Next]_vars, NEW p
    PROVE  [Lease(p)!Next]_(Lease(p)!leaseVars)
<1>0. Shape /\ Shape' /\ Hands /\ Hands' /\ DetectorKnows /\ HomeParts
  BY DEF HomeInv
<1>1. /\ \A i \in FdHolders : conn_pools'[i] = conn_pools[i]
      /\ \A i \in DOMAIN fd.checks :
           /\ ~FdPanic(i)
           /\ fd.checks[i].at \in {"take", "return", "refresh"}
                => fd.checks[i].pool = conn_pools[i]
  BY <1>0, ListKept
<1>2. Len(pools') = Len(pools) => DOMAIN pools' = DOMAIN pools
  BY <1>0 DEF Shape, PoolsOK
<1>3. CASE CreatePool
  <2>1. PICK q : q = Len(pools) + 1
    OBVIOUS
  <2>2. Renews(q)
    BY <1>0, <1>1, <1>3, <2>1, MainHome DEF MainStep
  <2>3. DOMAIN pools' = DOMAIN pools \cup {q} /\ UNCHANGED <<auth, fd>>
    <3>1. PICK v \in Queues :
            /\ \A j \in DOMAIN v.queue : v.queue[j].pool = Len(pools) + 1
            /\ pools' = Append(pools, v) /\ UNCHANGED <<auth, fd>>
      BY <1>0, <1>3, CreatePoolFacts
    <3> QED BY <1>0, <2>1, <3>1, Grown DEF Shape
  <2>4. DrainedOf(p)' <=> DrainedOf(p)
    BY <1>0, <1>3, CreateDrains
  <2> QED BY <1>0, <2>2, <2>3, <2>4, UnchangedLoans, RenewedLease
<1>4. CASE RefreshPool
  <2>1. PICK q : q = conn_pools[Head(main.todo).id + 1]
    OBVIOUS
  <2>2. Renews(q)
    BY <1>0, <1>1, <1>4, <2>1, MainHome DEF MainStep
  <2>3. q \in DOMAIN pools /\ UNCHANGED <<auth, fd>> /\ Len(pools') = Len(pools)
    <3>1. PICK v : /\ q \in DOMAIN pools /\ UNCHANGED <<auth, fd>>
                   /\ pools' = [pools EXCEPT ![q] = v]
      BY <1>0, <1>4, <2>1, RefreshPoolFacts
    <3> QED BY <1>0, <3>1, SamePoolCount
  <2>4. DOMAIN pools' = DOMAIN pools \cup {q}
    BY <1>2, <2>3
  <2>5. PlacesStay
    <3>1. \E s, ok : main' = [main EXCEPT !.at = "refreshed", !.server = s, !.ok = ok]
      BY <1>0, <1>4, RefreshPoolFacts
    <3>2. main.at = "refreshing" /\ UNCHANGED <<conn_pools, shutdowns>>
      BY <1>4 DEF RefreshPool, ctxVars
    <3>3. main'.at = "refreshed"
      BY <1>0, <3>1 DEF Shape, MainOK
    <3> QED BY <2>3, <3>2, <3>3 DEF PlacesStay
  <2> QED BY <1>0, <2>2, <2>3, <2>4, <2>5, PlacesDrain, UnchangedLoans, RenewedLease
<1>5. CASE \E i \in DOMAIN fd.checks : FdRefresh(i)
  <2>1. PICK i \in DOMAIN fd.checks : FdRefresh(i)
    BY <1>5
  <2>2. PICK q : q = conn_pools[i]
    OBVIOUS
  <2>3. Renews(q)
    BY <1>0, <1>1, <2>1, <2>2, CheckHome DEF CheckServerHealth
  <2>4. PICK d, v : /\ CheckBecomes(i, d) /\ fd.checks[i].at = "refresh" /\ d.at = "status"
                    /\ fd.checks[i].pool \in DOMAIN pools
                    /\ pools' = [pools EXCEPT ![fd.checks[i].pool] = v]
    BY <1>0, <2>1, RefreshStep
  <2>5. q \in DOMAIN pools /\ pools' = [pools EXCEPT ![q] = v]
    BY <1>1, <2>2, <2>4
  <2>6. Len(pools') = Len(pools)
    BY <1>0, <2>5, SamePoolCount
  <2>7. DOMAIN pools' = DOMAIN pools \cup {q}
    BY <1>2, <2>5, <2>6
  <2>8. UNCHANGED <<auth, conn_pools, shutdowns, main>>
    BY <2>1 DEF FdRefresh, ctxVars
  <2>9. LoansStay
    BY <2>4, <2>8, CheckKeepsLoan DEF Holding
  <2>10. PlacesStay
    BY <2>6, <2>8 DEF PlacesStay
  <2>11. (DrainedOf(p)' <=> DrainedOf(p)) /\ UNCHANGED auth
    BY <1>0, <2>8, <2>10, PlacesDrain
  <2> QED BY <1>0, <2>3, <2>5, <2>7, <2>9, <2>11, RenewedLease
<1>6. CASE \E k \in DOMAIN shutdowns : ShutdownStep(k)
  <2>1. PICK k \in DOMAIN shutdowns : ShutdownStep(k)
    BY <1>6
  <2>2. PICK q : q = Head(shutdowns[k])
    OBVIOUS
  <2>3. /\ UNCHANGED <<auth, fd>> /\ q \in DOMAIN pools /\ Len(pools') = Len(pools)
    BY <1>0, <2>1, <2>2, ShutdownAt, SamePoolCount DEF ShutdownStep
  <2>4. LoansStay
    BY <2>3, UnchangedLoans
  <2>5. /\ HasAllConnections(pools[q]) => Closes(q)
        /\ ~HasAllConnections(pools[q]) => KeepsLive
    <3>1. /\ HasAllConnections(pools[q]) => Closes(q)
          /\ ~HasAllConnections(pools[q]) => KeepsAll
      BY <1>0, <1>1, <2>1, <2>2, ShutdownHome
    <3>2. Lost' = Lost
      BY <2>3 DEF Lost
    <3> QED BY <1>0, <3>1, <3>2, LiveKept
  <2>6. /\ ~HasAllConnections(pools[q]) \/ p # q => (DrainedOf(p)' <=> DrainedOf(p))
        /\ HasAllConnections(pools[q]) /\ p = q => ~DrainedOf(p) /\ DrainedOf(p)'
    BY <1>0, <2>1, <2>2, ShutdownDrains
  <2>7. CASE HasAllConnections(pools[q])
    BY <1>0, <1>2, <2>3, <2>4, <2>5, <2>6, <2>7, ClosedLease
  <2>8. CASE ~HasAllConnections(pools[q])
    BY <1>2, <2>3, <2>4, <2>5, <2>6, <2>8, KeptLease
  <2> QED BY <2>7, <2>8
<1>7. CASE /\ ~CreatePool /\ ~RefreshPool /\ \A i \in DOMAIN fd.checks : ~FdRefresh(i)
           /\ \A k \in DOMAIN shutdowns : ~ShutdownStep(k)
  <2>1. KeepsAll
    BY <1>0, <1>7, KeptStep
  <2>2. LoansStay \/ Loan \/ LoanEnds
    BY LoanStep
  <2>3. (DrainedOf(p)' <=> DrainedOf(p)) /\ DOMAIN pools' = DOMAIN pools
    <3>1. CASE \E list \in ServerLists : SetServerList(list)
      BY <1>0, <3>1, SetListDrains DEF SetServerList
    <3>2. CASE AddServer
      BY <1>0, <3>2, AddDrains DEF AddServer, poolVars
    <3>3. CASE PlacesStay
      BY <1>0, <1>2, <3>3, PlacesDrain DEF PlacesStay
    <3> QED BY <1>0, <1>7, <3>1, <3>2, <3>3, PlacesStayed
  <2>4. CASE \A t \in AuthTasks : ~AuthPanic(t)
    <3>1. KeepsLive
      BY <1>0, <2>1, <2>4, NothingLost, LiveKept
    <3> QED BY <2>2, <2>3, <3>1, KeptLease
  <2>5. CASE \E t \in AuthTasks : AuthPanic(t)
    BY <1>0, <2>1, <2>3, <2>5, LostLease
  <2> QED BY <2>4, <2>5
<1> QED BY <1>3, <1>4, <1>5, <1>6, <1>7

LEMMA InitLease ==
    ASSUME Init, NEW p
    PROVE  Lease(p)!Init
<1>1. /\ main.at = "idle" /\ shutdowns = <<>> /\ fd.checks = <<>>
      /\ \A t \in AuthTasks : auth[t].at = "find"
  BY DEF Init, MainIdle
<1>2. \A b \in Takers : LentBy(p, b) = {}
  <2>1. AuthHolders = {} /\ FdHolders = {}
    BY <1>1 DEF AuthHolders, FdHolders
  <2>2. \A b \in Takers : LeaseOf(b) = {}
    BY <2>1, TakerKinds, AuthLease, FdLease
  <2> QED BY <2>2 DEF LentBy
<1>3. LentOf(p) = [b \in Takers |-> {}]
  BY <1>2 DEF LentOf
<1>4. LiveOf(p) \in SUBSET [pool : {p}, epoch : Nat, place : Nat, life : Nat]
  BY InitShape, LiveTyped DEF LiveConnections, LiveOf
<1>5. DrainedOf(p) = FALSE
  <2>1. p \in DOMAIN pools => p \in DOMAIN conn_pools /\ conn_pools[p] = p
    <3>1. DOMAIN pools = 1..Len(FirstList) /\ DOMAIN conn_pools = 1..Len(FirstList)
      <4>1. pools \in Seq(Queues) /\ Len(pools) = Len(FirstList)
        BY FirstPools
      <4>2. conn_pools \in Seq(Nat) /\ Len(conn_pools) = Len(FirstList)
        BY FirstServers
      <4> QED BY <4>1, <4>2
    <3> QED BY <3>1, FirstServers
  <2>2. p \in DOMAIN pools => InService(p)
    BY <2>1, ServiceAt DEF Listed
  <2> QED BY <2>2 DEF DrainedOf
<1> QED BY <1>3, <1>4, <1>5 DEF Lease!Init, LiveOf, LentOf, LentBy, DrainedOf

(***************************************************************************)
(* When no iteration of the detector overlaps a replacement of the server  *)
(* list: each pool of the context implements PoolLease.  Whatever the      *)
(* AUTHs, the health checks, the spawned returns, the resets and the       *)
(* shutdown tasks do in whatever order, a connection is lent to one task   *)
(* at a time and only while the pool has it, a reset revokes all of them,  *)
(* a panic of search takes the connection of its own AUTH and no other,    *)
(* and clear_server_list's task closes a pool that nobody uses.            *)
(***************************************************************************)
THEOREM PoolsImplementLease == Spec /\ []ListApart => PoolsLease
<1> DEFINE I == HomeInv /\ OnePlace /\ ChecksFit
           S == \A p \in PoolIds : [Lease(p)!Next]_(Lease(p)!leaseVars)
           J == \A p \in PoolIds : Lease(p)!Init
<1>1. Init => I /\ J
  <2>1. Init => I
    BY InitShape, InitHands, InitKnows, InitHome, InitOnePlace, InitChecksFit DEF HomeInv
  <2>2. Init => J
    BY InitLease
  <2> QED BY <2>1, <2>2
<1>2. I /\ ListApart /\ ListApart' /\ [Next]_vars => I' /\ S
  <2> SUFFICES ASSUME HomeInv, OnePlace, ChecksFit, ListApart, ListApart', [Next]_vars
               PROVE  I' /\ S
    OBVIOUS
  <2>1. Shape /\ HomeInv' /\ Shape'
    BY NextHomeInv DEF HomeInv
  <2>2. OnePlace' /\ ChecksFit'
    BY <2>1, NextOnePlace, NextChecksFit
  <2>3. S
    BY <2>1, NextLease
  <2> QED BY <2>1, <2>2, <2>3
<1>3. J /\ [][S]_vars <=> PoolsLease
  BY DEF PoolsLease
<1> HIDE DEF I, S, J
<1> QED BY <1>1, <1>2, <1>3, PTL DEF Spec

-----------------------------------------------------------------------------
(***************************************************************************)
(* Where the bounds alone keep the detector and the CONFIG SET handlers    *)
(* apart.                                                                  *)
(***************************************************************************)
NoListSet == MaxServerSets = 0

NoConfigSet == MaxServerSets = 0 /\ MaxConnSets = 0

Unused ==
    /\ NoListSet => budget.serverSets = 0 /\ ~ListBusy
    /\ NoConfigSet => budget.connSets = 0 /\ main.at = "idle"
    /\ ~DetectorRuns => fd.at = "sleep" /\ fd.checks = <<>>

LEMMA InitUnused == Init => Unused
BY DEF Init, MainIdle, Unused, NoListSet, NoConfigSet, ListBusy

LEMMA BudgetStep ==
    ASSUME Shape, [Next]_vars
    PROVE  /\ budget.serverSets = 0 =>
                /\ budget'.serverSets = 0 /\ \A list \in ServerLists : ~SetServerList(list)
           /\ budget.connSets = 0 =>
                /\ budget'.connSets = 0 /\ \A n \in PoolSizes : ~SetPoolSize(n)
<1>0. budget \in [failures : Nat, serverSets : Nat, connSets : Nat]
  BY DEF Shape, EnvOK
<1>1. CASE \E list \in ServerLists : SetServerList(list)
  <2>1. budget.serverSets > 0 /\ budget' = [budget EXCEPT !.serverSets = @ - 1] /\ main.at = "idle"
        /\ main'.at = "adding"
    BY <1>1 DEF SetServerList, MainIdle
  <2>2. budget'.connSets = budget.connSets
    BY <1>0, <2>1
  <2>3. \A n \in PoolSizes : ~SetPoolSize(n)
    BY <2>1 DEF SetPoolSize, MainIdle
  <2> QED BY <1>0, <2>1, <2>2, <2>3
<1>2. CASE \E n \in PoolSizes : SetPoolSize(n)
  <2>1. budget.connSets > 0 /\ budget' = [budget EXCEPT !.connSets = @ - 1] /\ main.at = "idle"
        /\ main'.at = "refreshing"
    BY <1>2 DEF SetPoolSize, MainIdle
  <2>2. budget'.serverSets = budget.serverSets
    BY <1>0, <2>1
  <2>3. \A list \in ServerLists : ~SetServerList(list)
    BY <2>1 DEF SetServerList, MainIdle
  <2> QED BY <1>0, <2>1, <2>2, <2>3
<1>3. CASE /\ \A list \in ServerLists : ~SetServerList(list)
           /\ \A n \in PoolSizes : ~SetPoolSize(n)
  <2>1. CASE \E u \in Urls, m \in FailureModes : Fail(u, m)
    <3>1. budget' = [budget EXCEPT !.failures = @ - 1]
      BY <2>1 DEF Fail
    <3>2. budget'.serverSets = budget.serverSets /\ budget'.connSets = budget.connSets
      BY <1>0, <3>1
    <3> QED BY <1>3, <3>2
  <2>2. CASE UNCHANGED budget
    BY <1>3, <2>2
  <2>3. CASE \E t \in AuthTasks : AuthStep(t)
    BY <2>2, <2>3 DEF AuthStep, AuthFind, AuthTake, AuthOp, AuthPanic, AuthFailover, envVars
  <2>4. CASE \E i \in DOMAIN fd.checks : CheckServerHealth(i)
    BY <2>2, <2>4 DEF CheckServerHealth, FdPanic, FdLookup, FdTake, FdPing, FdReturn, FdConnect,
       FdPingNew, FdRefresh, FdStatus, envVars
  <2>5. CASE MainStep
    BY <2>2, <2>5 DEF MainStep, CreatePool, AddServer, ServerListDone, RefreshPool,
       RefreshStatus, RefreshDone, envVars
  <2> QED BY <1>3, <2>1, <2>2, <2>3, <2>4, <2>5 DEF Next, SpawnedReturn, ShutdownStep, FdStart,
           FdEnd, ComeBack, envVars, vars
<1> QED BY <1>1, <1>2, <1>3

LEMMA NextUnused ==
    ASSUME Shape, Unused, [Next]_vars
    PROVE  Unused'
<1>1. NoListSet => budget'.serverSets = 0 /\ ~ListBusy'
  <2> SUFFICES ASSUME NoListSet PROVE budget'.serverSets = 0 /\ ~ListBusy'
    OBVIOUS
  <2>1. /\ budget'.serverSets = 0 /\ \A list \in ServerLists : ~SetServerList(list)
        /\ ~ListBusy
    BY BudgetStep DEF Unused
  <2>2. ~CreatePool /\ ~AddServer
    BY <2>1 DEF CreatePool, AddServer, ListBusy
  <2>3. ~ListBusy'
    <3>1. UNCHANGED main => ~ListBusy'
      BY <2>1 DEF ListBusy
    <3> QED BY <2>1, <2>2, <3>1, BusySteps
  <2> QED BY <2>1, <2>3
<1>2. NoConfigSet => budget'.connSets = 0 /\ main'.at = "idle"
  <2> SUFFICES ASSUME NoConfigSet PROVE budget'.connSets = 0 /\ main'.at = "idle"
    OBVIOUS
  <2>1. /\ budget'.connSets = 0 /\ \A list \in ServerLists : ~SetServerList(list)
        /\ main.at = "idle" /\ \A n \in PoolSizes : ~SetPoolSize(n)
    BY BudgetStep DEF Unused, NoConfigSet, NoListSet
  <2>2. ~MainStep
    BY <2>1 DEF MainStep, CreatePool, AddServer, ServerListDone, RefreshPool, RefreshStatus,
         RefreshDone
  <2>3. CASE \E t \in AuthTasks : AuthStep(t)
    BY <2>1, <2>3 DEF AuthStep, AuthFind, AuthTake, AuthOp, AuthPanic, AuthFailover
  <2>4. CASE \E i \in DOMAIN fd.checks : CheckServerHealth(i)
    BY <2>1, <2>4 DEF CheckServerHealth, FdPanic, FdLookup, FdTake, FdPing, FdReturn, FdConnect,
         FdPingNew, FdRefresh, FdStatus
  <2> QED BY <2>1, <2>2, <2>3, <2>4 DEF Next, SpawnedReturn, ShutdownStep, FdStart, FdEnd,
           ComeBack, Fail, vars
<1>3. ~DetectorRuns => fd'.at = "sleep" /\ fd'.checks = <<>>
  <2> SUFFICES ASSUME ~DetectorRuns PROVE fd'.at = "sleep" /\ fd'.checks = <<>>
    OBVIOUS
  <2>1. fd.at = "sleep" /\ fd.checks = <<>>
    BY DEF Unused
  <2>2. ~FdStart /\ ~FdEnd /\ DOMAIN fd.checks = {}
    BY <2>1 DEF FdStart, FdEnd
  <2> QED BY <2>1, <2>2, FdChange
<1> QED BY <1>1, <1>2, <1>3 DEF Unused

LEMMA UnusedHolds == Spec => []Unused
<1>1. Init => Shape /\ Unused
  BY InitShape, InitUnused
<1>2. Shape /\ Unused /\ [Next]_vars => Shape' /\ Unused'
  BY NextShape, NextUnused
<1> QED BY <1>1, <1>2, PTL DEF Spec

(***************************************************************************)
(* The conditions of the theorems above are no empty ones: they hold of    *)
(* every behaviour in which the server list stays as it is at the start,   *)
(* or whose detector sleeps through it, and the settings are then reset as *)
(* often as one likes.                                                     *)
(***************************************************************************)
THEOREM QuietConfigurations ==
    Spec => [](/\ NoListSet \/ ~DetectorRuns => ListApart
               /\ NoListSet => ListQuiet
               /\ NoConfigSet \/ ~DetectorRuns => ConfigApart)
<1>1. Unused => /\ NoListSet \/ ~DetectorRuns => ListApart
                /\ NoListSet => ListQuiet
                /\ NoConfigSet \/ ~DetectorRuns => ConfigApart
  BY DEF Unused, ListApart, ListQuiet, ConfigApart
<1> QED BY <1>1, UnusedHolds, PTL
=============================================================================
