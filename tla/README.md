# valkey-ldap in TLA+

valkey-ldap is a Valkey module that answers `AUTH` by asking LDAP servers and
that keeps Valkey's ACL in line with what they say. This directory has TLA+
models of its concurrent core, the TLC configurations that check them, and
proofs that TLAPS checks.

The paths below are those of the repository (`src/vkldap/connection.rs` and so
on); "README.md:92" is line 92 of the repository's README. `PROJECT.json` maps
every definition that models code to its lines.

## 1. The system

| component | state | operations |
|---|---|---|
| **Connection pool** (`VkConnectionPool`, `ConnectionQueue` in `connection.rs`), one per listed server | a queue of idle connections, the epoch (number of resets), the size, a tokio mutex, a tokio `Notify` | `new`, `take_connection`, `return_connection`, `refresh_connections`, `shutdown` |
| **LDAP context** (`VkLdapContext` in `context.rs`, `server.rs`, `settings.rs`) | the server list with a status per server, the pools, the settings, all behind one async mutex (`VK_LDAP_CONTEXT`) | `add_server`, `clear_server_list`, `update_server_status`, `find_server`, `refresh_connection_settings`, `run_ldap_op_with_failover` |
| **Failure detector** (`failure_detector.rs`) | a thread of its own and its stop flag | an iteration checks every server of a snapshot of the list: ping over a pooled connection when HEALTHY, connect, ping and refresh the pool when UNHEALTHY |
| **CONFIG SET handlers** (`configs.rs`) | Valkey's configuration | on the main thread: replace the list, change settings and refresh all pools, change exemption, fallback and mode |
| **AUTH handling** (`auth.rs`, `errors.rs`) | the blocked client's private data; Valkey's ACL | `ldap_auth_blocking_callback`, the LDAP task, `auth_reply_callback` with its four branches |
| **LDAP operations** (`VkLdapConnection` in `connection.rs`) | one LDAP connection and the identity bound on it | bind, search, search of the groups' rules, ping, close |
| **Job scheduler** (`scheduler.rs`, `mod.rs`) | a thread with a tokio runtime, a channel | submit a task with a callback, or wait for it (`submit_sync_task`) |
| **Module life cycle** (`lib.rs`) | the statics, which survive an unload | load: logger, scheduler, detector, context, settings, server list; unload: detector, list, scheduler, logger |
| **INFO section** (`commands.rs`) | | a sync task that reads the list, then formatting |
| **Logging** (`logging.rs`) | a pointer to a Valkey context | set at load, freed at unload |
| version (`version.rs`) | | |

**How they interact.** The main thread submits tasks to the scheduler: without
waiting for AUTH, waiting for CONFIG SET. The detector's thread submits one
task per iteration and waits. All of these tasks share the context and the
pools. Two more kinds of task are spawned and waited for by nobody: the return
of a connection after an AUTH's operation, and the shutdown of the pools of a
replaced list. An AUTH's result unblocks the client, and the reply callback,
back on the main thread, changes the ACL.

**What is hard.** No lock spans two of these steps, so

* a task holds a server id, a pool, a connection, a status or a copy of the
  settings that was right when it looked (`context.rs:77`, `:97`, `:225`,
  `:270`);
* everything that waits, waits for another task to notify it
  (`connection.rs:102`, `:145`, `:171`), and one that panics notifies nobody
  (`scheduler.rs:247`);
* servers stop, hang and come back in the middle of anything, and a reset may
  fail half way (`connection.rs:54`, `:135`);
* an AUTH reads the configuration at the dispatch, during its LDAP operation
  and at the reply, and replies come in the order in which the operations end,
  not in that of the commands (`auth.rs:31`, `:97`, `:164`);
* a pooled connection keeps the identity that was bound on it last, also by a
  bind whose answer came too late (`connection.rs:267`, `:281`);
* loading and unloading happen beside the detector's thread and the runtime's
  tasks, and every wait of the main thread is without a timeout (`lib.rs:66`,
  `failure_detector.rs:98`, `:121`, `context.rs:200`).

`PROJECT.json` lists these as hazards, each at its line with the properties
that watch it.

**What makes each part correct.** Pool: no connection is lost, shared, or used
after the reset that retired it; no wakeup is lost. Context and detector: ids
keep meaning the same server, a status says what somebody found, operations
end, servers that are back are found. AUTH: nobody gets in, is cached or is
deleted without a reason that held while the command ran. LDAP operations: what
one comes to does not depend on who used its connection before. Scheduler and
life cycle: whoever waits has a job on its way, an unload ends and leaves
nothing running, a load starts afresh.

## 2. The modules

| module | models | uses |
|---|---|---|
| `ConnectionQueue` | the critical sections of a pool, as operators on a record | |
| `PoolLease` | abstract: what a pool promises its users | |
| `ConnectionPool` | one pool and the tasks on it | `ConnectionQueue`, refines `PoolLease` |
| `ConnectionPool_proofs` | the proofs about it | `ConnectionPool` |
| `LdapContext` | the context, all its pools, AUTH operations, the detector, CONFIG SET, the servers | `ConnectionQueue`, each pool refines `PoolLease` |
| `LdapContext_proofs` | the proofs about types, hands, lists and statuses | `LdapContext` |
| `LdapContext_pools_proofs` | the proofs about the pools as a whole: healthy servers, the refinement | `LdapContext_proofs` |
| `LdapAuth` | an AUTH command from dispatch to reply, the ACL, the directory | |
| `LdapAuth_proofs` | the proofs about it | `LdapAuth` |
| `LdapConnection` | the messages of an LDAP operation, the identity on a pooled connection, the merging of rules | |
| `LdapConnection_proofs` | the proofs about it | `LdapConnection` |
| `Scheduler` | channel, loop and tasks of the scheduler, as operators on a record | |
| `ModuleLifecycle` | load, commands, unload and loading again, with the main thread, the detector's, the scheduler's and the runtime | `Scheduler` |
| `ModuleLifecycle_proofs` | the proofs about it | `ModuleLifecycle` |
| `MC...` | values of the constants for TLC | |

An operator whose name ends in `_Slip` is the definition after it with a
plausible mistake (a dropped guard, a forgotten notification). No specification
uses one. Each property has one in whose presence TLC finds it violated, so
every property is about something the code does and could do wrong; the list is
`mutants` in `PROJECT.json`.

### ConnectionQueue and ConnectionPool

`pool` is the queue, epoch and size that the pool's mutex guards, with the set
of tasks parked on the `Notify`. Each method holds the mutex from its first
line to its end, or to the `notify_wait!` that parks the task: one action is
one such section. `notify_wait!` enables the notification before the lock is
given up, so checking, registering and unlocking are one step, and a task that
`notify_waiters` wakes starts its loop over, which is the same action again.
The queue is written from back to front: `pop_back` is `Head`, `push_front` is
`Append`.

`Refresh(n, k)` opens k of n connections: all, or the k+1st failed; then the
queue stays empty while epoch and size have their new values, and nobody is
notified, as the `?` in `refresh_connections` has it. `open` and `held` are
what the code has in the sockets and on the stacks of the tasks.

`PoolLease` has no queue, epoch, size or waiting: connections are lent to one
borrower at a time, a renewal revokes all the pool has, and the pool is drained
when nothing that it still has is lent. The mapping takes the open connections
of the current epoch as what the pool has.

### LdapContext

`servers` and `conn_pools` are the fields of `VkLdapContext`; `pools` has all
pools ever created, since a task may hold an `Arc` to one that is no longer
listed. One action is one critical section of the context's mutex or of a
pool's; they are merged only where nothing that the next one reads can change.

* AUTH: `AuthFind` (`find_server` and the pool), `AuthTake`, `AuthOp` (the
  operation, ended by its timeout at the latest, and the spawning of the
  return), `AuthFailover` (UNHEALTHY, and round the loop again). `AuthPanic` is
  the other end of an operation: `search` panics at an attribute without values
  (`connection.rs:348`), the task ends at `context.rs:272` and `:274`, the
  return, is not reached. `BrokenEntries` are the operations whose user has such
  an entry, `Lost` the connections that went in this way.
* Detector: `FdStart` takes the snapshot; per server `FdLookup`, `FdTake`,
  `FdPing`, `FdReturn`, `FdConnect`, `FdPingNew`, `FdRefresh`, `FdStatus`;
  `FdEnd` is the end of `join_all`. `FdPanic` is the index out of bounds.
* Main thread: `SetServerList`, `CreatePool`, `AddServer`; `SetPoolSize` (any
  connection setting takes this path), `RefreshPool`, `RefreshStatus`.
* `SpawnedReturn`, `ShutdownStep`: the tasks nobody waits for.
* `Fail`, `ComeBack`: a stopped server refuses connections and breaks those it
  had (`life` tells them apart); a hung one keeps them and says nothing; a
  faulty one is there, but connecting to it may fail (TLS set-up and StartTLS
  included) and it answers a ping with an LDAP error (`PingSucceeds`).

Each pool, from its creation to its shutdown, is an instance of `PoolLease`
(`PoolsLease`): what it has are the connections of its current epoch wherever
they are (`Live`), its borrowers are the AUTH tasks and the checks of the
detector (`Takers`), and it is drained once no list, no shutdown task and no
`add_server` under way names it (`InService`). A connection that a spawned
return is carrying back is the pool's and not lent. A panic is `PoolLease`'s
`Lose`: the borrower is gone and its connection with it. `ConnectionPool` implements
the same specification, so the two models of a pool agree on what it promises:
one has the pool alone with any use of it, the other the uses that there are.

`ListApart`, `ConfigApart` and `ListQuiet` are conditions on behaviours that
some of the guarantees need and that nothing in the code sees to (section 4).

`update_server_status` is modelled as it is: the comparison of URLs at
`context.rs:97` compares a server with itself, so it is not there.

### LdapAuth

`req[c]` is the command of client c with the mode read at the dispatch; the
other settings are read from `config` where the code reads them. The LDAP
operation is `Find`, `Failover`, `Search`, `Bind`, `SearchGroupsRules`. The
reply callback's branches are `ApplyLdapUserAcl`, `HandleUserNotFound`,
`HandleServerUnavailable`, `HandleCredentialRejection` and `HandleNoResult` (the
task panicked, which drops the blocked client without a result); which is taken
is the classification of `errors.rs`. A grant may have rules that Valkey does
not accept (`BadTokens`: nothing changes), or that disable the user
(`OffTokens`: the ACL changes and the password is cached, but
`authenticate_client_with_acl_user` fails and the client is refused). How a
directory words its refusal for an entry that does not exist is left open (32,
49 with sub-code 525, plain 49). Of the servers only this is kept: one can be
reached, or not. While CONFIG SET of the list waits, the list is partly filled
("loading"): AUTHs under way may see it empty, and the main thread does nothing
else.

`was[c]` and `gone[u]` are history: what held at some moment of the command,
and whether a deleted user is still absent from the directory. No action reads
them. Passwords are numbers in the order in which the directory has them, 0 is
a local one.

### LdapConnection

`op[t]` is an LDAP operation with the step it is at; the settings it uses are
those of its start, as the clone at `context.rs:416` and `:449` has it.
`AdminBind`, `Search`, `Bind` and `SearchGroupsRules` are one message each and
change `identity[k]`, who is bound on connection k. `ConnectionError` may happen
at each of them: a bind that timed out may or may not take effect, the
connection goes back to the pool as it is, and the operation starts over or
finds no healthy server (`NoServer`). `ResetPool` replaces the connections in
the pool; one that is out is replaced when it comes back. A directory says which
entries each identity may see, who may not search at all, and the groups with
their rules in the order of the answer; `Search` has each of its outcomes,
the panic at an attribute without values included. Filters and base DNs are what
makes a search match: the directory has the result.

### Scheduler and ModuleLifecycle

A scheduler is a record of its channel, its loop's thread and its tasks. A job
names who sent it, so that `Callers` are those who have a job or a task.
`main` is the main thread: the phase of the module and the list of steps that
the handler it runs has still to do. `Initializer`, `Deinitializer` and
`ProcessServerList` are these lists, in the order of the code; a step that is a
sync task is `SubmitSyncTask`, the task's own action and `TakeResult`. The wait
for the scheduler to be ready (`lib.rs:32`) is over at once, since
`initialize` sets the state. `detector` is the thread and the stop flag:
`DetectorSubmits` ends its sleep, `DetectorResumes` looks at the flag.
`IterationLocks` and `IterationReads` are two steps, because `try_lock` at load
fails in between; all other sections of the context's lock are one step.
`LoopEnds` drops the channel and the runtime: the tasks are gone, with an AUTH's
task its `BlockedClient`. Valkey refuses to unload a module that has blocked
clients, so `Unload` waits for them. `replaced` and `lost` are history and no
action reads them.

## 3. The runs

### Passing

| run | instance | what it shows |
|---|---|---|
| `pool` | 3 borrowers, sizes 0..2, 3 resets, a shutdown | the invariants of `ConnectionPool`, that it implements `PoolLease`, that waiting tasks are served and shutdowns end |
| `failover` | 2 servers, 2 AUTHs, 1 stop, the detector | `AuthAnswered`, `ServersRecover`: once the servers stay up, every AUTH ends and all servers are listed as healthy for good |
| `flapping` | 1 server with 2 connections, 2 AUTHs that may panic, 2 failures of any of the three kinds, the detector | a pool loses no connection but by a panic; a server listed as healthy has a pool with connections; nobody sleeps on a pool that has a connection for them, also under the detector's refreshes |
| `reconfigure` | CONFIG SET of the list of 2 servers and of the pool size, 1 AUTH that may panic, a failure, no detector | connections stay with the pool and the epoch they were opened in, no sleeper is missed; each of the pools, old and new, implements `PoolLease`; the pools of the replaced list are shut down, up to one whose last reset failed or that has lost a connection |
| `list_race` | the list replaced or emptied while the detector and an AUTH, which may panic, run | ids, servers and pools stay aligned, no connection is in two hands, even when an iteration panics |
| `auth_races` | 2 clients with an AUTH each, 1 user, 2 passwords, 3 grants, both modes, any 2 events | who is let in, cached and deleted, whatever changes during the commands |
| `lifecycle` | any number of loads, commands and unloads, 1 client, 2 values of each setting, lists of 0 to 2 servers, servers that hang and answer again | an unload ends and leaves nothing behind, nobody waits for a job that is gone, the context has what the options say, the detector runs on after every load |
| `identity` | 2 operations at a time on one connection, any number one after the other, 2 users, 3 kinds of search account, 7 directories, 2 connection errors | an operation searches under the identity it has bound itself, and its result is the one it would have alone |

### Violations: where the code and what is said of it differ

| run | the code | what is said |
|---|---|---|
| `detector_panics` | a list that gets shorter during an iteration makes `get_connection_pool` panic (`context.rs:77`); the detector waits for that iteration for ever | README.md:284, iterations come at an interval |
| `dead_pool` | a failed refresh notifies nobody (`connection.rs:135`): an AUTH waiting on that pool waits as long as the server is away | README.md:180, an unavailable server leads to the fallback |
| `stale_status` | `context.rs:97` compares a server with itself: a status found for the old list's server is given to the new list's | the early return in the code |
| `wrong_password` | `handle_credential_rejection` deletes the user (`auth.rs:97`) | README.md:92 and `errors.rs:59`, wrong passwords do not |

### Bounds, and why they are enough

Three borrowers on at most two connections make two tasks wait while one holds;
three resets let a connection come back after two of them. Two servers are what
failover and "the id now means another server" need. One replacement of the list
is what makes a held id, pool or connection stale, and a list of two servers
makes one shutdown wait for the one before it. Two failures let a server fail,
recover and fail again during one check. Two AUTHs that may panic, on two
connections, leave a pool with one connection or with none. Two AUTHs let one
overtake the other, and two events let a thing change and change back, or two
things change, between any two of their steps.

In `identity` one connection is the case that matters: every operation follows
another on it, and a second connection could only keep them apart; two errors
make an operation fail on its first and on its second try. `lifecycle` bounds
only the detached tasks (`MaxDetached`, when a command is accepted): a job's
sender waits for it, so the channel and the tasks are bounded by the program.
Lists of 0, 1 and 2 servers grow, shrink and are emptied under an iteration.

`MaxEpoch`, `MaxFailures`, `MaxServerSets`, `MaxConnSets`, `MaxAuths`,
`MaxEvents`, `Newest`, `MaxErrors` and `MaxDetached` are the named bounds. The
proofs hold for every value of each of them.

`lifecycle` and `identity` check for deadlock. The other runs switch TLC's
deadlock check off: with the bounds used up and all commands answered the system
is at rest, and so is the real one when nobody sends an AUTH. That tasks do not
wait on each other for ever is stated by the invariants on sleepers and by the
liveness properties.

### Fairness

Weak fairness of every task that can go on: the runtime polls it. In
`ConnectionPool` the return of a connection is fair because bind and search
have a timeout (`ldap.timeout_ldap_operation`). In `LdapContext` taking a
connection is strongly fair: tokio's mutex is first come first served, a woken
task queues on it at once, and the detector, the only one that takes for ever,
sleeps between iterations. Nothing is assumed of the servers, of CONFIG SET, or
of when a shutdown or a reset begins; `AuthAnswered` and `ServersRecover` have
"the servers stay up" as a premise. In `ModuleLifecycle` the threads are weakly
fair, and a task is strongly fair because the context's lock, which is never
held while waiting for something else, is first come first served; `UnloadEnds`
and `DetectorKeepsRunning` have "the servers answer, or fail, from some moment
on" as a premise, since the ping has no timeout. `LdapConnection` has no
liveness property: that operations end is `LdapContext`'s `AuthAnswered`.

## 4. The proofs

Every theorem is for all values of the constants: any sets of clients, users,
servers, tasks, sizes and lists, and any bounds. Each `..._proofs` module states
an inductive invariant, shows that Init implies it and that every action keeps
it (a lemma per action), and draws the theorems from it. The constants are
assumed to be what their comments say (`PoolAssumption`, `AuthAssumption`,
`ConnectionAssumption`, `ContextAssumption`, `LifecycleAssumption`; TLC
evaluates them in every run). Beyond types they ask for a user, a server and an
authentication mode to choose from, for finitely many clients and AUTH tasks,
and for pool sizes above 0 in `LdapContext`, as the option's range has it.

### ConnectionPool

* `TypeCorrect`, `WakeupsNotLost` (`NoLostWakeup`), `LeasesSound`
  (`LeasesExclusive`), `NoneLeaks` (`OpenAccountedFor`), `ResetRetiresAll`
  (`QueueIsCurrent`), `SizeRespected` (`PoolWithinSize`), `CompleteOrEmpty`
  (`AllOrNothing`);
* `ShutdownSafe`: a shutdown never closes the pool under an operation that
  holds a connection of the current epoch;
* `PoolImplementsLease`: every step is a step of `PoolLease` or a stutter.

The inductive invariant `IInv` is `TypeOK`, `OpenAccountedFor`,
`LeasesExclusive`, `QueueIsCurrent`, `AllOrNothing` and `NoLostWakeup`. None
but `TypeOK` is inductive by itself: that a returned connection does not double
one in the queue needs the exclusiveness of leases; that a fresh connection is
new needs every open one to be of an earlier reset, which is
`OpenAccountedFor` with `QueueIsCurrent`; that a full queue means nothing is
lent needs `AllOrNothing`. `PoolWithinSize` is not a part of it but follows: the
queue is distinct and a subset of the connections of one reset, and those are
as many as the size (`QueueCardinality`). The same count shows that the
equality on which `shutdown` relies is reached only when all connections are
back (`FullQueue`), from which `ShutdownSafe` and the `Drain` step of the
refinement follow.

### LdapContext

* Without further conditions: `TypeCorrect`, `ListsStayAligned`
  (`ListsAligned`), `ConnectionsNotShared` (`LeasesExclusive`).
* As long as no iteration of the detector overlaps a replacement of the server
  list (`Spec /\ []ListApart`): `ConnectionsComeHome` (`HomeConnections`),
  `NoConnectionLost` (`ConnectionsConserved`: what a pool has and what panics of
  `search` have cost it are all that its last reset asked for, or it has none;
  each panic costs the one connection it held), `NoWakeupMissed`
  (`NoSleeperMissed`), `DetectorSurvivesApart` (`DetectorSurvives`) and
  `PoolsImplementLease` (`PoolsLease`: every pool implements `PoolLease`).
* As long as no iteration overlaps any CONFIG SET handler (`ConfigApart`):
  `HealthyCanServe` (`HealthyHasConnections`).
* As long as neither an iteration nor an operation that has found a server
  overlaps a replacement of the list (`ListQuiet`): `StatusReported`
  (`StatusIsReported`).

These are conditions on what happens and not on the constants: lists may be
replaced and settings changed any number of times, with AUTHs and failures in
between, and the detector may run before and after. None can be dropped:
`detector_panics` and `stale_status` show it for the first and the last, section
5 says what goes wrong in the other cases. `QuietConfigurations` says which
behaviours meet them by themselves: those in which `ldap.servers` is never set
(all but `ConfigApart`, for which no connection setting may be set either) and
those in which the detector sleeps (`ListApart` and `ConfigApart`). The passing
runs that check these properties are of these kinds: `flapping` sets nothing,
`reconfigure` has the detector asleep. `StatusIsReported` has a theorem and, in
`stale_status`, the behaviour that needs its condition, but no passing run: with
one server and one list it says little, and with replaced lists it needs
`ListQuiet`.

The invariant has three layers, each resting on the one before.

`Shape`: types, and that every pool, server and place that somebody has noted
exists, whatever became of the list since. The handlers of the main thread need
more, because they work on a list they have read earlier: a server still to be
refreshed is still listed at its id (nobody but the main thread changes the
list), and the pool just created for a server about to be pushed has its URL and
its id. `ListsAligned` is a part of `Shape` and needs just that.

`Hands`: a connection is in one queue at one place, or in one hand. It stays so
when a connection is put back into whatever pool, which is why it needs no
condition. That what a reset opens is new needs `Known`: every connection there is
belongs to a pool that exists and to a reset of it that has happened, so the
next epoch of a pool, and the next pool, have none. `LeasesExclusive` counts;
`HandsExclusive` turns the distinctness into the count.

`HomeParts`, kept under `ListApart` together with `DetectorKnows` (the checks
under way are about the servers and the pools listed at their places): every
lease is of the pool it will be returned to and of the epoch it was taken in,
and what a pool has of its current epoch, with what panics have cost it, is the
whole lot of one reset or nothing (`Complete`). A panicked AUTH keeps its lease
in the model as the note of what was lost, so the invariants count it among the
`Keepers` of a connection, though not among those who use one; `Kept` are a
pool's connections in this wider sense. From `Complete` and `Hands` follows
`QueueFits`, the fact on which the shutdown rests: a queue never has more than
the size, and with exactly the size nobody else has a connection of this pool.
`HomeTake`, `HomePut`, `HomeClose` and `HomeOpen` are the four things that
happen to a queue, and each action is one of them or none. `LiveStep` draws from
them what a step does to the connections that the pools have: nothing (a take
and a return only move them), or one pool is renewed, or one is closed and all
it had was in its queue. A panic keeps `Kept` and takes one out of `Live`
(`PanicLoan`); every other step leaves what is lost as it is or forgets it with
a renewal (`LiveKept`).

Three more invariants are about the pools as a whole.

* `OnePlace`: a pool is in the list once, or in one place of one shutdown task,
  or new and about to be pushed. So a pool that is shut down is never the one
  of a listed server, and no task closes one that is still to be used.
* `HealthParts`, for `HealthyCanServe`: `HealthyHasConnections` alone is not
  inductive, since the main thread and the checks write a status some steps
  after they have found it. So the pool that `add_server` is about to push as
  healthy has connections, the pool of a server whose reset went well has some
  until that is written, a check that is to report a success is about a pool
  with connections, and one that connects, pings anew or refreshes is about a
  server listed as unhealthy. This is kept as long as nobody else resets the
  pool meanwhile, hence `ConfigApart`.
* `ChecksFit`: the places an iteration checks are places of some configured
  list, even while a list is being filled. So the `Checks` over which the
  fairness and `PoolsLease` quantify are all there are.

`PoolsImplementLease` puts these together: `LiveStep` says what becomes of the
connections a pool has, `LoanStep` that a step begins one loan, of a connection
at the head of a queue and in no hand, or ends one, or leaves all as they are,
`LeaseLose` that a panic is a `Lose` of the pool its connection is of,
and the lemmas on `DrainedOf` that a pool goes out of service by the step of the
shutdown task that closes it and by no other. Each combination is a step of
`PoolLease` or a stutter, for every pool at once.

### LdapAuth

* `TypeCorrect`, `CacheIsSound` (`CacheSound`), `OneGrant`
  (`PermissionsOfOneGrant`), and the action properties `LoginsAreJustified`,
  `CacheMovesOn`, `DeletionsAreJustified`, `RemovedUsersAreCleanedUp`,
  `DeletedStaysDeleted`.

What a reply does rests on a result that may be old by then, so the invariant
ties each result under way to the history of its command: `Observed` (the
history has all that holds now), `Explained` (it has the reason for the result),
`InOrder` (a verified password is no older than the cached one, unless a reply
of another client overtook it) and, per user, `UserInv`.

### LdapConnection

* `TypeCorrect`, `IdentityIsOwn` (`OwnIdentity`) and `OutcomesDetermined`: in
  bind mode, and with a search account in search+bind mode, an operation ends
  with exactly the result (`Expected`: an error, or `MergeTokens` of the tokens
  its searcher sees) that its user, password, settings at its start and the
  directory make it, or with NoHealthyServerAvailable after an error. That
  `MergeTokens` has each token once and in order (the `IsMerge` part of
  `OutcomeSound`, a fold over a list of any length) is left to TLC.

An identity belongs to the connection, so `OwnIdentity` needs that the
connection is nobody else's: `HasConn`, `Exclusive` and `LentToSomeone`.
`OnTheWay` is what an operation that has come so far knows. In the search for
these proofs the conditions of `SearchError` turned out to overlap (a user with
a broken entry that the account may not see): which error came out was left to
the choice of a `CASE`. They are now in the order in which the code looks.

### ModuleLifecycle

* `TypeCorrect`, `UnloadLeavesNothing` (`NothingOutlivesUnload`),
  `CallersAreAnswered` (`NoOrphanedCaller`), `SettingsAreCurrent`
  (`SettingsCurrent`), and `DetectorNeverPanics`: the detector's thread never
  finds the scheduler gone, although stopping either is a matter of order only.

`Control` says which lists of steps the main thread can still have to do, by
their places in `Initializer`, `Deinitializer` and the CONFIG SET handlers; the
other parts tie to it the state of the scheduler, of the detector, of the jobs
and tasks of each caller (at most one each), of the server list and of the
settings, and the number of detached tasks.

### Only model-checked

* Liveness (`TakersServed`, `ShutdownEnds`, `AuthAnswered`, `ServersRecover`,
  `ShutdownsEnd`, `UnloadEnds`, `DetectorKeepsRunning`): fairness and `ENABLED`
  are outside what the prover does.
* The part of `OutcomeSound` that says what a merge of rules is: it takes an
  induction over the list.

Every invariant and every action property that a passing run checks is
otherwise stated by a theorem.

## 5. Limits seen while modelling

These follow from the code and are visible in the models; the properties above
are stated so that they hold in spite of them, and the instance says so.

* A health check returns its connection by server id, so after a replacement of
  the list a connection may end in another server's pool, with the detector
  running and the epochs equal (`reconfigure` has the detector asleep). That pool
  then holds one more than its size. Replaced in its turn, its shutdown, which
  waits for the queue to have exactly the size, sleeps on although every
  connection of the pool is back: `HomeConnections`, `ConnectionsConserved` and
  `NoSleeperMissed` are proved as long as no iteration overlaps a replacement
  (`ListApart`), and are false without it.
* An AUTH that has chosen a pool which is then shut down waits on it for ever:
  nothing wakes it (`failover` has a fixed list). So does one
  that has chosen a pool which a failed reset then empties (`dead_pool`): that a
  healthy server's pool has connections (`HealthyHasConnections`) is about who is
  sent there from now on.
* A CONFIG SET and the detector that refresh the same pool may report in the
  other order, and leave HEALTHY with an empty pool (`HealthyHasConnections`
  is checked without CONFIG SET, and proved as long as no iteration overlaps
  one, `ConfigApart`).
* A pool whose last reset failed never has all its connections, so its
  shutdown, and with it those of the pools after it, never ends
  (`ShutdownsEnd` leaves these pools out). The same goes for a pool that has lost
  a connection to a panic.
* `ping` is the one operation without a timeout (`connection.rs:194`), although
  README.md:286 says that LDAP operations have one. A server that hangs keeps
  the check, `join_all` the iteration, the iteration the detector's thread, and
  a MODULE UNLOAD that joins this thread the whole Valkey server, as long as it
  hangs (`UnloadEnds` and `DetectorKeepsRunning` are checked under the premise
  that servers answer, or fail, in the end).
* CONFIG SET of a shorter list under an iteration makes the iteration panic
  (`detector_panics`). A later MODULE UNLOAD then waits for the detector's
  thread for ever (`UnloadEnds` and `NoOrphanedCaller` except `replaced`).
* The settings at load are set with `try_lock`, although the detector's thread
  already runs. If its first iteration has the lock at that moment, the settings
  keep their defaults, a pool size and timeouts of 0, until the next CONFIG SET
  of one of them. The comments at `context.rs:176` and `:199` say that no other
  tasks are running then. The detector sleeps for its interval first, so this
  takes an interval of 0 or a slow start (`SettingsCurrent` says that nothing
  else is lost).
* Without a search account, search+bind searches under the identity of the last
  user of the connection, not under an anonymous bind as README.md:21 says: what
  a user is told depends on who came before (`OutcomeSound` leaves this
  configuration out; without that TLC shows it in a few steps).
* An entry whose DN attribute has no value makes `search` panic
  (`connection.rs:348`), and the connection never returns to its pool, which
  then has fewer than `ldap.connection_pool_size`, against README.md:283
  (`ConnectionsConserved` counts it as lost); the client gets no result. Nothing
  opens another one until a refresh: CONFIG SET of a connection setting, or the
  detector when the server was UNHEALTHY. After as many such AUTHs as the pool
  has connections, every AUTH that is sent to that server and its health check
  wait for a connection that cannot come, and with the check the whole
  iteration; as it lists the server HEALTHY all the while, no refresh comes from
  there. `AuthAnswered` and `ServersRecover` are checked without broken entries
  (`failover`).
* The INFO handler does not look at `for_crash_report` (`commands.rs:8`): in a
  crash report it submits a task and waits for it.
* A user exempted while the command runs is still deleted by
  `handle_credential_rejection`; only `handle_user_not_found` asks again.
* An AUTH during a reload of the list may find it empty and falls back to the
  cached password, with all servers up (`LoginJustified` allows for it;
  README.md:187 does not mention it).
* A reply that another one overtook may put an old password back in the cache
  or recreate a deleted user (`CacheMovesForward` and `StaysDeleted` say that
  nothing else does). The old password stays usable in the fallback until the
  next login.
* Selectors of earlier grants stay with the user, since `resetkeys
  resetchannels -@all` does not clear them (`PermissionsOfOneGrant` leaves them
  aside).

## 6. Not modelled

* The text of LDAP filters and DNs: a search matches what the directory says. How
  a user's name becomes part of a filter (`connection.rs:309`) is a part of that
  text, and what a server makes of a bind with an empty password is its own
  affair: both are outside all the modules.
* The reasons for which connecting fails with the server up (certificate and key
  files, TLS, StartTLS): it fails, or succeeds, against a "faulty" server.
* Parsing of URLs and regular expressions and the errors it gives (the callbacks
  return before they change anything), the getters' conversions, and the
  detector's interval, which is only how long a sleep takes.
* A borrower that does not return what it took, in `ConnectionPool`: its tasks
  return in the end, as `run_ldap_op_with_failover` and the detector do when
  nothing panics. The panics are in `LdapContext`.
* What the INFO section and the log messages look like; the version, which is
  computed when the crate is compiled.
* `ldap_bind`, `ldap_search_and_bind`, `search_groups` and the `*_groups`
  functions: no caller uses them.
* That Valkey's `default` user cannot be deleted, and that the server may crash:
  the module keeps nothing on disk.

## 7. Where to go on

1. An abstract specification of an AUTH's operation (it gets one answer, after
   the servers were asked or found away) for `LdapContext` to implement; what
   it would say of safety is now spread over `StatusIsReported` and
   `HealthyHasConnections`, the rest of it is `AuthAnswered`, which is liveness.
2. Were the checks to keep the pool instead of the server id, and
   `update_server_status` to compare the URL with the one it is given, `ListApart`
   and `ListQuiet` should no longer be needed: the theorems of `LdapContext`
   without them are what to prove of such a change.
3. The duplicate-free merge of `OutcomeSound` for lists of any length, with a
   prover that can do the induction.
