--------------------------- MODULE ModuleLifecycle ---------------------------
(***************************************************************************)
(* The life of the module in the server (lib.rs): MODULE LOAD, the         *)
(* commands while it is loaded, MODULE UNLOAD, and loading again with the  *)
(* statics as the last time left them.  Three threads and the runtime meet *)
(* here: the main thread, which runs the handlers and waits for their sync *)
(* tasks (vkldap/mod.rs), the failure detector's (failure_detector.rs) and *)
(* the scheduler's (Scheduler).                                            *)
(*                                                                         *)
(* Of the LDAP context this keeps the two settings, the server list and    *)
(* the lock; pools, connections and statuses are LdapContext's subject.    *)
(* Settings are numbered: 0 is their default (settings.rs), and every      *)
(* other number one value of all the ldap.* options they are made of.      *)
(***************************************************************************)
EXTENDS Scheduler, FiniteSets

CONSTANTS
    Clients,      \* clients that send AUTH
    Values,       \* the values of the LDAP and of the connection settings
    Servers,      \* LDAP servers
    ServerLists,  \* the values of ldap.servers
    MaxDetached   \* bound: detached tasks when a command is accepted

ASSUME LifecycleAssumption ==
    /\ Values \subseteq Nat \ {0}
    /\ ServerLists \subseteq Seq(Servers)
    /\ MaxDetached \in Nat
    /\ {"main", "detector"} \cap Clients = {} /\ IsFiniteSet(Clients)

VARIABLES
    main,      \* the main thread: the module's phase, the steps of its
               \* handler still to do, and what it waits for
    detector,  \* FAILURE_DETECTOR: its thread and the stop flag
    sched,     \* SCHEDULER
    ctx,       \* VK_LDAP_CONTEXT
    config,    \* the ldap.* options
    notified,  \* the waiting threads whose result is there (Notify)
    client,    \* client[c]: "idle", "blocked", or "unblocked" with a reply to make
    logger,    \* the logger's context: "null" or "set"
    answers,   \* the LDAP servers answer, or fail, in time
    replaced,  \* history: CONFIG SET cleared the list under an iteration's checks
    lost       \* history: the settings that did not get the lock at load

vars == <<main, detector, sched, ctx, config, notified, client, logger, answers,
          replaced, lost>>

-----------------------------------------------------------------------------
Settings == {"ldap", "connection"}

NewContext == [ldap |-> 0, connection |-> 0, servers |-> <<>>, lock |-> "free"]

(* The steps of a handler: sync jobs by the name of their task. *)
Step(do, arg) == [do |-> do, arg |-> arg]

SyncJobs == {"reset_context", "clear_server_list", "add_server",
             "get_servers_health_status"} \cup Settings

(* process_server_list *)
ProcessServerList(list) ==
    <<Step("clear_server_list", 0)>>
      \o [i \in DOMAIN list |-> Step("add_server", list[i])]

(* The reset after the settings. *)
InitializerReset_Slip(list) ==
    <<Step("setup_log", 0), Step("start_job_scheduler", 0), Step("start_detector", 0),
      Step("settings_blocking", "ldap"), Step("settings_blocking", "connection"),
      Step("reset_context", 0)>> \o ProcessServerList(list)

(***************************************************************************)
(* initializer.  The options are loaded before it, and find the scheduler  *)
(* not ready.  It becomes ready in the step that starts it.                *)
(***************************************************************************)
Initializer(list) ==
    <<Step("setup_log", 0), Step("start_job_scheduler", 0), Step("start_detector", 0),
      Step("reset_context", 0), Step("settings_blocking", "ldap"),
      Step("settings_blocking", "connection")>> \o ProcessServerList(list)

(* The list cleared under the detector; the scheduler stopped under it. *)
DeinitializerClears_Slip ==
    <<Step("clear_server_list", 0), Step("stop_detector", 0),
      Step("stop_job_scheduler", 0), Step("teardown_log", 0)>>

DeinitializerOrder_Slip ==
    <<Step("stop_job_scheduler", 0), Step("stop_detector", 0), Step("teardown_log", 0)>>

(* deinitializer *)
Deinitializer ==
    <<Step("stop_detector", 0), Step("clear_server_list", 0),
      Step("stop_job_scheduler", 0), Step("teardown_log", 0)>>

-----------------------------------------------------------------------------
Init ==
    /\ main = [phase |-> "unloaded", todo |-> <<>>, waits |-> "no"]
    /\ detector = [thread |-> "none", stop |-> FALSE]
    /\ sched = NewScheduler
    /\ ctx = NewContext
    /\ config \in [ldap : Values, connection : Values, servers : ServerLists]
    /\ notified = {}
    /\ client = [c \in Clients |-> "idle"]
    /\ logger = "null"
    /\ answers = TRUE
    /\ replaced = FALSE
    /\ lost = {}

(* The main thread takes commands and makes replies. *)
MainFree == main.phase = "loaded" /\ main.todo = <<>>

Begins(phase, steps) == main' = [phase |-> phase, todo |-> steps, waits |-> "no"]

At(do) == main.todo # <<>> /\ Head(main.todo).do = do /\ main.waits = "no"

(* The step is done; the last one ends the load or the unload. *)
StepDone ==
    main' = [phase |-> IF Tail(main.todo) # <<>> THEN main.phase
                       ELSE IF main.phase = "unloading" THEN "unloaded" ELSE "loaded",
             todo  |-> Tail(main.todo),
             waits |-> "no"]

-----------------------------------------------------------------------------
(* What the server asks of the module.                                     *)

Load ==
    /\ main.phase = "unloaded"
    /\ config' \in [ldap : Values, connection : Values, servers : ServerLists]
    /\ Begins("loading", Initializer(config'.servers))
    /\ UNCHANGED <<detector, sched, ctx, notified, client, logger, answers, replaced, lost>>

(* MODULE UNLOAD is refused while the module has blocked clients. *)
Unload ==
    /\ MainFree
    /\ \A c \in Clients : client[c] = "idle"
    /\ Begins("unloading", Deinitializer)
    /\ UNCHANGED <<detector, sched, ctx, config, notified, client, logger, answers,
                   replaced, lost>>

(***************************************************************************)
(* refresh_ldap_settings_cache, refresh_connection_settings_cache: the     *)
(* settings are made of all their options as these are after the change.   *)
(***************************************************************************)
RefreshSettingsCache(k) == <<Step(k, config'[k])>>

(* on_ldap_setting_change, on_connection_setting_change *)
SetSetting(k, v) ==
    /\ MainFree
    /\ config' = [config EXCEPT ![k] = v]
    /\ Begins("loaded", RefreshSettingsCache(k))
    /\ UNCHANGED <<detector, sched, ctx, notified, client, logger, answers, replaced, lost>>

(* ldap_server_list_set_callback, with URLs that parse *)
SetServers(list) ==
    /\ MainFree
    /\ sched.detached < MaxDetached
    /\ config' = [config EXCEPT !.servers = list]
    /\ Begins("loaded", ProcessServerList(list))
    /\ UNCHANGED <<detector, sched, ctx, notified, client, logger, answers, replaced, lost>>

(* add_ldap_status_section *)
Info ==
    /\ MainFree
    /\ Begins("loaded", <<Step("get_servers_health_status", 0)>>)
    /\ UNCHANGED <<detector, sched, ctx, config, notified, client, logger, answers,
                   replaced, lost>>

(***************************************************************************)
(* ldap_auth_blocking_callback with servers configured: the client is      *)
(* blocked and the job sent; without a scheduler the result is an error.   *)
(***************************************************************************)
AuthCommand(c) ==
    /\ MainFree
    /\ client[c] = "idle"
    /\ config.servers # <<>>
    /\ sched.detached < MaxDetached
    /\ client' = [client EXCEPT ![c] = IF sched.ready THEN "blocked" ELSE "idle"]
    /\ sched' = IF sched.ready THEN Send(sched, Job(c, "auth", 0)) ELSE sched
    /\ UNCHANGED <<main, detector, ctx, config, notified, logger, answers, replaced, lost>>

(* auth_reply_callback *)
AuthReply(c) ==
    /\ MainFree
    /\ client[c] = "unblocked"
    /\ client' = [client EXCEPT ![c] = "idle"]
    /\ UNCHANGED <<main, detector, sched, ctx, config, notified, logger, answers,
                   replaced, lost>>

-----------------------------------------------------------------------------
(* The steps of the handlers, on the main thread.                          *)

(* An older context of the logger is freed first. *)
SetupLog ==
    /\ At("setup_log")
    /\ logger' = "set"
    /\ StepDone
    /\ UNCHANGED <<detector, sched, ctx, config, notified, client, answers, replaced, lost>>

StartJobScheduler ==
    /\ At("start_job_scheduler")
    /\ sched' = Initialize(sched)
    /\ StepDone
    /\ UNCHANGED <<detector, ctx, config, notified, client, logger, answers, replaced, lost>>

(* The stop flag stays as the last unload left it. *)
StartDetector_Slip(d) == [d EXCEPT !.thread = "sleep"]

(* FailureDetector::start *)
StartDetector(d) == [d EXCEPT !.stop = FALSE, !.thread = "sleep"]

StartFailureDetector ==
    /\ At("start_detector")
    /\ detector' = StartDetector(detector)
    /\ StepDone
    /\ UNCHANGED <<sched, ctx, config, notified, client, logger, answers, replaced, lost>>

(* The result is not waited for. *)
SubmitSyncTask_Slip ==
    /\ \E do \in SyncJobs : At(do)
    /\ sched' = Send(sched, Job("main", Head(main.todo).do, Head(main.todo).arg))
    /\ StepDone
    /\ UNCHANGED <<detector, ctx, config, notified, client, logger, answers, replaced, lost>>

(***************************************************************************)
(* The functions of vkldap/mod.rs: without a scheduler they return at      *)
(* once, with one they send the job and wait for its result.               *)
(***************************************************************************)
SubmitSyncTask ==
    /\ \E do \in SyncJobs : At(do)
    /\ IF sched.ready
       THEN /\ sched' = Send(sched, Job("main", Head(main.todo).do, Head(main.todo).arg))
            /\ main' = [main EXCEPT !.waits = "result"]
       ELSE StepDone /\ UNCHANGED sched
    /\ UNCHANGED <<detector, ctx, config, notified, client, logger, answers, replaced, lost>>

TakeResult ==
    /\ main.waits = "result"
    /\ "main" \in notified
    /\ notified' = notified \ {"main"}
    /\ StepDone
    /\ UNCHANGED <<detector, sched, ctx, config, client, logger, answers, replaced, lost>>

(***************************************************************************)
(* refresh_ldap_settings_blocking, refresh_connection_settings_blocking:   *)
(* try_lock.  When another task has the lock the settings stay unset.      *)
(***************************************************************************)
SettingsBlocking ==
    /\ At("settings_blocking")
    /\ LET k == Head(main.todo).arg
       IN  IF ctx.lock = "free"
           THEN /\ ctx' = [ctx EXCEPT ![k] = config[k]]
                /\ lost' = lost \ {k}
           ELSE /\ lost' = lost \cup {k}
                /\ UNCHANGED ctx
    /\ StepDone
    /\ UNCHANGED <<detector, sched, config, notified, client, logger, answers, replaced>>

(* FailureDetector::shutdown, up to the join *)
StopFailureDetector ==
    /\ At("stop_detector")
    /\ detector' = [detector EXCEPT !.stop = TRUE]
    /\ main' = [main EXCEPT !.waits = "detector"]
    /\ UNCHANGED <<sched, ctx, config, notified, client, logger, answers, replaced, lost>>

(* The thread is not joined. *)
JoinFailureDetector_Slip ==
    /\ main.waits = "detector"
    /\ StepDone
    /\ UNCHANGED <<detector, sched, ctx, config, notified, client, logger, answers,
                   replaced, lost>>

(* A thread that panicked makes the join an error, and the unload end here. *)
JoinFailureDetector ==
    /\ main.waits = "detector"
    /\ detector.thread \in {"ended", "panicked"}
    /\ detector' = [detector EXCEPT !.thread = "none"]
    /\ IF detector.thread = "ended" THEN StepDone ELSE Begins("loaded", <<>>)
    /\ UNCHANGED <<sched, ctx, config, notified, client, logger, answers, replaced, lost>>

(* Scheduler::shutdown; the write lock is held until the join is over. *)
StopJobScheduler ==
    /\ At("stop_job_scheduler")
    /\ sched' = SendShutdown(sched)
    /\ main' = [main EXCEPT !.waits = "scheduler"]
    /\ UNCHANGED <<detector, ctx, config, notified, client, logger, answers, replaced, lost>>

JoinScheduler ==
    /\ main.waits = "scheduler"
    /\ sched.loop = "ended"
    /\ sched' = [sched EXCEPT !.loop = "none"]
    /\ StepDone
    /\ UNCHANGED <<detector, ctx, config, notified, client, logger, answers, replaced, lost>>

TeardownLog ==
    /\ At("teardown_log")
    /\ logger' = "null"
    /\ StepDone
    /\ UNCHANGED <<detector, sched, ctx, config, notified, client, answers, replaced, lost>>

MainStep ==
    \/ SetupLog \/ StartJobScheduler \/ StartFailureDetector \/ SubmitSyncTask
    \/ TakeResult \/ SettingsBlocking \/ StopFailureDetector \/ JoinFailureDetector
    \/ StopJobScheduler \/ JoinScheduler \/ TeardownLog

-----------------------------------------------------------------------------
(* The failure detector's thread.                                          *)

(***************************************************************************)
(* After its sleep it submits an iteration.  get_sender panics without a   *)
(* scheduler, and waits for the one that is being shut down.               *)
(***************************************************************************)
DetectorSubmits ==
    /\ detector.thread = "sleep"
    /\ main.waits # "scheduler"
    /\ detector' = [detector EXCEPT
                      !.thread = IF sched.ready THEN "waiting" ELSE "panicked"]
    /\ sched' = IF sched.ready THEN Send(sched, Job("detector", "iteration", 0))
                ELSE sched
    /\ UNCHANGED <<main, ctx, config, notified, client, logger, answers, replaced, lost>>

(* should_stop is looked at once, after the iteration. *)
DetectorResumes ==
    /\ detector.thread = "waiting"
    /\ "detector" \in notified
    /\ notified' = notified \ {"detector"}
    /\ detector' = [detector EXCEPT !.thread = IF detector.stop THEN "ended" ELSE "sleep"]
    /\ UNCHANGED <<main, sched, ctx, config, client, logger, answers, replaced, lost>>

-----------------------------------------------------------------------------
(* The scheduler's thread and the runtime.  A task is its job, the place   *)
(* it has reached and, for an iteration, the servers still to check.       *)

Task(job) ==
    [from |-> job.from, do |-> job.do, arg |-> job.arg, at |-> "start", left |-> {}]

LoopSpawns ==
    /\ Receives(sched)
    /\ Head(sched.channel) # Shutdown
    /\ sched' = SpawnTask(sched, Task(Head(sched.channel)))
    /\ UNCHANGED <<main, detector, ctx, config, notified, client, logger, answers,
                   replaced, lost>>

(***************************************************************************)
(* The runtime is dropped when no worker is in the middle of a poll.  With *)
(* the task of an AUTH its BlockedClient is dropped, which unblocks the    *)
(* client without a result.                                                *)
(***************************************************************************)
LoopEnds ==
    /\ Receives(sched)
    /\ Head(sched.channel) = Shutdown
    /\ ctx.lock = "free"
    /\ sched' = EndLoop(sched)
    /\ client' = [c \in Clients |-> IF c \in Callers(sched) THEN "unblocked" ELSE client[c]]
    /\ UNCHANGED <<main, detector, ctx, config, notified, logger, answers, replaced, lost>>

Lockable == ctx.lock = "free"

(***************************************************************************)
(* The main thread's tasks, each with the context's lock.  add_server and  *)
(* refresh_connection_settings also connect, with a timeout.  The pools of *)
(* a cleared list are shut down by a detached task.                        *)
(***************************************************************************)
Applied(t) ==
    CASE t.do = "reset_context"             -> NewContext
      [] t.do \in Settings                  -> [ctx EXCEPT ![t.do] = t.arg]
      [] t.do = "clear_server_list"         -> [ctx EXCEPT !.servers = <<>>]
      [] t.do = "add_server"                -> [ctx EXCEPT !.servers = Append(@, t.arg)]
      [] t.do = "get_servers_health_status" -> ctx

RunSyncTask(t) ==
    /\ t.from = "main"
    /\ Lockable
    /\ ctx' = Applied(t)
    /\ sched' = IF t.do = "clear_server_list" THEN Detach(EndTask(sched, t))
                ELSE EndTask(sched, t)
    /\ notified' = notified \cup {"main"}
    /\ lost' = lost \ {t.do}
    /\ replaced' = (replaced \/ /\ t.do = "clear_server_list" /\ main.phase = "loaded"
                                /\ \E u \in sched.tasks : u.left # {})
    /\ UNCHANGED <<main, detector, config, client, logger, answers>>

Moves(t, at, left) ==
    sched' = [sched EXCEPT !.tasks = (@ \ {t}) \cup {[t EXCEPT !.at = at, !.left = left]}]

(* failure_detector_iteration: the snapshot of the list, with the lock. *)
IterationLocks(t) ==
    /\ t.do = "iteration" /\ t.at = "start"
    /\ Lockable
    /\ ctx' = [ctx EXCEPT !.lock = "detector"]
    /\ Moves(t, "locked", {})
    /\ UNCHANGED <<main, detector, config, notified, client, logger, answers, replaced, lost>>

IterationReads(t) ==
    /\ t.do = "iteration" /\ t.at = "locked"
    /\ ctx' = [ctx EXCEPT !.lock = "free"]
    /\ Moves(t, "checking", DOMAIN ctx.servers)
    /\ UNCHANGED <<main, detector, config, notified, client, logger, answers, replaced, lost>>

(***************************************************************************)
(* A check ends when its server answers or fails.  It looks the pool up by *)
(* the server's place in the list: past the end of it that is a panic of   *)
(* the whole iteration, whose callback never runs.  The check of an        *)
(* unhealthy server that cannot be connected to does not look it up.       *)
(***************************************************************************)
IterationChecks(t, i) ==
    /\ t.do = "iteration" /\ t.at = "checking"
    /\ answers
    /\ Lockable
    /\ \/ Moves(t, "checking", t.left \ {i})
       \/ i > Len(ctx.servers) /\ sched' = EndTask(sched, t)
    /\ UNCHANGED <<main, detector, ctx, config, notified, client, logger, answers,
                   replaced, lost>>

(* The callback notifies the detector's thread. *)
IterationEnds(t) ==
    /\ t.do = "iteration" /\ t.at = "checking" /\ t.left = {}
    /\ sched' = EndTask(sched, t)
    /\ notified' = notified \cup {"detector"}
    /\ replaced' = FALSE
    /\ UNCHANGED <<main, detector, ctx, config, client, logger, answers, lost>>

(***************************************************************************)
(* The LDAP operation of an AUTH: its callback unblocks the client, and so *)
(* does a panic, which drops the BlockedClient.  The return of the         *)
(* connection, if it had one, is detached.                                 *)
(***************************************************************************)
RunAuthTask(t) ==
    /\ t.do = "auth"
    /\ answers
    /\ Lockable
    /\ client' = [client EXCEPT ![t.from] = "unblocked"]
    /\ sched' \in {EndTask(sched, t), Detach(EndTask(sched, t))}
    /\ UNCHANGED <<main, detector, ctx, config, notified, logger, answers, replaced, lost>>

DetachedEnds ==
    /\ sched.detached > 0
    /\ Lockable
    /\ sched' = EndDetached(sched)
    /\ UNCHANGED <<main, detector, ctx, config, notified, client, logger, answers,
                   replaced, lost>>

RunTask(t) ==
    \/ RunSyncTask(t) \/ IterationLocks(t) \/ IterationReads(t)
    \/ \E i \in t.left : IterationChecks(t, i)
    \/ IterationEnds(t) \/ RunAuthTask(t)

(* The LDAP servers hang, and come back. *)
ServersChange ==
    /\ answers' = ~answers
    /\ UNCHANGED <<main, detector, sched, ctx, config, notified, client, logger,
                   replaced, lost>>

-----------------------------------------------------------------------------
(***************************************************************************)
(* What valkey_module! registers: the callbacks of load, unload, AUTH and  *)
(* INFO, and of the options that the context depends on.  The other        *)
(* options are read where they are used (LdapAuth); the detector's         *)
(* interval is how long its sleep takes.                                   *)
(***************************************************************************)
Commands ==
    \/ Load \/ Unload \/ Info
    \/ \E k \in Settings, v \in Values : SetSetting(k, v)
    \/ \E list \in ServerLists : SetServers(list)
    \/ \E c \in Clients : AuthCommand(c) \/ AuthReply(c)

Next ==
    \/ Commands \/ MainStep
    \/ DetectorSubmits \/ DetectorResumes
    \/ LoopSpawns \/ LoopEnds \/ (\E t \in sched.tasks : RunTask(t)) \/ DetachedEnds
    \/ ServersChange

(***************************************************************************)
(* The threads go on and the runtime polls its tasks.  Nothing is assumed  *)
(* of what is asked of the module, nor of the LDAP servers.  Strong        *)
(* fairness of a task: the context's lock, never held across an await, is  *)
(* first come first served.                                                *)
(***************************************************************************)
Fairness ==
    /\ WF_vars(MainStep)
    /\ WF_vars(DetectorSubmits) /\ WF_vars(DetectorResumes)
    /\ WF_vars(LoopSpawns) /\ WF_vars(LoopEnds)
    /\ \A f \in {"main", "detector"} \cup Clients :
         SF_vars(\E t \in sched.tasks : t.from = f /\ RunTask(t))

Spec == Init /\ [][Next]_vars /\ Fairness

-----------------------------------------------------------------------------
(* The threads that wait for a job's callback. *)
Waiting ==
    {f \in {"main"} : main.waits = "result"}
      \cup {f \in {"detector"} : detector.thread = "waiting"}
      \cup {c \in Clients : client[c] = "blocked"}

(***************************************************************************)
(* The types of the variables; a sender has one job at a time.             *)
(***************************************************************************)
TypeOK ==
    /\ main.phase \in {"unloaded", "loading", "loaded", "unloading"}
    /\ main.waits \in {"no", "result", "detector", "scheduler"}
    /\ detector \in [thread : {"none", "sleep", "waiting", "ended", "panicked"},
                     stop : BOOLEAN]
    /\ sched.ready \in BOOLEAN /\ sched.loop \in {"none", "running", "ended"}
    /\ sched.detached \in 0..(MaxDetached + Cardinality(Clients) + 2)
    /\ Len(sched.channel) + Cardinality(sched.tasks) = Cardinality(Callers(sched))
    /\ ctx.ldap \in Values \cup {0} /\ ctx.connection \in Values \cup {0}
    /\ ctx.lock \in {"free", "detector"}
    /\ config \in [ldap : Values, connection : Values, servers : ServerLists]
    /\ notified \subseteq {"main", "detector"}
    /\ client \in [Clients -> {"idle", "blocked", "unblocked"}]
    /\ logger \in {"null", "set"} /\ lost \subseteq Settings
    /\ answers \in BOOLEAN /\ replaced \in BOOLEAN

(***************************************************************************)
(* lib.rs, deinitializer.  An unloaded module has left nothing behind that *)
(* runs its code or uses its memory: no thread, no task, no job, nothing   *)
(* locked, no logging context, no client without a reply.                  *)
(***************************************************************************)
NothingOutlivesUnload ==
    main.phase = "unloaded" =>
        /\ detector.thread = "none"
        /\ sched = NewScheduler
        /\ ctx.lock = "free" /\ ctx.servers = <<>>
        /\ notified = {}
        /\ logger = "null"
        /\ \A c \in Clients : client[c] = "idle"

(***************************************************************************)
(* submit_sync_task waits without a timeout.  Whoever waits for a result,  *)
(* the main thread, the detector's or a blocked client, has a job on its   *)
(* way or a result to take, whatever is stopped in between.  The exception *)
(* is the detector when the list was replaced under its iteration, which   *)
(* may then panic.                                                         *)
(***************************************************************************)
NoOrphanedCaller ==
    Waiting \subseteq Callers(sched) \cup notified \cup {f \in {"detector"} : replaced}

(***************************************************************************)
(* Between commands the context has what the options say: the settings of  *)
(* the last load or CONFIG SET and the whole server list.  Settings that   *)
(* did not get the lock at load have their defaults until they are set.    *)
(***************************************************************************)
SettingsCurrent ==
    MainFree =>
        /\ ctx.servers = config.servers
        /\ \A k \in Settings : ctx[k] = IF k \in lost THEN 0 ELSE config[k]

(***************************************************************************)
(* MODULE UNLOAD, which keeps the whole server waiting, ends when the LDAP *)
(* servers answer and no CONFIG SET has replaced the list under an         *)
(* iteration of the detector.                                              *)
(***************************************************************************)
UnloadEnds ==
    <>[]answers => (main.phase = "unloading" ~> main.phase = "unloaded" \/ replaced)

(***************************************************************************)
(* README.md, ldap.failure_detector_interval: while the module is loaded,  *)
(* for the first time or again, the servers answer and the list is not     *)
(* replaced under an iteration, the detector iterates for ever.            *)
(***************************************************************************)
DetectorKeepsRunning ==
    <>[](main.phase = "loaded" /\ answers /\ ~replaced)
      => []<>(detector.thread = "waiting") /\ []<>(detector.thread = "sleep")
=============================================================================
