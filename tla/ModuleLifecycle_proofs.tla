----------------------- MODULE ModuleLifecycle_proofs ------------------------
(***************************************************************************)
(* Proofs about ModuleLifecycle, for every set of clients, every list of   *)
(* servers and all settings, and for any number of loads and unloads.      *)
(***************************************************************************)
EXTENDS ModuleLifecycle, SequenceTheorems, FunctionTheorems, FiniteSetTheorems, TLAPS

-----------------------------------------------------------------------------
(* The types of the parts.                                                 *)

Phases == {"unloaded", "loading", "loaded", "unloading"}

Dos == SyncJobs \cup {"setup_log", "start_job_scheduler", "start_detector",
                      "settings_blocking", "stop_detector", "stop_job_scheduler",
                      "teardown_log", "auth", "iteration", "shutdown"}

Args == {0} \cup Settings \cup Values \cup Servers

Steps == [do : Dos, arg : Args]

Senders == {"main", "detector"} \cup Clients

Jobs == [from : Senders, do : Dos, arg : Args]

Tasks == [from : Senders, do : Dos, arg : Args,
          at : {"start", "locked", "checking"}, left : SUBSET Nat]

Schedulers == [ready : BOOLEAN, loop : {"none", "running", "ended"},
               channel : Seq(Jobs), tasks : SUBSET Tasks, detached : Nat]

Contexts == [ldap : Values \cup {0}, connection : Values \cup {0},
             servers : Seq(Servers), lock : {"free", "detector"}]

Configs == [ldap : Values, connection : Values, servers : ServerLists]

Mains == [phase : Phases, todo : Seq(Steps),
          waits : {"no", "result", "detector", "scheduler"}]

Types ==
    /\ main \in Mains
    /\ detector \in [thread : {"none", "sleep", "waiting", "ended"}, stop : BOOLEAN]
    /\ sched \in Schedulers
    /\ ctx \in Contexts
    /\ config \in Configs
    /\ notified \subseteq {"main", "detector"}
    /\ client \in [Clients -> {"idle", "blocked", "unblocked"}]
    /\ logger \in {"null", "set"} /\ lost \subseteq Settings
    /\ answers \in BOOLEAN /\ replaced \in BOOLEAN

-----------------------------------------------------------------------------
(***************************************************************************)
(* The inductive invariant.                                                *)
(*                                                                         *)
(* What is true of the scheduler, the detector and the context depends on  *)
(* how far the main thread's handler has come: Control says what may be    *)
(* left of a handler, and the other parts are read off its next step.      *)
(***************************************************************************)

(* todo is what is left of the steps. *)
Left(steps, todo) ==
    /\ Len(todo) <= Len(steps)
    /\ \A i \in 1..Len(todo) : todo[i] = steps[Len(steps) - Len(todo) + i]

(* A length.  The provers take Len(s) = 1 for a statement about domains. *)
Count(s) == Len(s)

NextIs(dos) == Count(main.todo) > 0 /\ Head(main.todo).do \in dos

ControlOf(m, c) ==
    /\ m.phase = "unloaded" => Count(m.todo) = 0
    /\ m.phase = "loading" => Count(m.todo) > 0 /\ Left(Initializer(c.servers), m.todo)
    /\ m.phase = "loaded" =>
         \/ m.todo = <<Step("get_servers_health_status", 0)>>
         \/ \E k \in Settings : m.todo = <<Step(k, c[k])>>
         \/ Left(ProcessServerList(c.servers), m.todo)
    /\ m.phase = "unloading" => Count(m.todo) > 0 /\ Left(Deinitializer, m.todo)

Control ==
    /\ ControlOf(main, config)
    /\ main.waits = "result" => NextIs(SyncJobs)
    /\ main.waits = "detector" => NextIs({"stop_detector"})
    /\ main.waits = "scheduler" => NextIs({"stop_job_scheduler"})

(* The scheduler takes jobs. *)
SchedulerUp ==
    \/ main.phase = "loaded"
    \/ main.phase = "loading" /\ ~NextIs({"setup_log", "start_job_scheduler"})
    \/ main.phase = "unloading" /\ NextIs({"stop_detector", "clear_server_list"})
    \/ main.phase = "unloading" /\ NextIs({"stop_job_scheduler"}) /\ main.waits = "no"

SchedulerInv ==
    /\ SchedulerUp => /\ sched.ready /\ sched.loop = "running"
                      /\ Shutdown \notin ToSet(sched.channel)
    /\ main.waits = "scheduler" =>
         /\ ~sched.ready
         /\ \/ sched.loop = "running" /\ Shutdown \in ToSet(sched.channel)
            \/ sched = [NewScheduler EXCEPT !.loop = "ended"]
    /\ ~SchedulerUp /\ main.waits # "scheduler" => sched = NewScheduler

DetectorInv ==
    detector.thread # "none" =>
        \/ main.phase = "loaded"
        \/ /\ main.phase = "loading"
           /\ ~NextIs({"setup_log", "start_job_scheduler", "start_detector"})
        \/ main.phase = "unloading" /\ NextIs({"stop_detector"})

(* A job is the one its sender waits for. *)
Expects(job) ==
    /\ job.from = "main" =>
         \/ job = Shutdown /\ main.waits = "scheduler"
         \/ /\ main.waits = "result" /\ "main" \notin notified
            /\ job.do = Head(main.todo).do /\ job.arg = Head(main.todo).arg
    /\ job.from = "detector" =>
         /\ job.do = "iteration"
         /\ detector.thread = "waiting" /\ "detector" \notin notified
    /\ job.from \in Clients => job.do = "auth" /\ client[job.from] = "blocked"

OneJobEach(s) ==
    /\ \A i, j \in DOMAIN s.channel : s.channel[i].from = s.channel[j].from => i = j
    /\ \A t, u \in s.tasks : t.from = u.from => t = u
    /\ \A job \in ToSet(s.channel), t \in s.tasks : job.from # t.from

JobsInv ==
    /\ \A job \in ToSet(sched.channel) : Expects(job)
    /\ \A t \in sched.tasks : Expects(t) /\ t.do # "shutdown"
    /\ OneJobEach(sched)

NotifiedInv ==
    /\ "main" \in notified => main.waits = "result"
    /\ "detector" \in notified => detector.thread = "waiting"

ClientsInv == main.phase # "loaded" => \A c \in Clients : client[c] = "idle"

(* A check looks up a server that is there, unless the list was replaced. *)
TasksInv ==
    \A t \in sched.tasks :
        /\ t.at = "start" => t.left = {}
        /\ t.left # {} => t.do = "iteration"
        /\ ~replaced => t.left \subseteq DOMAIN ctx.servers

LockInv ==
    ctx.lock = "detector" =>
        \E t \in sched.tasks : t.do = "iteration" /\ t.at = "locked"

(* How many steps have yet to take effect. *)
Due == IF "main" \in notified THEN Count(main.todo) - 1 ELSE Count(main.todo)

ListedUpTo(n) ==
    /\ Count(ctx.servers) = n
    /\ \A i \in 1..n : ctx.servers[i] = config.servers[i]

(* The server list, on its way to what the option says. *)
ServersInv ==
    LET all == Count(config.servers)
        lists == Count(main.todo) = 0 \/ NextIs({"clear_server_list", "add_server"})
    IN  /\ main.phase = "unloaded" => Count(ctx.servers) = 0
        /\ main.phase = "loading" /\ ~lists => Count(ctx.servers) = 0
        /\ main.phase = "loading" /\ lists /\ Due > all => Count(ctx.servers) = 0
        /\ main.phase \in {"loading", "loaded"} /\ lists /\ Due <= all
             => ListedUpTo(all - Due)
        /\ main.phase = "loaded" /\ ~lists => ctx.servers = config.servers
        /\ main.phase = "unloading" =>
             \/ NextIs({"stop_detector"})
             \/ NextIs({"clear_server_list"}) /\ "main" \notin notified
             \/ Count(ctx.servers) = 0

Current(k) == ctx[k] = IF k \in lost THEN 0 ELSE config[k]

Default(k) == ctx[k] = 0

SettingsInv ==
    /\ main.phase = "loading" =>
         /\ NextIs({"reset_context"}) /\ "main" \in notified
              => \A k \in Settings : Default(k)
         /\ NextIs({"settings_blocking"}) /\ Head(main.todo).arg = "ldap"
              => \A k \in Settings : Default(k)
         /\ NextIs({"settings_blocking"}) /\ Head(main.todo).arg = "connection"
              => Current("ldap") /\ Default("connection")
         /\ NextIs({"clear_server_list", "add_server"}) => \A k \in Settings : Current(k)
    /\ main.phase = "loaded" =>
         \A k \in Settings : Current(k) \/ (NextIs({k}) /\ "main" \notin notified)

Blocked == {c \in Clients : client[c] = "blocked"}

(* A handler that clears the list detaches one task more. *)
RoomInv ==
    LET room == MaxDetached + Cardinality(Clients) + 1
        toClear == NextIs({"clear_server_list"}) /\ "main" \notin notified
    IN  /\ main.phase = "loading" =>
             sched.detached <= IF NextIs({"add_server"})
                                    \/ (NextIs({"clear_server_list"}) /\ ~toClear)
                               THEN 1 ELSE 0
        /\ main.phase = "loaded" =>
             sched.detached + Cardinality(Blocked) <= IF toClear THEN room - 1 ELSE room
        /\ main.phase = "unloading" =>
             sched.detached <= IF NextIs({"stop_detector"}) \/ toClear THEN room ELSE room + 1

LoggerInv == main.phase = "unloaded" => logger = "null"

IInv ==
    /\ Types /\ Control /\ SchedulerInv /\ DetectorInv /\ JobsInv /\ NotifiedInv
    /\ ClientsInv /\ TasksInv /\ LockInv /\ ServersInv /\ SettingsInv /\ RoomInv
    /\ LoggerInv /\ NoOrphanedCaller

-----------------------------------------------------------------------------
(* The steps of the handlers, by their places.                             *)

LEMMA Names ==
    /\ {"setup_log", "start_job_scheduler", "start_detector", "settings_blocking",
        "stop_detector", "stop_job_scheduler", "teardown_log"} \subseteq Dos
    /\ SyncJobs \subseteq Dos
    /\ {"reset_context", "clear_server_list", "add_server", "get_servers_health_status",
        "ldap", "connection"} = SyncJobs
    /\ {0, "ldap", "connection"} \subseteq Args
    /\ Servers \subseteq Args /\ Values \subseteq Args
BY DEF Dos, Args, SyncJobs, Settings

LEMMA StepType ==
    ASSUME NEW do \in Dos, NEW arg \in Args
    PROVE  Step(do, arg) \in Steps /\ Step(do, arg).do = do /\ Step(do, arg).arg = arg
BY DEF Step, Steps

LEMMA ConcatPlaces ==
    ASSUME NEW S, NEW s \in Seq(S), NEW t \in Seq(S)
    PROVE  /\ s \o t \in Seq(S) /\ Len(s \o t) = Len(s) + Len(t)
           /\ \A i \in 1..Len(s) : (s \o t)[i] = s[i]
           /\ \A i \in 1..Len(t) : (s \o t)[Len(s) + i] = t[i]
<1>1. Len(s) \in Nat /\ Len(t) \in Nat
  OBVIOUS
<1>2. /\ s \o t \in Seq(S) /\ Len(s \o t) = Len(s) + Len(t)
      /\ \A i \in 1..Len(s) + Len(t) : (s \o t)[i] =
           IF i <= Len(s) THEN s[i] ELSE t[i - Len(s)]
  BY ConcatProperties
<1>3. \A i \in 1..Len(s) : (s \o t)[i] = s[i]
  BY <1>1, <1>2
<1>4. ASSUME NEW i \in 1..Len(t) PROVE (s \o t)[Len(s) + i] = t[i]
  <2>1. /\ Len(s) + i \in 1..Len(s) + Len(t) /\ ~(Len(s) + i <= Len(s))
        /\ (Len(s) + i) - Len(s) = i
    BY <1>1
  <2> QED BY <1>2, <2>1
<1> QED BY <1>2, <1>3, <1>4

LEMMA ListSteps ==
    ASSUME NEW list \in Seq(Servers)
    PROVE  /\ ProcessServerList(list) \in Seq(Steps)
           /\ Len(ProcessServerList(list)) = Len(list) + 1
           /\ ProcessServerList(list)[1] = Step("clear_server_list", 0)
           /\ \A i \in 1..Len(list) :
                ProcessServerList(list)[i + 1] = Step("add_server", list[i])
<1> DEFINE adds == [i \in DOMAIN list |-> Step("add_server", list[i])]
           first == <<Step("clear_server_list", 0)>>
<1>1. Len(list) \in Nat /\ DOMAIN list = 1..Len(list)
  OBVIOUS
<1>2. \A i \in 1..Len(list) : Step("add_server", list[i]) \in Steps
  <2>1. "add_server" \in Dos /\ \A i \in 1..Len(list) : list[i] \in Args
    BY <1>1, Names
  <2> QED BY <2>1, StepType
<1>3. adds \in [1..Len(list) -> Steps]
  BY <1>1, <1>2
<1>4. adds \in Seq(Steps) /\ Len(adds) = Len(list)
  <2> HIDE DEF adds
  <2>1. adds \in Seq(Steps)
    BY <1>1, <1>3, SeqDef
  <2> QED BY <1>1, <1>3, <2>1, LenProperties
<1>5. first \in Seq(Steps) /\ Len(first) = 1 /\ first[1] = Step("clear_server_list", 0)
  <2>1. Step("clear_server_list", 0) \in Steps
    BY StepType, Names
  <2> QED BY <2>1
<1>6. \A i \in 1..Len(list) : adds[i] = Step("add_server", list[i])
  BY <1>1
<1> HIDE DEF adds, first
<1>7. /\ first \o adds \in Seq(Steps) /\ Len(first \o adds) = Len(first) + Len(adds)
      /\ \A i \in 1..Len(first) : (first \o adds)[i] = first[i]
      /\ \A i \in 1..Len(adds) : (first \o adds)[Len(first) + i] = adds[i]
  BY <1>4, <1>5, ConcatPlaces
<1>8. ProcessServerList(list) = first \o adds
  BY DEF ProcessServerList, first, adds
<1>9. (first \o adds)[1] = Step("clear_server_list", 0)
  BY <1>5, <1>7
<1>10. ASSUME NEW i \in 1..Len(list)
       PROVE  (first \o adds)[i + 1] = Step("add_server", list[i])
  <2>1. i \in 1..Len(adds) /\ Len(first) + i = i + 1
    BY <1>1, <1>4, <1>5
  <2> QED BY <1>6, <1>7, <2>1
<1>11. Len(first \o adds) = Len(list) + 1
  BY <1>1, <1>4, <1>5, <1>7
<1> QED BY <1>7, <1>8, <1>9, <1>10, <1>11

LEMMA InitializerSteps ==
    ASSUME NEW list \in Seq(Servers)
    PROVE  LET L == Initializer(list)
           IN  /\ L \in Seq(Steps) /\ Len(L) = Len(list) + 7
               /\ L[1] = Step("setup_log", 0)
               /\ L[2] = Step("start_job_scheduler", 0)
               /\ L[3] = Step("start_detector", 0)
               /\ L[4] = Step("reset_context", 0)
               /\ L[5] = Step("settings_blocking", "ldap")
               /\ L[6] = Step("settings_blocking", "connection")
               /\ L[7] = Step("clear_server_list", 0)
               /\ \A i \in 1..Len(list) : L[i + 7] = Step("add_server", list[i])
<1> DEFINE first == <<Step("setup_log", 0), Step("start_job_scheduler", 0),
                      Step("start_detector", 0), Step("reset_context", 0),
                      Step("settings_blocking", "ldap"),
                      Step("settings_blocking", "connection")>>
           rest == ProcessServerList(list)
<1>1. /\ Step("setup_log", 0) \in Steps /\ Step("start_job_scheduler", 0) \in Steps
      /\ Step("start_detector", 0) \in Steps /\ Step("reset_context", 0) \in Steps
      /\ Step("settings_blocking", "ldap") \in Steps
      /\ Step("settings_blocking", "connection") \in Steps
  BY StepType, Names
<1>2. /\ first \in Seq(Steps) /\ Len(first) = 6
      /\ first[1] = Step("setup_log", 0) /\ first[2] = Step("start_job_scheduler", 0)
      /\ first[3] = Step("start_detector", 0) /\ first[4] = Step("reset_context", 0)
      /\ first[5] = Step("settings_blocking", "ldap")
      /\ first[6] = Step("settings_blocking", "connection")
  BY <1>1
<1>3. /\ rest \in Seq(Steps) /\ Len(rest) = Len(list) + 1 /\ Len(list) \in Nat
      /\ rest[1] = Step("clear_server_list", 0)
      /\ \A i \in 1..Len(list) : rest[i + 1] = Step("add_server", list[i])
  BY ListSteps
<1>4. Initializer(list) = first \o rest
  BY DEF Initializer
<1> HIDE DEF first, rest
<1>5. /\ first \o rest \in Seq(Steps) /\ Len(first \o rest) = Len(first) + Len(rest)
      /\ \A i \in 1..Len(first) : (first \o rest)[i] = first[i]
      /\ \A i \in 1..Len(rest) : (first \o rest)[Len(first) + i] = rest[i]
  <2>1. first \in Seq(Steps) /\ rest \in Seq(Steps)
    BY <1>2, <1>3
  <2> QED BY <2>1, ConcatPlaces
<1>6. \A i \in 1..6 : (first \o rest)[i] = first[i]
  BY <1>2, <1>5
<1>7. Len(first \o rest) = Len(list) + 7
  BY <1>2, <1>3, <1>5
<1>8. (first \o rest)[7] = rest[1]
  <2>1. 1 \in 1..Len(rest) /\ Len(first) + 1 = 7
    BY <1>2, <1>3
  <2> QED BY <1>5, <2>1
<1>9. ASSUME NEW i \in 1..Len(list)
      PROVE  (first \o rest)[i + 7] = rest[i + 1]
  <2>1. i + 1 \in 1..Len(rest) /\ Len(first) + (i + 1) = i + 7
    BY <1>2, <1>3
  <2> QED BY <1>5, <2>1
<1>10. /\ (first \o rest)[1] = first[1] /\ (first \o rest)[2] = first[2]
       /\ (first \o rest)[3] = first[3] /\ (first \o rest)[4] = first[4]
       /\ (first \o rest)[5] = first[5] /\ (first \o rest)[6] = first[6]
  <2> DEFINE whole == first \o rest
  <2>1. \A i \in 1..6 : whole[i] = first[i]
    BY <1>6
  <2> HIDE DEF whole
  <2>2. /\ whole[1] = first[1] /\ whole[2] = first[2] /\ whole[3] = first[3]
        /\ whole[4] = first[4] /\ whole[5] = first[5] /\ whole[6] = first[6]
    BY <2>1
  <2> QED BY <2>2 DEF whole
<1>11. \A i \in 1..Len(list) : (first \o rest)[i + 7] = Step("add_server", list[i])
  BY <1>3, <1>9
<1>12. /\ (first \o rest)[1] = Step("setup_log", 0)
       /\ (first \o rest)[2] = Step("start_job_scheduler", 0)
       /\ (first \o rest)[3] = Step("start_detector", 0)
       /\ (first \o rest)[4] = Step("reset_context", 0)
       /\ (first \o rest)[5] = Step("settings_blocking", "ldap")
       /\ (first \o rest)[6] = Step("settings_blocking", "connection")
       /\ (first \o rest)[7] = Step("clear_server_list", 0)
  BY <1>2, <1>3, <1>8, <1>10
<1> HIDE DEF first, rest
<1> QED BY <1>4, <1>5, <1>7, <1>11, <1>12, Zenon

LEMMA DeinitializerSteps ==
    /\ Deinitializer \in Seq(Steps) /\ Len(Deinitializer) = 4
    /\ Deinitializer[1] = Step("stop_detector", 0)
    /\ Deinitializer[2] = Step("clear_server_list", 0)
    /\ Deinitializer[3] = Step("stop_job_scheduler", 0)
    /\ Deinitializer[4] = Step("teardown_log", 0)
<1>1. /\ Step("stop_detector", 0) \in Steps /\ Step("clear_server_list", 0) \in Steps
      /\ Step("stop_job_scheduler", 0) \in Steps /\ Step("teardown_log", 0) \in Steps
  BY StepType, Names
<1> QED BY <1>1 DEF Deinitializer

(* The next step is the first of what is left, and the rest stays left. *)
LEMMA LeftFacts ==
    ASSUME NEW steps \in Seq(Steps), NEW todo \in Seq(Steps), Len(todo) > 0,
           Left(steps, todo)
    PROVE  /\ Len(todo) \in 1..Len(steps)
           /\ Head(todo) = steps[Len(steps) - Len(todo) + 1]
           /\ Tail(todo) \in Seq(Steps) /\ Len(Tail(todo)) = Len(todo) - 1
           /\ Left(steps, Tail(todo))
<1>1. Len(todo) \in Nat \ {0} /\ Len(steps) \in Nat /\ Head(todo) = todo[1]
  BY EmptySeq
<1>2. /\ Tail(todo) \in Seq(Steps) /\ Len(Tail(todo)) = Len(todo) - 1
      /\ \A i \in 1..Len(Tail(todo)) : Tail(todo)[i] = todo[i + 1]
  BY HeadTailProperties
<1>3. ASSUME NEW i \in 1..Len(Tail(todo))
      PROVE  Tail(todo)[i] = steps[Len(steps) - Len(Tail(todo)) + i]
  <2>1. i + 1 \in 1..Len(todo) /\ Tail(todo)[i] = todo[i + 1]
    BY <1>1, <1>2
  <2>2. todo[i + 1] = steps[Len(steps) - Len(todo) + (i + 1)]
    BY <2>1 DEF Left
  <2>3. Len(steps) - Len(todo) + (i + 1) = Len(steps) - Len(Tail(todo)) + i
    BY <1>1, <1>2
  <2> QED BY <2>1, <2>2, <2>3
<1>4. Len(todo) \in 1..Len(steps) /\ todo[1] = steps[Len(steps) - Len(todo) + 1]
  BY <1>1 DEF Left
<1>5. Left(steps, Tail(todo))
  BY <1>1, <1>2, <1>3, <1>4 DEF Left
<1> QED BY <1>1, <1>2, <1>4, <1>5

LEMMA LeftAll ==
    ASSUME NEW steps \in Seq(Steps)
    PROVE  Left(steps, steps) /\ \A none : Len(none) = 0 => Left(steps, none)
<1>1. Len(steps) \in Nat /\ \A i \in 1..Len(steps) : Len(steps) - Len(steps) + i = i
  OBVIOUS
<1> QED BY <1>1 DEF Left

LEMMA EmptyCount ==
    ASSUME NEW S, NEW s \in Seq(S)
    PROVE  Count(s) \in Nat /\ (s = <<>> <=> Count(s) = 0) /\ (s # <<>> <=> Count(s) > 0)
<1>1. Count(s) \in Nat
  BY DEF Count
<1>2. s = <<>> => Count(s) = 0
  <2>1. Len(<<>>) = 0
    OBVIOUS
  <2> QED BY <2>1, Zenon DEF Count
<1>3. s # <<>> => Len(s) \in Nat \ {0}
  BY EmptySeq
<1>4. s = <<>> <=> Count(s) = 0
  BY <1>2, <1>3, Zenon DEF Count
<1>5. Count(s) > 0 <=> Count(s) # 0
  BY <1>1
<1> QED BY <1>1, <1>4, <1>5, Zenon

LEMMA CountOne ==
    ASSUME NEW s, NEW x, s = <<x>>
    PROVE  Count(s) = 1 /\ Head(s) = x
<1>1. Len(<<x>>) = 1 /\ Head(<<x>>) = x
  OBVIOUS
<1> QED BY <1>1, Zenon DEF Count

LEMMA CountTail ==
    ASSUME NEW S, NEW s \in Seq(S), Count(s) > 0
    PROVE  /\ Count(s) \in Nat /\ Tail(s) \in Seq(S) /\ Count(Tail(s)) = Count(s) - 1
           /\ Count(Tail(s)) \in Nat
<1>1. s # <<>>
  BY EmptyCount, Zenon
<1>2. Tail(s) \in Seq(S) /\ Len(Tail(s)) = Len(s) - 1
  BY <1>1, HeadTailProperties
<1> QED BY <1>2, EmptyCount DEF Count

(***************************************************************************)
(* Where a handler is, by the number of steps it still has to do.          *)
(***************************************************************************)
Place(todo, do) == Count(todo) > 0 /\ Head(todo).do = do

ListPlace(list, todo) ==
    \/ Count(todo) = Count(list) + 1 /\ Place(todo, "clear_server_list")
    \/ /\ Count(todo) <= Count(list) /\ Place(todo, "add_server")
       /\ Head(todo).arg = list[Count(list) - Count(todo) + 1]

LoadPlace(list, todo) ==
    \/ Count(todo) = Count(list) + 7 /\ Place(todo, "setup_log")
    \/ Count(todo) = Count(list) + 6 /\ Place(todo, "start_job_scheduler")
    \/ Count(todo) = Count(list) + 5 /\ Place(todo, "start_detector")
    \/ Count(todo) = Count(list) + 4 /\ Place(todo, "reset_context")
    \/ /\ Count(todo) = Count(list) + 3 /\ Place(todo, "settings_blocking")
       /\ Head(todo).arg = "ldap"
    \/ /\ Count(todo) = Count(list) + 2 /\ Place(todo, "settings_blocking")
       /\ Head(todo).arg = "connection"
    \/ ListPlace(list, todo)

UnloadPlace(todo) ==
    \/ Count(todo) = 4 /\ Place(todo, "stop_detector")
    \/ Count(todo) = 3 /\ Place(todo, "clear_server_list")
    \/ Count(todo) = 2 /\ Place(todo, "stop_job_scheduler")
    \/ Count(todo) = 1 /\ Place(todo, "teardown_log")

PlaceOf(m, c) ==
    /\ m.phase = "unloaded" => Count(m.todo) = 0
    /\ m.phase = "loading" => LoadPlace(c.servers, m.todo)
    /\ m.phase = "loaded" =>
         \/ Count(m.todo) = 0
         \/ Count(m.todo) = 1 /\ Place(m.todo, "get_servers_health_status")
         \/ \E k \in Settings :
              Count(m.todo) = 1 /\ Place(m.todo, k) /\ Head(m.todo).arg = c[k]
         \/ ListPlace(c.servers, m.todo)
    /\ m.phase = "unloading" => UnloadPlace(m.todo)

LEMMA StepFields ==
    ASSUME NEW do, NEW arg
    PROVE  Step(do, arg).do = do /\ Step(do, arg).arg = arg
BY DEF Step

LEMMA ListPlaces ==
    ASSUME NEW list \in Seq(Servers), NEW todo \in Seq(Steps), Count(todo) > 0,
           Left(ProcessServerList(list), todo)
    PROVE  ListPlace(list, todo)
<1> DEFINE L == ProcessServerList(list)
           m == Count(todo)
           n == Count(list)
<1>1. n \in Nat /\ L \in Seq(Steps) /\ Count(L) = n + 1 /\ L[1] = Step("clear_server_list", 0)
  BY ListSteps DEF Count
<1>2. \A i \in 1..n : L[i + 1] = Step("add_server", list[i])
  BY ListSteps DEF Count
<1>3. m \in 1..n + 1 /\ Head(todo) = L[(n + 1) - m + 1]
  BY <1>1, LeftFacts DEF Count
<1> HIDE DEF L
<1>4. CASE m = n + 1
  <2>1. (n + 1) - m + 1 = 1
    BY <1>1, <1>4
  <2>2. Head(todo) = Step("clear_server_list", 0)
    BY <1>1, <1>3, <2>1
  <2> QED BY <1>4, <2>2, StepFields DEF ListPlace, Place
<1>5. CASE m <= n
  <2> DEFINE i == n - m + 1
  <2>1. i \in 1..n /\ (n + 1) - m + 1 = i + 1
    BY <1>1, <1>3, <1>5
  <2>2. Head(todo) = Step("add_server", list[i])
    BY <1>2, <1>3, <2>1
  <2> QED BY <1>5, <2>2, StepFields DEF ListPlace, Place
<1> QED BY <1>1, <1>3, <1>4, <1>5

LEMMA LoadPlaces ==
    ASSUME NEW list \in Seq(Servers), NEW todo \in Seq(Steps), Count(todo) > 0,
           Left(Initializer(list), todo)
    PROVE  LoadPlace(list, todo)
<1> DEFINE L == Initializer(list)
           m == Count(todo)
           n == Count(list)
<1>1. /\ n \in Nat /\ L \in Seq(Steps) /\ Count(L) = n + 7
      /\ L[1] = Step("setup_log", 0) /\ L[2] = Step("start_job_scheduler", 0)
      /\ L[3] = Step("start_detector", 0) /\ L[4] = Step("reset_context", 0)
      /\ L[5] = Step("settings_blocking", "ldap")
      /\ L[6] = Step("settings_blocking", "connection")
      /\ L[7] = Step("clear_server_list", 0)
  BY InitializerSteps DEF Count
<1>2. \A i \in 1..n : L[i + 7] = Step("add_server", list[i])
  BY InitializerSteps DEF Count
<1>3. m \in 1..n + 7 /\ Head(todo) = L[(n + 7) - m + 1]
  BY <1>1, LeftFacts DEF Count
<1> HIDE DEF L
<1>4. CASE m > n
  <2> DEFINE j == (n + 7) - m + 1
  <2>1. j \in 1..7 /\ m = n + 8 - j
    <3>1. n \in Nat /\ m \in 1..n + 7 /\ m > n
      BY <1>1, <1>3, <1>4
    <3> HIDE DEF n, m
    <3> QED BY <3>1
  <2>2. Head(todo) = L[j]
    BY <1>3
  <2> HIDE DEF j
  <2>3. \/ m = n + 7 /\ Head(todo) = Step("setup_log", 0)
        \/ m = n + 6 /\ Head(todo) = Step("start_job_scheduler", 0)
        \/ m = n + 5 /\ Head(todo) = Step("start_detector", 0)
        \/ m = n + 4 /\ Head(todo) = Step("reset_context", 0)
        \/ m = n + 3 /\ Head(todo) = Step("settings_blocking", "ldap")
        \/ m = n + 2 /\ Head(todo) = Step("settings_blocking", "connection")
        \/ m = n + 1 /\ Head(todo) = Step("clear_server_list", 0)
    <3>1. \/ j = 1 /\ m = n + 7
          \/ j = 2 /\ m = n + 6
          \/ j = 3 /\ m = n + 5
          \/ j = 4 /\ m = n + 4
          \/ j = 5 /\ m = n + 3
          \/ j = 6 /\ m = n + 2
          \/ j = 7 /\ m = n + 1
      <4>1. n \in Nat
        BY <1>1
      <4>2. j \in {1, 2, 3, 4, 5, 6, 7}
        BY <2>1
      <4>3. m = n + 8 - j
        BY <2>1
      <4> HIDE DEF n, m
      <4> QED BY <4>1, <4>2, <4>3
    <3> QED BY <1>1, <2>2, <3>1
  <2> QED BY <2>3, StepFields DEF LoadPlace, ListPlace, Place
<1>5. CASE m <= n
  <2> DEFINE i == n - m + 1
  <2>1. i \in 1..n /\ (n + 7) - m + 1 = i + 7
    <3>1. n \in Nat /\ m \in 1..n + 7 /\ m <= n
      BY <1>1, <1>3, <1>5
    <3> HIDE DEF n, m
    <3> QED BY <3>1
  <2>2. Head(todo) = Step("add_server", list[i])
    BY <1>2, <1>3, <2>1
  <2> QED BY <1>5, <2>2, StepFields DEF LoadPlace, ListPlace, Place
<1> QED BY <1>1, <1>3, <1>4, <1>5

LEMMA UnloadPlaces ==
    ASSUME NEW todo \in Seq(Steps), Count(todo) > 0, Left(Deinitializer, todo)
    PROVE  UnloadPlace(todo)
<1> DEFINE L == Deinitializer
           m == Count(todo)
           j == 4 - m + 1
<1>1. /\ L \in Seq(Steps) /\ Count(L) = 4
      /\ L[1] = Step("stop_detector", 0) /\ L[2] = Step("clear_server_list", 0)
      /\ L[3] = Step("stop_job_scheduler", 0) /\ L[4] = Step("teardown_log", 0)
  BY DeinitializerSteps DEF Count
<1>2. m \in 1..Count(L) /\ Head(todo) = L[Count(L) - m + 1]
  BY <1>1, LeftFacts DEF Count
<1>3. m \in 1..4 /\ Head(todo) = L[j]
  BY <1>1, <1>2
<1> HIDE DEF L
<1>4. j \in 1..4 /\ m = 5 - j
  <2>1. m \in 1..4
    BY <1>3
  <2> HIDE DEF m
  <2> QED BY <2>1
<1> HIDE DEF j
<1> QED BY <1>1, <1>3, <1>4, StepFields DEF UnloadPlace, Place

LEMMA Places ==
    ASSUME NEW m \in Mains, NEW c \in Configs, ControlOf(m, c)
    PROVE  PlaceOf(m, c) /\ c.servers \in Seq(Servers)
<1>1. m.todo \in Seq(Steps) /\ c.servers \in Seq(Servers) /\ Count(m.todo) \in Nat
  BY LifecycleAssumption, EmptyCount DEF Mains, Configs
<1>2. m.phase = "loading" => LoadPlace(c.servers, m.todo)
  BY <1>1, LoadPlaces DEF ControlOf
<1>3. m.phase = "unloading" => UnloadPlace(m.todo)
  BY <1>1, UnloadPlaces DEF ControlOf
<1>4. ASSUME m.phase = "loaded", Count(m.todo) > 0
      PROVE  \/ Count(m.todo) = 1 /\ Place(m.todo, "get_servers_health_status")
             \/ \E k \in Settings :
                  Count(m.todo) = 1 /\ Place(m.todo, k) /\ Head(m.todo).arg = c[k]
             \/ ListPlace(c.servers, m.todo)
  <2>1. CASE m.todo = <<Step("get_servers_health_status", 0)>>
    BY <1>4, <2>1, CountOne, StepFields DEF Place
  <2>2. ASSUME NEW k \in Settings, m.todo = <<Step(k, c[k])>>
        PROVE  Count(m.todo) = 1 /\ Place(m.todo, k) /\ Head(m.todo).arg = c[k]
    BY <1>4, <2>2, CountOne, StepFields DEF Place
  <2>3. CASE Left(ProcessServerList(c.servers), m.todo)
    BY <1>1, <1>4, <2>3, ListPlaces
  <2> QED BY <1>4, <2>1, <2>2, <2>3 DEF ControlOf
<1>5. Count(m.todo) > 0 \/ Count(m.todo) = 0
  BY <1>1
<1> QED BY <1>1, <1>2, <1>3, <1>4, <1>5 DEF PlaceOf, ControlOf

(* The main thread when a step is done: what StepDone makes of it. *)
After(m) ==
    [phase |-> IF Tail(m.todo) # <<>> THEN m.phase
               ELSE IF m.phase = "unloading" THEN "unloaded" ELSE "loaded",
     todo  |-> Tail(m.todo),
     waits |-> "no"]

LEMMA AfterStep ==
    ASSUME NEW m \in Mains, NEW c \in Configs, ControlOf(m, c), Count(m.todo) > 0
    PROVE  /\ After(m) \in Mains /\ ControlOf(After(m), c)
           /\ After(m).waits = "no"
           /\ Count(m.todo) \in Nat /\ Count(After(m).todo) = Count(m.todo) - 1
           /\ Count(m.todo) > 1 => After(m).phase = m.phase
           /\ Count(m.todo) = 1 =>
                After(m).phase = IF m.phase = "unloading" THEN "unloaded" ELSE "loaded"
           /\ m.phase = "loaded" /\ Count(m.todo) > 1
                => /\ Left(ProcessServerList(c.servers), m.todo)
                   /\ Left(ProcessServerList(c.servers), After(m).todo)
<1>1. /\ m.todo \in Seq(Steps) /\ Count(m.todo) \in Nat /\ c.servers \in Seq(Servers)
      /\ m.phase \in Phases
  BY LifecycleAssumption, EmptyCount DEF Mains, Configs
<1>2. Tail(m.todo) \in Seq(Steps) /\ Count(Tail(m.todo)) = Count(m.todo) - 1
  BY <1>1, CountTail
<1>3. Tail(m.todo) # <<>> <=> Count(m.todo) > 1
  <2>1. Tail(m.todo) # <<>> <=> Count(Tail(m.todo)) > 0
    BY <1>2, EmptyCount, Zenon
  <2>2. Count(Tail(m.todo)) > 0 <=> Count(m.todo) > 1
    BY <1>1, <1>2
  <2> QED BY <2>1, <2>2, Zenon
<1>4. After(m) \in Mains
  BY <1>1, <1>2 DEF After, Mains, Phases
<1>5. /\ After(m).waits = "no" /\ After(m).todo = Tail(m.todo)
      /\ After(m).phase = IF Tail(m.todo) # <<>> THEN m.phase
                          ELSE IF m.phase = "unloading" THEN "unloaded" ELSE "loaded"
  BY DEF After
<1>6. /\ Count(m.todo) > 1 => After(m).phase = m.phase
      /\ ~(Count(m.todo) > 1) =>
           After(m).phase = IF m.phase = "unloading" THEN "unloaded" ELSE "loaded"
  BY <1>3, <1>5, Zenon
<1>7. ASSUME NEW steps \in Seq(Steps), Left(steps, m.todo)
      PROVE  Left(steps, Tail(m.todo))
  BY <1>1, <1>7, LeftFacts DEF Count
<1>8. /\ Initializer(c.servers) \in Seq(Steps) /\ ProcessServerList(c.servers) \in Seq(Steps)
      /\ Deinitializer \in Seq(Steps)
  BY <1>1, InitializerSteps, ListSteps, DeinitializerSteps
<1>9. m.phase # "unloaded"
  BY DEF ControlOf
<1>10. ASSUME ~(Count(m.todo) > 1)
       PROVE  ControlOf(After(m), c)
  <2>1. Count(After(m).todo) = 0 /\ After(m).phase \in {"loaded", "unloaded"}
    BY <1>1, <1>2, <1>5, <1>6, <1>10
  <2>2. Left(ProcessServerList(c.servers), After(m).todo)
    BY <1>8, <2>1, LeftAll DEF Count
  <2> QED BY <2>1, <2>2 DEF ControlOf
<1>11. ASSUME m.phase = "loaded", Count(m.todo) > 1
       PROVE  Left(ProcessServerList(c.servers), m.todo)
  BY <1>11, CountOne DEF ControlOf
<1>12. ASSUME Count(m.todo) > 1
       PROVE  /\ ControlOf(After(m), c)
              /\ m.phase = "loaded" => Left(ProcessServerList(c.servers), After(m).todo)
  <2>1. /\ m.phase = "loaded" => Left(ProcessServerList(c.servers), Tail(m.todo))
        /\ m.phase = "loading" => Left(Initializer(c.servers), Tail(m.todo))
        /\ m.phase = "unloading" => Left(Deinitializer, Tail(m.todo))
    BY <1>7, <1>8, <1>11, <1>12 DEF ControlOf
  <2>2. Count(After(m).todo) > 0 /\ After(m).phase = m.phase
    <3>1. Count(Tail(m.todo)) > 0
      BY <1>1, <1>2, <1>12
    <3> QED BY <1>5, <1>6, <1>12, <3>1
  <2> QED BY <1>5, <1>9, <2>1, <2>2 DEF ControlOf
<1>13. Count(m.todo) = 1 => ~(Count(m.todo) > 1)
  OBVIOUS
<1> QED BY <1>1, <1>2, <1>4, <1>5, <1>6, <1>10, <1>11, <1>12, <1>13

(* Which step comes next, in each of the handlers. *)
Follows(m, n) ==
    /\ m.phase = "loading" =>
         /\ Place(m.todo, "setup_log")
              => n.phase = "loading" /\ Place(n.todo, "start_job_scheduler")
         /\ Place(m.todo, "start_job_scheduler")
              => n.phase = "loading" /\ Place(n.todo, "start_detector")
         /\ Place(m.todo, "start_detector")
              => n.phase = "loading" /\ Place(n.todo, "reset_context")
         /\ Place(m.todo, "reset_context")
              => /\ n.phase = "loading" /\ Place(n.todo, "settings_blocking")
                 /\ Head(n.todo).arg = "ldap"
         /\ Place(m.todo, "settings_blocking") /\ Head(m.todo).arg = "ldap"
              => /\ n.phase = "loading" /\ Place(n.todo, "settings_blocking")
                 /\ Head(n.todo).arg = "connection"
         /\ Place(m.todo, "settings_blocking") /\ Head(m.todo).arg # "ldap"
              => n.phase = "loading" /\ Place(n.todo, "clear_server_list")
         /\ Place(m.todo, "clear_server_list") \/ Place(m.todo, "add_server")
              => \/ n.phase = "loading" /\ Place(n.todo, "add_server")
                 \/ n.phase = "loaded" /\ Count(n.todo) = 0
    /\ m.phase = "loaded" =>
         n.phase = "loaded" /\ (Count(n.todo) = 0 \/ Place(n.todo, "add_server"))
    /\ m.phase = "unloading" =>
         /\ Place(m.todo, "stop_detector")
              => n.phase = "unloading" /\ Place(n.todo, "clear_server_list")
         /\ Place(m.todo, "clear_server_list")
              => n.phase = "unloading" /\ Place(n.todo, "stop_job_scheduler")
         /\ Place(m.todo, "stop_job_scheduler")
              => n.phase = "unloading" /\ Place(n.todo, "teardown_log")
         /\ Place(m.todo, "teardown_log") => n.phase = "unloaded" /\ Count(n.todo) = 0

LEMMA AfterFollows ==
    ASSUME NEW m \in Mains, NEW c \in Configs, ControlOf(m, c), Count(m.todo) > 0
    PROVE  Follows(m, After(m)) /\ PlaceOf(m, c) /\ PlaceOf(After(m), c)
<1> DEFINE n == After(m)
           all == Count(c.servers)
<1>1. /\ n \in Mains /\ ControlOf(n, c)
      /\ Count(m.todo) \in Nat /\ Count(n.todo) = Count(m.todo) - 1
      /\ Count(m.todo) > 1 => n.phase = m.phase
      /\ Count(m.todo) = 1 =>
           n.phase = IF m.phase = "unloading" THEN "unloaded" ELSE "loaded"
      /\ m.phase = "loaded" /\ Count(m.todo) > 1
           => /\ Left(ProcessServerList(c.servers), m.todo)
              /\ Left(ProcessServerList(c.servers), n.todo)
  BY AfterStep
<1> HIDE DEF n
<1>2. /\ PlaceOf(m, c) /\ PlaceOf(n, c) /\ c.servers \in Seq(Servers) /\ all \in Nat
      /\ n.todo \in Seq(Steps)
  BY <1>1, Places, EmptyCount DEF Mains
<1>3. ASSUME m.phase = "loading" PROVE Follows(m, n)
  <2>1. LoadPlace(c.servers, m.todo) /\ (n.phase = "loading" => LoadPlace(c.servers, n.todo))
    BY <1>2, <1>3 DEF PlaceOf
  <2>2. CASE Count(m.todo) > 1
    <3> DEFINE lm == Count(m.todo)
               ln == Count(n.todo)
    <3>1. /\ lm \in Nat /\ ln = lm - 1 /\ all \in Nat /\ lm > 1
          /\ n.phase = "loading" /\ LoadPlace(c.servers, n.todo)
      BY <1>1, <1>2, <1>3, <2>1, <2>2
    <3>2. /\ Place(m.todo, "setup_log") => lm = all + 7
          /\ Place(m.todo, "start_job_scheduler") => lm = all + 6
          /\ Place(m.todo, "start_detector") => lm = all + 5
          /\ Place(m.todo, "reset_context") => lm = all + 4
          /\ Place(m.todo, "settings_blocking") /\ Head(m.todo).arg = "ldap"
               => lm = all + 3
          /\ Place(m.todo, "settings_blocking") /\ Head(m.todo).arg # "ldap"
               => lm = all + 2
          /\ Place(m.todo, "clear_server_list") => lm = all + 1
          /\ Place(m.todo, "add_server") => lm <= all
      BY <2>1 DEF LoadPlace, ListPlace, Place
    <3>3. /\ ln = all + 6 => Place(n.todo, "start_job_scheduler")
          /\ ln = all + 5 => Place(n.todo, "start_detector")
          /\ ln = all + 4 => Place(n.todo, "reset_context")
          /\ ln = all + 3 => Place(n.todo, "settings_blocking") /\ Head(n.todo).arg = "ldap"
          /\ ln = all + 2 => /\ Place(n.todo, "settings_blocking")
                             /\ Head(n.todo).arg = "connection"
          /\ ln = all + 1 => Place(n.todo, "clear_server_list")
          /\ ln <= all => Place(n.todo, "add_server")
      BY <3>1 DEF LoadPlace, ListPlace
    <3>4. /\ lm = all + 7 <=> ln = all + 6
          /\ lm = all + 6 <=> ln = all + 5
          /\ lm = all + 5 <=> ln = all + 4
          /\ lm = all + 4 <=> ln = all + 3
          /\ lm = all + 3 <=> ln = all + 2
          /\ lm = all + 2 <=> ln = all + 1
          /\ lm = all + 1 \/ lm <= all => ln <= all
      <4> HIDE DEF lm, ln, all
      <4> QED BY <3>1
    <3> HIDE DEF lm, ln, all
    <3> QED BY <1>3, <3>1, <3>2, <3>3, <3>4, Zenon DEF Follows
  <2>3. CASE Count(m.todo) = 1
    BY <1>1, <1>2, <1>3, <2>1, <2>3 DEF Follows, LoadPlace, ListPlace, Place
  <2> QED BY <1>1, <2>2, <2>3
<1>4. ASSUME m.phase = "loaded" PROVE Follows(m, n)
  <2>1. CASE Count(m.todo) = 1
    BY <1>1, <1>4, <2>1 DEF Follows
  <2>2. CASE Count(m.todo) > 1
    <3>1. ListPlace(c.servers, n.todo)
      BY <1>1, <1>2, <1>4, <2>2, ListPlaces
    <3>2. Count(m.todo) <= all + 1
      BY <1>1, <1>2, <1>4, <2>2, ListSteps DEF Left, Count
    <3> QED BY <1>1, <1>2, <1>4, <2>2, <3>1, <3>2 DEF Follows, ListPlace
  <2> QED BY <1>1, <2>1, <2>2
<1>5. ASSUME m.phase = "unloading" PROVE Follows(m, n)
  <2>1. UnloadPlace(m.todo) /\ (n.phase = "unloading" => UnloadPlace(n.todo))
    BY <1>2, <1>5 DEF PlaceOf
  <2> QED BY <1>1, <1>5, <2>1 DEF Follows, UnloadPlace, Place
<1>6. m.phase \in {"loading", "loaded", "unloading"}
  BY DEF ControlOf, Mains, Phases
<1> QED BY <1>2, <1>3, <1>4, <1>5, <1>6 DEF n

LEMMA PhaseOfStep ==
    ASSUME NEW m \in Mains, NEW c \in Configs, PlaceOf(m, c), Count(m.todo) > 0
    PROVE  LET do == Head(m.todo).do
           IN  /\ do \in {"setup_log", "start_job_scheduler", "start_detector",
                          "settings_blocking", "reset_context"} => m.phase = "loading"
               /\ do = "settings_blocking" => Head(m.todo).arg \in Settings
               /\ do \in {"stop_detector", "stop_job_scheduler", "teardown_log"}
                    => m.phase = "unloading"
               /\ do \in Settings \cup {"get_servers_health_status"} => m.phase = "loaded"
               /\ do = "add_server" => m.phase \in {"loading", "loaded"}
               /\ m.phase = "loaded" => do \in SyncJobs
               /\ m.phase # "unloaded"
<1>1. m.phase \in Phases
  BY DEF Mains
<1>2. CASE m.phase = "loading"
  BY <1>2 DEF PlaceOf, LoadPlace, ListPlace, Place, Settings
<1>3. CASE m.phase = "unloading"
  BY <1>3 DEF PlaceOf, UnloadPlace, Place, Settings
<1>4. CASE m.phase = "loaded"
  BY <1>4 DEF PlaceOf, ListPlace, Place, Settings, SyncJobs
<1>5. m.phase # "unloaded"
  BY DEF PlaceOf
<1> QED BY <1>1, <1>2, <1>3, <1>4, <1>5 DEF Phases

(* What the main thread may be doing, and is doing after a step. *)
LEMMA MainNow ==
    ASSUME Types, Control
    PROVE  /\ PlaceOf(main, config) /\ Count(main.todo) \in Nat
           /\ config.servers \in Seq(Servers) /\ Count(config.servers) \in Nat
           /\ main.todo = <<>> <=> Count(main.todo) = 0
           /\ main.todo # <<>> <=> Count(main.todo) > 0
<1>1. main \in Mains /\ config \in Configs /\ ControlOf(main, config)
  BY DEF Types, Control
<1>2. PlaceOf(main, config) /\ config.servers \in Seq(Servers)
  BY <1>1, Places
<1>3. main.todo \in Seq(Steps)
  BY <1>1 DEF Mains
<1> QED BY <1>2, <1>3, EmptyCount

LEMMA MainDone ==
    ASSUME Types, Control, Count(main.todo) > 0, StepDone, config' = config
    PROVE  /\ main' \in Mains /\ Control' /\ main'.waits = "no"
           /\ Count(main'.todo) = Count(main.todo) - 1
           /\ Count(main'.todo) \in Nat
           /\ Follows(main, main') /\ PlaceOf(main', config')
<1>1. main \in Mains /\ config \in Configs /\ ControlOf(main, config)
  BY DEF Types, Control
<1>2. main' = After(main)
  BY DEF StepDone, After
<1>3. /\ main' \in Mains /\ ControlOf(main', config) /\ main'.waits = "no"
      /\ Count(main'.todo) = Count(main.todo) - 1
  BY <1>1, <1>2, AfterStep
<1>4. Follows(main, main') /\ PlaceOf(main', config')
  BY <1>1, <1>2, AfterFollows
<1>5. Control'
  BY <1>3 DEF Control
<1>6. Count(main'.todo) \in Nat
  BY <1>3, EmptyCount DEF Mains
<1> QED BY <1>3, <1>4, <1>5, <1>6

-----------------------------------------------------------------------------
(* The channel and the tasks.                                              *)

LEMMA ChannelSend ==
    ASSUME NEW ch \in Seq(Jobs), NEW job \in Jobs
    PROVE  /\ Append(ch, job) \in Seq(Jobs)
           /\ ToSet(Append(ch, job)) = ToSet(ch) \cup {job}
           /\ /\ \A i, j \in DOMAIN ch : ch[i].from = ch[j].from => i = j
              /\ \A other \in ToSet(ch) : other.from # job.from
              => \A i, j \in DOMAIN Append(ch, job) :
                   Append(ch, job)[i].from = Append(ch, job)[j].from => i = j
<1> DEFINE n == Len(ch)
           new == Append(ch, job)
<1>1. /\ n \in Nat /\ new \in Seq(Jobs) /\ Len(new) = n + 1
      /\ \A i \in 1..n : new[i] = ch[i]
      /\ new[n + 1] = job
  BY AppendProperties
<1>2. DOMAIN ch = 1..n /\ DOMAIN new = 1..n + 1
  BY <1>1
<1> HIDE DEF n, new
<1>3. \A i \in 1..n + 1 : i \in 1..n \/ i = n + 1
  BY <1>1
<1>4. \A i \in 1..n : i \in 1..n + 1
  BY <1>1
<1>5. n + 1 \in 1..n + 1
  BY <1>1
<1>6. ToSet(new) = ToSet(ch) \cup {job}
  BY <1>1, <1>2, <1>3, <1>4, <1>5, Zenon DEF ToSet
<1>7. ASSUME \A i, j \in DOMAIN ch : ch[i].from = ch[j].from => i = j,
             \A other \in ToSet(ch) : other.from # job.from,
             NEW i \in DOMAIN new, NEW j \in DOMAIN new, new[i].from = new[j].from
      PROVE  i = j
  <2>1. \A k \in 1..n : ch[k] \in ToSet(ch)
    BY <1>2 DEF ToSet
  <2>2. \A k \in 1..n : new[k].from # job.from
    BY <1>1, <1>7, <2>1
  <2> QED BY <1>1, <1>2, <1>3, <1>7, <2>2
<1> QED BY <1>1, <1>6, <1>7 DEF new

LEMMA ChannelReceive ==
    ASSUME NEW ch \in Seq(Jobs), ch # <<>>
    PROVE  /\ Tail(ch) \in Seq(Jobs) /\ Head(ch) \in Jobs
           /\ ToSet(ch) = ToSet(Tail(ch)) \cup {Head(ch)}
           /\ (\A i, j \in DOMAIN ch : ch[i].from = ch[j].from => i = j)
              => /\ \A i, j \in DOMAIN Tail(ch) :
                      Tail(ch)[i].from = Tail(ch)[j].from => i = j
                 /\ \A other \in ToSet(Tail(ch)) : other.from # Head(ch).from
<1> DEFINE n == Len(ch)
           rest == Tail(ch)
           first == Head(ch)
<1>1. /\ first \in Jobs /\ rest \in Seq(Jobs) /\ Len(rest) = n - 1
      /\ \A i \in 1..Len(rest) : rest[i] = ch[i + 1]
  BY HeadTailProperties
<1>2. n \in Nat \ {0} /\ first = ch[1]
  BY EmptySeq
<1>3. DOMAIN ch = 1..n /\ DOMAIN rest = 1..n - 1
  BY <1>1, <1>2
<1>4. \A i \in 1..n - 1 : rest[i] = ch[i + 1]
  BY <1>1
<1> HIDE DEF n, rest, first
<1>5. \A i \in 1..n - 1 : i + 1 \in 1..n /\ i + 1 # 1
  BY <1>2
<1>6. \A i \in 1..n : i = 1 \/ (i - 1 \in 1..n - 1 /\ (i - 1) + 1 = i)
  BY <1>2
<1>7. 1 \in 1..n
  BY <1>2
<1>8. ToSet(ch) = ToSet(rest) \cup {first}
  <2>1. \A x : x \in ToSet(ch) <=> \E i \in 1..n : x = ch[i]
    BY <1>3, Zenon DEF ToSet
  <2>2. \A x : x \in ToSet(rest) <=> \E i \in 1..n - 1 : x = rest[i]
    BY <1>3, Zenon DEF ToSet
  <2>3. ASSUME NEW x \in ToSet(ch) PROVE x \in ToSet(rest) \cup {first}
    <3>1. PICK i \in 1..n : x = ch[i]
      BY <2>1
    <3>2. CASE i = 1
      BY <1>2, <3>1, <3>2
    <3>3. CASE i - 1 \in 1..n - 1 /\ (i - 1) + 1 = i
      <4>1. x = rest[i - 1]
        BY <1>4, <3>1, <3>3
      <4> QED BY <2>2, <3>3, <4>1
    <3> QED BY <1>6, <3>2, <3>3
  <2>4. ASSUME NEW x \in ToSet(rest) \cup {first} PROVE x \in ToSet(ch)
    BY <1>2, <1>4, <1>5, <1>7, <2>1, <2>2
  <2> QED BY <2>3, <2>4
<1>9. ASSUME \A i, j \in DOMAIN ch : ch[i].from = ch[j].from => i = j
      PROVE  /\ \A i, j \in DOMAIN rest : rest[i].from = rest[j].from => i = j
             /\ \A other \in ToSet(rest) : other.from # first.from
  <2>1. ASSUME NEW i \in 1..n - 1, NEW j \in 1..n - 1, rest[i].from = rest[j].from
        PROVE  i = j
    <3>1. i + 1 = j + 1
      BY <1>3, <1>4, <1>5, <1>9, <2>1
    <3> QED BY <1>2, <3>1
  <2>2. ASSUME NEW i \in 1..n - 1 PROVE rest[i].from # first.from
    BY <1>2, <1>3, <1>4, <1>5, <1>7, <1>9
  <2> QED BY <1>3, <2>1, <2>2 DEF ToSet
<1> QED BY <1>1, <1>8, <1>9 DEF rest, first

LEMMA CallersAre ==
    ASSUME NEW s
    PROVE  \A f : f \in Callers(s) <=> \/ \E job \in ToSet(s.channel) : f = job.from
                                       \/ \E t \in s.tasks : f = t.from
BY Zenon DEF Callers

LEMMA Sends ==
    ASSUME NEW s \in Schedulers, NEW job \in Jobs
    PROVE  LET r == Send(s, job)
           IN  /\ r \in Schedulers
               /\ r.ready = s.ready /\ r.loop = s.loop /\ r.detached = s.detached
               /\ r.tasks = s.tasks /\ ToSet(r.channel) = ToSet(s.channel) \cup {job}
               /\ Callers(r) = Callers(s) \cup {job.from}
               /\ OneJobEach(s) /\ job.from \notin Callers(s) => OneJobEach(r)
<1> DEFINE r == Send(s, job)
<1>1. s.channel \in Seq(Jobs)
  BY DEF Schedulers
<1>2. /\ r.channel = Append(s.channel, job) /\ r.tasks = s.tasks
      /\ r.ready = s.ready /\ r.loop = s.loop /\ r.detached = s.detached
  BY DEF Send, Schedulers
<1>3. Append(s.channel, job) \in Seq(Jobs) /\ ToSet(r.channel) = ToSet(s.channel) \cup {job}
  BY <1>1, <1>2, ChannelSend
<1>4. r \in Schedulers
  BY <1>3 DEF Send, Schedulers
<1> HIDE DEF r
<1>5. Callers(r) = Callers(s) \cup {job.from}
  <2>1. \A f : f \in Callers(r) <=> f \in Callers(s) \/ f = job.from
    <3>1. \A x : x \in ToSet(r.channel) <=> x \in ToSet(s.channel) \/ x = job
      BY <1>3
    <3>2. job \in ToSet(r.channel)
      BY <3>1
    <3>3. \A f : f \in Callers(r) <=> \/ \E x \in ToSet(r.channel) : f = x.from
                                     \/ \E t \in r.tasks : f = t.from
      BY CallersAre, Zenon
    <3>4. \A f : f \in Callers(s) <=> \/ \E x \in ToSet(s.channel) : f = x.from
                                     \/ \E t \in s.tasks : f = t.from
      BY CallersAre, Zenon
    <3> QED BY <1>2, <3>1, <3>2, <3>3, <3>4
  <2> QED BY <2>1
<1>6. ASSUME OneJobEach(s), job.from \notin Callers(s) PROVE OneJobEach(r)
  <2>1. /\ \A other \in ToSet(s.channel) : other.from # job.from
        /\ \A t \in s.tasks : t.from # job.from
    BY <1>6, CallersAre
  <2>2. \A i, j \in DOMAIN r.channel : r.channel[i].from = r.channel[j].from => i = j
    <3>1. \A i, j \in DOMAIN s.channel : s.channel[i].from = s.channel[j].from => i = j
      BY <1>6 DEF OneJobEach
    <3>2. \A i, j \in DOMAIN Append(s.channel, job) :
            Append(s.channel, job)[i].from = Append(s.channel, job)[j].from => i = j
      BY <1>1, <2>1, <3>1, ChannelSend
    <3> QED BY <1>2, <3>2, Zenon
  <2>3. \A t, u \in r.tasks : t.from = u.from => t = u
    BY <1>2, <1>6 DEF OneJobEach
  <2>4. \A other \in ToSet(r.channel), t \in r.tasks : other.from # t.from
    BY <1>2, <1>3, <1>6, <2>1 DEF OneJobEach
  <2> QED BY <2>2, <2>3, <2>4 DEF OneJobEach
<1> QED BY <1>2, <1>3, <1>4, <1>5, <1>6 DEF r

LEMMA Spawns ==
    ASSUME NEW s \in Schedulers, s.channel # <<>>, OneJobEach(s)
    PROVE  LET job == Head(s.channel)
               r == SpawnTask(s, Task(job))
           IN  /\ r \in Schedulers /\ job \in Jobs /\ job \in ToSet(s.channel)
               /\ r.ready = s.ready /\ r.loop = s.loop /\ r.detached = s.detached
               /\ r.tasks = s.tasks \cup {Task(job)}
               /\ ToSet(s.channel) = ToSet(r.channel) \cup {job}
               /\ Callers(r) = Callers(s) /\ OneJobEach(r)
<1> DEFINE job == Head(s.channel)
           t == Task(job)
           r == SpawnTask(s, t)
<1>1. s.channel \in Seq(Jobs)
  BY DEF Schedulers
<1>2. /\ Tail(s.channel) \in Seq(Jobs) /\ job \in Jobs
      /\ ToSet(s.channel) = ToSet(Tail(s.channel)) \cup {job}
      /\ (\A i, j \in DOMAIN s.channel : s.channel[i].from = s.channel[j].from => i = j)
         => /\ \A i, j \in DOMAIN Tail(s.channel) :
                 Tail(s.channel)[i].from = Tail(s.channel)[j].from => i = j
            /\ \A other \in ToSet(Tail(s.channel)) : other.from # job.from
  BY <1>1, ChannelReceive
<1> HIDE DEF job
<1>3. t \in Tasks /\ t.from = job.from
  BY <1>2 DEF Task, Tasks, Jobs
<1> HIDE DEF t
<1>4. /\ r.channel = Tail(s.channel) /\ r.tasks = s.tasks \cup {t}
      /\ r.ready = s.ready /\ r.loop = s.loop /\ r.detached = s.detached
  BY DEF SpawnTask, Schedulers
<1>5. r \in Schedulers
  BY <1>2, <1>3 DEF SpawnTask, Schedulers
<1> HIDE DEF r
<1>6. /\ \A i, j \in DOMAIN r.channel : r.channel[i].from = r.channel[j].from => i = j
      /\ \A other \in ToSet(r.channel) : other.from # t.from
  BY <1>2, <1>3, <1>4, Zenon DEF OneJobEach
<1>7. ToSet(s.channel) = ToSet(r.channel) \cup {job}
  BY <1>2, <1>4
<1>8. Callers(r) = Callers(s)
  <2>1. \A f : f \in Callers(s) <=> f \in Callers(r)
    BY <1>3, <1>4, <1>7, CallersAre
  <2> QED BY <2>1
<1>9. OneJobEach(r)
  BY <1>3, <1>4, <1>6, <1>7 DEF OneJobEach
<1> QED BY <1>2, <1>4, <1>5, <1>7, <1>8, <1>9 DEF r, t, job

LEMMA Ends ==
    ASSUME NEW s \in Schedulers, NEW t \in s.tasks, OneJobEach(s)
    PROVE  LET r == EndTask(s, t)
           IN  /\ r \in Schedulers
               /\ r.ready = s.ready /\ r.loop = s.loop /\ r.detached = s.detached
               /\ r.tasks = s.tasks \ {t} /\ r.channel = s.channel
               /\ Callers(r) = Callers(s) \ {t.from} /\ OneJobEach(r)
               /\ t \in Tasks
<1> DEFINE r == EndTask(s, t)
<1>1. /\ r.channel = s.channel /\ r.tasks = s.tasks \ {t}
      /\ r.ready = s.ready /\ r.loop = s.loop /\ r.detached = s.detached
  BY DEF EndTask, Schedulers
<1>2. r \in Schedulers /\ t \in Tasks
  BY DEF EndTask, Schedulers
<1> HIDE DEF r
<1>3. OneJobEach(r)
  BY <1>1 DEF OneJobEach
<1>4. \A f : f \in Callers(r) <=> f \in Callers(s) /\ f # t.from
  BY <1>1, CallersAre DEF OneJobEach
<1>5. Callers(r) = Callers(s) \ {t.from}
  BY <1>4
<1> QED BY <1>1, <1>2, <1>3, <1>5 DEF r

LEMMA MovesOn ==
    ASSUME NEW s \in Schedulers, NEW t \in s.tasks, OneJobEach(s), NEW u \in Tasks,
           u.from = t.from
    PROVE  LET r == [s EXCEPT !.tasks = (@ \ {t}) \cup {u}]
           IN  /\ r \in Schedulers
               /\ r.ready = s.ready /\ r.loop = s.loop /\ r.detached = s.detached
               /\ r.tasks = (s.tasks \ {t}) \cup {u} /\ r.channel = s.channel
               /\ Callers(r) = Callers(s) /\ OneJobEach(r)
<1> DEFINE r == [s EXCEPT !.tasks = (@ \ {t}) \cup {u}]
<1>1. /\ r.channel = s.channel /\ r.tasks = (s.tasks \ {t}) \cup {u}
      /\ r.ready = s.ready /\ r.loop = s.loop /\ r.detached = s.detached
  BY DEF Schedulers
<1>2. r \in Schedulers
  BY DEF Schedulers
<1> HIDE DEF r
<1>3. OneJobEach(r)
  BY <1>1 DEF OneJobEach
<1>4. \A f : f \in Callers(r) <=> f \in Callers(s)
  BY <1>1, CallersAre
<1>5. Callers(r) = Callers(s)
  BY <1>4
<1> QED BY <1>1, <1>2, <1>3, <1>5 DEF r

LEMMA Detaches ==
    ASSUME NEW s \in Schedulers
    PROVE  LET r == Detach(s)
           IN  /\ r \in Schedulers
               /\ r.ready = s.ready /\ r.loop = s.loop /\ r.detached = s.detached + 1
               /\ r.tasks = s.tasks /\ r.channel = s.channel
               /\ Callers(r) = Callers(s) /\ (OneJobEach(s) => OneJobEach(r))
<1> DEFINE r == Detach(s)
<1>1. /\ r.channel = s.channel /\ r.tasks = s.tasks
      /\ r.ready = s.ready /\ r.loop = s.loop /\ r.detached = s.detached + 1
  BY DEF Detach, Schedulers
<1>2. r \in Schedulers
  <2>1. s.detached + 1 \in Nat
    BY DEF Schedulers
  <2> QED BY <2>1 DEF Detach, Schedulers
<1> HIDE DEF r
<1> QED BY <1>1, <1>2, Zenon DEF r, Callers, OneJobEach

-----------------------------------------------------------------------------
(* Each part of the invariant stays true while what it speaks of stays.    *)

LEMMA Frame ==
    /\ Control /\ UNCHANGED <<main, config>> => Control'
    /\ SchedulerInv /\ UNCHANGED <<main, sched>> => SchedulerInv'
    /\ DetectorInv /\ UNCHANGED <<main, detector>> => DetectorInv'
    /\ JobsInv /\ UNCHANGED <<main, detector, sched, notified, client>> => JobsInv'
    /\ NotifiedInv /\ UNCHANGED <<main, detector, notified>> => NotifiedInv'
    /\ ClientsInv /\ UNCHANGED <<main, client>> => ClientsInv'
    /\ TasksInv /\ UNCHANGED <<sched, ctx, replaced>> => TasksInv'
    /\ LockInv /\ UNCHANGED <<sched, ctx>> => LockInv'
    /\ ServersInv /\ UNCHANGED <<main, notified, ctx, config>> => ServersInv'
    /\ SettingsInv /\ UNCHANGED <<main, notified, ctx, config, lost>> => SettingsInv'
    /\ RoomInv /\ UNCHANGED <<main, notified, sched, client>> => RoomInv'
    /\ LoggerInv /\ UNCHANGED <<main, logger>> => LoggerInv'
    /\ NoOrphanedCaller /\ UNCHANGED <<main, detector, sched, notified, client, replaced>>
         => NoOrphanedCaller'
<1>1. Control /\ UNCHANGED <<main, config>> => Control'
  BY Zenon DEF Control, NextIs
<1>2. SchedulerInv /\ UNCHANGED <<main, sched>> => SchedulerInv'
  BY Zenon DEF SchedulerInv, SchedulerUp, NextIs
<1>3. DetectorInv /\ UNCHANGED <<main, detector>> => DetectorInv'
  BY Zenon DEF DetectorInv, NextIs
<1>4. JobsInv /\ UNCHANGED <<main, detector, sched, notified, client>> => JobsInv'
  BY Zenon DEF JobsInv, Expects
<1>5. NotifiedInv /\ UNCHANGED <<main, detector, notified>> => NotifiedInv'
  BY Zenon DEF NotifiedInv
<1>6. ClientsInv /\ UNCHANGED <<main, client>> => ClientsInv'
  BY Zenon DEF ClientsInv
<1>7. TasksInv /\ UNCHANGED <<sched, ctx, replaced>> => TasksInv'
  BY DEF TasksInv
<1>8. LockInv /\ UNCHANGED <<sched, ctx>> => LockInv'
  BY Zenon DEF LockInv
<1>9. ServersInv /\ UNCHANGED <<main, notified, ctx, config>> => ServersInv'
  BY Zenon DEF ServersInv, NextIs, Due, ListedUpTo
<1>10. SettingsInv /\ UNCHANGED <<main, notified, ctx, config, lost>> => SettingsInv'
  BY Zenon DEF SettingsInv, NextIs, Current, Default
<1>11. RoomInv /\ UNCHANGED <<main, notified, sched, client>> => RoomInv'
  BY Zenon DEF RoomInv, NextIs, Blocked
<1>12. LoggerInv /\ UNCHANGED <<main, logger>> => LoggerInv'
  BY Zenon DEF LoggerInv
<1>13. NoOrphanedCaller /\ UNCHANGED <<main, detector, sched, notified, client, replaced>>
         => NoOrphanedCaller'
  BY DEF NoOrphanedCaller, Waiting
<1> QED BY <1>1, <1>2, <1>3, <1>4, <1>5, <1>6, <1>7, <1>8, <1>9, <1>10, <1>11, <1>12, <1>13

LEMMA StutterIInv ==
    ASSUME IInv, UNCHANGED vars
    PROVE  IInv'
<1>1. Types'
  BY DEF IInv, Types, vars
<1> QED BY <1>1, Frame DEF IInv, vars

LEMMA ServersChangeIInv ==
    ASSUME IInv, ServersChange
    PROVE  IInv'
<1>1. Types'
  BY DEF IInv, Types, ServersChange
<1> QED BY <1>1, Frame DEF IInv, ServersChange

(***************************************************************************)
(* The senders of the jobs on their way are waiting for them.              *)
(***************************************************************************)
LEMMA CallersWait ==
    ASSUME Types, JobsInv
    PROVE  /\ Callers(sched) \subseteq Senders
           /\ "main" \in Callers(sched) =>
                \/ main.waits = "scheduler"
                \/ main.waits = "result" /\ "main" \notin notified
           /\ "detector" \in Callers(sched) =>
                detector.thread = "waiting" /\ "detector" \notin notified
           /\ \A c \in Clients : c \in Callers(sched) => client[c] = "blocked"
<1>1. sched.channel \in Seq(Jobs) /\ sched.tasks \subseteq Tasks
  BY DEF Types, Schedulers
<1>2. \A job \in ToSet(sched.channel) : job.from \in Senders
  <2>1. \A i \in DOMAIN sched.channel : sched.channel[i] \in Jobs
    BY <1>1, LenProperties, ElementOfSeq
  <2> QED BY <2>1 DEF ToSet, Jobs
<1>3. \A t \in sched.tasks : t.from \in Senders
  BY <1>1 DEF Tasks
<1>4. \A f \in Callers(sched) :
        \/ \E job \in ToSet(sched.channel) : f = job.from /\ Expects(job)
        \/ \E t \in sched.tasks : f = t.from /\ Expects(t)
  BY CallersAre DEF JobsInv
<1>5. \A f \in Callers(sched) :
        /\ f \in Senders
        /\ f = "main" => \/ main.waits = "scheduler"
                         \/ main.waits = "result" /\ "main" \notin notified
        /\ f = "detector" => detector.thread = "waiting" /\ "detector" \notin notified
        /\ f \in Clients => client[f] = "blocked"
  BY <1>2, <1>3, <1>4 DEF Expects
<1> QED BY <1>5

LEMMA BlockedCount ==
    ASSUME Types
    PROVE  /\ IsFiniteSet(Clients) /\ Cardinality(Clients) \in Nat
           /\ IsFiniteSet(Blocked) /\ Cardinality(Blocked) \in Nat
           /\ Cardinality(Blocked) <= Cardinality(Clients)
BY LifecycleAssumption, FS_Subset, FS_CardinalityType DEF Blocked

(* While the module is loaded the scheduler takes jobs. *)
LEMMA LoadedIsUp ==
    ASSUME SchedulerInv, main.phase = "loaded"
    PROVE  sched.ready /\ sched.loop = "running" /\ Shutdown \notin ToSet(sched.channel)
BY DEF SchedulerInv, SchedulerUp

LEMMA AuthReplyIInv ==
    ASSUME IInv, NEW c \in Clients, AuthReply(c)
    PROVE  IInv'
<1> USE DEF IInv
<1>1. /\ client[c] = "unblocked" /\ client' = [client EXCEPT ![c] = "idle"]
      /\ UNCHANGED <<main, detector, sched, ctx, config, notified, logger, answers,
                     replaced, lost>>
      /\ main.phase = "loaded"
  BY DEF AuthReply, MainFree
<1>2. client \in [Clients -> {"idle", "blocked", "unblocked"}]
  BY DEF Types
<1>3. \A d \in Clients : client'[d] = "blocked" <=> client[d] = "blocked"
  BY <1>1, <1>2
<1>4. Types'
  BY <1>1, <1>2 DEF Types
<1>5. JobsInv'
  BY <1>1, <1>3 DEF JobsInv, Expects
<1>6. ClientsInv'
  BY <1>1 DEF ClientsInv
<1>7. RoomInv'
  <2>1. Blocked' = Blocked
    BY <1>3 DEF Blocked
  <2> QED BY <1>1, <2>1, Zenon DEF RoomInv, NextIs
<1>8. NoOrphanedCaller'
  BY <1>1, <1>3 DEF NoOrphanedCaller, Waiting
<1> QED BY <1>1, <1>4, <1>5, <1>6, <1>7, <1>8, Frame

LEMMA AuthCommandIInv ==
    ASSUME IInv, NEW c \in Clients, AuthCommand(c)
    PROVE  IInv'
<1> USE DEF IInv
<1> DEFINE job == Job(c, "auth", 0)
<1>1. /\ MainFree /\ client[c] = "idle" /\ sched.detached < MaxDetached
      /\ UNCHANGED <<main, detector, ctx, config, notified, logger, answers, replaced, lost>>
  BY DEF AuthCommand
<1>2. main.phase = "loaded" /\ Count(main.todo) = 0
  BY <1>1, MainNow DEF MainFree
<1>3. sched.ready /\ Shutdown \notin ToSet(sched.channel)
  BY <1>2, LoadedIsUp
<1>4. client' = [client EXCEPT ![c] = "blocked"] /\ sched' = Send(sched, job)
  BY <1>3 DEF AuthCommand
<1>5. /\ client \in [Clients -> {"idle", "blocked", "unblocked"}] /\ sched \in Schedulers
      /\ sched.tasks \subseteq Tasks /\ sched.detached \in Nat
  BY DEF Types, Schedulers
<1>6. c # "main" /\ c # "detector"
  BY LifecycleAssumption
<1>7. job \in Jobs /\ job.from = c /\ job.do = "auth" /\ job # Shutdown
  BY <1>6 DEF Job, Jobs, Senders, Dos, Args, Shutdown
<1>8. c \notin Callers(sched)
  BY <1>1, CallersWait
<1>9. /\ sched' \in Schedulers
      /\ sched'.ready = sched.ready /\ sched'.loop = sched.loop
      /\ sched'.detached = sched.detached
      /\ sched'.tasks = sched.tasks /\ ToSet(sched'.channel) = ToSet(sched.channel) \cup {job}
      /\ Callers(sched') = Callers(sched) \cup {c} /\ OneJobEach(sched')
  BY <1>4, <1>5, <1>7, <1>8, Sends DEF JobsInv
<1>10. \A d \in Clients : client'[d] = IF d = c THEN "blocked" ELSE client[d]
  BY <1>4, <1>5
<1> HIDE DEF job
<1>11. Types'
  BY <1>1, <1>4, <1>5, <1>9 DEF Types
<1>12. SchedulerInv'
  BY <1>1, <1>2, <1>3, <1>7, <1>9 DEF SchedulerInv, SchedulerUp, NextIs, Control
<1>13. JobsInv'
  <2>1. \A j : Expects(j) => Expects(j)'
    BY <1>1, <1>10 DEF Expects
  <2>2. Expects(job)'
    BY <1>6, <1>7, <1>10 DEF Expects
  <2> QED BY <1>9, <2>1, <2>2 DEF JobsInv
<1>14. ClientsInv'
  BY <1>1, <1>2 DEF ClientsInv
<1>15. TasksInv' /\ LockInv'
  BY <1>1, <1>9 DEF TasksInv, LockInv
<1>16. RoomInv'
  <2>1. Cardinality(Clients) \in Nat /\ Cardinality(Blocked') \in Nat
        /\ Cardinality(Blocked') <= Cardinality(Clients)
    <3>1. Blocked' \subseteq Clients
      BY DEF Blocked
    <3> QED BY <3>1, LifecycleAssumption, FS_Subset, FS_CardinalityType
  <2>2. sched'.detached + Cardinality(Blocked') <= MaxDetached + Cardinality(Clients)
    BY <1>1, <1>5, <1>9, <2>1, LifecycleAssumption
  <2>3. ~NextIs({"clear_server_list"})'
    BY <1>1, <1>2 DEF NextIs
  <2> QED BY <1>1, <1>2, <1>5, <1>9, <2>1, <2>2, <2>3, LifecycleAssumption DEF RoomInv
<1>17. NoOrphanedCaller'
  BY <1>1, <1>9, <1>10 DEF NoOrphanedCaller, Waiting
<1> QED BY <1>1, <1>11, <1>12, <1>13, <1>14, <1>15, <1>16, <1>17, Frame

LEMMA DetectorSubmitsIInv ==
    ASSUME IInv, DetectorSubmits
    PROVE  IInv'
<1> USE DEF IInv
<1> DEFINE job == Job("detector", "iteration", 0)
<1>1. /\ detector.thread = "sleep" /\ main.waits # "scheduler"
      /\ UNCHANGED <<main, ctx, config, notified, client, logger, answers, replaced, lost>>
  BY DEF DetectorSubmits
<1>2. SchedulerUp
  <2>1. \/ main.phase = "loaded"
        \/ /\ main.phase = "loading"
           /\ ~NextIs({"setup_log", "start_job_scheduler", "start_detector"})
        \/ main.phase = "unloading" /\ NextIs({"stop_detector"})
    BY <1>1 DEF DetectorInv
  <2> QED BY <2>1 DEF SchedulerUp, NextIs
<1>3. sched.ready /\ sched.loop = "running" /\ Shutdown \notin ToSet(sched.channel)
  BY <1>2 DEF SchedulerInv
<1>4. /\ detector' = [detector EXCEPT !.thread = "waiting"]
      /\ sched' = Send(sched, job)
  BY <1>3 DEF DetectorSubmits
<1>5. /\ sched \in Schedulers
      /\ detector \in [thread : {"none", "sleep", "waiting", "ended"}, stop : BOOLEAN]
  BY DEF Types
<1>6. /\ detector'.thread = "waiting"
      /\ detector' \in [thread : {"none", "sleep", "waiting", "ended"}, stop : BOOLEAN]
  BY <1>4, <1>5
<1>7. job \in Jobs /\ job.from = "detector" /\ job.do = "iteration" /\ job # Shutdown
  BY DEF Job, Jobs, Senders, Dos, Args, Shutdown
<1>8. "detector" \notin Callers(sched) /\ "detector" \notin notified
  BY <1>1, CallersWait DEF NotifiedInv
<1>9. /\ sched' \in Schedulers
      /\ sched'.ready = sched.ready /\ sched'.loop = sched.loop
      /\ sched'.detached = sched.detached
      /\ sched'.tasks = sched.tasks /\ ToSet(sched'.channel) = ToSet(sched.channel) \cup {job}
      /\ Callers(sched') = Callers(sched) \cup {"detector"} /\ OneJobEach(sched')
  BY <1>4, <1>5, <1>7, <1>8, Sends DEF JobsInv
<1> HIDE DEF job
<1>10. Types'
  BY <1>1, <1>6, <1>9 DEF Types
<1>11. SchedulerInv'
  <2>1. SchedulerUp'
    BY <1>1, <1>2 DEF SchedulerUp, NextIs
  <2> QED BY <1>1, <1>3, <1>7, <1>9, <2>1 DEF SchedulerInv
<1>12. DetectorInv'
  BY <1>1 DEF DetectorInv, NextIs
<1>13. JobsInv'
  <2>1. \A j : Expects(j) /\ j.from # "detector" => Expects(j)'
    BY <1>1 DEF Expects
  <2>2. Expects(job)'
    BY <1>1, <1>6, <1>7, <1>8, LifecycleAssumption DEF Expects
  <2>3. /\ \A j \in ToSet(sched.channel) : j.from # "detector"
        /\ \A t \in sched.tasks : t.from # "detector"
    BY <1>8, CallersAre
  <2> QED BY <1>9, <2>1, <2>2, <2>3 DEF JobsInv
<1>14. NotifiedInv'
  BY <1>1, <1>8 DEF NotifiedInv
<1>15. TasksInv' /\ LockInv'
  BY <1>1, <1>9 DEF TasksInv, LockInv
<1>16. RoomInv'
  BY <1>1, <1>9, Zenon DEF RoomInv, NextIs, Blocked
<1>17. NoOrphanedCaller'
  BY <1>1, <1>9 DEF NoOrphanedCaller, Waiting
<1> QED BY <1>1, <1>10, <1>11, <1>12, <1>13, <1>14, <1>15, <1>16, <1>17, Frame

LEMMA DetectorResumesIInv ==
    ASSUME IInv, DetectorResumes
    PROVE  IInv'
<1> USE DEF IInv
<1>1. /\ detector.thread = "waiting" /\ "detector" \in notified
      /\ notified' = notified \ {"detector"}
      /\ detector' = [detector EXCEPT !.thread = IF detector.stop THEN "ended" ELSE "sleep"]
      /\ UNCHANGED <<main, sched, ctx, config, client, logger, answers, replaced, lost>>
  BY DEF DetectorResumes
<1>2. /\ detector'.thread \in {"ended", "sleep"} /\ detector'.thread # "waiting"
      /\ detector' \in [thread : {"none", "sleep", "waiting", "ended"}, stop : BOOLEAN]
  BY <1>1 DEF Types
<1>3. "main" \in notified' <=> "main" \in notified
  BY <1>1
<1>4. "detector" \notin Callers(sched)
  BY <1>1, CallersWait
<1>5. Types'
  BY <1>1, <1>2 DEF Types
<1>6. DetectorInv'
  BY <1>1 DEF DetectorInv, NextIs
<1>7. JobsInv'
  <2>1. \A j : Expects(j) /\ j.from # "detector" => Expects(j)'
    BY <1>1, <1>3 DEF Expects
  <2>2. /\ \A j \in ToSet(sched.channel) : j.from # "detector"
        /\ \A t \in sched.tasks : t.from # "detector"
    BY <1>4, CallersAre
  <2> QED BY <1>1, <2>1, <2>2 DEF JobsInv
<1>8. NotifiedInv'
  BY <1>1, <1>3 DEF NotifiedInv
<1>9. ServersInv'
  BY <1>1, <1>3, Zenon DEF ServersInv, NextIs, Due, ListedUpTo
<1>10. SettingsInv'
  BY <1>1, <1>3, Zenon DEF SettingsInv, NextIs, Current, Default
<1>11. RoomInv'
  BY <1>1, <1>3, Zenon DEF RoomInv, NextIs, Blocked
<1>12. NoOrphanedCaller'
  BY <1>1, <1>2, LifecycleAssumption DEF NoOrphanedCaller, Waiting
<1> QED BY <1>1, <1>5, <1>6, <1>7, <1>8, <1>9, <1>10, <1>11, <1>12, Frame

LEMMA SameScheduler ==
    ASSUME NEW r \in Schedulers, NEW s \in Schedulers,
           r.ready = s.ready, r.loop = s.loop, r.tasks = s.tasks,
           r.detached = s.detached, r.channel = s.channel
    PROVE  r = s
BY DEF Schedulers

LEMMA NewSchedulerFacts ==
    /\ NewScheduler \in Schedulers
    /\ ~NewScheduler.ready /\ NewScheduler.loop = "none" /\ NewScheduler.detached = 0
    /\ NewScheduler.tasks = {} /\ NewScheduler.channel = <<>>
    /\ \A s : s.tasks = {} /\ s.channel = <<>>
         => ToSet(s.channel) = {} /\ Callers(s) = {} /\ OneJobEach(s)
<1>1. DOMAIN <<>> = {}
  OBVIOUS
<1>2. ToSet(<<>>) = {}
  BY <1>1 DEF ToSet
<1>3. ASSUME NEW s, s.tasks = {}, s.channel = <<>>
      PROVE  ToSet(s.channel) = {} /\ Callers(s) = {} /\ OneJobEach(s)
  <2>1. ToSet(s.channel) = {} /\ DOMAIN s.channel = {}
    BY <1>1, <1>2, <1>3, Zenon
  <2>2. \A f : f \notin Callers(s)
    BY <1>3, <2>1, CallersAre
  <2> QED BY <1>3, <2>1, <2>2 DEF OneJobEach
<1>4. <<>> \in Seq(Jobs)
  OBVIOUS
<1>5. /\ NewScheduler \in Schedulers /\ NewScheduler.detached = 0
      /\ ~NewScheduler.ready /\ NewScheduler.loop = "none"
  BY <1>4 DEF NewScheduler, Schedulers
<1>6. NewScheduler.tasks = {} /\ NewScheduler.channel = <<>>
  BY Zenon DEF NewScheduler
<1> QED BY <1>3, <1>5, <1>6

LEMMA LoopSpawnsIInv ==
    ASSUME IInv, LoopSpawns
    PROVE  IInv'
<1> USE DEF IInv
<1> DEFINE job == Head(sched.channel)
           t == Task(job)
<1>1. /\ sched.loop = "running" /\ sched.channel # <<>> /\ job # Shutdown
      /\ sched' = SpawnTask(sched, t)
      /\ UNCHANGED <<main, detector, ctx, config, notified, client, logger, answers,
                     replaced, lost>>
  BY DEF LoopSpawns, Receives
<1>2. sched \in Schedulers /\ OneJobEach(sched)
  BY DEF Types, JobsInv
<1>3. /\ sched' \in Schedulers /\ job \in Jobs /\ job \in ToSet(sched.channel)
      /\ sched'.ready = sched.ready /\ sched'.loop = sched.loop
      /\ sched'.detached = sched.detached
      /\ sched'.tasks = sched.tasks \cup {t}
      /\ ToSet(sched.channel) = ToSet(sched'.channel) \cup {job}
      /\ Callers(sched') = Callers(sched) /\ OneJobEach(sched')
  BY <1>1, <1>2, Spawns
<1> HIDE DEF job
<1>4. /\ t.from = job.from /\ t.do = job.do /\ t.arg = job.arg
      /\ t.at = "start" /\ t.left = {}
  BY DEF Task
<1> HIDE DEF t
<1>5. Types'
  BY <1>1, <1>3 DEF Types
<1>6. SchedulerInv'
  <2>1. SchedulerUp' <=> SchedulerUp
    BY <1>1 DEF SchedulerUp, NextIs
  <2>2. SchedulerUp \/ main.waits = "scheduler"
    BY <1>1, NewSchedulerFacts DEF SchedulerInv
  <2>3. CASE SchedulerUp /\ main.waits # "scheduler"
    BY <1>1, <1>3, <2>1, <2>3 DEF SchedulerInv
  <2>4. CASE main.waits = "scheduler"
    <3>1. sched # [NewScheduler EXCEPT !.loop = "ended"]
      BY <1>1 DEF NewScheduler
    <3>2. ~SchedulerUp
      BY <2>4 DEF SchedulerInv
    <3> QED BY <1>1, <1>3, <2>1, <2>4, <3>1, <3>2 DEF SchedulerInv
  <2> QED BY <2>2, <2>3, <2>4
<1>7. JobsInv'
  <2>1. \A j : Expects(j)' <=> Expects(j)
    BY <1>1 DEF Expects
  <2>2. Expects(job)
    BY <1>3 DEF JobsInv
  <2>3. main.waits = "result" => Head(main.todo).do # "shutdown"
    BY DEF Control, NextIs, SyncJobs, Settings
  <2>4. job.from \in Senders
    BY <1>3 DEF Jobs
  <2>5. Expects(t) /\ t.do # "shutdown"
    BY <1>1, <1>4, <2>2, <2>3, <2>4 DEF Expects, Senders
  <2> QED BY <1>3, <2>1, <2>5 DEF JobsInv
<1>8. TasksInv' /\ LockInv'
  BY <1>1, <1>3, <1>4 DEF TasksInv, LockInv
<1>9. RoomInv'
  BY <1>1, <1>3, Zenon DEF RoomInv, NextIs, Blocked
<1>10. NoOrphanedCaller'
  BY <1>1, <1>3 DEF NoOrphanedCaller, Waiting
<1> QED BY <1>1, <1>5, <1>6, <1>7, <1>8, <1>9, <1>10, Frame

LEMMA LoopEndsIInv ==
    ASSUME IInv, LoopEnds
    PROVE  IInv'
<1> USE DEF IInv
<1>1. /\ sched.channel # <<>> /\ Head(sched.channel) = Shutdown /\ ctx.lock = "free"
      /\ sched' = EndLoop(sched)
      /\ client' = [c \in Clients |-> IF c \in Callers(sched) THEN "unblocked" ELSE client[c]]
      /\ UNCHANGED <<main, detector, ctx, config, notified, logger, answers, replaced, lost>>
  BY DEF LoopEnds, Receives
<1>2. sched \in Schedulers /\ client \in [Clients -> {"idle", "blocked", "unblocked"}]
  BY DEF Types
<1>3. Shutdown \in ToSet(sched.channel)
  BY <1>1, <1>2, Spawns DEF JobsInv
<1>4. main.waits = "scheduler"
  <2>1. Expects(Shutdown) /\ Shutdown.from = "main" /\ Shutdown.do = "shutdown"
    BY <1>3 DEF JobsInv, Shutdown, Job
  <2>2. main.waits = "result" => Head(main.todo).do # "shutdown"
    BY DEF Control, NextIs, SyncJobs, Settings
  <2> QED BY <2>1, <2>2 DEF Expects
<1>5. NextIs({"stop_job_scheduler"}) /\ Count(main.todo) > 0
  BY <1>4 DEF Control, NextIs
<1>6. main.phase = "unloading"
  BY <1>5, MainNow, PhaseOfStep DEF Types, NextIs
<1>7. ~sched.ready /\ ~SchedulerUp
  BY <1>4 DEF SchedulerInv
<1>8. sched' = [NewScheduler EXCEPT !.loop = "ended"]
  <2> DEFINE ended == [NewScheduler EXCEPT !.loop = "ended"]
  <2>1. sched.ready = FALSE
    BY <1>2, <1>7 DEF Schedulers
  <2>2. sched' = [NewScheduler EXCEPT !.ready = FALSE, !.loop = "ended"]
    BY <1>1, <2>1, Zenon DEF EndLoop
  <2>3. sched' \in Schedulers /\ ended \in Schedulers
    BY <2>2, NewSchedulerFacts DEF Schedulers
  <2>4. /\ sched'.ready = ended.ready /\ sched'.loop = ended.loop
        /\ sched'.tasks = ended.tasks /\ sched'.detached = ended.detached
        /\ sched'.channel = ended.channel
    BY <2>2, NewSchedulerFacts DEF Schedulers
  <2> HIDE DEF ended
  <2>5. sched' = ended
    BY <2>3, <2>4, SameScheduler
  <2> QED BY <2>5 DEF ended
<1>9. /\ sched' \in Schedulers /\ sched'.tasks = {} /\ sched'.channel = <<>>
      /\ sched'.detached = 0 /\ ~sched'.ready /\ sched'.loop = "ended"
  <2>1. sched'.tasks = {} /\ sched'.channel = <<>>
    BY <1>8, Zenon DEF NewScheduler
  <2>2. <<>> \in Seq(Jobs)
    OBVIOUS
  <2> QED BY <1>8, <2>1, <2>2 DEF NewScheduler, Schedulers
<1>10. ToSet(sched'.channel) = {} /\ Callers(sched') = {} /\ OneJobEach(sched')
  BY <1>9, NewSchedulerFacts
<1>11. \A c \in Clients : client[c] = "idle" /\ client'[c] = "idle"
  <2>1. \A c \in Clients : client[c] = "idle"
    BY <1>6 DEF ClientsInv
  <2>2. \A c \in Clients : c \notin Callers(sched)
    BY <2>1, CallersWait
  <2> QED BY <1>1, <2>1, <2>2
<1>12. detector.thread = "none"
  BY <1>5, <1>6 DEF DetectorInv, NextIs
<1>13. Types'
  BY <1>1, <1>9, <1>11 DEF Types
<1>14. SchedulerInv'
  BY <1>1, <1>4, <1>7, <1>8, <1>9 DEF SchedulerInv, SchedulerUp, NextIs
<1>15. JobsInv'
  BY <1>9, <1>10 DEF JobsInv
<1>16. ClientsInv' /\ TasksInv' /\ LockInv'
  BY <1>1, <1>9, <1>11 DEF ClientsInv, TasksInv, LockInv
<1>17. RoomInv'
  <2>1. MaxDetached + Cardinality(Clients) + 1 \in Nat
    BY LifecycleAssumption, FS_CardinalityType
  <2> QED BY <1>1, <1>6, <1>9, <2>1 DEF RoomInv
<1>18. NoOrphanedCaller'
  BY <1>1, <1>4, <1>11, <1>12 DEF NoOrphanedCaller, Waiting
<1> QED BY <1>1, <1>13, <1>14, <1>15, <1>16, <1>17, <1>18, Frame

(* A scheduler with tasks is running, and goes on doing so. *)
LEMMA SchedulerKeeps ==
    ASSUME Types, SchedulerInv, main' = main, sched.tasks # {} \/ sched.detached > 0,
           sched'.ready = sched.ready, sched'.loop = sched.loop,
           sched'.channel = sched.channel
    PROVE  SchedulerInv'
<1>1. sched # NewScheduler
  BY NewSchedulerFacts
<1>2. sched # [NewScheduler EXCEPT !.loop = "ended"]
  BY NewSchedulerFacts DEF Schedulers
<1>3. SchedulerUp' <=> SchedulerUp
  BY DEF SchedulerUp, NextIs
<1> QED BY <1>1, <1>2, <1>3 DEF SchedulerInv

LEMMA DetachedEndsIInv ==
    ASSUME IInv, DetachedEnds
    PROVE  IInv'
<1> USE DEF IInv
<1>1. /\ sched.detached > 0 /\ sched' = EndDetached(sched)
      /\ UNCHANGED <<main, detector, ctx, config, notified, client, logger, answers,
                     replaced, lost>>
  BY DEF DetachedEnds
<1>2. sched \in Schedulers
  BY DEF Types
<1>3. sched.detached \in Nat /\ sched.detached - 1 \in Nat
  BY <1>1, <1>2 DEF Schedulers
<1>4. /\ sched' \in Schedulers
      /\ sched'.ready = sched.ready /\ sched'.loop = sched.loop
      /\ sched'.channel = sched.channel /\ sched'.tasks = sched.tasks
      /\ sched'.detached = sched.detached - 1
  BY <1>1, <1>2, <1>3 DEF EndDetached, Schedulers
<1>5. Types'
  BY <1>1, <1>4 DEF Types
<1>6. SchedulerInv'
  BY <1>1, <1>4, SchedulerKeeps
<1>7. JobsInv'
  BY <1>1, <1>4 DEF JobsInv, Expects, OneJobEach
<1>8. TasksInv' /\ LockInv'
  BY <1>1, <1>4 DEF TasksInv, LockInv
<1>9. RoomInv'
  <2>1. /\ Cardinality(Clients) \in Nat /\ Cardinality(Blocked) \in Nat
        /\ Blocked' = Blocked
    BY <1>1, BlockedCount DEF Blocked
  <2>2. \A s : NextIs(s)' <=> NextIs(s)
    BY <1>1 DEF NextIs
  <2> QED BY <1>1, <1>3, <1>4, <2>1, <2>2, LifecycleAssumption DEF RoomInv
<1>10. NoOrphanedCaller'
  BY <1>1, <1>4 DEF NoOrphanedCaller, Waiting, Callers
<1> QED BY <1>1, <1>5, <1>6, <1>7, <1>8, <1>9, <1>10, Frame

(* An iteration goes on: its task is at another place, with other servers left. *)
LEMMA IterationMoves ==
    ASSUME IInv, NEW t \in sched.tasks, t.do = "iteration",
           NEW at \in {"start", "locked", "checking"}, NEW left \in SUBSET Nat,
           at = "start" => left = {},
           Moves(t, at, left),
           UNCHANGED <<main, detector, config, notified, client, logger, answers, replaced,
                       lost>>
    PROVE  /\ Types /\ ctx' \in Contexts => Types'
           /\ SchedulerInv' /\ JobsInv' /\ RoomInv' /\ NoOrphanedCaller'
           /\ \E u \in Tasks : /\ u.do = "iteration" /\ u.at = at /\ u.left = left
                               /\ sched'.tasks = (sched.tasks \ {t}) \cup {u}
<1> USE DEF IInv
<1> DEFINE u == [t EXCEPT !.at = at, !.left = left]
<1>1. sched \in Schedulers /\ sched.tasks \subseteq Tasks /\ OneJobEach(sched)
  BY DEF Types, Schedulers, JobsInv
<1>2. /\ u \in Tasks /\ u.from = t.from /\ u.do = t.do /\ u.arg = t.arg
      /\ u.at = at /\ u.left = left
  BY <1>1 DEF Tasks
<1>3. sched' = [sched EXCEPT !.tasks = (@ \ {t}) \cup {u}]
  BY DEF Moves
<1> HIDE DEF u
<1>4. /\ sched' \in Schedulers
      /\ sched'.ready = sched.ready /\ sched'.loop = sched.loop
      /\ sched'.detached = sched.detached
      /\ sched'.tasks = (sched.tasks \ {t}) \cup {u} /\ sched'.channel = sched.channel
      /\ Callers(sched') = Callers(sched) /\ OneJobEach(sched')
  BY <1>1, <1>2, <1>3, MovesOn
<1>5. Types /\ ctx' \in Contexts => Types'
  BY <1>4 DEF Types
<1>6. SchedulerInv'
  BY <1>4, SchedulerKeeps
<1>7. JobsInv'
  <2>1. \A j : Expects(j)' <=> Expects(j)
    BY DEF Expects
  <2>2. Expects(t)
    BY DEF JobsInv
  <2>3. Expects(u) /\ u.do # "shutdown"
    <3>1. t # Shutdown
      BY DEF Shutdown, Job
    <3> QED BY <1>2, <2>2, <3>1 DEF Expects
  <2> QED BY <1>4, <2>1, <2>3 DEF JobsInv
<1>8. RoomInv'
  BY <1>4, Zenon DEF RoomInv, NextIs, Blocked
<1>9. NoOrphanedCaller'
  BY <1>4 DEF NoOrphanedCaller, Waiting
<1> QED BY <1>2, <1>4, <1>5, <1>6, <1>7, <1>8, <1>9

(* Whose a task is, by what it does. *)
LEMMA TaskOf ==
    ASSUME IInv, NEW t \in sched.tasks
    PROVE  /\ t \in Tasks /\ t.from \in Senders /\ Expects(t) /\ t.from \in Callers(sched)
           /\ t.do = "iteration" => t.from = "detector"
           /\ t.do = "auth" => t.from \in Clients
           /\ t.from = "main" =>
                /\ main.waits = "result" /\ "main" \notin notified /\ NextIs(SyncJobs)
                /\ t.do = Head(main.todo).do /\ t.arg = Head(main.todo).arg
<1> USE DEF IInv
<1>1. /\ t \in Tasks /\ t.from \in Senders /\ Expects(t) /\ t.do # "shutdown"
  BY DEF Types, Schedulers, JobsInv, Tasks
<1>2. t.from \in Callers(sched)
  BY CallersAre
<1>3. t # Shutdown
  BY <1>1 DEF Shutdown, Job
<1>4. t.from = "main" =>
        /\ main.waits = "result" /\ "main" \notin notified /\ NextIs(SyncJobs)
        /\ t.do = Head(main.todo).do /\ t.arg = Head(main.todo).arg
  BY <1>1, <1>3 DEF Expects, Control
<1>5. t.from = "main" => t.do \in SyncJobs
  BY <1>4 DEF NextIs
<1>6. "iteration" \notin SyncJobs /\ "auth" \notin SyncJobs
  BY DEF SyncJobs, Settings
<1> QED BY <1>1, <1>2, <1>4, <1>5, <1>6 DEF Expects, Senders

LEMMA IterationLocksIInv ==
    ASSUME IInv, NEW t \in sched.tasks, IterationLocks(t)
    PROVE  IInv'
<1> USE DEF IInv
<1>1. /\ t.do = "iteration" /\ ctx' = [ctx EXCEPT !.lock = "detector"]
      /\ Moves(t, "locked", {})
      /\ UNCHANGED <<main, detector, config, notified, client, logger, answers, replaced,
                     lost>>
  BY DEF IterationLocks
<1>2. /\ Types /\ ctx' \in Contexts => Types'
      /\ SchedulerInv' /\ JobsInv' /\ RoomInv' /\ NoOrphanedCaller'
      /\ \E u \in Tasks : /\ u.do = "iteration" /\ u.at = "locked" /\ u.left = {}
                          /\ sched'.tasks = (sched.tasks \ {t}) \cup {u}
  BY <1>1, IterationMoves
<1>3. /\ ctx' \in Contexts /\ ctx'.servers = ctx.servers
      /\ \A k \in Settings : ctx'[k] = ctx[k]
  BY <1>1 DEF Types, Contexts, Settings
<1>4. TasksInv'
  BY <1>1, <1>2, <1>3 DEF TasksInv
<1>5. LockInv'
  BY <1>2 DEF LockInv
<1>6. ServersInv'
  BY <1>1, <1>3, Zenon DEF ServersInv, NextIs, Due, ListedUpTo
<1>7. SettingsInv'
  BY <1>1, <1>3 DEF SettingsInv, NextIs, Current, Default, Settings
<1> QED BY <1>1, <1>2, <1>3, <1>4, <1>5, <1>6, <1>7, Frame

LEMMA IterationReadsIInv ==
    ASSUME IInv, NEW t \in sched.tasks, IterationReads(t)
    PROVE  IInv'
<1> USE DEF IInv
<1>1. /\ t.do = "iteration" /\ ctx' = [ctx EXCEPT !.lock = "free"]
      /\ Moves(t, "checking", DOMAIN ctx.servers)
      /\ UNCHANGED <<main, detector, config, notified, client, logger, answers, replaced,
                     lost>>
  BY DEF IterationReads
<1>2. DOMAIN ctx.servers \in SUBSET Nat
  <2>1. ctx.servers \in Seq(Servers)
    BY DEF Types, Contexts
  <2>2. DOMAIN ctx.servers = 1..Len(ctx.servers)
    BY <2>1, LenProperties
  <2> QED BY <2>2
<1>3. /\ Types /\ ctx' \in Contexts => Types'
      /\ SchedulerInv' /\ JobsInv' /\ RoomInv' /\ NoOrphanedCaller'
      /\ \E u \in Tasks : /\ u.do = "iteration" /\ u.at = "checking"
                          /\ u.left = DOMAIN ctx.servers
                          /\ sched'.tasks = (sched.tasks \ {t}) \cup {u}
  BY <1>1, <1>2, IterationMoves
<1>4. /\ ctx' \in Contexts /\ ctx'.servers = ctx.servers /\ ctx'.lock = "free"
      /\ \A k \in Settings : ctx'[k] = ctx[k]
  BY <1>1 DEF Types, Contexts, Settings
<1>5. TasksInv'
  BY <1>1, <1>3, <1>4 DEF TasksInv
<1>6. LockInv'
  BY <1>4 DEF LockInv
<1>7. ServersInv'
  BY <1>1, <1>4, Zenon DEF ServersInv, NextIs, Due, ListedUpTo
<1>8. SettingsInv'
  BY <1>1, <1>4 DEF SettingsInv, NextIs, Current, Default, Settings
<1> QED BY <1>1, <1>3, <1>4, <1>5, <1>6, <1>7, <1>8, Frame

LEMMA IterationChecksIInv ==
    ASSUME IInv, NEW t \in sched.tasks, NEW i \in t.left, IterationChecks(t, i)
    PROVE  IInv'
<1> USE DEF IInv
<1>1. /\ t.do = "iteration" /\ ctx.lock = "free"
      /\ UNCHANGED <<main, detector, ctx, config, notified, client, logger, answers,
                     replaced, lost>>
  BY DEF IterationChecks, Lockable
<1>2. t \in Tasks /\ t.from = "detector"
  BY <1>1, TaskOf
<1>3. ctx \in Contexts /\ LockInv'
  BY <1>1 DEF Types, LockInv
<1>4. CASE Moves(t, "checking", t.left \ {i})
  <2>1. t.left \ {i} \in SUBSET Nat
    BY <1>2 DEF Tasks
  <2>2. /\ Types /\ ctx' \in Contexts => Types'
        /\ SchedulerInv' /\ JobsInv' /\ RoomInv' /\ NoOrphanedCaller'
        /\ \E u \in Tasks : /\ u.do = "iteration" /\ u.at = "checking"
                            /\ u.left = t.left \ {i}
                            /\ sched'.tasks = (sched.tasks \ {t}) \cup {u}
    BY <1>1, <1>4, <2>1, IterationMoves
  <2>3. TasksInv'
    BY <1>1, <2>2 DEF TasksInv
  <2> QED BY <1>1, <1>3, <2>2, <2>3, Frame
<1>5. CASE i > Len(ctx.servers) /\ sched' = EndTask(sched, t)
  <2>1. replaced
    <3>1. ctx.servers \in Seq(Servers) /\ DOMAIN ctx.servers = 1..Len(ctx.servers)
      BY <1>3, LenProperties DEF Contexts
    <3>2. i \notin DOMAIN ctx.servers
      BY <1>5, <3>1
    <3> QED BY <3>2 DEF TasksInv
  <2>2. /\ sched' \in Schedulers
        /\ sched'.ready = sched.ready /\ sched'.loop = sched.loop
        /\ sched'.detached = sched.detached
        /\ sched'.tasks = sched.tasks \ {t} /\ sched'.channel = sched.channel
        /\ Callers(sched') = Callers(sched) \ {"detector"} /\ OneJobEach(sched')
    BY <1>2, <1>5, Ends DEF Types, JobsInv
  <2>3. Types'
    BY <1>1, <2>2 DEF Types
  <2>4. SchedulerInv'
    BY <1>1, <2>2, SchedulerKeeps
  <2>5. JobsInv'
    BY <1>1, <2>2 DEF JobsInv, Expects
  <2>6. TasksInv'
    BY <1>1, <2>2 DEF TasksInv
  <2>7. RoomInv'
    BY <1>1, <2>2, Zenon DEF RoomInv, NextIs, Blocked
  <2>8. NoOrphanedCaller'
    BY <1>1, <2>1, <2>2 DEF NoOrphanedCaller, Waiting
  <2> QED BY <1>1, <1>3, <2>3, <2>4, <2>5, <2>6, <2>7, <2>8, Frame
<1> QED BY <1>4, <1>5 DEF IterationChecks

LEMMA IterationEndsIInv ==
    ASSUME IInv, NEW t \in sched.tasks, IterationEnds(t)
    PROVE  IInv'
<1> USE DEF IInv
<1>1. /\ t.do = "iteration" /\ t.at = "checking" /\ sched' = EndTask(sched, t)
      /\ notified' = notified \cup {"detector"} /\ replaced' = FALSE
      /\ UNCHANGED <<main, detector, ctx, config, client, logger, answers, lost>>
  BY DEF IterationEnds
<1>2. t \in Tasks /\ t.from = "detector" /\ Expects(t)
  BY <1>1, TaskOf
<1>3. /\ sched' \in Schedulers
      /\ sched'.ready = sched.ready /\ sched'.loop = sched.loop
      /\ sched'.detached = sched.detached
      /\ sched'.tasks = sched.tasks \ {t} /\ sched'.channel = sched.channel
      /\ Callers(sched') = Callers(sched) \ {"detector"} /\ OneJobEach(sched')
  BY <1>1, <1>2, Ends DEF Types, JobsInv
<1>4. \A u \in sched.tasks : u.do = "iteration" => u = t
  BY <1>2, TaskOf DEF JobsInv, OneJobEach
<1>5. "main" \in notified' <=> "main" \in notified
  BY <1>1
<1>6. Types'
  BY <1>1, <1>3 DEF Types
<1>7. SchedulerInv'
  BY <1>1, <1>3, SchedulerKeeps
<1>8. JobsInv'
  <2>1. \A j : Expects(j) /\ j.from # "detector" => Expects(j)'
    BY <1>1, <1>5 DEF Expects
  <2>2. "detector" \notin Callers(sched')
    BY <1>3
  <2>3. /\ \A j \in ToSet(sched'.channel) : j.from # "detector"
        /\ \A u \in sched'.tasks : u.from # "detector"
    BY <2>2, CallersAre
  <2> QED BY <1>3, <2>1, <2>3 DEF JobsInv
<1>9. NotifiedInv'
  BY <1>1, <1>2 DEF NotifiedInv, Expects
<1>10. TasksInv'
  BY <1>1, <1>3, <1>4 DEF TasksInv
<1>11. LockInv'
  BY <1>1, <1>3, <1>4 DEF LockInv
<1>12. ServersInv'
  BY <1>1, <1>5, Zenon DEF ServersInv, NextIs, Due, ListedUpTo
<1>13. SettingsInv'
  BY <1>1, <1>5, Zenon DEF SettingsInv, NextIs, Current, Default
<1>14. RoomInv'
  BY <1>1, <1>3, <1>5, Zenon DEF RoomInv, NextIs, Blocked
<1>15. NoOrphanedCaller'
  BY <1>1, <1>3 DEF NoOrphanedCaller, Waiting
<1> QED BY <1>1, <1>6, <1>7, <1>8, <1>9, <1>10, <1>11, <1>12, <1>13, <1>14, <1>15, Frame

LEMMA RunAuthTaskIInv ==
    ASSUME IInv, NEW t \in sched.tasks, RunAuthTask(t)
    PROVE  IInv'
<1> USE DEF IInv
<1> DEFINE c == t.from
           s == EndTask(sched, t)
<1>1. /\ t.do = "auth" /\ ctx.lock = "free"
      /\ client' = [client EXCEPT ![c] = "unblocked"]
      /\ sched' \in {s, Detach(s)}
      /\ UNCHANGED <<main, detector, ctx, config, notified, logger, answers, replaced, lost>>
  BY DEF RunAuthTask, Lockable
<1>2. c \in Clients /\ client[c] = "blocked"
  BY <1>1, TaskOf DEF Expects
<1>3. main.phase = "loaded" /\ c # "main" /\ c # "detector"
  BY <1>2, LifecycleAssumption DEF ClientsInv
<1>4. client \in [Clients -> {"idle", "blocked", "unblocked"}] /\ sched.detached \in Nat
  BY DEF Types, Schedulers
<1>5. /\ s \in Schedulers
      /\ s.ready = sched.ready /\ s.loop = sched.loop /\ s.detached = sched.detached
      /\ s.tasks = sched.tasks \ {t} /\ s.channel = sched.channel
      /\ Callers(s) = Callers(sched) \ {c} /\ OneJobEach(s)
  BY Ends DEF Types, JobsInv
<1> HIDE DEF s
<1>6. /\ sched' \in Schedulers
      /\ sched'.ready = sched.ready /\ sched'.loop = sched.loop
      /\ sched'.detached \in {sched.detached, sched.detached + 1}
      /\ sched'.tasks = sched.tasks \ {t} /\ sched'.channel = sched.channel
      /\ Callers(sched') = Callers(sched) \ {c} /\ OneJobEach(sched')
  <2>1. CASE sched' = s
    BY <1>5, <2>1
  <2>2. CASE sched' = Detach(s)
    BY <1>5, <2>2, Detaches
  <2> QED BY <1>1, <2>1, <2>2
<1>7. \A d \in Clients : client'[d] = IF d = c THEN "unblocked" ELSE client[d]
  BY <1>1, <1>4
<1>8. Types'
  BY <1>1, <1>4, <1>6 DEF Types
<1>9. SchedulerInv'
  BY <1>1, <1>6, SchedulerKeeps
<1>10. JobsInv'
  <2>1. \A j : Expects(j) /\ j.from # c => Expects(j)'
    BY <1>1, <1>7 DEF Expects
  <2>2. c \notin Callers(sched')
    BY <1>6
  <2>3. /\ \A j \in ToSet(sched'.channel) : j.from # c
        /\ \A u \in sched'.tasks : u.from # c
    BY <2>2, CallersAre
  <2> QED BY <1>6, <2>1, <2>3 DEF JobsInv
<1>11. ClientsInv'
  BY <1>1, <1>3 DEF ClientsInv
<1>12. TasksInv' /\ LockInv'
  BY <1>1, <1>6 DEF TasksInv, LockInv
<1>13. RoomInv'
  <2>1. Blocked' = Blocked \ {c} /\ c \in Blocked
    BY <1>2, <1>7 DEF Blocked
  <2>2. Cardinality(Blocked') = Cardinality(Blocked) - 1 /\ Cardinality(Blocked) \in Nat
    BY <2>1, BlockedCount, FS_RemoveElement
  <2>3. sched'.detached + Cardinality(Blocked') <= sched.detached + Cardinality(Blocked)
        /\ sched'.detached + Cardinality(Blocked') \in Int
        /\ sched.detached + Cardinality(Blocked) \in Int
    BY <1>4, <1>6, <2>2
  <2>4. \A S : NextIs(S)' <=> NextIs(S)
    BY <1>1 DEF NextIs
  <2>5. MaxDetached + Cardinality(Clients) + 1 \in Int
        /\ MaxDetached + Cardinality(Clients) + 1 - 1 \in Int
    BY BlockedCount, LifecycleAssumption
  <2> QED BY <1>1, <1>3, <2>3, <2>4, <2>5 DEF RoomInv
<1>14. NoOrphanedCaller'
  <2>1. \A f \in Waiting' : f \in Waiting /\ f # c
    BY <1>1, <1>3, <1>7 DEF Waiting
  <2> QED BY <1>1, <1>6, <2>1 DEF NoOrphanedCaller
<1> QED BY <1>1, <1>8, <1>9, <1>10, <1>11, <1>12, <1>13, <1>14, Frame

(***************************************************************************)
(* A task of the main thread takes effect: it is the one of the step the   *)
(* handler waits for.                                                      *)
(***************************************************************************)
LEMMA RunSyncTaskFacts ==
    ASSUME IInv, NEW t \in sched.tasks, RunSyncTask(t)
    PROVE  /\ main.waits = "result" /\ "main" \notin notified /\ Count(main.todo) > 0
           /\ t.do = Head(main.todo).do /\ t.arg = Head(main.todo).arg
           /\ t.do \in SyncJobs
           /\ PlaceOf(main, config) /\ Count(main.todo) \in Nat
           /\ config.servers \in Seq(Servers) /\ Count(config.servers) \in Nat
           /\ ctx.lock = "free" /\ ctx \in Contexts
           /\ notified' = notified \cup {"main"}
           /\ UNCHANGED <<main, detector, config, client, logger, answers>>
<1> USE DEF IInv
<1>1. t.from = "main"
  BY DEF RunSyncTask
<1>2. /\ main.waits = "result" /\ "main" \notin notified /\ NextIs(SyncJobs)
      /\ t.do = Head(main.todo).do /\ t.arg = Head(main.todo).arg
  BY <1>1, TaskOf
<1>3. /\ PlaceOf(main, config) /\ Count(main.todo) \in Nat
      /\ config.servers \in Seq(Servers) /\ Count(config.servers) \in Nat
  BY MainNow
<1> QED BY <1>2, <1>3 DEF NextIs, Types, RunSyncTask, Lockable

(* What each of them makes of the context. *)
LEMMA SyncTaskEffects ==
    ASSUME IInv, NEW t \in sched.tasks, RunSyncTask(t)
    PROVE  /\ ctx' \in Contexts /\ ctx'.lock = "free"
           /\ t.do \in {"reset_context", "clear_server_list"} => Count(ctx'.servers) = 0
           /\ t.do \in Settings \cup {"get_servers_health_status"}
                => ctx'.servers = ctx.servers
           /\ t.do = "add_server" =>
                t.arg \in Servers /\ ctx'.servers = Append(ctx.servers, t.arg)
           /\ t.do = "reset_context" => \A k \in Settings : ctx'[k] = 0
           /\ t.do \in Settings =>
                /\ ctx'[t.do] = config[t.do]
                /\ \A k \in Settings \ {t.do} : ctx'[k] = ctx[k]
           /\ t.do \notin Settings \cup {"reset_context"}
                => \A k \in Settings : ctx'[k] = ctx[k]
<1>1. /\ Count(main.todo) > 0
      /\ t.do = Head(main.todo).do /\ t.arg = Head(main.todo).arg
      /\ t.do \in SyncJobs /\ PlaceOf(main, config) /\ Count(main.todo) \in Nat
      /\ config.servers \in Seq(Servers) /\ Count(config.servers) \in Nat
      /\ ctx.lock = "free" /\ ctx \in Contexts
  BY RunSyncTaskFacts
<1>2. main \in Mains /\ config \in Configs /\ ctx' = Applied(t)
  BY DEF IInv, Types, RunSyncTask
<1>3. <<>> \in Seq(Servers) /\ Count(<<>>) = 0
  <2>1. <<>> \in Seq(Servers)
    OBVIOUS
  <2> QED BY <2>1, EmptyCount, Zenon
<1>4. CASE t.do = "reset_context"
  <2>1. ctx' = NewContext
    BY <1>2, <1>4 DEF Applied, Settings
  <2>2. ctx'.servers = <<>>
    BY <2>1, Zenon DEF NewContext
  <2>3. /\ ctx'["ldap"] = 0 /\ ctx'["connection"] = 0 /\ ctx'.lock = "free"
        /\ ctx' \in Contexts
    BY <1>3, <2>1 DEF NewContext, Contexts
  <2> QED BY <1>3, <1>4, <2>2, <2>3 DEF Settings
<1>5. CASE t.do \in Settings
  <2>1. ctx' = [ctx EXCEPT ![t.do] = t.arg]
    BY <1>2, <1>5 DEF Applied, Settings
  <2>2. t.arg = config[t.do] /\ config[t.do] \in Values
    <3>1. main.phase = "loaded"
      BY <1>1, <1>2, <1>5, PhaseOfStep
    <3>2. t.arg = config[t.do]
      BY <1>1, <1>5, <3>1 DEF PlaceOf, ListPlace, Place, Settings
    <3> QED BY <1>2, <1>5, <3>2 DEF Configs, Settings
  <2> QED BY <1>1, <1>5, <2>1, <2>2 DEF Contexts, Settings
<1>6. CASE t.do = "clear_server_list"
  <2>1. ctx' = [ctx EXCEPT !.servers = <<>>]
    BY <1>2, <1>6 DEF Applied, Settings
  <2>2. ctx'.servers = <<>>
    BY <1>1, <2>1, Zenon DEF Contexts
  <2> QED BY <1>1, <1>3, <1>6, <2>1, <2>2 DEF Contexts, Settings
<1>7. CASE t.do = "add_server"
  <2>1. ctx' = [ctx EXCEPT !.servers = Append(@, t.arg)]
    BY <1>2, <1>7 DEF Applied, Settings
  <2>2. t.arg \in Servers
    <3>1. main.phase \in {"loading", "loaded"}
      BY <1>1, <1>2, <1>7, PhaseOfStep
    <3>2. /\ Count(main.todo) <= Count(config.servers)
          /\ t.arg = config.servers[Count(config.servers) - Count(main.todo) + 1]
      BY <1>1, <1>7, <3>1 DEF PlaceOf, LoadPlace, ListPlace, Place, Settings
    <3>3. Count(config.servers) - Count(main.todo) + 1 \in 1..Count(config.servers)
      BY <1>1, <3>2
    <3> QED BY <1>1, <3>2, <3>3, ElementOfSeq DEF Count
  <2>3. Append(ctx.servers, t.arg) \in Seq(Servers)
    BY <1>1, <2>2, AppendProperties DEF Contexts
  <2> QED BY <1>1, <1>7, <2>1, <2>2, <2>3 DEF Contexts, Settings
<1>8. CASE t.do = "get_servers_health_status"
  <2>1. ctx' = ctx
    BY <1>2, <1>8 DEF Applied, Settings
  <2> QED BY <1>1, <1>8, <2>1 DEF Contexts, Settings
<1> QED BY <1>1, <1>4, <1>5, <1>6, <1>7, <1>8 DEF SyncJobs

LEMMA SyncTaskServers ==
    ASSUME IInv, NEW t \in sched.tasks, RunSyncTask(t)
    PROVE  ServersInv'
<1> DEFINE all == Count(config.servers)
           m == Count(main.todo)
<1>1. /\ main.waits = "result" /\ "main" \notin notified /\ m > 0
      /\ t.do = Head(main.todo).do /\ t.arg = Head(main.todo).arg /\ t.do \in SyncJobs
      /\ PlaceOf(main, config) /\ m \in Nat /\ all \in Nat
      /\ config.servers \in Seq(Servers) /\ ctx \in Contexts
      /\ notified' = notified \cup {"main"} /\ main' = main /\ config' = config
  BY RunSyncTaskFacts
<1>2. /\ ctx' \in Contexts
      /\ t.do \in {"reset_context", "clear_server_list"} => Count(ctx'.servers) = 0
      /\ t.do \in Settings \cup {"get_servers_health_status"} => ctx'.servers = ctx.servers
      /\ t.do = "add_server" =>
           t.arg \in Servers /\ ctx'.servers = Append(ctx.servers, t.arg)
  BY SyncTaskEffects
<1>3. main \in Mains /\ config \in Configs /\ ServersInv
  BY DEF IInv, Types
<1>4. Due = m /\ Due' = m - 1
  BY <1>1 DEF Due
<1>5. CASE t.do = "reset_context"
  <2>1. main.phase = "loading"
    BY <1>1, <1>3, <1>5, PhaseOfStep
  <2> QED BY <1>1, <1>2, <1>5, <2>1 DEF ServersInv, NextIs
<1>6. CASE t.do \in Settings \cup {"get_servers_health_status"}
  <2>1. main.phase = "loaded"
    BY <1>1, <1>3, <1>6, PhaseOfStep
  <2>2. ~NextIs({"clear_server_list", "add_server"})
    BY <1>1, <1>6 DEF NextIs, Settings
  <2>3. ctx.servers = config.servers
    BY <1>1, <1>3, <2>1, <2>2 DEF ServersInv
  <2>4. ~NextIs({"clear_server_list", "add_server"})' /\ ~(Count(main'.todo) = 0)
    BY <1>1, <2>2 DEF NextIs
  <2> QED BY <1>1, <1>2, <1>6, <2>1, <2>3, <2>4 DEF ServersInv
<1>7. CASE t.do = "clear_server_list"
  <2>1. main.phase \in {"loading", "loaded"} => m = all + 1
    BY <1>1, <1>7 DEF PlaceOf, LoadPlace, ListPlace, Place, Settings
  <2>2. Count(ctx'.servers) = 0 /\ main.phase \in Phases /\ main.phase # "unloaded"
    BY <1>1, <1>2, <1>3, <1>7, PhaseOfStep DEF Mains
  <2>3. main.phase \in {"loading", "loaded"} => Due' = all /\ all - Due' = 0
    BY <1>1, <1>4, <2>1
  <2>4. main.phase \in {"loading", "loaded"} => ListedUpTo(all - Due)'
    BY <1>1, <2>2, <2>3 DEF ListedUpTo
  <2>5. NextIs({"clear_server_list", "add_server"})'
    BY <1>1, <1>7 DEF NextIs
  <2> QED BY <1>1, <2>2, <2>3, <2>4, <2>5 DEF ServersInv, Phases
<1>8. CASE t.do = "add_server"
  <2>1. main.phase \in {"loading", "loaded"}
    BY <1>1, <1>3, <1>8, PhaseOfStep
  <2>2. m <= all /\ t.arg = config.servers[all - m + 1]
    BY <1>1, <1>8, <2>1 DEF PlaceOf, LoadPlace, ListPlace, Place, Settings
  <2>3. NextIs({"clear_server_list", "add_server"})
    BY <1>1, <1>8 DEF NextIs
  <2>4. ListedUpTo(all - m)
    BY <1>3, <1>4, <2>1, <2>2, <2>3 DEF ServersInv
  <2>5. /\ Count(ctx'.servers) = Count(ctx.servers) + 1
        /\ \A i \in 1..Count(ctx.servers) : ctx'.servers[i] = ctx.servers[i]
        /\ ctx'.servers[Count(ctx.servers) + 1] = t.arg
    <3>1. ctx.servers \in Seq(Servers)
      BY <1>1 DEF Contexts
    <3> QED BY <1>2, <1>8, <3>1, AppendProperties DEF Count
  <2>6. all - Due' = (all - m) + 1
    BY <1>1, <1>4
  <2>7. ListedUpTo(all - Due)'
    <3> DEFINE n == all - m
    <3>1. n \in Nat /\ Count(ctx.servers) = n
      BY <1>1, <2>2, <2>4 DEF ListedUpTo
    <3>2. \A i \in 1..n : ctx.servers[i] = config.servers[i]
      BY <2>4 DEF ListedUpTo
    <3> HIDE DEF n
    <3>3. /\ Count(ctx'.servers) = n + 1 /\ ctx'.servers[n + 1] = t.arg
          /\ \A i \in 1..n : ctx'.servers[i] = config.servers[i]
      BY <2>5, <3>1, <3>2
    <3>4. \A i \in 1..n + 1 : i \in 1..n \/ i = n + 1
      BY <3>1
    <3>5. t.arg = config.servers[n + 1] /\ all - Due' = n + 1
      BY <2>2, <2>6 DEF n
    <3> QED BY <1>1, <3>3, <3>4, <3>5 DEF ListedUpTo
  <2>8. Due' <= all /\ ~(Due' > all)
    BY <1>1, <1>4, <2>2
  <2>9. NextIs({"clear_server_list", "add_server"})'
    BY <1>1, <2>3 DEF NextIs
  <2> QED BY <1>1, <2>1, <2>7, <2>8, <2>9 DEF ServersInv
<1> QED BY <1>1, <1>5, <1>6, <1>7, <1>8 DEF SyncJobs

LEMMA SyncTaskSettings ==
    ASSUME IInv, NEW t \in sched.tasks, RunSyncTask(t)
    PROVE  SettingsInv'
<1>1. /\ main.waits = "result" /\ "main" \notin notified /\ Count(main.todo) > 0
      /\ t.do = Head(main.todo).do /\ t.do \in SyncJobs
      /\ PlaceOf(main, config)
      /\ notified' = notified \cup {"main"} /\ main' = main /\ config' = config
  BY RunSyncTaskFacts
<1>2. /\ t.do = "reset_context" => \A k \in Settings : ctx'[k] = 0
      /\ t.do \in Settings =>
           /\ ctx'[t.do] = config[t.do]
           /\ \A k \in Settings \ {t.do} : ctx'[k] = ctx[k]
      /\ t.do \notin Settings \cup {"reset_context"} => \A k \in Settings : ctx'[k] = ctx[k]
  BY SyncTaskEffects
<1>3. /\ main \in Mains /\ config \in Configs /\ SettingsInv
      /\ lost' = lost \ {t.do}
  BY DEF IInv, Types, RunSyncTask
<1>4. CASE t.do = "reset_context"
  <2>1. main.phase = "loading"
    BY <1>1, <1>3, <1>4, PhaseOfStep
  <2>2. \A k \in Settings : Default(k)'
    BY <1>2, <1>4 DEF Default
  <2> QED BY <1>1, <1>4, <2>1, <2>2 DEF SettingsInv, NextIs
<1>5. CASE t.do \in Settings
  <2>1. main.phase = "loaded"
    BY <1>1, <1>3, <1>5, PhaseOfStep
  <2>2. \A k \in Settings \ {t.do} : Current(k)
    BY <1>1, <1>3, <2>1 DEF SettingsInv, NextIs
  <2>3. \A k \in Settings \ {t.do} : Current(k)'
    BY <1>1, <1>2, <1>3, <1>5, <2>2 DEF Current
  <2>4. Current(t.do)'
    BY <1>1, <1>2, <1>3, <1>5 DEF Current
  <2>5. \A k \in Settings : Current(k)'
    BY <2>3, <2>4
  <2> QED BY <1>1, <2>1, <2>5 DEF SettingsInv
<1>6. CASE t.do \notin Settings \cup {"reset_context"}
  <2>1. \A k \in Settings : Current(k)' <=> Current(k)
    BY <1>1, <1>2, <1>3, <1>6 DEF Current
  <2>2. \A k \in Settings : Default(k)' <=> Default(k)
    BY <1>2, <1>6 DEF Default
  <2>3. /\ "ldap" \in Settings /\ "connection" \in Settings
        /\ \A S : NextIs(S)' <=> NextIs(S)
    BY <1>1 DEF Settings, NextIs
  <2>4. ~NextIs({"reset_context"}) /\ \A k \in Settings : ~NextIs({k})
    BY <1>1, <1>6 DEF NextIs
  <2> QED BY <1>1, <1>3, <2>1, <2>2, <2>3, <2>4 DEF SettingsInv
<1> QED BY <1>4, <1>5, <1>6

LEMMA SyncTaskChecks ==
    ASSUME IInv, NEW t \in sched.tasks, RunSyncTask(t), sched'.tasks = sched.tasks \ {t}
    PROVE  TasksInv'
<1>1. /\ main.waits = "result" /\ Count(main.todo) > 0
      /\ t.do = Head(main.todo).do /\ t.do \in SyncJobs
      /\ PlaceOf(main, config) /\ Count(main.todo) \in Nat /\ Count(config.servers) \in Nat
      /\ "main" \notin notified /\ ctx \in Contexts
  BY RunSyncTaskFacts
<1>2. /\ ctx' \in Contexts
      /\ t.do \in {"reset_context", "clear_server_list"} => Count(ctx'.servers) = 0
      /\ t.do \in Settings \cup {"get_servers_health_status"} => ctx'.servers = ctx.servers
      /\ t.do = "add_server" =>
           t.arg \in Servers /\ ctx'.servers = Append(ctx.servers, t.arg)
  BY SyncTaskEffects
<1>3. /\ main \in Mains /\ config \in Configs /\ ServersInv /\ TasksInv /\ DetectorInv
      /\ replaced' = (replaced \/ /\ t.do = "clear_server_list" /\ main.phase = "loaded"
                                  /\ \E u \in sched.tasks : u.left # {})
  BY DEF IInv, Types, RunSyncTask
<1>4. ASSUME NEW s \in Seq(Servers), Count(s) = 0 PROVE DOMAIN s = {}
  <2>1. s = <<>>
    BY <1>4, EmptyCount, Zenon
  <2> QED BY <2>1
<1>5. SUFFICES ASSUME ~replaced', NEW u \in sched.tasks \ {t}
               PROVE  u.left \subseteq DOMAIN ctx'.servers
  BY <1>3 DEF TasksInv
<1>6. ~replaced /\ u.left \subseteq DOMAIN ctx.servers
  BY <1>3, <1>5 DEF TasksInv
<1>7. CASE t.do \in Settings \cup {"get_servers_health_status"}
  BY <1>2, <1>6, <1>7
<1>8. CASE t.do = "add_server"
  <2>1. ctx.servers \in Seq(Servers)
    BY <1>1 DEF Contexts
  <2>2. DOMAIN ctx.servers \subseteq DOMAIN Append(ctx.servers, t.arg)
    BY <1>2, <1>8, <2>1, AppendProperties, LenProperties
  <2> QED BY <1>2, <1>6, <1>8, <2>2
<1>9. CASE t.do = "reset_context"
  <2>1. main.phase = "loading"
    BY <1>1, <1>3, <1>9, PhaseOfStep
  <2>2. Count(ctx.servers) = 0
    BY <1>1, <1>3, <1>9, <2>1 DEF ServersInv, NextIs
  <2>3. DOMAIN ctx.servers = {}
    BY <1>1, <1>4, <2>2 DEF Contexts
  <2> QED BY <1>6, <2>3
<1>10. CASE t.do = "clear_server_list"
  <2>1. main.phase \in {"loading", "loaded", "unloading"}
    BY <1>1, <1>3, PhaseOfStep DEF Mains, Phases
  <2>2. CASE main.phase = "loaded"
    BY <1>3, <1>5, <1>10, <2>2
  <2>3. CASE main.phase = "loading"
    <3>1. Count(main.todo) = Count(config.servers) + 1
      BY <1>1, <1>10, <2>3 DEF PlaceOf, LoadPlace, ListPlace, Place
    <3>2. Due > Count(config.servers)
      BY <1>1, <3>1 DEF Due
    <3>3. Count(ctx.servers) = 0
      BY <1>1, <1>3, <1>10, <2>3, <3>2 DEF ServersInv, NextIs
    <3>4. DOMAIN ctx.servers = {}
      BY <1>1, <1>4, <3>3 DEF Contexts
    <3> QED BY <1>6, <3>4
  <2>4. CASE main.phase = "unloading"
    <3>1. detector.thread = "none"
      BY <1>1, <1>3, <1>10, <2>4 DEF DetectorInv, NextIs
    <3>2. u.do # "iteration"
      BY <3>1, TaskOf, CallersWait DEF IInv
    <3> QED BY <1>3, <3>2 DEF TasksInv
  <2> QED BY <2>1, <2>2, <2>3, <2>4
<1> QED BY <1>1, <1>7, <1>8, <1>9, <1>10 DEF SyncJobs

LEMMA RunSyncTaskIInv ==
    ASSUME IInv, NEW t \in sched.tasks, RunSyncTask(t)
    PROVE  IInv'
<1> USE DEF IInv
<1> DEFINE s == EndTask(sched, t)
           clears == t.do = "clear_server_list"
<1>1. /\ main.waits = "result" /\ "main" \notin notified /\ Count(main.todo) > 0
      /\ t.do = Head(main.todo).do /\ t.arg = Head(main.todo).arg /\ t.do \in SyncJobs
      /\ PlaceOf(main, config)
      /\ notified' = notified \cup {"main"}
      /\ UNCHANGED <<main, detector, config, client, logger, answers>>
  BY RunSyncTaskFacts
<1>2. /\ sched' = IF clears THEN Detach(s) ELSE s
      /\ lost' = lost \ {t.do} /\ t.from = "main"
      /\ replaced' = (replaced \/ /\ clears /\ main.phase = "loaded"
                                  /\ \E u \in sched.tasks : u.left # {})
  BY DEF RunSyncTask
<1>3. /\ s \in Schedulers
      /\ s.ready = sched.ready /\ s.loop = sched.loop /\ s.detached = sched.detached
      /\ s.tasks = sched.tasks \ {t} /\ s.channel = sched.channel
      /\ Callers(s) = Callers(sched) \ {"main"} /\ OneJobEach(s)
  BY <1>2, Ends DEF Types, JobsInv
<1> HIDE DEF s
<1>4. /\ sched' \in Schedulers
      /\ sched'.ready = sched.ready /\ sched'.loop = sched.loop
      /\ sched'.detached = IF clears THEN sched.detached + 1 ELSE sched.detached
      /\ sched'.tasks = sched.tasks \ {t} /\ sched'.channel = sched.channel
      /\ Callers(sched') = Callers(sched) \ {"main"} /\ OneJobEach(sched')
  <2>1. CASE clears
    BY <1>2, <1>3, <2>1, Detaches
  <2>2. CASE ~clears
    BY <1>2, <1>3, <2>2
  <2> QED BY <2>1, <2>2
<1>5. ctx' \in Contexts /\ ctx'.lock = "free"
  BY SyncTaskEffects
<1>6. Types'
  BY <1>1, <1>2, <1>4, <1>5 DEF Types
<1>7. SchedulerInv'
  BY <1>1, <1>4, SchedulerKeeps
<1>8. JobsInv'
  <2>1. \A j : Expects(j) /\ j.from # "main" => Expects(j)'
    BY <1>1 DEF Expects
  <2>2. "main" \notin Callers(sched')
    BY <1>4
  <2>3. /\ \A j \in ToSet(sched'.channel) : j.from # "main"
        /\ \A u \in sched'.tasks : u.from # "main"
    BY <2>2, CallersAre
  <2> QED BY <1>4, <2>1, <2>3 DEF JobsInv
<1>9. NotifiedInv'
  BY <1>1 DEF NotifiedInv
<1>10. TasksInv'
  BY <1>4, SyncTaskChecks
<1>11. LockInv'
  BY <1>5 DEF LockInv
<1>12. ServersInv' /\ SettingsInv'
  BY SyncTaskServers, SyncTaskSettings
<1>13. RoomInv'
  <2> DEFINE room == MaxDetached + Cardinality(Clients) + 1
  <2>1. /\ room \in Nat /\ Cardinality(Blocked) \in Nat /\ Blocked' = Blocked
        /\ sched.detached \in Nat
    BY <1>1, BlockedCount, LifecycleAssumption DEF Blocked, Types, Schedulers
  <2>2. \A S : NextIs(S)' <=> NextIs(S)
    BY <1>1 DEF NextIs
  <2>3. NextIs({"clear_server_list"}) <=> clears
    BY <1>1 DEF NextIs
  <2>4. "main" \in notified'
    BY <1>1
  <2> HIDE DEF room, clears
  <2>5. /\ main.phase = "loading" => sched.detached <= IF NextIs({"add_server"}) THEN 1 ELSE 0
        /\ main.phase = "loaded" =>
             sched.detached + Cardinality(Blocked) <= IF clears THEN room - 1 ELSE room
        /\ main.phase = "unloading" =>
             sched.detached <= IF NextIs({"stop_detector"}) \/ clears THEN room ELSE room + 1
    BY <1>1, <2>3 DEF RoomInv, room
  <2>6. NextIs({"add_server"}) => ~clears
    BY <1>1 DEF NextIs, clears
  <2>7. NextIs({"stop_detector"}) => ~clears
    BY <1>1 DEF NextIs, clears
  <2>8. main.phase = "loading" =>
          sched'.detached <= IF NextIs({"add_server"}) \/ clears THEN 1 ELSE 0
    BY <1>4, <2>1, <2>5, <2>6
  <2>9. main.phase = "loaded" => sched'.detached + Cardinality(Blocked) <= room
    BY <1>4, <2>1, <2>5
  <2>10. main.phase = "unloading" =>
           sched'.detached <= IF NextIs({"stop_detector"}) THEN room ELSE room + 1
    BY <1>4, <2>1, <2>5, <2>7
  <2> QED BY <1>1, <2>1, <2>2, <2>3, <2>4, <2>8, <2>9, <2>10 DEF RoomInv, room
<1>14. NoOrphanedCaller'
  BY <1>1, <1>2, <1>4 DEF NoOrphanedCaller, Waiting
<1> QED BY <1>1, <1>6, <1>7, <1>8, <1>9, <1>10, <1>11, <1>12, <1>13, <1>14, Frame

-----------------------------------------------------------------------------
(* The main thread.                                                        *)

(* It has no job on its way, and nothing but its own place changes. *)
LEMMA MainIsAlone ==
    ASSUME IInv, "main" \notin Callers(sched), main'.waits # "result",
           "main" \notin notified',
           "detector" \in notified' <=> "detector" \in notified,
           UNCHANGED <<detector, sched, client, replaced>>
    PROVE  JobsInv' /\ NotifiedInv' /\ NoOrphanedCaller'
<1> USE DEF IInv
<1>1. \A j : Expects(j) /\ j.from # "main" => Expects(j)'
  BY DEF Expects
<1>2. /\ \A j \in ToSet(sched.channel) : j.from # "main"
      /\ \A u \in sched.tasks : u.from # "main"
  BY CallersAre
<1>3. JobsInv'
  BY <1>1, <1>2 DEF JobsInv
<1>4. NotifiedInv'
  BY DEF NotifiedInv
<1>5. NoOrphanedCaller'
  <2>1. \A f \in Waiting' : f \in Waiting /\ f # "main"
    BY LifecycleAssumption DEF Waiting
  <2>2. \A f \in notified : f # "main" => f \in notified'
    BY DEF Types
  <2> QED BY <2>1, <2>2 DEF NoOrphanedCaller
<1> QED BY <1>3, <1>4, <1>5

LEMMA MainAt ==
    ASSUME IInv, main.waits = "no"
    PROVE  "main" \notin Callers(sched) /\ "main" \notin notified
BY CallersWait DEF IInv, NotifiedInv

(* Between commands. *)
LEMMA FreeFacts ==
    ASSUME IInv, MainFree
    PROVE  /\ main.phase = "loaded" /\ Count(main.todo) = 0 /\ main.waits = "no"
           /\ "main" \notin Callers(sched) /\ "main" \notin notified
           /\ ctx.servers = config.servers /\ \A k \in Settings : Current(k)
           /\ \A S : ~NextIs(S)
<1> USE DEF IInv
<1>1. main.phase = "loaded" /\ Count(main.todo) = 0 /\ config.servers \in Seq(Servers)
  BY MainNow DEF MainFree
<1>2. \A S : ~NextIs(S)
  BY <1>1 DEF NextIs
<1>3. main.waits = "no"
  BY <1>2 DEF Types, Mains, Control
<1>4. "main" \notin Callers(sched) /\ "main" \notin notified
  BY <1>3, MainAt
<1>5. \A k \in Settings : Current(k)
  BY <1>1, <1>2 DEF SettingsInv
<1>6. ctx.servers = config.servers
  <2>1. Count(config.servers) \in Nat /\ Due = 0
    BY <1>1, <1>4, MainNow DEF Due
  <2>2. ListedUpTo(Count(config.servers) - Due)
    BY <1>1, <2>1 DEF ServersInv
  <2>3. ListedUpTo(Count(config.servers))
    BY <2>1, <2>2
  <2>4. ctx.servers \in Seq(Servers)
    BY DEF Types, Contexts
  <2> QED BY <1>1, <2>3, <2>4, SeqEqual DEF ListedUpTo, Count
<1> QED BY <1>1, <1>2, <1>3, <1>4, <1>5, <1>6

LEMMA LoadIInv ==
    ASSUME IInv, Load
    PROVE  IInv'
<1> USE DEF IInv
<1> DEFINE steps == Initializer(config'.servers)
<1>1. /\ main.phase = "unloaded" /\ config' \in Configs
      /\ main' = [phase |-> "loading", todo |-> steps, waits |-> "no"]
      /\ UNCHANGED <<detector, sched, ctx, notified, client, logger, answers, replaced, lost>>
  BY DEF Load, Begins, Configs
<1>2. Count(main.todo) = 0 /\ \A S : ~NextIs(S)
  BY <1>1, MainNow DEF PlaceOf, NextIs
<1>3. main.waits = "no"
  BY <1>2 DEF Types, Mains, Control
<1>4. "main" \notin Callers(sched) /\ "main" \notin notified
  BY <1>3, MainAt
<1>5. config'.servers \in Seq(Servers)
  BY <1>1, LifecycleAssumption DEF Configs
<1>6. steps \in Seq(Steps) /\ Len(steps) = Len(config'.servers) + 7 /\ Left(steps, steps)
  BY <1>5, InitializerSteps, LeftAll
<1> HIDE DEF steps
<1>7. /\ main' \in Mains /\ main'.phase = "loading" /\ main'.waits = "no"
      /\ main'.todo = steps
  BY <1>1, <1>6 DEF Mains, Phases
<1>8. Count(steps) > 0
  BY <1>5, <1>6 DEF Count
<1>9. ControlOf(main', config')
  BY <1>6, <1>7, <1>8 DEF ControlOf, steps
<1>10. PlaceOf(main', config')
  BY <1>1, <1>7, <1>9, Places
<1>11. Place(main'.todo, "setup_log")
  <2>1. Count(main'.todo) = Count(config'.servers) + 7 /\ Count(config'.servers) \in Nat
    BY <1>5, <1>6, <1>7 DEF Count
  <2>2. LoadPlace(config'.servers, main'.todo)
    BY <1>7, <1>10 DEF PlaceOf
  <2> QED BY <2>1, <2>2 DEF LoadPlace, ListPlace
<1>12. \A S : NextIs(S)' <=> "setup_log" \in S
  BY <1>11 DEF NextIs, Place
<1>13. ~SchedulerUp /\ sched = NewScheduler
  BY <1>1, <1>3 DEF SchedulerInv, SchedulerUp
<1>14. Types'
  BY <1>1, <1>7 DEF Types
<1>15. Control'
  BY <1>7, <1>9 DEF Control
<1>16. SchedulerInv'
  BY <1>1, <1>7, <1>12, <1>13 DEF SchedulerInv, SchedulerUp
<1>17. DetectorInv' /\ ClientsInv'
  BY <1>1 DEF DetectorInv, ClientsInv
<1>18. JobsInv' /\ NotifiedInv' /\ NoOrphanedCaller'
  BY <1>1, <1>4, <1>7, MainIsAlone
<1>19. ServersInv'
  <2>1. Count(ctx.servers) = 0
    BY <1>1 DEF ServersInv
  <2>2. Count(main'.todo) # 0 /\ ~NextIs({"clear_server_list", "add_server"})'
    BY <1>7, <1>8, <1>12
  <2> QED BY <1>1, <1>7, <2>1, <2>2 DEF ServersInv
<1>20. SettingsInv' /\ LoggerInv'
  BY <1>7, <1>12 DEF SettingsInv, LoggerInv
<1>21. RoomInv'
  BY <1>1, <1>7, <1>12, <1>13, NewSchedulerFacts DEF RoomInv
<1> QED BY <1>1, <1>14, <1>15, <1>16, <1>17, <1>18, <1>19, <1>20, <1>21, Frame

LEMMA UnloadIInv ==
    ASSUME IInv, Unload
    PROVE  IInv'
<1> USE DEF IInv
<1>1. /\ MainFree /\ \A c \in Clients : client[c] = "idle"
      /\ main' = [phase |-> "unloading", todo |-> Deinitializer, waits |-> "no"]
      /\ UNCHANGED <<detector, sched, ctx, config, notified, client, logger, answers,
                     replaced, lost>>
  BY DEF Unload, Begins
<1>2. /\ main.phase = "loaded" /\ main.waits = "no" /\ \A S : ~NextIs(S)
      /\ "main" \notin Callers(sched) /\ "main" \notin notified
  BY <1>1, FreeFacts
<1>3. Deinitializer \in Seq(Steps) /\ Len(Deinitializer) = 4 /\ Left(Deinitializer, Deinitializer)
  BY DeinitializerSteps, LeftAll
<1>4. Count(Deinitializer) = 4
  BY <1>3, Zenon DEF Count
<1>5. /\ main' \in Mains /\ main'.phase = "unloading" /\ main'.waits = "no"
      /\ main'.todo = Deinitializer
  BY <1>1, <1>3 DEF Mains, Phases
<1>6. ControlOf(main', config')
  BY <1>3, <1>4, <1>5 DEF ControlOf
<1>7. \A S : NextIs(S)' <=> "stop_detector" \in S
  <2>1. UnloadPlace(main'.todo)
    BY <1>1, <1>5, <1>6, Places DEF Types, PlaceOf
  <2> QED BY <1>4, <1>5, <2>1 DEF UnloadPlace, NextIs, Place
<1>8. Types'
  BY <1>1, <1>5 DEF Types
<1>9. Control'
  BY <1>5, <1>6 DEF Control
<1>10. SchedulerInv'
  BY <1>1, <1>2, <1>5, <1>7, LoadedIsUp DEF SchedulerInv, SchedulerUp
<1>11. DetectorInv' /\ ClientsInv'
  BY <1>1, <1>5, <1>7 DEF DetectorInv, ClientsInv
<1>12. JobsInv' /\ NotifiedInv' /\ NoOrphanedCaller'
  BY <1>1, <1>2, <1>5, MainIsAlone
<1>13. ServersInv' /\ SettingsInv' /\ LoggerInv'
  BY <1>5, <1>7 DEF ServersInv, SettingsInv, LoggerInv
<1>14. RoomInv'
  <2> DEFINE room == MaxDetached + Cardinality(Clients) + 1
  <2>1. room \in Nat /\ Cardinality(Blocked) \in Nat /\ sched.detached \in Nat
    BY BlockedCount, LifecycleAssumption DEF Types, Schedulers
  <2>2. sched.detached + Cardinality(Blocked) <= room
    BY <1>2 DEF RoomInv
  <2> HIDE DEF room
  <2>3. sched.detached <= room
    BY <2>1, <2>2
  <2> QED BY <1>1, <1>5, <1>7, <2>3 DEF RoomInv, room
<1> QED BY <1>1, <1>8, <1>9, <1>10, <1>11, <1>12, <1>13, <1>14, Frame

(* A command that gives the main thread a handler to run. *)
LEMMA CommandIInv ==
    ASSUME IInv, MainFree, config' \in Configs, main' \in Mains,
           main'.phase = "loaded", main'.waits = "no", ControlOf(main', config'),
           UNCHANGED <<detector, sched, ctx, notified, client, logger, answers, replaced, lost>>,
           ServersInv', SettingsInv', RoomInv'
    PROVE  IInv'
<1> USE DEF IInv
<1>1. /\ main.phase = "loaded" /\ main.waits = "no"
      /\ "main" \notin Callers(sched) /\ "main" \notin notified
  BY FreeFacts
<1>2. Types'
  BY DEF Types
<1>3. Control'
  BY DEF Control
<1>4. SchedulerInv'
  BY <1>1, LoadedIsUp DEF SchedulerInv, SchedulerUp
<1>5. DetectorInv' /\ ClientsInv' /\ LoggerInv'
  BY DEF DetectorInv, ClientsInv, LoggerInv
<1>6. JobsInv' /\ NotifiedInv' /\ NoOrphanedCaller'
  BY <1>1, MainIsAlone
<1> QED BY <1>2, <1>3, <1>4, <1>5, <1>6, Frame

LEMMA LoadedMain ==
    ASSUME NEW todo \in Seq(Steps)
    PROVE  LET m == [phase |-> "loaded", todo |-> todo, waits |-> "no"]
           IN  m \in Mains /\ m.phase = "loaded" /\ m.waits = "no" /\ m.todo = todo
BY DEF Mains, Phases

(* With one step to do that is not about the list. *)
LEMMA OneStep ==
    ASSUME NEW do \in Dos, NEW arg \in Args,
           main' = [phase |-> "loaded", todo |-> <<Step(do, arg)>>, waits |-> "no"]
    PROVE  /\ main' \in Mains /\ main'.phase = "loaded" /\ main'.waits = "no"
           /\ main'.todo = <<Step(do, arg)>>
           /\ Count(main'.todo) = 1 /\ \A S : NextIs(S)' <=> do \in S
<1>1. Step(do, arg) \in Steps
  BY StepType
<1> DEFINE one == <<Step(do, arg)>>
<1>2. one \in Seq(Steps)
  BY <1>1
<1>3. Count(one) = 1 /\ Head(one) = Step(do, arg)
  BY CountOne, Zenon
<1> HIDE DEF one
<1>4. main' = [phase |-> "loaded", todo |-> one, waits |-> "no"]
  BY DEF one
<1>5. /\ main' \in Mains /\ main'.phase = "loaded" /\ main'.waits = "no" /\ main'.todo = one
  BY <1>2, <1>4, LoadedMain, Zenon
<1>6. Count(main'.todo) > 0 /\ Head(main'.todo).do = do
  BY <1>3, <1>5, StepFields
<1>7. Count(main'.todo) = 1 /\ main'.todo = <<Step(do, arg)>>
  BY <1>3, <1>5, Zenon DEF one
<1>8. \A S : NextIs(S)' <=> do \in S
  BY <1>6 DEF NextIs
<1> QED BY <1>5, <1>7, <1>8

LEMMA OneStepIInv ==
    ASSUME IInv, MainFree, NEW do \in Dos, NEW arg \in Args, config' \in Configs,
           main' = [phase |-> "loaded", todo |-> <<Step(do, arg)>>, waits |-> "no"],
           UNCHANGED <<detector, sched, ctx, notified, client, logger, answers, replaced, lost>>,
           ControlOf(main', config'), config'.servers = config.servers,
           do \notin {"clear_server_list", "add_server"},
           \A k \in Settings : k = do \/ config'[k] = config[k]
    PROVE  IInv'
<1>1. /\ main' \in Mains /\ main'.phase = "loaded" /\ main'.waits = "no"
      /\ Count(main'.todo) = 1 /\ \A S : NextIs(S)' <=> do \in S
  BY OneStep
<1>2. /\ main.phase = "loaded" /\ "main" \notin notified
      /\ ctx.servers = config.servers /\ \A k \in Settings : Current(k)
      /\ \A S : ~NextIs(S)
  BY FreeFacts
<1>3. ServersInv'
  <2>1. Count(main'.todo) # 0 /\ ~NextIs({"clear_server_list", "add_server"})'
    BY <1>1
  <2> QED BY <1>1, <1>2, <2>1 DEF ServersInv
<1>4. SettingsInv'
  <2>1. \A k \in Settings : k # do => Current(k)'
    BY <1>2 DEF Current
  <2>2. \A k \in Settings : k = do => NextIs({k})' /\ "main" \notin notified'
    BY <1>1, <1>2
  <2> QED BY <1>1, <2>1, <2>2 DEF SettingsInv
<1>5. RoomInv'
  <2>1. ~NextIs({"clear_server_list"})' /\ ~NextIs({"clear_server_list"})
    BY <1>1, <1>2
  <2>2. Blocked' = Blocked
    BY DEF Blocked
  <2> QED BY <1>1, <1>2, <2>1, <2>2 DEF RoomInv, IInv
<1> QED BY <1>1, <1>3, <1>4, <1>5, CommandIInv

LEMMA SetSettingIInv ==
    ASSUME IInv, NEW k \in Settings, NEW v \in Values, SetSetting(k, v)
    PROVE  IInv'
<1>1. /\ MainFree /\ config' = [config EXCEPT ![k] = v] /\ config \in Configs
      /\ main' = [phase |-> "loaded", todo |-> <<Step(k, config'[k])>>, waits |-> "no"]
      /\ UNCHANGED <<detector, sched, ctx, notified, client, logger, answers, replaced, lost>>
  BY DEF SetSetting, Begins, RefreshSettingsCache, IInv, Types
<1>2. /\ config' \in Configs /\ config'.servers = config.servers /\ config'[k] = v
      /\ \A j \in Settings : j = k \/ config'[j] = config[j]
  BY <1>1 DEF Configs, Settings
<1>3. /\ k \in Dos /\ config'[k] \in Args /\ k \notin {"clear_server_list", "add_server"}
  BY <1>2, Names DEF Settings
<1>4. main'.phase = "loaded" /\ main'.todo = <<Step(k, config'[k])>>
  BY <1>1, <1>3, OneStep
<1>5. ControlOf(main', config')
  BY <1>4 DEF ControlOf
<1> QED BY <1>1, <1>2, <1>3, <1>5, OneStepIInv

LEMMA InfoIInv ==
    ASSUME IInv, Info
    PROVE  IInv'
<1> DEFINE do == "get_servers_health_status"
<1>1. /\ MainFree /\ config \in Configs
      /\ main' = [phase |-> "loaded", todo |-> <<Step(do, 0)>>, waits |-> "no"]
      /\ UNCHANGED <<detector, sched, ctx, config, notified, client, logger, answers,
                     replaced, lost>>
  BY DEF Info, Begins, IInv, Types
<1>2. do \in Dos /\ 0 \in Args
  BY Names
<1>3. main'.phase = "loaded" /\ main'.todo = <<Step(do, 0)>>
  BY <1>1, <1>2, OneStep
<1>4. ControlOf(main', config')
  BY <1>3 DEF ControlOf
<1> QED BY <1>1, <1>2, <1>4, OneStepIInv

LEMMA SetServersIInv ==
    ASSUME IInv, NEW list \in ServerLists, SetServers(list)
    PROVE  IInv'
<1> DEFINE steps == ProcessServerList(list)
<1>1. /\ MainFree /\ config' = [config EXCEPT !.servers = list] /\ config \in Configs
      /\ sched.detached < MaxDetached
      /\ main' = [phase |-> "loaded", todo |-> steps, waits |-> "no"]
      /\ UNCHANGED <<detector, sched, ctx, notified, client, logger, answers, replaced, lost>>
  BY DEF SetServers, Begins, IInv, Types
<1>2. /\ config' \in Configs /\ config'.servers = list /\ list \in Seq(Servers)
      /\ \A k \in Settings : config'[k] = config[k]
  BY <1>1, LifecycleAssumption DEF Configs, Settings
<1>3. steps \in Seq(Steps) /\ Left(steps, steps) /\ Count(steps) = Count(list) + 1
  BY <1>2, ListSteps, LeftAll DEF Count
<1> HIDE DEF steps
<1>4. /\ main' \in Mains /\ main'.phase = "loaded" /\ main'.waits = "no"
      /\ main'.todo = steps
  BY <1>1, <1>3 DEF Mains, Phases
<1>5. ControlOf(main', config')
  BY <1>2, <1>3, <1>4 DEF ControlOf, steps
<1>6. Count(list) \in Nat /\ Count(steps) \in Nat /\ Count(steps) > 0
  BY <1>2, <1>3, EmptyCount
<1>7. /\ main.phase = "loaded" /\ "main" \notin notified
      /\ \A k \in Settings : Current(k)
  BY <1>1, FreeFacts
<1>8. Due' = Count(list) + 1 /\ Due' > Count(list) /\ ~(Due' <= Count(list))
  BY <1>1, <1>3, <1>4, <1>6, <1>7 DEF Due
<1>9. ListPlace(list, steps)
  BY <1>2, <1>3, <1>6, ListPlaces DEF steps
<1>10. NextIs({"clear_server_list"})' /\ NextIs({"clear_server_list", "add_server"})'
  BY <1>3, <1>4, <1>6, <1>9 DEF ListPlace, Place, NextIs
<1>11. ServersInv'
  BY <1>2, <1>4, <1>8, <1>10 DEF ServersInv
<1>12. SettingsInv'
  <2>1. \A k \in Settings : Current(k)'
    BY <1>1, <1>2, <1>7 DEF Current
  <2> QED BY <1>4, <2>1 DEF SettingsInv
<1>13. RoomInv'
  <2> DEFINE room == MaxDetached + Cardinality(Clients) + 1
  <2>1. /\ Cardinality(Clients) \in Nat /\ Cardinality(Blocked) \in Nat
        /\ Cardinality(Blocked) <= Cardinality(Clients) /\ MaxDetached \in Nat
        /\ sched.detached \in Nat /\ Blocked' = Blocked
    BY <1>1, BlockedCount, LifecycleAssumption DEF IInv, Types, Schedulers, Blocked
  <2>2. sched.detached + Cardinality(Blocked) <= room - 1
    BY <1>1, <2>1
  <2> QED BY <1>1, <1>4, <1>7, <1>10, <2>1, <2>2 DEF RoomInv
<1> QED BY <1>1, <1>2, <1>4, <1>5, <1>11, <1>12, <1>13, CommandIInv

(* The steps of a handler. *)
LEMMA AtFacts ==
    ASSUME IInv, NEW do, At(do)
    PROVE  /\ Count(main.todo) > 0 /\ Count(main.todo) \in Nat /\ main.waits = "no"
           /\ Head(main.todo).do = do /\ Place(main.todo, do) /\ PlaceOf(main, config)
           /\ "main" \notin Callers(sched) /\ "main" \notin notified
           /\ \A S : NextIs(S) <=> do \in S
           /\ main \in Mains /\ config \in Configs
<1>1. main.todo # <<>> /\ Head(main.todo).do = do /\ main.waits = "no"
  BY DEF At
<1>2. PlaceOf(main, config) /\ Count(main.todo) > 0 /\ Count(main.todo) \in Nat
  BY <1>1, MainNow, Zenon DEF IInv
<1>3. \A S : NextIs(S) <=> do \in S
  BY <1>1, <1>2 DEF NextIs
<1> QED BY <1>1, <1>2, <1>3, MainAt DEF Place, IInv, Types

LEMMA NextAt ==
    ASSUME NEW do, Place(main.todo, do)'
    PROVE  \A S : NextIs(S)' <=> do \in S
BY DEF Place, NextIs

(* A load that has not come to the list. *)
LEMMA NoServersYet ==
    ASSUME NEW do, do \notin {"clear_server_list", "add_server"},
           Place(main.todo, do)', main'.phase = "loading", Count(ctx'.servers) = 0
    PROVE  ServersInv'
<1>1. Count(main'.todo) # 0 /\ ~NextIs({"clear_server_list", "add_server"})'
  BY DEF Place, NextIs
<1> QED BY <1>1 DEF ServersInv

LEMMA SetupLogIInv ==
    ASSUME IInv, SetupLog
    PROVE  IInv'
<1> USE DEF IInv
<1>1. /\ At("setup_log") /\ StepDone /\ logger' = "set"
      /\ UNCHANGED <<detector, sched, ctx, config, notified, client, answers, replaced, lost>>
  BY DEF SetupLog
<1>2. /\ Count(main.todo) > 0 /\ main.waits = "no" /\ Place(main.todo, "setup_log")
      /\ "main" \notin Callers(sched) /\ "main" \notin notified
      /\ \A S : NextIs(S) <=> "setup_log" \in S
      /\ main.phase = "loading"
  BY <1>1, AtFacts, PhaseOfStep
<1>3. main' \in Mains /\ Control' /\ main'.waits = "no" /\ Follows(main, main')
  BY <1>1, <1>2, MainDone
<1>4. /\ main'.phase = "loading" /\ Place(main.todo, "start_job_scheduler")'
      /\ \A S : NextIs(S)' <=> "start_job_scheduler" \in S
  BY <1>2, <1>3, NextAt DEF Follows
<1>5. Types'
  BY <1>1, <1>3 DEF Types
<1>6. SchedulerInv'
  BY <1>1, <1>2, <1>3, <1>4 DEF SchedulerInv, SchedulerUp
<1>7. DetectorInv' /\ ClientsInv' /\ LoggerInv' /\ SettingsInv'
  BY <1>1, <1>2, <1>4 DEF DetectorInv, ClientsInv, LoggerInv, SettingsInv
<1>8. JobsInv' /\ NotifiedInv' /\ NoOrphanedCaller'
  BY <1>1, <1>2, <1>3, MainIsAlone
<1>9. ServersInv'
  <2>1. Count(ctx.servers) = 0
    <3>1. Count(main.todo) # 0
      BY <1>2
    <3> QED BY <1>2, <3>1 DEF ServersInv
  <2> QED BY <1>1, <1>4, <2>1, NoServersYet
<1>10. RoomInv'
  BY <1>1, <1>2, <1>4 DEF RoomInv
<1> QED BY <1>1, <1>3, <1>5, <1>6, <1>7, <1>8, <1>9, <1>10, Frame

(* Before the scheduler starts nothing waits and nothing is locked. *)
LEMMA NothingYet ==
    ASSUME IInv, main.phase \in {"unloaded", "loading"}, main.waits = "no",
           detector.thread = "none"
    PROVE  /\ Waiting = {} /\ notified = {}
           /\ sched = NewScheduler => ctx.lock = "free"
<1> USE DEF IInv
<1>1. \A c \in Clients : client[c] = "idle"
  BY DEF ClientsInv
<1>2. Waiting = {}
  BY <1>1 DEF Waiting
<1>3. notified = {}
  BY DEF NotifiedInv, Types
<1>4. sched = NewScheduler => ctx.lock = "free"
  BY NewSchedulerFacts DEF LockInv, Types, Contexts
<1> QED BY <1>2, <1>3, <1>4

LEMMA StartJobSchedulerIInv ==
    ASSUME IInv, StartJobScheduler
    PROVE  IInv'
<1> USE DEF IInv
<1>1. /\ At("start_job_scheduler") /\ StepDone /\ sched' = Initialize(sched)
      /\ UNCHANGED <<detector, ctx, config, notified, client, logger, answers, replaced, lost>>
  BY DEF StartJobScheduler
<1>2. /\ Count(main.todo) > 0 /\ main.waits = "no" /\ Place(main.todo, "start_job_scheduler")
      /\ \A S : NextIs(S) <=> "start_job_scheduler" \in S
      /\ main.phase = "loading"
  BY <1>1, AtFacts, PhaseOfStep
<1>3. main' \in Mains /\ Control' /\ main'.waits = "no" /\ Follows(main, main')
  BY <1>1, <1>2, MainDone
<1>4. /\ main'.phase = "loading" /\ Place(main.todo, "start_detector")'
      /\ \A S : NextIs(S)' <=> "start_detector" \in S
  BY <1>2, <1>3, NextAt DEF Follows
<1>5. detector.thread = "none" /\ sched = NewScheduler
  BY <1>2 DEF DetectorInv, SchedulerInv, SchedulerUp
<1>6. Waiting = {} /\ notified = {} /\ ctx.lock = "free"
  BY <1>2, <1>5, NothingYet
<1>7. /\ sched' \in Schedulers /\ sched'.ready /\ sched'.loop = "running"
      /\ sched'.detached = 0 /\ sched'.tasks = {}
  BY <1>1, NewSchedulerFacts DEF Initialize, Schedulers
<1>8. sched'.channel = <<>>
  <2>1. sched'.channel = NewScheduler.channel
    BY <1>1, NewSchedulerFacts DEF Initialize, Schedulers
  <2> QED BY <2>1, NewSchedulerFacts, Zenon
<1>9. ToSet(sched'.channel) = {} /\ Callers(sched') = {} /\ OneJobEach(sched')
  BY <1>7, <1>8, NewSchedulerFacts, Zenon
<1>10. Types'
  BY <1>1, <1>3, <1>7 DEF Types
<1>11. SchedulerInv'
  BY <1>3, <1>4, <1>7, <1>9 DEF SchedulerInv, SchedulerUp
<1>12. DetectorInv' /\ ClientsInv' /\ LoggerInv' /\ SettingsInv'
  BY <1>1, <1>2, <1>4, <1>5 DEF DetectorInv, ClientsInv, LoggerInv, SettingsInv
<1>13. JobsInv' /\ NotifiedInv' /\ TasksInv' /\ LockInv'
  BY <1>1, <1>6, <1>7, <1>9 DEF JobsInv, NotifiedInv, TasksInv, LockInv
<1>14. NoOrphanedCaller'
  <2>1. Waiting' = {}
    BY <1>1, <1>3, <1>6 DEF Waiting
  <2> QED BY <2>1 DEF NoOrphanedCaller
<1>15. ServersInv'
  <2>1. Count(ctx.servers) = 0
    <3>1. Count(main.todo) # 0
      BY <1>2
    <3> QED BY <1>2, <3>1 DEF ServersInv
  <2> QED BY <1>1, <1>4, <2>1, NoServersYet
<1>16. RoomInv'
  BY <1>4, <1>7 DEF RoomInv
<1> QED BY <1>3, <1>10, <1>11, <1>12, <1>13, <1>14, <1>15, <1>16

LEMMA StartFailureDetectorIInv ==
    ASSUME IInv, StartFailureDetector
    PROVE  IInv'
<1> USE DEF IInv
<1>1. /\ At("start_detector") /\ StepDone
      /\ detector' = [detector EXCEPT !.stop = FALSE, !.thread = "sleep"]
      /\ UNCHANGED <<sched, ctx, config, notified, client, logger, answers, replaced, lost>>
  BY DEF StartFailureDetector, StartDetector
<1>2. /\ Count(main.todo) > 0 /\ main.waits = "no" /\ Place(main.todo, "start_detector")
      /\ "main" \notin Callers(sched) /\ \A S : NextIs(S) <=> "start_detector" \in S
      /\ main.phase = "loading"
  BY <1>1, AtFacts, PhaseOfStep
<1>3. main' \in Mains /\ Control' /\ main'.waits = "no" /\ Follows(main, main')
  BY <1>1, <1>2, MainDone
<1>4. /\ main'.phase = "loading" /\ Place(main.todo, "reset_context")'
      /\ \A S : NextIs(S)' <=> "reset_context" \in S
  BY <1>2, <1>3, NextAt DEF Follows
<1>5. detector.thread = "none"
  BY <1>2 DEF DetectorInv
<1>6. Waiting = {} /\ notified = {} /\ "detector" \notin Callers(sched)
  BY <1>2, <1>5, NothingYet, CallersWait
<1>7. /\ detector' \in [thread : {"none", "sleep", "waiting", "ended"}, stop : BOOLEAN]
      /\ detector'.thread = "sleep"
  BY <1>1 DEF Types
<1>8. Types'
  BY <1>1, <1>3, <1>7 DEF Types
<1>9. SchedulerInv'
  BY <1>1, <1>2, <1>3, <1>4 DEF SchedulerInv, SchedulerUp
<1>10. DetectorInv' /\ ClientsInv' /\ LoggerInv' /\ NotifiedInv'
  BY <1>1, <1>2, <1>4, <1>6 DEF DetectorInv, ClientsInv, LoggerInv, NotifiedInv
<1>11. SettingsInv'
  BY <1>1, <1>4, <1>6 DEF SettingsInv
<1>12. JobsInv'
  <2>1. /\ \A j \in ToSet(sched.channel) : j.from # "main" /\ j.from # "detector"
        /\ \A t \in sched.tasks : t.from # "main" /\ t.from # "detector"
    BY <1>2, <1>6, CallersAre
  <2>2. \A j : Expects(j) /\ j.from # "main" /\ j.from # "detector" => Expects(j)'
    BY <1>1 DEF Expects
  <2> QED BY <1>1, <2>1, <2>2 DEF JobsInv
<1>13. NoOrphanedCaller'
  <2>1. Waiting' = {}
    BY <1>1, <1>3, <1>6, <1>7 DEF Waiting
  <2> QED BY <2>1 DEF NoOrphanedCaller
<1>14. ServersInv'
  <2>1. Count(ctx.servers) = 0
    <3>1. Count(main.todo) # 0
      BY <1>2
    <3> QED BY <1>2, <3>1 DEF ServersInv
  <2> QED BY <1>1, <1>4, <2>1, NoServersYet
<1>15. RoomInv'
  BY <1>1, <1>2, <1>4 DEF RoomInv
<1> QED BY <1>1, <1>3, <1>8, <1>9, <1>10, <1>11, <1>12, <1>13, <1>14, <1>15, Frame

LEMMA SettingsBlockingIInv ==
    ASSUME IInv, SettingsBlocking
    PROVE  IInv'
<1> USE DEF IInv
<1> DEFINE k == Head(main.todo).arg
<1>1. /\ At("settings_blocking") /\ StepDone
      /\ \/ ctx.lock = "free" /\ ctx' = [ctx EXCEPT ![k] = config[k]] /\ lost' = lost \ {k}
         \/ ctx' = ctx /\ lost' = lost \cup {k}
      /\ UNCHANGED <<detector, sched, config, notified, client, logger, answers, replaced>>
  BY DEF SettingsBlocking
<1>2. /\ Count(main.todo) > 0 /\ main.waits = "no" /\ Place(main.todo, "settings_blocking")
      /\ "main" \notin Callers(sched) /\ "main" \notin notified
      /\ \A S : NextIs(S) <=> "settings_blocking" \in S
      /\ main.phase = "loading" /\ k \in Settings
  BY <1>1, AtFacts, PhaseOfStep
<1>3. /\ main' \in Mains /\ Control' /\ main'.waits = "no" /\ Follows(main, main')
      /\ PlaceOf(main', config')
  BY <1>1, <1>2, MainDone
<1> HIDE DEF k
<1>4. /\ ctx \in Contexts /\ config \in Configs /\ lost \subseteq Settings
  BY DEF Types
<1>5. /\ ctx' \in Contexts /\ ctx'.servers = ctx.servers /\ ctx'.lock = ctx.lock
      /\ \A j \in Settings \ {k} : ctx'[j] = ctx[j]
      /\ ctx'[k] = IF k \in lost' THEN ctx[k] ELSE config[k]
  BY <1>1, <1>2, <1>4 DEF Contexts, Configs, Settings
<1>6. lost' \subseteq Settings /\ \A j \in Settings \ {k} : j \in lost' <=> j \in lost
  BY <1>1, <1>2, <1>4
<1>7. Types'
  BY <1>1, <1>3, <1>5, <1>6 DEF Types
<1>8. JobsInv' /\ NotifiedInv' /\ NoOrphanedCaller'
  BY <1>1, <1>2, <1>3, MainIsAlone
<1>9. TasksInv' /\ LockInv'
  BY <1>1, <1>5 DEF TasksInv, LockInv
<1>10. Count(ctx'.servers) = 0 /\ sched'.detached = 0
  <2>1. Count(main.todo) # 0
    BY <1>2
  <2>2. Count(ctx.servers) = 0
    BY <1>2, <2>1 DEF ServersInv
  <2>3. sched.detached <= 0 /\ sched.detached \in Nat
    BY <1>2 DEF RoomInv, Types, Schedulers
  <2> QED BY <1>1, <1>5, <2>2, <2>3
<1>11. ASSUME main'.phase = "loading", NEW do, Place(main.todo, do)',
              do \in {"settings_blocking", "clear_server_list"}
       PROVE  SchedulerInv' /\ DetectorInv' /\ ClientsInv' /\ LoggerInv' /\ RoomInv'
  <2>1. \A S : NextIs(S)' <=> do \in S
    BY <1>11, NextAt
  <2>2. SchedulerInv'
    BY <1>1, <1>2, <1>3, <1>11, <2>1 DEF SchedulerInv, SchedulerUp
  <2>3. DetectorInv' /\ ClientsInv' /\ LoggerInv'
    BY <1>1, <1>2, <1>11, <2>1 DEF DetectorInv, ClientsInv, LoggerInv
  <2>4. RoomInv'
    BY <1>10, <1>11 DEF RoomInv
  <2> QED BY <2>2, <2>3, <2>4
<1>12. CASE k = "ldap"
  <2>1. /\ main'.phase = "loading" /\ Place(main.todo, "settings_blocking")'
        /\ Head(main'.todo).arg = "connection"
    BY <1>2, <1>3, <1>12 DEF Follows, k
  <2>2. \A S : NextIs(S)' <=> "settings_blocking" \in S
    BY <2>1, NextAt
  <2>3. ServersInv'
    BY <1>10, <2>1, NoServersYet
  <2>4. \A j \in Settings : Default(j)
    BY <1>2, <1>12 DEF SettingsInv, k
  <2>5. Current("ldap")' /\ Default("connection")'
    BY <1>1, <1>5, <1>12, <2>4 DEF Current, Default, Settings
  <2>6. SettingsInv'
    BY <2>1, <2>2, <2>5 DEF SettingsInv
  <2> QED BY <1>3, <1>7, <1>8, <1>9, <1>11, <2>1, <2>3, <2>6
<1>13. CASE k = "connection"
  <2>1. main'.phase = "loading" /\ Place(main.todo, "clear_server_list")'
    BY <1>2, <1>3, <1>13 DEF Follows, k
  <2>2. \A S : NextIs(S)' <=> "clear_server_list" \in S
    BY <2>1, NextAt
  <2>3. ServersInv'
    <3>1. LoadPlace(config'.servers, main'.todo)
      BY <1>3, <2>1 DEF PlaceOf
    <3>2. Count(main'.todo) = Count(config'.servers) + 1
      BY <2>1, <3>1 DEF LoadPlace, ListPlace, Place
    <3>3. Count(config'.servers) \in Nat
      BY <1>1, MainNow
    <3>4. Due' > Count(config'.servers) /\ ~(Due' <= Count(config'.servers))
      BY <1>1, <1>2, <3>2, <3>3 DEF Due
    <3> QED BY <1>10, <2>1, <3>4 DEF ServersInv
  <2>4. Current("ldap") /\ Default("connection")
    BY <1>2, <1>13 DEF SettingsInv, k
  <2>5. \A j \in Settings : Current(j)'
    BY <1>1, <1>5, <1>6, <1>13, <2>4 DEF Current, Default, Settings
  <2>6. SettingsInv'
    BY <2>1, <2>2, <2>5 DEF SettingsInv
  <2> QED BY <1>3, <1>7, <1>8, <1>9, <1>11, <2>1, <2>3, <2>6
<1> QED BY <1>2, <1>12, <1>13 DEF Settings

(* A step of the handler that waits: nothing but waits changes in main. *)
LEMMA StillAt ==
    ASSUME IInv, main'.phase = main.phase, main'.todo = main.todo,
           sched'.detached = sched.detached,
           UNCHANGED <<ctx, config, notified, client, logger, lost>>
    PROVE  /\ ControlOf(main', config')
           /\ ServersInv' /\ SettingsInv' /\ RoomInv' /\ ClientsInv' /\ LoggerInv'
           /\ \A S : NextIs(S)' <=> NextIs(S)
<1> USE DEF IInv
<1>1. ControlOf(main', config')
  BY Zenon DEF Control, ControlOf
<1>2. ServersInv'
  BY Zenon DEF ServersInv, NextIs, Due, ListedUpTo
<1>3. SettingsInv'
  BY Zenon DEF SettingsInv, NextIs, Current, Default
<1>4. RoomInv'
  BY Zenon DEF RoomInv, NextIs, Blocked
<1>5. ClientsInv' /\ LoggerInv'
  BY DEF ClientsInv, LoggerInv
<1>6. \A S : NextIs(S)' <=> NextIs(S)
  BY Zenon DEF NextIs
<1> QED BY <1>1, <1>2, <1>3, <1>4, <1>5, <1>6

(* The step of a sync task finds the scheduler ready. *)
LEMMA SyncStepIsUp ==
    ASSUME IInv, NextIs(SyncJobs)
    PROVE  /\ SchedulerUp /\ main.phase # "unloaded"
           /\ main.phase = "loading" =>
                NextIs({"reset_context", "clear_server_list", "add_server"})
           /\ main.phase = "unloading" => NextIs({"clear_server_list"})
<1>1. /\ main \in Mains /\ config \in Configs /\ PlaceOf(main, config)
      /\ Count(main.todo) > 0 /\ Head(main.todo).do \in SyncJobs
  BY MainNow DEF IInv, Types, NextIs
<1>2. main.phase \in {"loading", "loaded", "unloading"}
  BY <1>1, PhaseOfStep DEF Mains, Phases
<1>3. CASE main.phase = "loading"
  BY <1>1, <1>3 DEF PlaceOf, LoadPlace, ListPlace, Place, NextIs, SchedulerUp, SyncJobs,
                    Settings
<1>4. CASE main.phase = "unloading"
  BY <1>1, <1>4 DEF PlaceOf, UnloadPlace, Place, NextIs, SchedulerUp, SyncJobs, Settings
<1> QED BY <1>2, <1>3, <1>4 DEF SchedulerUp

LEMMA SubmitSyncTaskIInv ==
    ASSUME IInv, SubmitSyncTask
    PROVE  IInv'
<1> USE DEF IInv
<1>1. PICK do \in SyncJobs : At(do)
  BY DEF SubmitSyncTask
<1>2. /\ Count(main.todo) > 0 /\ main.waits = "no" /\ Head(main.todo).do = do
      /\ "main" \notin Callers(sched) /\ "main" \notin notified
      /\ \A S : NextIs(S) <=> do \in S
      /\ main \in Mains /\ sched \in Schedulers
  BY <1>1, AtFacts DEF Types
<1>3. NextIs(SyncJobs) /\ SchedulerUp /\ sched.ready /\ sched.loop = "running"
      /\ Shutdown \notin ToSet(sched.channel)
  BY <1>2, SyncStepIsUp DEF SchedulerInv
<1>4. /\ sched' = Send(sched, Job("main", Head(main.todo).do, Head(main.todo).arg))
      /\ main' = [main EXCEPT !.waits = "result"]
      /\ UNCHANGED <<detector, ctx, config, notified, client, logger, answers, replaced, lost>>
  BY <1>3 DEF SubmitSyncTask
<1>5. /\ main' \in Mains /\ main'.waits = "result"
      /\ main'.phase = main.phase /\ main'.todo = main.todo
  BY <1>2, <1>4 DEF Mains
<1>6. Head(main.todo) \in Steps
  <2>1. main.todo \in Seq(Steps) /\ main.todo # <<>>
    BY <1>1, <1>2 DEF Mains, At
  <2> QED BY <2>1, HeadTailProperties
<1>7. PICK job \in Jobs : /\ job = Job("main", Head(main.todo).do, Head(main.todo).arg)
                          /\ job.from = "main" /\ job.do = do
                          /\ job.do = Head(main.todo).do /\ job.arg = Head(main.todo).arg
  <2> DEFINE j == Job("main", Head(main.todo).do, Head(main.todo).arg)
  <2>1. /\ j \in Jobs /\ j.from = "main"
        /\ j.do = Head(main.todo).do /\ j.arg = Head(main.todo).arg
    BY <1>6 DEF Job, Jobs, Steps, Senders
  <2> HIDE DEF j
  <2> QED BY <1>2, <2>1, Zenon DEF j
<1>8. job # Shutdown
  BY <1>7 DEF Shutdown, Job, SyncJobs, Settings
<1>9. /\ sched' \in Schedulers
      /\ sched'.ready = sched.ready /\ sched'.loop = sched.loop
      /\ sched'.detached = sched.detached
      /\ sched'.tasks = sched.tasks /\ ToSet(sched'.channel) = ToSet(sched.channel) \cup {job}
      /\ Callers(sched') = Callers(sched) \cup {"main"} /\ OneJobEach(sched')
  BY <1>2, <1>4, <1>7, Sends DEF JobsInv
<1>10. /\ ControlOf(main', config')
       /\ ServersInv' /\ SettingsInv' /\ RoomInv' /\ ClientsInv' /\ LoggerInv'
       /\ \A S : NextIs(S)' <=> NextIs(S)
  BY <1>4, <1>5, <1>9, StillAt
<1>11. Types'
  BY <1>4, <1>5, <1>9 DEF Types
<1>12. Control'
  BY <1>3, <1>5, <1>10 DEF Control
<1>13. SchedulerInv'
  <2>1. SchedulerUp'
    BY <1>2, <1>3, <1>5, <1>10, SyncStepIsUp DEF SchedulerUp, Types, Mains, Phases
  <2> QED BY <1>3, <1>5, <1>8, <1>9, <2>1 DEF SchedulerInv
<1>14. DetectorInv' /\ NotifiedInv'
  BY <1>2, <1>4, <1>5, <1>10 DEF DetectorInv, NotifiedInv
<1>15. JobsInv'
  <2>1. \A j : Expects(j) /\ j.from # "main" => Expects(j)'
    BY <1>4 DEF Expects
  <2>2. /\ \A j \in ToSet(sched.channel) : j.from # "main"
        /\ \A u \in sched.tasks : u.from # "main"
    BY <1>2, CallersAre
  <2>3. Expects(job)'
    BY <1>2, <1>4, <1>5, <1>7, LifecycleAssumption DEF Expects
  <2> QED BY <1>9, <2>1, <2>2, <2>3 DEF JobsInv
<1>16. TasksInv' /\ LockInv'
  BY <1>4, <1>9 DEF TasksInv, LockInv
<1>17. NoOrphanedCaller'
  <2>1. Waiting' \subseteq Waiting \cup {"main"}
    BY <1>4 DEF Waiting
  <2> QED BY <1>4, <1>9, <2>1 DEF NoOrphanedCaller
<1> QED BY <1>10, <1>11, <1>12, <1>13, <1>14, <1>15, <1>16, <1>17

LEMMA StopFailureDetectorIInv ==
    ASSUME IInv, StopFailureDetector
    PROVE  IInv'
<1> USE DEF IInv
<1>1. /\ At("stop_detector") /\ detector' = [detector EXCEPT !.stop = TRUE]
      /\ main' = [main EXCEPT !.waits = "detector"]
      /\ UNCHANGED <<sched, ctx, config, notified, client, logger, answers, replaced, lost>>
  BY DEF StopFailureDetector
<1>2. /\ main.waits = "no" /\ main \in Mains
      /\ "main" \notin Callers(sched) /\ "main" \notin notified
      /\ \A S : NextIs(S) <=> "stop_detector" \in S
      /\ main.phase = "unloading"
  BY <1>1, AtFacts, PhaseOfStep
<1>3. /\ main' \in Mains /\ main'.waits = "detector"
      /\ main'.phase = main.phase /\ main'.todo = main.todo
  BY <1>1, <1>2 DEF Mains
<1>4. /\ ControlOf(main', config')
      /\ ServersInv' /\ SettingsInv' /\ RoomInv' /\ ClientsInv' /\ LoggerInv'
      /\ \A S : NextIs(S)' <=> NextIs(S)
  BY <1>1, <1>3, StillAt
<1>5. /\ detector' \in [thread : {"none", "sleep", "waiting", "ended"}, stop : BOOLEAN]
      /\ detector'.thread = detector.thread
  BY <1>1 DEF Types
<1>6. Types'
  BY <1>1, <1>3, <1>5 DEF Types
<1>7. Control'
  BY <1>2, <1>3, <1>4 DEF Control
<1>8. SchedulerInv'
  BY <1>1, <1>2, <1>3, <1>4 DEF SchedulerInv, SchedulerUp
<1>9. DetectorInv' /\ NotifiedInv'
  BY <1>1, <1>2, <1>3, <1>4, <1>5 DEF DetectorInv, NotifiedInv
<1>10. JobsInv'
  <2>1. \A j : Expects(j) /\ j.from # "main" => Expects(j)'
    BY <1>1, <1>5 DEF Expects
  <2>2. /\ \A j \in ToSet(sched.channel) : j.from # "main"
        /\ \A u \in sched.tasks : u.from # "main"
    BY <1>2, CallersAre
  <2> QED BY <1>1, <2>1, <2>2 DEF JobsInv
<1>11. NoOrphanedCaller'
  BY <1>1, <1>3, <1>5 DEF NoOrphanedCaller, Waiting
<1> QED BY <1>1, <1>4, <1>6, <1>7, <1>8, <1>9, <1>10, <1>11, Frame

LEMMA JoinFailureDetectorIInv ==
    ASSUME IInv, JoinFailureDetector
    PROVE  IInv'
<1> USE DEF IInv
<1>1. /\ main.waits = "detector" /\ detector.thread = "ended" /\ StepDone
      /\ detector' = [detector EXCEPT !.thread = "none"]
      /\ UNCHANGED <<sched, ctx, config, notified, client, logger, answers, replaced, lost>>
  BY DEF JoinFailureDetector, Types
<1>2. /\ NextIs({"stop_detector"}) /\ PlaceOf(main, config)
  BY <1>1, MainNow DEF Control
<1>3. /\ Count(main.todo) > 0 /\ Place(main.todo, "stop_detector")
      /\ \A S : NextIs(S) <=> "stop_detector" \in S
      /\ main.phase = "unloading"
  BY <1>2, PhaseOfStep DEF NextIs, Place, Types
<1>4. /\ main' \in Mains /\ Control' /\ main'.waits = "no" /\ Follows(main, main')
  BY <1>1, <1>3, MainDone
<1>5. /\ main'.phase = "unloading" /\ \A S : NextIs(S)' <=> "clear_server_list" \in S
  BY <1>3, <1>4, NextAt DEF Follows
<1>6. /\ "main" \notin Callers(sched) /\ "detector" \notin Callers(sched) /\ notified = {}
  BY <1>1, CallersWait DEF NotifiedInv, Types
<1>7. \A c \in Clients : client[c] = "idle"
  BY <1>3 DEF ClientsInv
<1>8. /\ detector' \in [thread : {"none", "sleep", "waiting", "ended"}, stop : BOOLEAN]
      /\ detector'.thread = "none"
  BY <1>1 DEF Types
<1>9. Types'
  BY <1>1, <1>4, <1>8 DEF Types
<1>10. SchedulerInv'
  BY <1>1, <1>3, <1>4, <1>5 DEF SchedulerInv, SchedulerUp
<1>11. DetectorInv' /\ NotifiedInv' /\ ClientsInv' /\ LoggerInv' /\ SettingsInv'
  BY <1>1, <1>5, <1>6, <1>7, <1>8 DEF DetectorInv, NotifiedInv, ClientsInv, LoggerInv, SettingsInv
<1>12. JobsInv'
  <2>1. \A j : Expects(j) /\ j.from # "main" /\ j.from # "detector" => Expects(j)'
    BY <1>1 DEF Expects
  <2>2. /\ \A j \in ToSet(sched.channel) : j.from # "main" /\ j.from # "detector"
        /\ \A u \in sched.tasks : u.from # "main" /\ u.from # "detector"
    BY <1>6, CallersAre
  <2> QED BY <1>1, <2>1, <2>2 DEF JobsInv
<1>13. ServersInv'
  BY <1>1, <1>5, <1>6 DEF ServersInv
<1>14. RoomInv'
  BY <1>1, <1>3, <1>5, <1>6 DEF RoomInv
<1>15. NoOrphanedCaller'
  BY <1>1, <1>4, <1>7, <1>8 DEF NoOrphanedCaller, Waiting
<1> QED BY <1>1, <1>4, <1>9, <1>10, <1>11, <1>12, <1>13, <1>14, <1>15, Frame

LEMMA StopJobSchedulerIInv ==
    ASSUME IInv, StopJobScheduler
    PROVE  IInv'
<1> USE DEF IInv
<1> DEFINE s == Send(sched, Shutdown)
<1>1. /\ At("stop_job_scheduler") /\ sched' = [s EXCEPT !.ready = FALSE]
      /\ main' = [main EXCEPT !.waits = "scheduler"]
      /\ UNCHANGED <<detector, ctx, config, notified, client, logger, answers, replaced, lost>>
  BY DEF StopJobScheduler, SendShutdown
<1>2. /\ main.waits = "no" /\ main \in Mains /\ sched \in Schedulers
      /\ "main" \notin Callers(sched) /\ "main" \notin notified
      /\ \A S : NextIs(S) <=> "stop_job_scheduler" \in S
      /\ main.phase = "unloading"
  BY <1>1, AtFacts, PhaseOfStep DEF Types
<1>3. /\ main' \in Mains /\ main'.waits = "scheduler"
      /\ main'.phase = main.phase /\ main'.todo = main.todo
  BY <1>1, <1>2 DEF Mains
<1>4. Shutdown \in Jobs /\ Shutdown.from = "main"
  BY DEF Shutdown, Job, Jobs, Senders, Dos, Args
<1>5. /\ s \in Schedulers /\ s.loop = sched.loop /\ s.detached = sched.detached
      /\ s.tasks = sched.tasks /\ ToSet(s.channel) = ToSet(sched.channel) \cup {Shutdown}
      /\ Callers(s) = Callers(sched) \cup {"main"} /\ OneJobEach(s)
  BY <1>2, <1>4, Sends DEF JobsInv
<1> HIDE DEF s
<1>6. /\ sched' \in Schedulers /\ ~sched'.ready /\ sched'.loop = sched.loop
      /\ sched'.detached = sched.detached
      /\ sched'.tasks = sched.tasks /\ sched'.channel = s.channel
  BY <1>1, <1>5 DEF Schedulers
<1>7. Callers(sched') = Callers(s) /\ OneJobEach(sched')
  BY <1>5, <1>6, Zenon DEF Callers, OneJobEach
<1>8. /\ ControlOf(main', config')
      /\ ServersInv' /\ SettingsInv' /\ RoomInv' /\ ClientsInv' /\ LoggerInv'
      /\ \A S : NextIs(S)' <=> NextIs(S)
  BY <1>1, <1>3, <1>6, StillAt
<1>9. Types'
  BY <1>1, <1>3, <1>6 DEF Types
<1>10. Control'
  BY <1>2, <1>3, <1>8 DEF Control
<1>11. SchedulerInv'
  <2>1. sched.loop = "running"
    BY <1>2 DEF SchedulerInv, SchedulerUp
  <2>2. ~SchedulerUp'
    BY <1>2, <1>3, <1>8 DEF SchedulerUp
  <2> QED BY <1>3, <1>5, <1>6, <2>1, <2>2 DEF SchedulerInv
<1>12. DetectorInv' /\ NotifiedInv'
  BY <1>1, <1>2, <1>3, <1>8 DEF DetectorInv, NotifiedInv
<1>13. JobsInv'
  <2>1. \A j : Expects(j) /\ j.from # "main" => Expects(j)'
    BY <1>1 DEF Expects
  <2>2. /\ \A j \in ToSet(sched.channel) : j.from # "main"
        /\ \A u \in sched.tasks : u.from # "main"
    BY <1>2, CallersAre
  <2>3. Expects(Shutdown)'
    BY <1>3, <1>4, LifecycleAssumption DEF Expects
  <2> QED BY <1>5, <1>6, <1>7, <2>1, <2>2, <2>3 DEF JobsInv
<1>14. TasksInv' /\ LockInv'
  BY <1>1, <1>6 DEF TasksInv, LockInv
<1>15. NoOrphanedCaller'
  BY <1>1, <1>3, <1>5, <1>7 DEF NoOrphanedCaller, Waiting
<1> QED BY <1>8, <1>9, <1>10, <1>11, <1>12, <1>13, <1>14, <1>15

LEMMA JoinSchedulerIInv ==
    ASSUME IInv, JoinScheduler
    PROVE  IInv'
<1> USE DEF IInv
<1>1. /\ main.waits = "scheduler" /\ sched.loop = "ended" /\ StepDone
      /\ sched' = [sched EXCEPT !.loop = "none"]
      /\ UNCHANGED <<detector, ctx, config, notified, client, logger, answers, replaced, lost>>
  BY DEF JoinScheduler
<1>2. NextIs({"stop_job_scheduler"}) /\ PlaceOf(main, config)
  BY <1>1, MainNow DEF Control
<1>3. /\ Count(main.todo) > 0 /\ Place(main.todo, "stop_job_scheduler")
      /\ \A S : NextIs(S) <=> "stop_job_scheduler" \in S
      /\ main.phase = "unloading"
  BY <1>2, PhaseOfStep DEF NextIs, Place, Types
<1>4. main' \in Mains /\ Control' /\ main'.waits = "no" /\ Follows(main, main')
  BY <1>1, <1>3, MainDone
<1>5. main'.phase = "unloading" /\ \A S : NextIs(S)' <=> "teardown_log" \in S
  BY <1>3, <1>4, NextAt DEF Follows
<1>6. sched = [NewScheduler EXCEPT !.loop = "ended"] /\ sched \in Schedulers
  BY <1>1 DEF SchedulerInv, Types
<1>7. /\ sched' \in Schedulers /\ sched'.ready = NewScheduler.ready
      /\ sched'.loop = NewScheduler.loop /\ sched'.tasks = NewScheduler.tasks
      /\ sched'.detached = NewScheduler.detached /\ sched'.channel = NewScheduler.channel
      /\ sched.tasks = NewScheduler.tasks
  BY <1>1, <1>6, NewSchedulerFacts DEF Schedulers
<1>8. sched' = NewScheduler
  BY <1>7, NewSchedulerFacts, SameScheduler
<1>9. /\ sched'.tasks = {} /\ sched.tasks = {} /\ sched'.channel = <<>> /\ sched'.detached = 0
  BY <1>7, NewSchedulerFacts, Zenon
<1>10. ToSet(sched'.channel) = {} /\ Callers(sched') = {} /\ OneJobEach(sched')
  BY <1>9, NewSchedulerFacts, Zenon
<1>11. /\ detector.thread = "none" /\ notified = {} /\ \A c \in Clients : client[c] = "idle"
  BY <1>1, <1>3 DEF DetectorInv, NotifiedInv, ClientsInv, Types
<1>12. Types'
  BY <1>1, <1>4, <1>7 DEF Types
<1>13. SchedulerInv'
  BY <1>4, <1>5, <1>8 DEF SchedulerInv, SchedulerUp
<1>14. DetectorInv' /\ NotifiedInv' /\ ClientsInv' /\ LoggerInv' /\ SettingsInv'
  BY <1>1, <1>5, <1>11 DEF DetectorInv, NotifiedInv, ClientsInv, LoggerInv, SettingsInv
<1>15. JobsInv' /\ TasksInv' /\ LockInv'
  BY <1>1, <1>9, <1>10 DEF JobsInv, TasksInv, LockInv
<1>16. ServersInv'
  BY <1>1, <1>3, <1>5 DEF ServersInv
<1>17. RoomInv'
  <2>1. MaxDetached \in Nat /\ Cardinality(Clients) \in Nat
    BY BlockedCount, LifecycleAssumption
  <2> QED BY <1>5, <1>9, <2>1 DEF RoomInv
<1>18. NoOrphanedCaller'
  BY <1>1, <1>4, <1>11 DEF NoOrphanedCaller, Waiting
<1> QED BY <1>4, <1>12, <1>13, <1>14, <1>15, <1>16, <1>17, <1>18

LEMMA TeardownLogIInv ==
    ASSUME IInv, TeardownLog
    PROVE  IInv'
<1> USE DEF IInv
<1>1. /\ At("teardown_log") /\ StepDone /\ logger' = "null"
      /\ UNCHANGED <<detector, sched, ctx, config, notified, client, answers, replaced, lost>>
  BY DEF TeardownLog
<1>2. /\ Count(main.todo) > 0 /\ main.waits = "no" /\ Place(main.todo, "teardown_log")
      /\ "main" \notin Callers(sched) /\ "main" \notin notified
      /\ \A S : NextIs(S) <=> "teardown_log" \in S
      /\ main.phase = "unloading"
  BY <1>1, AtFacts, PhaseOfStep
<1>3. main' \in Mains /\ Control' /\ main'.waits = "no" /\ Follows(main, main')
  BY <1>1, <1>2, MainDone
<1>4. main'.phase = "unloaded"
  BY <1>2, <1>3 DEF Follows
<1>5. Types'
  BY <1>1, <1>3 DEF Types
<1>6. SchedulerInv'
  BY <1>1, <1>2, <1>3, <1>4 DEF SchedulerInv, SchedulerUp
<1>7. DetectorInv' /\ ClientsInv' /\ LoggerInv' /\ SettingsInv' /\ RoomInv'
  BY <1>1, <1>2, <1>4 DEF DetectorInv, ClientsInv, LoggerInv, SettingsInv, RoomInv
<1>8. JobsInv' /\ NotifiedInv' /\ NoOrphanedCaller'
  BY <1>1, <1>2, <1>3, MainIsAlone
<1>9. ServersInv'
  <2>1. Count(ctx.servers) = 0
    BY <1>2 DEF ServersInv
  <2> QED BY <1>1, <1>4, <2>1 DEF ServersInv
<1> QED BY <1>1, <1>3, <1>5, <1>6, <1>7, <1>8, <1>9, Frame

(* What a taken result leaves of the list. *)
LEMMA ResultServers ==
    ASSUME IInv, main.waits = "result", "main" \in notified, StepDone,
           "main" \notin notified', UNCHANGED <<ctx, config>>
    PROVE  ServersInv'
<1> USE DEF IInv
<1> DEFINE all == Count(config.servers)
<1>1. /\ NextIs(SyncJobs) /\ PlaceOf(main, config) /\ all \in Nat
      /\ Count(main.todo) \in Nat /\ config.servers \in Seq(Servers)
  BY MainNow DEF Control
<1>2. /\ Count(main.todo) > 0 /\ Head(main.todo).do \in SyncJobs
      /\ main.phase # "unloaded" /\ main.phase \in Phases
      /\ main.phase = "loading" => NextIs({"reset_context", "clear_server_list", "add_server"})
      /\ main.phase = "unloading" => NextIs({"clear_server_list"})
  BY <1>1, SyncStepIsUp DEF NextIs, Types, Mains
<1>3. /\ main' \in Mains /\ Follows(main, main') /\ PlaceOf(main', config')
      /\ Count(main'.todo) = Count(main.todo) - 1
  BY <1>2, MainDone
<1>4. Due = Count(main.todo) - 1 /\ Due' = Due
  BY <1>3 DEF Due
<1>5. ASSUME main.phase \in {"loading", "loaded"}, NextIs({"clear_server_list", "add_server"})
      PROVE  ServersInv'
  <2>1. Count(main.todo) <= all + 1
    BY <1>1, <1>5 DEF PlaceOf, LoadPlace, ListPlace, Place, NextIs, Settings
  <2>2. Due <= all /\ ~(Due > all)
    BY <1>1, <1>4, <2>1
  <2>3. ListedUpTo(all - Due)
    BY <1>5, <2>2 DEF ServersInv
  <2>4. ListedUpTo(all - Due)'
    BY <1>4, <2>3 DEF ListedUpTo
  <2>5. /\ main'.phase \in {"loading", "loaded"}
        /\ Count(main'.todo) = 0 \/ Place(main'.todo, "add_server")
    BY <1>3, <1>5 DEF Follows, Place, NextIs
  <2>6. Count(main'.todo) = 0 \/ NextIs({"clear_server_list", "add_server"})'
    BY <2>5 DEF NextIs, Place
  <2> QED BY <1>4, <2>2, <2>4, <2>5, <2>6 DEF ServersInv
<1>6. CASE main.phase = "loading" /\ NextIs({"reset_context"})
  <2>1. main'.phase = "loading" /\ Place(main.todo, "settings_blocking")'
    BY <1>3, <1>6 DEF Follows, Place, NextIs
  <2>2. Count(ctx.servers) = 0
    <3>1. Count(main.todo) # 0 /\ ~NextIs({"clear_server_list", "add_server"})
      BY <1>2, <1>6 DEF NextIs
    <3> QED BY <1>6, <3>1 DEF ServersInv
  <2> QED BY <2>1, <2>2, NoServersYet
<1>7. CASE main.phase = "loaded" /\ ~NextIs({"clear_server_list", "add_server"})
  <2>1. Count(main.todo) = 1
    BY <1>1, <1>2, <1>7 DEF PlaceOf, ListPlace, Place, NextIs
  <2>2. main'.phase = "loaded" /\ Count(main'.todo) = 0 /\ Due' = 0
    BY <1>3, <1>4, <1>7, <2>1 DEF Follows
  <2>3. ctx.servers = config.servers
    BY <1>2, <1>7 DEF ServersInv
  <2>4. all - Due' = all /\ Due' <= all
    BY <1>1, <2>2
  <2>5. ListedUpTo(all - Due)'
    BY <2>3, <2>4 DEF ListedUpTo
  <2> QED BY <2>2, <2>4, <2>5 DEF ServersInv
<1>8. CASE main.phase = "unloading"
  <2>1. main'.phase = "unloading"
    BY <1>2, <1>3, <1>8 DEF Follows, Place, NextIs
  <2>2. Count(ctx.servers) = 0
    BY <1>2, <1>8 DEF ServersInv, NextIs
  <2> QED BY <2>1, <2>2 DEF ServersInv
<1>9. \/ main.phase = "loaded" \/ main.phase = "unloading"
      \/ /\ main.phase = "loading"
         /\ NextIs({"reset_context"}) \/ NextIs({"clear_server_list", "add_server"})
  BY <1>2 DEF NextIs, Phases
<1> QED BY <1>5, <1>6, <1>7, <1>8, <1>9

LEMMA TakeResultIInv ==
    ASSUME IInv, TakeResult
    PROVE  IInv'
<1> USE DEF IInv
<1>1. /\ main.waits = "result" /\ "main" \in notified /\ StepDone
      /\ notified' = notified \ {"main"}
      /\ UNCHANGED <<detector, sched, ctx, config, client, logger, answers, replaced, lost>>
  BY DEF TakeResult
<1>2. /\ NextIs(SyncJobs) /\ SchedulerUp
      /\ main.phase # "unloaded" /\ main.phase \in Phases
      /\ main.phase = "loading" => NextIs({"reset_context", "clear_server_list", "add_server"})
      /\ main.phase = "unloading" => NextIs({"clear_server_list"})
  BY <1>1, SyncStepIsUp DEF Control, Types, Mains
<1>3. Count(main.todo) > 0
  BY <1>2 DEF NextIs
<1>4. main' \in Mains /\ Control' /\ main'.waits = "no" /\ Follows(main, main')
  BY <1>1, <1>3, MainDone
<1>5. "main" \notin Callers(sched)
  BY <1>1, CallersWait
<1>6. \/ main.phase = "loaded" /\ main'.phase = "loaded" /\ ~NextIs({"clear_server_list"})'
      \/ /\ main.phase = "loading" /\ NextIs({"reset_context"})
         /\ main'.phase = "loading" /\ Place(main.todo, "settings_blocking")'
         /\ Head(main'.todo).arg = "ldap"
      \/ /\ main.phase = "loading" /\ NextIs({"clear_server_list", "add_server"})
         /\ \/ main'.phase = "loading" /\ Place(main.todo, "add_server")'
            \/ main'.phase = "loaded" /\ Count(main'.todo) = 0
      \/ /\ main.phase = "unloading" /\ NextIs({"clear_server_list"})
         /\ main'.phase = "unloading" /\ Place(main.todo, "stop_job_scheduler")'
  BY <1>2, <1>4 DEF Follows, Place, NextIs, Phases
<1>7. Types'
  BY <1>1, <1>4 DEF Types
<1>8. SchedulerInv'
  <2>1. SchedulerUp'
    BY <1>4, <1>6 DEF SchedulerUp, NextIs, Place
  <2> QED BY <1>1, <1>2, <1>4, <2>1 DEF SchedulerInv
<1>9. DetectorInv' /\ ClientsInv' /\ LoggerInv'
  BY <1>1, <1>6 DEF DetectorInv, ClientsInv, LoggerInv, NextIs, Place
<1>10. JobsInv' /\ NotifiedInv' /\ NoOrphanedCaller'
  BY <1>1, <1>4, <1>5, MainIsAlone
<1>11. ServersInv'
  BY <1>1, ResultServers
<1>12. SettingsInv'
  <2>1. \A k \in Settings : (Current(k)' <=> Current(k)) /\ (Default(k)' <=> Default(k))
    BY <1>1 DEF Current, Default
  <2>2. CASE main.phase = "loaded" /\ main'.phase = "loaded"
    BY <1>1, <2>1, <2>2 DEF SettingsInv
  <2>3. CASE main.phase = "loading" /\ NextIs({"reset_context"})
    <3>1. /\ main'.phase = "loading" /\ Head(main'.todo).arg = "ldap"
          /\ Place(main.todo, "settings_blocking")'
      BY <1>6, <2>3 DEF NextIs
    <3>2. \A S : NextIs(S)' <=> "settings_blocking" \in S
      BY <3>1, NextAt
    <3>3. \A k \in Settings : Default(k)'
      BY <1>1, <2>1, <2>3 DEF SettingsInv
    <3> QED BY <3>1, <3>2, <3>3 DEF SettingsInv
  <2>4. CASE main.phase = "loading" /\ NextIs({"clear_server_list", "add_server"})
    <3>1. \A k \in Settings : Current(k)'
      BY <2>1, <2>4 DEF SettingsInv
    <3>2. \/ main'.phase = "loading" /\ Place(main.todo, "add_server")'
          \/ main'.phase = "loaded"
      BY <1>6, <2>4 DEF NextIs
    <3> QED BY <3>1, <3>2 DEF SettingsInv, NextIs, Place
  <2> QED BY <1>6, <2>2, <2>3, <2>4 DEF SettingsInv
<1>13. RoomInv'
  <2> DEFINE room == MaxDetached + Cardinality(Clients) + 1
  <2>1. /\ Cardinality(Clients) \in Nat /\ Cardinality(Blocked) \in Nat /\ MaxDetached \in Nat
        /\ Cardinality(Blocked) <= Cardinality(Clients) /\ sched.detached \in Nat
        /\ Blocked' = Blocked
    BY <1>1, BlockedCount, LifecycleAssumption DEF Blocked, Types, Schedulers
  <2>2. CASE main.phase = "loaded" /\ main'.phase = "loaded" /\ ~NextIs({"clear_server_list"})'
    BY <1>1, <2>1, <2>2 DEF RoomInv
  <2>3. CASE main.phase = "loading" /\ NextIs({"reset_context"})
    <3>1. main'.phase = "loading" /\ Place(main.todo, "settings_blocking")'
      BY <1>6, <2>3 DEF NextIs
    <3>2. sched.detached <= 0
      BY <2>3 DEF RoomInv, NextIs
    <3>3. sched'.detached = 0
      BY <1>1, <2>1, <3>2
    <3> QED BY <3>1, <3>3 DEF RoomInv
  <2>4. CASE main.phase = "loading" /\ NextIs({"clear_server_list", "add_server"})
    <3>1. sched.detached <= 1
      BY <2>1, <2>4 DEF RoomInv
    <3>2. CASE main'.phase = "loading" /\ Place(main.todo, "add_server")'
      BY <1>1, <3>1, <3>2 DEF RoomInv, NextIs, Place
    <3>3. CASE main'.phase = "loaded" /\ Count(main'.todo) = 0
      <4>1. sched.detached + Cardinality(Blocked) <= room
        BY <2>1, <3>1
      <4>2. ~NextIs({"clear_server_list"})'
        BY <3>3 DEF NextIs
      <4> QED BY <1>1, <2>1, <3>3, <4>1, <4>2 DEF RoomInv
    <3> QED BY <1>6, <2>4, <3>2, <3>3 DEF NextIs
  <2>5. CASE main.phase = "unloading"
    <3>1. main'.phase = "unloading" /\ Place(main.todo, "stop_job_scheduler")'
      BY <1>6, <2>5
    <3>2. sched.detached <= room + 1
      BY <2>1, <2>5 DEF RoomInv
    <3>3. ~NextIs({"stop_detector"})' /\ ~NextIs({"clear_server_list"})'
      BY <3>1 DEF NextIs, Place
    <3> QED BY <1>1, <3>1, <3>2, <3>3 DEF RoomInv
  <2> QED BY <1>6, <2>2, <2>3, <2>4, <2>5
<1> QED BY <1>1, <1>4, <1>7, <1>8, <1>9, <1>10, <1>11, <1>12, <1>13, Frame

-----------------------------------------------------------------------------
(* The invariant holds at first, and after every step.                     *)

LEMMA InitIInv ==
    ASSUME Init
    PROVE  IInv
<1> USE DEF IInv
<1>1. /\ main = [phase |-> "unloaded", todo |-> <<>>, waits |-> "no"]
      /\ detector = [thread |-> "none", stop |-> FALSE]
      /\ sched = NewScheduler /\ ctx = NewContext /\ config \in Configs
      /\ notified = {} /\ client = [c \in Clients |-> "idle"] /\ logger = "null"
      /\ answers = TRUE /\ replaced = FALSE /\ lost = {}
  BY Zenon DEF Init, Configs
<1>2. main.phase = "unloaded" /\ main.todo = <<>> /\ main.waits = "no"
  BY <1>1, Zenon
<1>3. Count(main.todo) = 0
  <2>1. <<>> \in Seq(Steps)
    OBVIOUS
  <2>2. Count(<<>>) = 0
    BY <2>1, EmptyCount, Zenon
  <2> QED BY <1>2, <2>2, Zenon
<1>4. Count(ctx.servers) = 0
  <2>1. <<>> \in Seq(Servers)
    OBVIOUS
  <2>2. ctx.servers = <<>>
    BY <1>1, Zenon DEF NewContext
  <2> QED BY <2>1, <2>2, EmptyCount, Zenon
<1>5. main \in Mains /\ ctx \in Contexts /\ ctx.lock = "free"
  BY <1>1 DEF Mains, Phases, NewContext, Contexts
<1>6. Types
  BY <1>1, <1>5, NewSchedulerFacts DEF Types
<1>7. Control
  BY <1>2, <1>3 DEF Control, ControlOf
<1>8. SchedulerInv
  BY <1>1, <1>2 DEF SchedulerInv, SchedulerUp
<1>9. DetectorInv /\ NotifiedInv /\ ClientsInv /\ LoggerInv
  BY <1>1 DEF DetectorInv, NotifiedInv, ClientsInv, LoggerInv
<1>10. ToSet(sched.channel) = {} /\ sched.tasks = {} /\ OneJobEach(sched)
  BY <1>1, NewSchedulerFacts, Zenon
<1>11. JobsInv /\ TasksInv /\ LockInv
  BY <1>5, <1>10 DEF JobsInv, TasksInv, LockInv
<1>12. ServersInv /\ SettingsInv /\ RoomInv
  BY <1>2, <1>4 DEF ServersInv, SettingsInv, RoomInv
<1>13. NoOrphanedCaller
  BY <1>1, <1>2 DEF NoOrphanedCaller, Waiting
<1> QED BY <1>6, <1>7, <1>8, <1>9, <1>11, <1>12, <1>13

LEMMA NextIInv ==
    ASSUME IInv, [Next]_vars
    PROVE  IInv'
<1>1. CASE UNCHANGED vars
  BY <1>1, StutterIInv
<1>2. CASE Load \/ Unload \/ Info
  BY <1>2, LoadIInv, UnloadIInv, InfoIInv
<1>3. ASSUME NEW k \in Settings, NEW v \in Values, SetSetting(k, v)
      PROVE  IInv'
  BY <1>3, SetSettingIInv
<1>4. ASSUME NEW list \in ServerLists, SetServers(list)
      PROVE  IInv'
  BY <1>4, SetServersIInv
<1>5. ASSUME NEW c \in Clients, AuthCommand(c) \/ AuthReply(c)
      PROVE  IInv'
  BY <1>5, AuthCommandIInv, AuthReplyIInv
<1>6. CASE Commands
  BY <1>2, <1>3, <1>4, <1>5, <1>6 DEF Commands
<1>7. CASE MainStep
  BY <1>7, SetupLogIInv, StartJobSchedulerIInv, StartFailureDetectorIInv,
     SubmitSyncTaskIInv, TakeResultIInv, SettingsBlockingIInv, StopFailureDetectorIInv,
     JoinFailureDetectorIInv, StopJobSchedulerIInv, JoinSchedulerIInv, TeardownLogIInv
  DEF MainStep
<1>8. CASE DetectorSubmits \/ DetectorResumes
  BY <1>8, DetectorSubmitsIInv, DetectorResumesIInv
<1>9. CASE LoopSpawns \/ LoopEnds \/ DetachedEnds \/ ServersChange
  BY <1>9, LoopSpawnsIInv, LoopEndsIInv, DetachedEndsIInv, ServersChangeIInv
<1>10. ASSUME NEW t \in sched.tasks, RunTask(t)
       PROVE  IInv'
  BY <1>10, RunSyncTaskIInv, IterationLocksIInv, IterationReadsIInv, IterationChecksIInv,
     IterationEndsIInv, RunAuthTaskIInv
  DEF RunTask
<1> QED BY <1>1, <1>6, <1>7, <1>8, <1>9, <1>10 DEF Next

LEMMA AlwaysIInv == Spec => []IInv
<1>1. Init => IInv
  BY InitIInv
<1>2. IInv /\ [Next]_vars => IInv'
  BY NextIInv
<1> QED BY <1>1, <1>2, PTL DEF Spec

-----------------------------------------------------------------------------
(* As many jobs as senders.                                                *)

LEMMA NamedApart ==
    ASSUME NEW A, NEW T, IsFiniteSet(T), NEW f \in [A -> T],
           \A a, b \in A : f[a] = f[b] => a = b
    PROVE  LET names == {f[a] : a \in A}
           IN  /\ IsFiniteSet(A) /\ IsFiniteSet(names)
               /\ Cardinality(names) = Cardinality(A) /\ Cardinality(A) \in Nat
<1> DEFINE names == {f[a] : a \in A}
<1>1. f \in Injection(A, T)
  BY Fun_IsInj
<1>2. IsFiniteSet(A)
  BY <1>1, FS_Injection
<1>3. f \in [A -> names] /\ \A n \in names : \E a \in A : f[a] = n
  OBVIOUS
<1> HIDE DEF names
<1>4. f \in Bijection(A, names)
  BY <1>3, Fun_IsBij
<1>5. ExistsBijection(A, names)
  BY <1>4 DEF ExistsBijection
<1>6. IsFiniteSet(names) /\ Cardinality(names) = Cardinality(A)
  BY <1>2, <1>5, FS_Bijection
<1> QED BY <1>2, <1>6, FS_CardinalityType DEF names

LEMMA JobsAreCounted ==
    ASSUME NEW s \in Schedulers, OneJobEach(s)
    PROVE  Len(s.channel) + Cardinality(s.tasks) = Cardinality(Callers(s))
<1> DEFINE n == Len(s.channel)
           places == 1..n
           from == [i \in places |-> s.channel[i].from]
           of == [t \in s.tasks |-> t.from]
           sent == {from[i] : i \in places}
           running == {of[t] : t \in s.tasks}
<1>1. /\ s.channel \in Seq(Jobs) /\ n \in Nat /\ DOMAIN s.channel = places
      /\ s.tasks \subseteq Tasks
  BY DEF Schedulers
<1>2. \A i \in places : s.channel[i] \in Jobs
  BY <1>1, ElementOfSeq
<1>3. IsFiniteSet(Senders)
  <2>1. IsFiniteSet(Clients) /\ Senders = (Clients \cup {"main"}) \cup {"detector"}
    BY LifecycleAssumption DEF Senders
  <2>2. IsFiniteSet(Clients \cup {"main"})
    BY <2>1, FS_AddElement
  <2> QED BY <2>1, <2>2, FS_AddElement
<1>4. from \in [places -> Senders] /\ \A i, j \in places : from[i] = from[j] => i = j
  BY <1>1, <1>2 DEF OneJobEach, Jobs
<1>5. of \in [s.tasks -> Senders] /\ \A t, u \in s.tasks : of[t] = of[u] => t = u
  BY <1>1 DEF OneJobEach, Tasks
<1>6. /\ \A f : f \in sent <=> \E job \in ToSet(s.channel) : f = job.from
      /\ \A f : f \in running <=> \E t \in s.tasks : f = t.from
  BY <1>1 DEF ToSet
<1>7. sent \cup running = Callers(s) /\ sent \cap running = {}
  <2> HIDE DEF sent, running
  <2>1. \A f : f \in sent \cup running <=> f \in Callers(s)
    BY <1>6, CallersAre
  <2>2. \A f : ~(f \in sent /\ f \in running)
    BY <1>6 DEF OneJobEach
  <2> QED BY <2>1, <2>2
<1> HIDE DEF from, of, places, n
<1>8. /\ IsFiniteSet(sent) /\ Cardinality(sent) = Cardinality(places)
      /\ Cardinality(places) \in Nat
  BY <1>3, <1>4, NamedApart
<1>9. /\ IsFiniteSet(running) /\ Cardinality(running) = Cardinality(s.tasks)
      /\ Cardinality(s.tasks) \in Nat
  BY <1>3, <1>5, NamedApart
<1>10. Cardinality(places) = n
  <2>1. n \in Nat
    BY <1>1
  <2>2. 1 \in Int /\ n \in Int
    BY <2>1
  <2>3. Cardinality(1..n) = IF 1 > n THEN 0 ELSE n - 1 + 1
    BY <2>2, FS_Interval
  <2>4. Cardinality(1..n) = Cardinality(places)
    BY Zenon DEF places
  <2> QED BY <2>1, <2>3, <2>4
<1> HIDE DEF sent, running
<1>11. Cardinality(sent \cup running) =
         Cardinality(sent) + Cardinality(running) - Cardinality(sent \cap running)
  BY <1>8, <1>9, FS_Union
<1>12. Cardinality(sent \cap running) = 0
  BY <1>7, FS_EmptySet
<1>13. Cardinality(Callers(s)) = n + Cardinality(s.tasks)
  <2>1. Cardinality(Callers(s)) = Cardinality(sent \cup running)
    BY <1>7
  <2>2. Cardinality(sent) = n /\ n \in Nat
    BY <1>1, <1>8, <1>10
  <2> QED BY <1>9, <1>11, <1>12, <2>1, <2>2
<1> QED BY <1>13 DEF n

-----------------------------------------------------------------------------
(* What the invariant says.                                                *)

LEMMA DetachedBound ==
    ASSUME IInv
    PROVE  sched.detached \in 0..(MaxDetached + Cardinality(Clients) + 2)
<1> USE DEF IInv
<1> DEFINE room == MaxDetached + Cardinality(Clients) + 1
<1>1. /\ MaxDetached \in Nat /\ Cardinality(Clients) \in Nat
      /\ Cardinality(Blocked) \in Nat /\ sched.detached \in Nat
      /\ main.phase \in Phases
  BY BlockedCount, LifecycleAssumption DEF Types, Schedulers, Mains
<1>2. CASE main.phase = "loading"
  <2>1. sched.detached <= 1
    BY <1>1, <1>2 DEF RoomInv
  <2> QED BY <1>1, <2>1
<1>3. CASE main.phase = "loaded"
  <2>1. sched.detached + Cardinality(Blocked) <= room
    BY <1>1, <1>3 DEF RoomInv
  <2> QED BY <1>1, <2>1
<1>4. CASE main.phase = "unloading"
  <2>1. sched.detached <= room + 1
    BY <1>1, <1>4 DEF RoomInv
  <2> QED BY <1>1, <2>1
<1>5. CASE main.phase = "unloaded"
  <2>1. main.waits # "scheduler"
    BY <1>5, MainNow DEF Control, NextIs, PlaceOf
  <2>2. sched = NewScheduler
    BY <1>5, <2>1 DEF SchedulerInv, SchedulerUp
  <2> QED BY <1>1, <2>2, NewSchedulerFacts
<1> QED BY <1>1, <1>2, <1>3, <1>4, <1>5 DEF Phases

LEMMA TypesSound ==
    ASSUME IInv
    PROVE  TypeOK
<1>1. Len(sched.channel) + Cardinality(sched.tasks) = Cardinality(Callers(sched))
  BY JobsAreCounted DEF IInv, Types, JobsInv
<1>2. /\ main.phase \in {"unloaded", "loading", "loaded", "unloading"}
      /\ main.waits \in {"no", "result", "detector", "scheduler"}
  BY DEF IInv, Types, Mains, Phases
<1>3. sched.ready \in BOOLEAN /\ sched.loop \in {"none", "running", "ended"}
  BY DEF IInv, Types, Schedulers
<1>4. /\ ctx.ldap \in Values \cup {0} /\ ctx.connection \in Values \cup {0}
      /\ ctx.lock \in {"free", "detector"}
  BY DEF IInv, Types, Contexts
<1>5. detector \in [thread : {"none", "sleep", "waiting", "ended", "panicked"}, stop : BOOLEAN]
  BY DEF IInv, Types
<1>6. config \in [ldap : Values, connection : Values, servers : ServerLists]
  BY DEF IInv, Types, Configs
<1>7. /\ notified \subseteq {"main", "detector"}
      /\ client \in [Clients -> {"idle", "blocked", "unblocked"}]
      /\ logger \in {"null", "set"} /\ lost \subseteq Settings
      /\ answers \in BOOLEAN /\ replaced \in BOOLEAN
  BY DEF IInv, Types
<1> QED BY <1>1, <1>2, <1>3, <1>4, <1>5, <1>6, <1>7, DetachedBound, Zenon DEF TypeOK

(***************************************************************************)
(* The variables keep their types, and a sender never has two jobs in the  *)
(* channel or among the tasks (submit_sync_task waits for its result).     *)
(* The detached tasks stay within their bound.                             *)
(***************************************************************************)
THEOREM TypeCorrect == Spec => []TypeOK
<1>1. IInv => TypeOK
  BY TypesSound
<1> QED BY <1>1, AlwaysIInv, PTL

LEMMA UnloadedIsEmpty ==
    ASSUME IInv
    PROVE  NothingOutlivesUnload
<1> USE DEF IInv
<1> SUFFICES ASSUME main.phase = "unloaded"
             PROVE  /\ detector.thread = "none" /\ sched = NewScheduler
                    /\ ctx.lock = "free" /\ ctx.servers = <<>> /\ notified = {}
                    /\ logger = "null" /\ \A c \in Clients : client[c] = "idle"
  BY Zenon DEF NothingOutlivesUnload
<1>1. \A S : ~NextIs(S)
  BY MainNow DEF PlaceOf, NextIs
<1>2. main.waits = "no"
  BY <1>1 DEF Control, Types, Mains
<1>3. detector.thread = "none" /\ sched = NewScheduler
  BY <1>2 DEF DetectorInv, SchedulerInv, SchedulerUp
<1>4. ctx.lock = "free" /\ notified = {}
  BY <1>2, <1>3, NothingYet
<1>5. ctx.servers = <<>>
  <2>1. Count(ctx.servers) = 0 /\ ctx.servers \in Seq(Servers)
    BY DEF ServersInv, Types, Contexts
  <2> QED BY <2>1, EmptyCount, Zenon
<1>6. logger = "null" /\ \A c \in Clients : client[c] = "idle"
  BY DEF LoggerInv, ClientsInv
<1> QED BY <1>3, <1>4, <1>5, <1>6, Zenon

(***************************************************************************)
(* deinitializer.  After every MODULE UNLOAD there is no thread, task, job *)
(* or client left, the server list is empty, nothing is locked and the     *)
(* logger has no context, whatever was configured and however often the    *)
(* module was loaded before.                                               *)
(***************************************************************************)
THEOREM UnloadLeavesNothing == Spec => []NothingOutlivesUnload
<1>1. IInv => NothingOutlivesUnload
  BY UnloadedIsEmpty
<1> QED BY <1>1, AlwaysIInv, PTL

(***************************************************************************)
(* submit_sync_task.  Whoever waits for a result has a job on its way or a *)
(* result to take; only the detector may lose its, to a list that was      *)
(* replaced under its iteration.                                           *)
(***************************************************************************)
THEOREM CallersAreAnswered == Spec => []NoOrphanedCaller
<1>1. IInv => NoOrphanedCaller
  BY DEF IInv
<1> QED BY <1>1, AlwaysIInv, PTL

(***************************************************************************)
(* refresh_ldap_settings_cache, refresh_connection_settings_cache and      *)
(* process_server_list.  Between commands the context has the settings and *)
(* the whole server list of the options, for every list and every number   *)
(* of servers.                                                             *)
(***************************************************************************)
THEOREM SettingsAreCurrent == Spec => []SettingsCurrent
<1>1. ASSUME IInv PROVE SettingsCurrent
  BY <1>1, FreeFacts DEF SettingsCurrent, Current
<1> QED BY <1>1, AlwaysIInv, PTL

(***************************************************************************)
(* FailureDetector::shutdown and get_sender.  The detector's thread never  *)
(* finds the scheduler gone, which would make it panic and the unload end  *)
(* half-way: the join of a panicked thread does not happen.                *)
(***************************************************************************)
THEOREM DetectorNeverPanics == Spec => [](detector.thread # "panicked")
<1>1. IInv => detector.thread # "panicked"
  BY DEF IInv, Types
<1> QED BY <1>1, AlwaysIInv, PTL
=============================================================================
