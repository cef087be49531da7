-------------------------------- MODULE Process --------------------------------
(***************************************************************************)
(* The threads of an openfix process: the application's with everything     *)
(* they start and stop, the workers of a dispatcher, a timer's.  What they  *)
(* share are the cores; otherwise the three do not touch each other, and a  *)
(* scenario has the threads of one of them.                                 *)
(***************************************************************************)
EXTENDS Dispatcher, Timer, Application

Threads == Workers \cup Readers \cup Writers \cup {"main", "app", "timer", "update", "admin"}

Places == {"none", "born", "loop", "ended", "stop", "down",
           "dispatch", "notify", "wake", "test", "decided", "waiting", "awake", "go",
           "timing", "lock",
           "idle", "up", "startLogger", "startStore", "startNetwork", "startUpdate", "terminated",
           "stopSessions", "stopHandler", "disconnect", "release", "stopReaders", "wakeReader",
           "stopLogger", "joinLogger", "stopStore", "joinStore", "joinUpdate",
           "update", "check", "starting", "attaching", "crashed", "epoll", "round", "closing",
           "flushing", "hung", "attach", "answer", "enable", "scan", "serving"}

\* The max... fields are bounds.
Environment(cpus, nodes, names, jobs) ==
    [part: {"dispatcher", "timer", "application"},
     machine: Machine(cpus, nodes), cpu: CpuSettings(cpus, nodes),
     start: [Threads -> Places],    \* where the threads are at the beginning
     stops: BOOLEAN,                \* the dispatcher or the timer is destroyed
     spin: BOOLEAN,
     todo: [{"main", "app"} -> Seq(Workers \X jobs)],   \* what they dispatch
     spawns: [jobs -> Seq(Workers \X jobs)],            \* what a task dispatches
     timers: Seq([delay: Nat, interval: Nat]),
     maxTime: Nat,
     careful: BOOLEAN,              \* a repeating timer is there when it is destroyed
     sessions: [names -> {"acceptor", "initiator"}],
     timeout: BOOLEAN,              \* epoll_wait has one
     malformed: BOOLEAN,            \* CpuCores is no list of cores
     maxStarts: Nat]

\* Where a thread may be when a part begins.
Beginnings(part, t) ==
    CASE part = "dispatcher" /\ t \in Workers -> {"born"}
      [] part = "dispatcher" /\ t = "main" -> {"dispatch"}
      [] part = "dispatcher" /\ t = "app" -> {"dispatch", "none"}
      [] part = "timer" /\ t = "main" -> {"timing"}
      [] part = "timer" /\ t = "timer" -> {"born"}
      [] part = "application" /\ t = "main" -> {"idle"}
      [] part = "application" /\ t = "admin" -> {"born", "none"}
      [] OTHER -> {"none"}

Named == Writers \cup {"main", "app", "timer", "update", "admin", "free", "none"}

ASSUME ProcessAssumption ==
    /\ Workers # {} /\ Readers # {} /\ Workers \cap Readers = {}
    /\ (Workers \cup Readers) \cap Named = {}
    /\ \A name \in DOMAIN Scenarios :
          LET e == Scenarios[name]
          IN  /\ e \in Environment(DOMAIN e.machine.siblings, DOMAIN e.machine.nodes,
                                   DOMAIN e.sessions, DOMAIN e.spawns)
              /\ \A t \in Threads : e.start[t] \in Beginnings(e.part, t)

\* The CPUs and nodes of Linux have numbers; an online CPU shares its core with
\* itself, if its topology is known, and CPUs that share one say the same of it.
ASSUME MachineAssumption ==
    \A name \in DOMAIN Scenarios :
       LET m == Scenarios[name].machine
       IN  /\ IsFiniteSet(m.online) /\ DOMAIN m.siblings \subseteq Nat /\ DOMAIN m.nodes \subseteq Nat
           /\ \A c \in m.online :
                 /\ m.siblings[c] # {} => c \in m.siblings[c]
                 /\ \A d \in m.siblings[c] : m.siblings[d] = m.siblings[c]

vars == <<threadVars, dispatcherVars, timerVars, applicationVars>>

\* Without an Application the owner of the threads has initialized the pool.
Init ==
    /\ env \in DOMAIN Scenarios
    /\ at = Env.start
    /\ pool = IF Env.part = "application" THEN NewPool ELSE Initialize(NewPool, Env.cpu, Env.machine)
    /\ bound = [t \in Threads |-> NoCore]
    /\ DispatcherInit /\ TimerInit /\ ApplicationInit

Of(part) ==
    /\ Env.part = part
    /\ part # "dispatcher" => UNCHANGED dispatcherVars
    /\ part # "timer" => UNCHANGED timerVars
    /\ part # "application" => UNCHANGED applicationVars

\* What a thread does by itself.
Step(t) ==
    \/ Of("dispatcher") /\ DispatcherStep(t)
    \/ Of("timer") /\ TimerStep(t)
    \/ Of("application") /\ ApplicationStep(t)

\* What the owner may do, and wakeups without a reason.
Choice ==
    \/ Of("dispatcher") /\ (BeginStop \/ \E w \in Workers : WakeSpuriously(w))
    \/ Of("timer") /\ (Schedule \/ (\E id \in DOMAIN asked : Erase(id)) \/ Destroy \/ TimerWakesSpuriously)
    \/ Of("application") /\ (Start \/ Stop)

Clock == Of("timer") /\ TimePasses

Next == (\E t \in Threads : Step(t)) \/ Choice \/ Clock

\* Steps that need a mutex which other threads may take again and again: a worker's,
\* or those of the network when main stops it.
Blocked(t) ==
    \/ Of("dispatcher") /\ (Notify(t) \/ (t = "main" /\ WakeToStop))
    \/ Of("application") /\ t = "main" /\ (StopHandler \/ Disconnect \/ RemoveAcceptor \/ WakeReader)

\* Every thread gets its turn, also with a mutex, and time passes.
Spec ==
    /\ Init /\ [][Next]_vars
    /\ \A t \in Threads : WF_vars(Step(t))
    /\ \A t \in Workers \cup {"main", "app"} : SF_vars(Blocked(t))
    /\ WF_vars(Clock)

-----------------------------------------------------------------------------
(* Properties *)

\* Threads are at places of their own, locks are held by the threads that are
\* under them, a thread that does not run is not bound.
TypeOK ==
    /\ env \in DOMAIN Scenarios
    /\ at \in [Threads -> Places]
    /\ pool.next \in Nat /\ pool.enabled \in BOOLEAN
    /\ \A t \in Threads : bound[t] = NoCore \/ bound[t] \in Env.machine.online
    /\ \A t \in Threads : at[t] \in {"none", "born", "ended"} => bound[t] = NoCore
    /\ \A w \in Workers : workerLock[w] = (IF at[w] = "decided" THEN w ELSE "free")
    /\ timerLock = (IF at["timer"] = "decided" THEN "timer" ELSE "free")
    /\ \A e \in events : e.id \in 1..timerCount
    /\ DOMAIN timers \subseteq 1..timerCount
    /\ \A r \in Readers : reader[r] \in [running: BOOLEAN, event: BOOLEAN, closed: BOOLEAN,
                                          taken: BOOLEAN, with: Sessions \cup {Nobody}]
    /\ \A w \in Writers : writer[w] \in [enabled: BOOLEAN, dirty: BOOLEAN]
    /\ \A s \in Sessions :
          {sess[s].connection, sess[s].port, sess[s].closing} \subseteq Readers \cup {Nobody}
    /\ mishaps \subseteq {"early", "late", "undefined"}

Stopping == {"stop", "wake", "stopSessions", "stopHandler", "disconnect", "release", "stopReaders",
             "wakeReader", "stopLogger", "joinLogger", "stopStore", "joinStore", "joinUpdate"}

\* A thread in NetworkHandler::disconnect waits for the mutex of a reader, which this
\* one holds for a client it assigns, or the update thread for a connection it adds,
\* and both of these wait for the handler's mutex.
Embrace ==
    \E s \in Sessions, r \in Readers :
       /\ sess[s].closing = r
       /\ \/ at[r] \in {"attach", "answer"} /\ reader[r].with = s
          \/ reader[r].taken /\ loop["update"].now = s

\* A reader waits for a mutex of its own.
Hung == \E r \in Readers : at[r] = "hung"

=============================================================================
