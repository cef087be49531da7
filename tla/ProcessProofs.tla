----------------------------- MODULE ProcessProofs -----------------------------
(***************************************************************************)
(* What holds of the threads of a process for every set of scenarios, any   *)
(* number of workers, readers, sessions, tasks and timers, and any machine. *)
(***************************************************************************)
EXTENDS Process, FunctionTheorems, FiniteSetTheorems, WellFoundedInduction, TLAPS

USE DEF threadVars, dispatcherVars, timerVars, applicationVars

-----------------------------------------------------------------------------
(* Types *)

Jobs == DOMAIN Env.spawns
Orders == Seq(Workers \X Jobs)

\* The threads, the scenario and the cores.
ThreadTypes ==
    /\ env \in DOMAIN Scenarios
    /\ at \in [Threads -> Places] /\ bound \in [Threads -> {NoCore} \cup Env.machine.online]
    /\ pool \in [enabled: BOOLEAN, cores: {pool.cores}, next: Nat \ {0}]
    /\ \A t \in Threads : at[t] \in {"none", "born", "ended"} => bound[t] = NoCore

\* What a scenario does not have stays as it was.
Absent ==
    /\ Env.part # "dispatcher" => DispatcherInit /\ \A w \in Workers : at[w] = "none"
    /\ Env.part # "timer" => TimerInit /\ at["timer"] = "none"
    /\ Env.part # "application" =>
          ApplicationInit /\ \A t \in Readers \cup Writers \cup {"update"} : at[t] = "none"

\* The mutex of a worker is held exactly where it has tested and not yet waits.
DispatcherTypes ==
    Env.part = "dispatcher" =>
    /\ tasks \in [Workers -> [Producers -> Seq(Jobs)]]
    /\ todo \in [Producers -> Orders]
    /\ workerLock \in [Workers -> Workers \cup {"free"}]
    /\ \A w \in Workers : workerLock[w] = (IF at[w] = "decided" THEN w ELSE "free")
    /\ \A p \in Producers : at[p] = "notify" => todo[p] # <<>>
    /\ at["main"] = "wake" => aim \in Workers
    /\ at["main"] \in {"dispatch", "notify", "stop", "wake", "down"}
    /\ at["app"] \in {"none", "dispatch", "notify"}

\* A timer has one event, even if it was erased.
TimerTypes ==
    Env.part = "timer" =>
    /\ clock \in Nat /\ timerCount \in 0..Len(Env.timers)
    /\ DOMAIN timers \subseteq 1..timerCount
    /\ \A e \in events : e = [due |-> e.due, id |-> e.id] /\ e.due \in Nat /\ e.id \in 1..timerCount
    /\ \A e, f \in events : e.id = f.id => e = f
    /\ timerLock = (IF at["timer"] = "decided" THEN "timer" ELSE "free")
    /\ at["main"] \in {"timing", "stop", "down"}

Assignment == [enabled: BOOLEAN, stopped: BOOLEAN, connection: Readers \cup {Nobody},
               port: Readers \cup {Nobody}, closing: Readers \cup {Nobody}]

ReaderRecord ==
    [running: BOOLEAN, event: BOOLEAN, closed: BOOLEAN, taken: BOOLEAN, with: Sessions \cup {Nobody}]

\* Where a reader handles a session.
Handling == {"attach", "answer", "closing", "flushing"}

ApplicationTypes ==
    Env.part = "application" =>
    /\ running \in BOOLEAN /\ netRunning \in BOOLEAN /\ listed \in BOOLEAN
    /\ reader \in [Readers -> ReaderRecord]
    /\ writer \in [Writers -> [enabled: BOOLEAN, dirty: BOOLEAN]]
    /\ sess \in [Sessions -> Assignment]
    /\ loop \in [{"main", "update"} -> [left: SUBSET (Sessions \cup Readers),
                                       now: Sessions \cup Readers \cup {Nobody}]]
    /\ at["main"] \in {"stopHandler", "disconnect", "release"} => loop["main"].now \in Sessions
    /\ at["main"] = "wakeReader" => loop["main"].now \in Readers
    /\ at["update"] \in {"check", "starting", "attaching"} => loop["update"].now \in Sessions
    /\ \A r \in Readers : at[r] \in Handling => reader[r].with \in Sessions
    /\ mishaps \subseteq {"early", "late", "undefined"}

TypeInv == ThreadTypes /\ Absent /\ DispatcherTypes /\ TimerTypes /\ ApplicationTypes

\* The environment of a behaviour.
LEMMA EnvFacts ==
    ASSUME env \in DOMAIN Scenarios
    PROVE  /\ Env.part \in {"dispatcher", "timer", "application"}
           /\ Env.machine.online \subseteq DOMAIN Env.machine.siblings
           /\ DOMAIN Env.todo = {"main", "app"}
           /\ Env.todo \in [{"main", "app"} -> Orders]
           /\ Env.spawns \in [Jobs -> Orders]
           /\ Env.timers \in Seq([delay: Nat, interval: Nat])
           /\ Env.start \in [Threads -> Places]
           /\ \A t \in Threads : Env.start[t] \in Beginnings(Env.part, t)
  BY ProcessAssumption DEF Environment, Machine, Env, Orders, Jobs

\* What depends only on the environment stays.
LEMMA EnvStays ==
    ASSUME env' = env
    PROVE  /\ Env' = Env /\ Producers' = Producers /\ Sessions' = Sessions
           /\ Jobs' = Jobs /\ Orders' = Orders
  BY DEF Env, Producers, Sessions, Jobs, Orders

\* The names of the threads.
LEMMA ThreadNames ==
    /\ Workers \subseteq Threads /\ Readers \subseteq Threads /\ Writers \subseteq Threads
    /\ {"main", "app", "timer", "update", "admin"} \subseteq Threads
    /\ \A w \in Workers : w \notin Readers /\ w \notin Named
    /\ \A r \in Readers : r \notin Workers /\ r \notin Named
  BY ProcessAssumption DEF Threads, Named, Writers

\* CpuOrchestrator::initialize gives cores, and no thread takes one by that.
LEMMA InitializeTypes ==
    ASSUME NEW p, NEW N, p \in [enabled: BOOLEAN, cores: {p.cores}, next: N], NEW s, NEW m
    PROVE  LET q == Initialize(p, s, m)
           IN  q \in [enabled: BOOLEAN, cores: {q.cores}, next: {p.next}]
<1>1. ASSUME NEW cores
      PROVE  LET q == Gives(p, cores)
             IN  q \in [enabled: BOOLEAN, cores: {q.cores}, next: {p.next}]
  BY DEF Gives
<1>2. \/ Initialize(p, s, m) = p
      \/ \E cores : Initialize(p, s, m) = Gives(p, cores)
  BY DEF Initialize
<1>3. QED
  BY <1>1, <1>2

\* A thread that goes on.
LEMMA BecomesTypes ==
    ASSUME ThreadTypes, NEW t \in Threads, NEW place \in Places, Becomes(t, place),
           place \notin {"none", "born", "ended"}, UNCHANGED <<env, pool, bound>>
    PROVE  /\ ThreadTypes'
           /\ at'[t] = place /\ \A u \in Threads : u # t => at'[u] = at[u]
<1>1. at' \in [Threads -> Places] /\ at'[t] = place /\ \A u \in Threads : u # t => at'[u] = at[u]
  BY DEF ThreadTypes, Becomes
<1>2. \A u \in Threads : at'[u] \in {"none", "born", "ended"} => bound[u] = NoCore \/ u = t
  BY <1>1 DEF ThreadTypes
<1>3. QED
  BY <1>1, <1>2 DEF ThreadTypes, Env

\* Worker::run and the other threads begin with bind.
LEMMA BindTypes ==
    ASSUME ThreadTypes, NEW t \in Threads, NEW place \in Places, Bind(t, place),
           place \notin {"none", "born", "ended"}
    PROVE  /\ ThreadTypes' /\ env' = env /\ at[t] = "born"
           /\ at'[t] = place /\ \A u \in Threads : u # t => at'[u] = at[u]
<1>1. at' \in [Threads -> Places] /\ at'[t] = place /\ \A u \in Threads : u # t => at'[u] = at[u]
  BY DEF ThreadTypes, Bind, Becomes
<1>2. env' = env /\ Env' = Env
  BY DEF Bind, Env
<1>3. pool' \in [enabled: BOOLEAN, cores: {pool'.cores}, next: Nat \ {0}]
  BY DEF ThreadTypes, Bind
<1>4. /\ bound' \in [Threads -> {NoCore} \cup Env.machine.online]
      /\ \A u \in Threads : u # t => bound'[u] = bound[u]
  BY DEF ThreadTypes, Bind
<1>5. \A u \in Threads : at'[u] \in {"none", "born", "ended"} => bound'[u] = NoCore
  BY <1>1, <1>4 DEF ThreadTypes
<1>6. QED
  BY <1>1, <1>2, <1>3, <1>4, <1>5 DEF ThreadTypes, Bind

\* A thread that ends gives nothing back but is bound no longer.
LEMMA EndsTypes ==
    ASSUME ThreadTypes, NEW t \in Threads, Ends(t), UNCHANGED <<env, pool>>
    PROVE  /\ ThreadTypes'
           /\ at'[t] = "ended" /\ \A u \in Threads : u # t => at'[u] = at[u]
<1>1. /\ at' \in [Threads -> Places] /\ at'[t] = "ended"
      /\ \A u \in Threads : u # t => at'[u] = at[u]
  BY DEF ThreadTypes, Ends, Becomes, Places
<1>2. /\ bound' \in [Threads -> {NoCore} \cup Env.machine.online] /\ bound'[t] = NoCore
      /\ \A u \in Threads : u # t => bound'[u] = bound[u]
  BY DEF ThreadTypes, Ends
<1>3. \A u \in Threads : at'[u] \in {"none", "born", "ended"} => bound'[u] = NoCore
  BY <1>1, <1>2 DEF ThreadTypes
<1>4. QED
  BY <1>1, <1>2, <1>3 DEF ThreadTypes, Env

\* Threads are created by one that goes on.
LEMMA CreatesTypes ==
    ASSUME ThreadTypes, NEW t \in Threads, NEW new \in SUBSET Threads, NEW place \in Places,
           Creates(t, new, place), t \notin new, place \notin {"none", "born", "ended"},
           env' = env, pool' = pool
    PROVE  /\ ThreadTypes'
           /\ at'[t] = place /\ \A u \in new : at'[u] = "born"
           /\ \A u \in Threads : u # t /\ u \notin new => at'[u] = at[u]
<1>1. /\ at' \in [Threads -> Places] /\ at'[t] = place /\ \A u \in new : at'[u] = "born"
      /\ \A u \in Threads : u # t /\ u \notin new => at'[u] = at[u]
  BY DEF ThreadTypes, Creates, Places
<1>2. /\ bound' \in [Threads -> {NoCore} \cup Env.machine.online] /\ \A u \in new : bound'[u] = NoCore
      /\ \A u \in Threads : u \notin new => bound'[u] = bound[u]
  BY DEF ThreadTypes, Creates
<1>3. \A u \in Threads : at'[u] \in {"none", "born", "ended"} => bound'[u] = NoCore
  BY <1>1, <1>2 DEF ThreadTypes
<1>4. QED
  BY <1>1, <1>2, <1>3 DEF ThreadTypes, Env

-----------------------------------------------------------------------------
(* The dispatcher's types *)

DispatcherMoves ==
    \/ \E t \in Threads : DispatcherStep(t)
    \/ BeginStop
    \/ \E w \in Workers : WakeSpuriously(w)

\* The only threads that move are those of "those".
Only(those) == env' = env /\ \A u \in Threads : u \notin those => at'[u] = at[u]

Crew == Workers \cup {"main", "app"}

\* What the queues, the mutexes and the producers' places are, one by one.
LEMMA DispatcherParts ==
    ASSUME ThreadTypes, DispatcherTypes, Env.part = "dispatcher"
    PROVE  /\ Producers = Crew /\ Crew \subseteq Threads
           /\ Workers \subseteq Crew /\ "main" \in Crew /\ "app" \in Crew
           /\ tasks \in [Workers -> [Crew -> Seq(Jobs)]]
           /\ todo \in [Crew -> Orders]
           /\ workerLock \in [Workers -> Workers \cup {"free"}]
           /\ \A w \in Workers : w \notin {"free", "main", "app"}
           /\ \A w \in Workers : workerLock[w] = (IF at[w] = "decided" THEN w ELSE "free")
           /\ \A p \in Crew : at[p] = "notify" => todo[p] # <<>>
           /\ at["main"] = "wake" => aim \in Workers
           /\ at["main"] \in {"dispatch", "notify", "stop", "wake", "down"}
           /\ at["app"] \in {"none", "dispatch", "notify"}
<1>1. Producers = Crew
  BY EnvFacts DEF Producers, Crew, ThreadTypes
<1>2. QED
  BY <1>1, ThreadNames DEF DispatcherTypes, Crew, Named

\* And together.
LEMMA DispatcherWhole ==
    ASSUME env' = env, ThreadTypes,
           tasks' \in [Workers -> [Crew -> Seq(Jobs)]],
           todo' \in [Crew -> Orders],
           workerLock' \in [Workers -> Workers \cup {"free"}],
           \A w \in Workers : workerLock'[w] = (IF at'[w] = "decided" THEN w ELSE "free"),
           \A p \in Crew : at'[p] = "notify" => todo'[p] # <<>>,
           at'["main"] = "wake" => aim' \in Workers,
           at'["main"] \in {"dispatch", "notify", "stop", "wake", "down"},
           at'["app"] \in {"none", "dispatch", "notify"}
    PROVE  DispatcherTypes'
<1>1. Producers = Crew
  BY EnvFacts DEF Producers, Crew, ThreadTypes
<1>2. QED
  BY <1>1, EnvStays DEF DispatcherTypes

\* A step of a thread alone, which leaves the queues and the mutexes as they are.
LEMMA GoesTypes ==
    ASSUME ThreadTypes, DispatcherTypes, Env.part = "dispatcher",
           NEW t \in Crew, ThreadTypes', env' = env, UNCHANGED dispatcherVars,
           \A u \in Threads : u # t => at'[u] = at[u],
           t \in Workers => at[t] # "decided" /\ at'[t] # "decided",
           at'[t] # "notify",
           t = "main" => at'[t] \in {"stop", "down"}, t # "app"
    PROVE  DispatcherTypes' /\ Only(Crew)
<1> USE DispatcherParts
<1>1. \A w \in Workers : workerLock'[w] = (IF at'[w] = "decided" THEN w ELSE "free")
  BY DEF Crew
<1>2. /\ UNCHANGED <<tasks, todo, workerLock, aim>>
      /\ \A p \in Crew : at'[p] = "notify" => todo'[p] # <<>>
  OBVIOUS
<1>3. /\ at'["main"] \in {"dispatch", "notify", "stop", "wake", "down"}
      /\ at'["main"] = "wake" => aim' \in Workers
      /\ at'["app"] \in {"none", "dispatch", "notify"}
  BY <1>2
<1>4. DispatcherTypes'
  BY <1>1, <1>2, <1>3, DispatcherWhole
<1>5. QED
  BY <1>4 DEF Only, Crew

\* What is still to be dispatched names workers and tasks.
LEMMA OrdersFacts ==
    ASSUME NEW s \in Orders, s # <<>>
    PROVE  Head(s)[1] \in Workers /\ Head(s)[2] \in Jobs /\ Tail(s) \in Orders
<1>1. Head(s) \in Workers \X Jobs /\ Tail(s) \in Seq(Workers \X Jobs)
  BY DEF Orders
<1>2. QED
  BY <1>1 DEF Orders

\* Worker::dispatch puts a task into a queue that holds tasks.
LEMMA EnqueueTypes ==
    ASSUME ThreadTypes, DispatcherTypes, Env.part = "dispatcher", NEW p \in Crew, Enqueue(p)
    PROVE  ThreadTypes' /\ DispatcherTypes' /\ Only(Crew)
<1> USE DispatcherParts
<1>1. env' = env /\ at[p] = "dispatch" /\ todo[p] # <<>> /\ UNCHANGED <<workerLock, aim>>
  BY DEF Enqueue
<1>2. Head(todo[p])[1] \in Workers /\ Head(todo[p])[2] \in Jobs /\ Tail(todo[p]) \in Orders
  BY <1>1, OrdersFacts
<1>3. tasks' \in [Workers -> [Crew -> Seq(Jobs)]]
  <2> DEFINE w == Head(todo[p])[1] job == Head(todo[p])[2]
  <2>1. w \in Workers /\ job \in Jobs /\ Append(tasks[w][p], job) \in Seq(Jobs)
    <3>1. w \in Workers /\ job \in Jobs
      BY <1>2
    <3> HIDE DEF w, job
    <3>2. tasks[w][p] \in Seq(Jobs)
      BY <3>1
    <3>3. QED
      BY <3>1, <3>2
  <2>2. tasks' = [tasks EXCEPT ![w][p] = Append(@, job)]
    BY DEF Enqueue
  <2> HIDE DEF w, job
  <2>3. QED
    BY <2>1, <2>2
<1>4. CASE Env.spin
  <2>1. Becomes(p, AfterDispatch(p)) /\ todo' = [todo EXCEPT ![p] = Tail(@)]
    BY <1>4 DEF Enqueue
  <2>2. AfterDispatch(p) \in {"loop", "dispatch"} /\ (p \notin Workers => AfterDispatch(p) = "dispatch")
    BY DEF AfterDispatch
  <2>3. ThreadTypes' /\ at'[p] = AfterDispatch(p) /\ \A u \in Threads : u # p => at'[u] = at[u]
    BY <2>1, <2>2, <1>1, BecomesTypes DEF Places, Enqueue
  <2>4. todo' \in [Crew -> Orders] /\ \A q \in Crew : q # p => todo'[q] = todo[q]
    BY <2>1, <1>2
  <2>5. /\ \A w \in Workers : workerLock'[w] = (IF at'[w] = "decided" THEN w ELSE "free")
        /\ \A q \in Crew : at'[q] = "notify" => todo'[q] # <<>>
    BY <1>1, <2>2, <2>3, <2>4
  <2>6. /\ at'["main"] \in {"dispatch", "notify", "stop", "wake", "down"}
        /\ at'["app"] \in {"none", "dispatch", "notify"}
        /\ at'["main"] = "wake" => aim' \in Workers
    BY <1>1, <2>2, <2>3
  <2>7. DispatcherTypes'
    BY <1>1, <1>3, <2>3, <2>4, <2>5, <2>6, DispatcherWhole
  <2>8. QED
    BY <1>1, <2>3, <2>7 DEF Only, Crew
<1>5. CASE ~Env.spin
  <2>1. Becomes(p, "notify") /\ todo' = todo
    BY <1>5 DEF Enqueue
  <2>2. ThreadTypes' /\ at'[p] = "notify" /\ \A u \in Threads : u # p => at'[u] = at[u]
    BY <2>1, <1>1, BecomesTypes DEF Places, Enqueue
  <2>3. /\ \A w \in Workers : workerLock'[w] = (IF at'[w] = "decided" THEN w ELSE "free")
        /\ \A q \in Crew : at'[q] = "notify" => todo'[q] # <<>>
    BY <1>1, <2>1, <2>2
  <2>4. /\ at'["main"] \in {"dispatch", "notify", "stop", "wake", "down"}
        /\ at'["app"] \in {"none", "dispatch", "notify"}
        /\ at'["main"] = "wake" => aim' \in Workers
    BY <1>1, <2>2
  <2>5. DispatcherTypes'
    BY <1>1, <1>3, <2>1, <2>2, <2>3, <2>4, DispatcherWhole
  <2>6. QED
    BY <1>1, <2>2, <2>5 DEF Only, Crew
<1>6. QED
  BY <1>4, <1>5

\* notify_one, from a place where no mutex is held.
LEMMA NotifiesTypes ==
    ASSUME ThreadTypes, DispatcherTypes, Env.part = "dispatcher",
           NEW p \in Crew, NEW w \in Workers, NEW place \in {"loop", "dispatch", "stop"},
           Notifies(p, w, place), UNCHANGED <<env, pool, bound>>, at[p] \in {"notify", "wake"}
    PROVE  /\ ThreadTypes' /\ at'[p] = place
           /\ \A u \in Threads : u # p => at'[u] = at[u] \/ (at[u] = "waiting" /\ at'[u] = "awake")
           /\ \A u \in Threads : u \notin Workers /\ u # p => at'[u] = at[u]
<1>1. /\ at' \in [Threads -> Places] /\ at'[p] = place
      /\ \A u \in Threads : u # p => at'[u] = at[u] \/ (at[u] = "waiting" /\ at'[u] = "awake")
      /\ \A u \in Threads : u \notin Workers /\ u # p => at'[u] = at[u]
  <2>1. /\ at' = [at EXCEPT ![w] = IF at[w] = "waiting" THEN "awake" ELSE at[w], ![p] = place]
        /\ at \in [Threads -> Places] /\ p \in Threads /\ w \in Threads
        /\ "awake" \in Places /\ place \in Places
    BY DispatcherParts DEF Notifies, ThreadTypes, Places
  <2>2. QED
    BY <2>1
<1>2. QED
  BY <1>1 DEF ThreadTypes, Env

\* The worker is notified while nobody holds its mutex.
LEMMA NotifyTypes ==
    ASSUME ThreadTypes, DispatcherTypes, Env.part = "dispatcher", NEW p \in Crew, Notify(p)
    PROVE  ThreadTypes' /\ DispatcherTypes' /\ Only(Crew)
<1> USE DispatcherParts
<1>1. /\ env' = env /\ at[p] = "notify" /\ todo[p] # <<>> /\ UNCHANGED <<workerLock, aim, tasks>>
      /\ todo' = [todo EXCEPT ![p] = Tail(@)]
  BY DEF Notify
<1>2. Head(todo[p])[1] \in Workers /\ Tail(todo[p]) \in Orders
  BY <1>1, OrdersFacts
<1>3. AfterDispatch(p) \in {"loop", "dispatch"} /\ (p \notin Workers => AfterDispatch(p) = "dispatch")
  BY DEF AfterDispatch
<1>4. /\ ThreadTypes' /\ at'[p] = AfterDispatch(p)
      /\ \A u \in Threads : u # p => at'[u] = at[u] \/ (at[u] = "waiting" /\ at'[u] = "awake")
      /\ \A u \in Threads : u \notin Workers /\ u # p => at'[u] = at[u]
  <2>1. Notifies(p, Head(todo[p])[1], AfterDispatch(p)) /\ UNCHANGED <<env, pool, bound>>
    BY DEF Notify
  <2>2. AfterDispatch(p) \in {"loop", "dispatch", "stop"}
    BY <1>3
  <2>3. QED
    BY <1>1, <1>2, <2>1, <2>2, NotifiesTypes
<1>5. todo' \in [Crew -> Orders] /\ \A q \in Crew : q # p => todo'[q] = todo[q]
  BY <1>1, <1>2
<1>6. \A w \in Workers : workerLock'[w] = (IF at'[w] = "decided" THEN w ELSE "free")
  BY <1>1, <1>3, <1>4
<1>7. \A q \in Crew : at'[q] = "notify" => todo'[q] # <<>>
  <2>1. \A q \in Crew : at'[q] = "notify" => q # p /\ at[q] = "notify"
    BY <1>3, <1>4
  <2>2. QED
    BY <1>5, <2>1
<1>8. /\ at'["main"] \in {"dispatch", "notify", "stop", "wake", "down"}
      /\ at'["app"] \in {"none", "dispatch", "notify"}
      /\ at'["main"] = "wake" => aim' \in Workers
  BY <1>1, <1>3, <1>4
<1>9. DispatcherTypes'
  BY <1>1, <1>4, <1>5, <1>6, <1>7, <1>8, DispatcherWhole
<1>10. QED
  BY <1>1, <1>4, <1>9 DEF Only, Crew

\* A worker takes a task, and with it what that task dispatches.
LEMMA TakeTypes ==
    ASSUME ThreadTypes, DispatcherTypes, Env.part = "dispatcher", NEW w \in Workers, Take(w),
           at[w] \in {"loop", "go"}
    PROVE  ThreadTypes' /\ DispatcherTypes' /\ Only(Crew)
<1> USE DispatcherParts
<1>1. PICK p \in Crew :
         /\ p \in Queued(w)
         /\ tasks' = [tasks EXCEPT ![w][p] = Tail(@)]
         /\ todo' = [todo EXCEPT ![w] = Env.spawns[Head(tasks[w][p])]]
         /\ Becomes(w, IF Env.spawns[Head(tasks[w][p])] = <<>> THEN "loop" ELSE "dispatch")
  BY DEF Take, Queued
<1>2. env' = env /\ UNCHANGED <<workerLock, aim, pool, bound>>
  BY DEF Take
<1>3. tasks[w][p] \in Seq(Jobs) /\ tasks[w][p] # <<>>
  BY <1>1 DEF Queued
<1>4. Env.spawns[Head(tasks[w][p])] \in Orders
  BY <1>3, EnvFacts DEF ThreadTypes
<1>5. todo' \in [Crew -> Orders] /\ \A q \in Crew : q # w => todo'[q] = todo[q]
  BY <1>1, <1>4
<1>6. tasks' \in [Workers -> [Crew -> Seq(Jobs)]]
  <2>1. Tail(tasks[w][p]) \in Seq(Jobs)
    BY <1>3
  <2>2. QED
    BY <1>1, <2>1
<1>7. PICK place \in {"loop", "dispatch"} : Becomes(w, place)
  BY <1>1
<1>8. ThreadTypes' /\ at'[w] = place /\ \A u \in Threads : u # w => at'[u] = at[u]
  BY <1>2, <1>7, BecomesTypes DEF Places
<1>9. \A v \in Workers : workerLock'[v] = (IF at'[v] = "decided" THEN v ELSE "free")
  BY <1>2, <1>8
<1>10. DispatcherTypes'
  BY <1>2, <1>5, <1>6, <1>8, <1>9, DispatcherWhole
<1>11. QED
  BY <1>2, <1>8, <1>10 DEF Only

\* The test that keeps the mutex until the wait.
LEMMA TestTypes ==
    ASSUME ThreadTypes, DispatcherTypes, Env.part = "dispatcher", NEW w \in Workers, Test(w)
    PROVE  ThreadTypes' /\ DispatcherTypes' /\ Only(Crew)
<1> USE DispatcherParts
<1>1. env' = env /\ UNCHANGED <<tasks, todo, aim, pool, bound>> /\ workerLock[w] = "free"
  BY DEF Test
<1>2. \/ Becomes(w, "go") /\ workerLock' = workerLock
      \/ Becomes(w, "decided") /\ workerLock' = [workerLock EXCEPT ![w] = w]
  BY DEF Test
<1>3. PICK place \in {"go", "decided"} :
         Becomes(w, place) /\ workerLock' = [workerLock EXCEPT ![w] = IF place = "go" THEN "free" ELSE w]
  BY <1>1, <1>2
<1>4. ThreadTypes' /\ at'[w] = place /\ \A u \in Threads : u # w => at'[u] = at[u]
  BY <1>1, <1>3, BecomesTypes DEF Places
<1>5. /\ workerLock' \in [Workers -> Workers \cup {"free"}]
      /\ \A v \in Workers : workerLock'[v] = (IF at'[v] = "decided" THEN v ELSE "free")
  BY <1>3, <1>4
<1>6. DispatcherTypes'
  BY <1>1, <1>4, <1>5, DispatcherWhole
<1>7. QED
  BY <1>1, <1>4, <1>6 DEF Only

\* The wait frees the mutex.
LEMMA WaitTypes ==
    ASSUME ThreadTypes, DispatcherTypes, Env.part = "dispatcher", NEW w \in Workers, Wait(w)
    PROVE  ThreadTypes' /\ DispatcherTypes' /\ Only(Crew)
<1> USE DispatcherParts
<1>1. /\ env' = env /\ UNCHANGED <<tasks, todo, aim, pool, bound>>
      /\ Becomes(w, "waiting") /\ workerLock' = [workerLock EXCEPT ![w] = "free"]
  BY DEF Wait
<1>2. ThreadTypes' /\ at'[w] = "waiting" /\ \A u \in Threads : u # w => at'[u] = at[u]
  BY <1>1, BecomesTypes DEF Places
<1>3. /\ workerLock' \in [Workers -> Workers \cup {"free"}]
      /\ \A v \in Workers : workerLock'[v] = (IF at'[v] = "decided" THEN v ELSE "free")
  BY <1>1, <1>2
<1>4. DispatcherTypes'
  BY <1>1, <1>2, <1>3, DispatcherWhole
<1>5. QED
  BY <1>1, <1>2, <1>4 DEF Only

\* Dispatcher::stop: the flag of one worker after the other ...
LEMMA SetStopTypes ==
    ASSUME ThreadTypes, DispatcherTypes, Env.part = "dispatcher", NEW w \in Workers, SetStop(w)
    PROVE  ThreadTypes' /\ DispatcherTypes' /\ Only(Crew)
<1> USE DispatcherParts
<1>1. env' = env /\ UNCHANGED <<tasks, todo, workerLock, pool, bound>> /\ at["main"] = "stop"
  BY DEF SetStop
<1>2. \/ UNCHANGED <<at, aim>>
      \/ Becomes("main", "wake") /\ aim' = w
  BY DEF SetStop
<1>3. CASE UNCHANGED <<at, aim>>
  <2>1. ThreadTypes'
    BY <1>1, <1>3 DEF ThreadTypes, Env
  <2>2. QED
    BY <1>1, <1>3, <2>1, DispatcherWhole DEF Only
<1>4. CASE Becomes("main", "wake") /\ aim' = w
  <2>1. ThreadTypes' /\ at'["main"] = "wake" /\ \A u \in Threads : u # "main" => at'[u] = at[u]
    BY <1>1, <1>4, BecomesTypes DEF Places
  <2>2. \A v \in Workers : workerLock'[v] = (IF at'[v] = "decided" THEN v ELSE "free")
    BY <1>1, <2>1
  <2>3. DispatcherTypes'
    BY <1>1, <1>4, <2>1, <2>2, DispatcherWhole
  <2>4. QED
    BY <1>1, <2>1, <2>3 DEF Only
<1>5. QED
  BY <1>2, <1>3, <1>4

\* ... and its notification.
LEMMA WakeToStopTypes ==
    ASSUME ThreadTypes, DispatcherTypes, Env.part = "dispatcher", WakeToStop
    PROVE  ThreadTypes' /\ DispatcherTypes' /\ Only(Crew)
<1> USE DispatcherParts
<1>1. /\ env' = env /\ UNCHANGED <<tasks, todo, workerLock, aim, pool, bound>>
      /\ at["main"] = "wake" /\ aim \in Workers /\ Notifies("main", aim, "stop")
  BY DEF WakeToStop
<1>2. /\ ThreadTypes' /\ at'["main"] = "stop"
      /\ \A u \in Threads : u # "main" => at'[u] = at[u] \/ (at[u] = "waiting" /\ at'[u] = "awake")
      /\ \A u \in Threads : u \notin Workers /\ u # "main" => at'[u] = at[u]
  BY <1>1, NotifiesTypes
<1>3. \A w \in Workers : workerLock'[w] = (IF at'[w] = "decided" THEN w ELSE "free")
  BY <1>1, <1>2
<1>4. DispatcherTypes'
  BY <1>1, <1>2, <1>3, DispatcherWhole
<1>5. QED
  BY <1>1, <1>2, <1>4 DEF Only

\* Every step of the workers and of the threads that dispatch.
LEMMA DispatcherTyped ==
    ASSUME ThreadTypes, DispatcherTypes, Env.part = "dispatcher", DispatcherMoves
    PROVE  ThreadTypes' /\ DispatcherTypes' /\ Only(Crew)
<1> USE DispatcherParts
<1>1. ASSUME NEW w \in Workers, BindWorker(w)
      PROVE  ThreadTypes' /\ DispatcherTypes' /\ Only(Crew)
  <2>1. /\ ThreadTypes' /\ env' = env /\ at[w] = "born" /\ at'[w] = "loop"
        /\ \A u \in Threads : u # w => at'[u] = at[u]
    BY <1>1, BindTypes DEF BindWorker, Places
  <2>2. UNCHANGED dispatcherVars
    BY <1>1 DEF BindWorker
  <2>3. QED
    BY <2>1, <2>2, GoesTypes
<1>2. ASSUME NEW w \in Workers, LeaveLoop(w), at[w] \in {"loop", "go"}
      PROVE  ThreadTypes' /\ DispatcherTypes' /\ Only(Crew)
  <2>1. ThreadTypes' /\ at'[w] = "ended" /\ \A u \in Threads : u # w => at'[u] = at[u]
    BY <1>2, EndsTypes DEF LeaveLoop
  <2>2. env' = env /\ UNCHANGED dispatcherVars
    BY <1>2 DEF LeaveLoop
  <2>3. QED
    BY <1>2, <2>1, <2>2, GoesTypes
<1>3. ASSUME NEW t \in Workers \cup {"main"}, NEW place \in {"test", "loop", "awake", "stop", "down"},
             Goes(t, place), t \in Workers => at[t] # "decided",
             t = "main" => place \in {"stop", "down"}
      PROVE  ThreadTypes' /\ DispatcherTypes' /\ Only(Crew)
  <2>1. Becomes(t, place) /\ UNCHANGED <<env, pool, bound, dispatcherVars>>
    BY <1>3 DEF Goes
  <2>2. ThreadTypes' /\ at'[t] = place /\ \A u \in Threads : u # t => at'[u] = at[u]
    BY <1>3, <2>1, BecomesTypes DEF Places
  <2>3. QED
    BY <1>3, <2>1, <2>2, GoesTypes
<1>4. ASSUME NEW w \in Workers, RunWorker(w)
      PROVE  ThreadTypes' /\ DispatcherTypes' /\ Only(Crew)
  <2>1. CASE Loop(w)
    BY <2>1, <1>2, <1>3, TakeTypes DEF Loop
  <2>2. CASE Go(w)
    BY <2>2, <1>2, <1>3, TakeTypes DEF Go
  <2>3. QED
    BY <1>4, <1>1, <2>1, <2>2, TestTypes, WaitTypes DEF RunWorker
<1>5. CASE \E t \in Threads : DispatcherStep(t)
  <2>1. PICK t \in Threads : DispatcherStep(t)
    BY <1>5
  <2>2. CASE t = "main" /\ JoinWorkers
    BY <2>2, <1>3 DEF JoinWorkers
  <2>3. QED
    BY <2>1, <2>2, <1>4, EnqueueTypes, NotifyTypes, SetStopTypes, WakeToStopTypes DEF DispatcherStep
<1>6. CASE BeginStop
  BY <1>6, <1>3 DEF BeginStop
<1>7. CASE \E w \in Workers : WakeSpuriously(w)
  BY <1>7, <1>3 DEF WakeSpuriously
<1>8. QED
  BY <1>5, <1>6, <1>7 DEF DispatcherMoves
-----------------------------------------------------------------------------
(* Timers *)

\* An event of a timer is not sooner than it was asked for, or than its interval after
\* the last time; what has fired once and does not repeat is not there any more.
Punctual ==
    /\ Len(asked) = timerCount /\ Len(fired) = timerCount
    /\ asked \in Seq(Nat) /\ fired \in Seq(Seq(Nat))
    /\ erased \cap DOMAIN timers = {} /\ erased \subseteq 1..timerCount
    /\ \A id \in DOMAIN timers : timers[id] = Env.timers[id].interval
    /\ \A id \in DOMAIN timers : \A e \in events : e.id = id =>
          IF fired[id] = <<>> THEN e.due >= asked[id]
          ELSE timers[id] # OneShot /\ e.due >= Last(fired[id]) + timers[id]


TimerMoves ==
    \/ \E t \in Threads : TimerStep(t)
    \/ Schedule \/ (\E id \in DOMAIN asked : Erase(id)) \/ Destroy \/ TimerWakesSpuriously
    \/ TimePasses

Pair == {"timer", "main"}

TimerInv == TimerTypes /\ (Env.part = "timer" => Punctual)

\* An element of a sequence.
LEMMA ElementOf ==
    ASSUME NEW S, NEW s \in Seq(S), NEW i \in 1..Len(s)
    PROVE  s[i] \in S
  OBVIOUS

\* A function on 1..n is a sequence.
LEMMA SequenceOf ==
    ASSUME NEW S, NEW n \in Nat, NEW f, f = [i \in 1..n |-> f[i]], \A i \in 1..n : f[i] \in S
    PROVE  f \in Seq(S) /\ Len(f) = n
<1>1. f \in [1..n -> S]
  OBVIOUS
<1>2. QED
  BY <1>1

\* The last element.
LEMMA LastOfAppend ==
    ASSUME NEW S, NEW s \in Seq(S), NEW e \in S
    PROVE  Append(s, e) # <<>> /\ Last(Append(s, e)) = e
<1>1. Len(Append(s, e)) = Len(s) + 1 /\ Append(s, e)[Len(s) + 1] = e
  OBVIOUS
<1>2. QED
  BY <1>1 DEF Last

\* The timers that are to be scheduled.
LEMMA TimerEnv ==
    ASSUME ThreadTypes
    PROVE  /\ Env.timers \in Seq([delay: Nat, interval: Nat])
           /\ \A id \in 1..Len(Env.timers) : Env.timers[id].delay \in Nat /\ Env.timers[id].interval \in Nat
<1>1. Env.timers \in Seq([delay: Nat, interval: Nat])
  BY EnvFacts DEF ThreadTypes
<1>2. \A id \in 1..Len(Env.timers) : Env.timers[id] \in [delay: Nat, interval: Nat]
  BY <1>1, ElementOf
<1>3. QED
  BY <1>1, <1>2

\* A step by which neither timers nor events change.
LEMMA TimerFrame ==
    ASSUME TimerInv, Env.part = "timer", env' = env,
           UNCHANGED <<timers, events, timerCount, asked, fired, erased>>,
           clock' = clock \/ clock' = clock + 1,
           timerLock' = (IF at'["timer"] = "decided" THEN "timer" ELSE "free"),
           at'["main"] \in {"timing", "stop", "down"}
    PROVE  TimerInv'
<1>1. Env' = Env
  BY EnvStays
<1>2. TimerTypes'
  BY <1>1 DEF TimerInv, TimerTypes
<1>3. Punctual'
  BY <1>1 DEF TimerInv, Punctual
<1>4. QED
  BY <1>2, <1>3 DEF TimerInv

\* notify_one under the mutex, by main, which goes on at "place".
LEMMA RousedTypes ==
    ASSUME ThreadTypes, TimerTypes, Env.part = "timer", NEW place \in {"timing", "stop"},
           at["main"] = "timing", at' = [Roused EXCEPT !["main"] = place], UNCHANGED <<env, pool, bound>>
    PROVE  /\ ThreadTypes' /\ Only(Pair) /\ at'["main"] = place
           /\ at'["timer"] = "decided" <=> at["timer"] = "decided"
<1>1. {"main", "timer"} \subseteq Threads
  BY ThreadNames
<1>2. /\ at' \in [Threads -> Places] /\ at'["main"] = place
      /\ at'["timer"] = at["timer"] \/ (at["timer"] = "waiting" /\ at'["timer"] = "awake")
      /\ \A u \in Threads : u \notin Pair => at'[u] = at[u]
  BY <1>1 DEF Roused, ThreadTypes, Places, Pair
<1>3. \A u \in Threads : at'[u] \in {"none", "born", "ended"} => at[u] = at'[u]
  BY <1>1, <1>2 DEF Pair
<1>4. QED
  BY <1>2, <1>3 DEF ThreadTypes, Only, Env

\* Timer::schedule: a new id, with one event and no firing.
LEMMA ScheduleTypes ==
    ASSUME ThreadTypes, TimerInv, Env.part = "timer", Schedule
    PROVE  ThreadTypes' /\ TimerInv' /\ Only(Pair)
<1> DEFINE id == timerCount + 1
           due == clock + Env.timers[id].delay
<1>1. env' = env /\ Env' = Env
  BY EnvStays DEF Schedule
<1>2. ThreadTypes' /\ Only(Pair) /\ at'["main"] = "timing" /\ (at'["timer"] = "decided" <=> at["timer"] = "decided")
  <2>1. /\ at["main"] = "timing" /\ at' = Roused /\ at["main"] = "timing" /\ UNCHANGED <<env, pool, bound>>
    BY DEF Schedule
  <2>2. at' = [Roused EXCEPT !["main"] = "timing"]
    BY <2>1, ThreadNames DEF Roused, ThreadTypes
  <2>3. QED
    BY <2>1, <2>2, RousedTypes DEF TimerInv
<1>3. /\ clock \in Nat /\ timerCount \in Nat /\ id \in 1..Len(Env.timers)
      /\ DOMAIN timers \subseteq 1..timerCount /\ id \notin DOMAIN timers
      /\ Len(asked) = timerCount /\ Len(fired) = timerCount /\ asked \in Seq(Nat) /\ fired \in Seq(Seq(Nat))
  <2>1. timerCount < Len(Env.timers) /\ Len(Env.timers) \in Nat
    BY TimerEnv DEF Schedule
  <2>2. QED
    BY <2>1 DEF TimerInv, TimerTypes, Punctual
<1>4. due \in Nat /\ due >= clock
  <2>1. Env.timers[id].delay \in Nat
    BY <1>3, TimerEnv
  <2>2. QED
    BY <1>3, <2>1
<1>5. /\ timerCount' = id /\ events' = events \cup {[due |-> due, id |-> id]}
      /\ timers' = [i \in DOMAIN timers \cup {id} |-> IF i = id THEN Env.timers[id].interval ELSE timers[i]]
      /\ asked' = Append(asked, due) /\ fired' = Append(fired, <<>>)
      /\ UNCHANGED <<clock, timerLock, erased>>
  BY DEF Schedule
<1> HIDE DEF due
<1>6. \A e \in events : e.id \in 1..timerCount
  BY DEF TimerInv, TimerTypes
<1>7. TimerTypes'
  <2>1. \A e \in events' : e = [due |-> e.due, id |-> e.id] /\ e.due \in Nat /\ e.id \in 1..id
    BY <1>3, <1>4, <1>5, <1>6 DEF TimerInv, TimerTypes
  <2>2. \A e, f \in events' : e.id = f.id => e = f
    <3>1. \A e \in events : e.id # id
      BY <1>3, <1>6
    <3>2. QED
      BY <1>5, <3>1 DEF TimerInv, TimerTypes
  <2>3. timerLock' = (IF at'["timer"] = "decided" THEN "timer" ELSE "free")
    BY <1>2, <1>5 DEF TimerInv, TimerTypes
  <2>4. QED
    BY <1>1, <1>2, <1>3, <1>5, <2>1, <2>2, <2>3 DEF TimerTypes
<1>8. Punctual'
  <2>1. /\ asked' \in Seq(Nat) /\ fired' \in Seq(Seq(Nat)) /\ Len(asked') = id /\ Len(fired') = id
        /\ asked'[id] = due /\ fired'[id] = <<>>
        /\ \A i \in 1..timerCount : asked'[i] = asked[i] /\ fired'[i] = fired[i]
    BY <1>3, <1>4, <1>5
  <2>2. erased' \cap DOMAIN timers' = {} /\ erased' \subseteq 1..timerCount'
    BY <1>3, <1>5 DEF TimerInv, Punctual
  <2>3. \A i \in DOMAIN timers' : timers'[i] = Env.timers[i].interval
    BY <1>5 DEF TimerInv, Punctual
  <2>4. ASSUME NEW i \in DOMAIN timers', NEW e \in events', e.id = i
        PROVE  IF fired'[i] = <<>> THEN e.due >= asked'[i]
               ELSE timers'[i] # OneShot /\ e.due >= Last(fired'[i]) + timers'[i]
    <3>1. CASE i = id
      <4>1. e = [due |-> due, id |-> id]
        BY <1>3, <1>5, <1>6, <2>4, <3>1
      <4>2. QED
        BY <1>4, <2>1, <3>1, <4>1
    <3>2. CASE i # id
      <4>1. i \in DOMAIN timers /\ i \in 1..timerCount /\ e \in events /\ timers'[i] = timers[i]
        BY <1>3, <1>5, <2>4, <3>2
      <4>2. fired'[i] = fired[i] /\ asked'[i] = asked[i]
        BY <2>1, <4>1
      <4>3. QED
        BY <2>4, <4>1, <4>2 DEF TimerInv, Punctual
    <3>3. QED
      BY <3>1, <3>2
  <2>5. QED
    BY <1>1, <1>5, <2>1, <2>2, <2>3, <2>4 DEF Punctual
<1>9. QED
  BY <1>2, <1>7, <1>8 DEF TimerInv

\* Timer::erase: the timer is gone, its event stays.
LEMMA EraseTypes ==
    ASSUME ThreadTypes, TimerInv, Env.part = "timer", NEW id \in DOMAIN asked, Erase(id)
    PROVE  ThreadTypes' /\ TimerInv' /\ Only(Pair)
<1>1. env' = env /\ Env' = Env
  BY EnvStays DEF Erase
<1>2. ThreadTypes' /\ Only(Pair) /\ at'["main"] = "timing" /\ (at'["timer"] = "decided" <=> at["timer"] = "decided")
  <2>1. at["main"] = "timing" /\ at' = Roused /\ UNCHANGED <<env, pool, bound>>
    BY DEF Erase
  <2>2. at' = [Roused EXCEPT !["main"] = "timing"]
    BY <2>1, ThreadNames DEF Roused, ThreadTypes
  <2>3. QED
    BY <2>1, <2>2, RousedTypes DEF TimerInv
<1>3. /\ timers' = [i \in DOMAIN timers \ {id} |-> timers[i]] /\ erased' = erased \cup {id}
      /\ UNCHANGED <<clock, events, timerCount, timerLock, asked, fired>>
  BY DEF Erase
<1>4. id \in 1..timerCount
  BY DEF TimerInv, Punctual
<1>5. TimerTypes'
  BY <1>1, <1>2, <1>3 DEF TimerInv, TimerTypes
<1>6. Punctual'
  BY <1>1, <1>3, <1>4 DEF TimerInv, Punctual
<1>7. QED
  BY <1>2, <1>5, <1>6 DEF TimerInv

\* The pass fires what is due, once, and what repeats is due an interval later.
LEMMA PassFires ==
    ASSUME ThreadTypes, TimerInv, Env.part = "timer", Pass
    PROVE  LET fires == {e.id : e \in Due(clock)} \cap DOMAIN timers
           IN  /\ fires \subseteq DOMAIN timers /\ fires \subseteq 1..timerCount
               /\ \A id \in fires :
                     /\ id \in DOMAIN fired /\ id \notin erased
                     /\ fired'[id] = Append(fired[id], clock) /\ timers[id] = Env.timers[id].interval
                     /\ IF fired[id] = <<>> THEN clock >= asked[id]
                        ELSE timers[id] # OneShot /\ clock >= Last(fired[id]) + timers[id]
               /\ \A id \in DOMAIN fired \ fires : fired'[id] = fired[id]
               /\ DOMAIN fired' = DOMAIN fired
<1> DEFINE fires == {e.id : e \in Due(clock)} \cap DOMAIN timers
<1>1. fired' = [id \in DOMAIN fired |-> IF id \in fires THEN Append(fired[id], clock) ELSE fired[id]]
  BY DEF Pass
<1>2. /\ DOMAIN timers \subseteq 1..timerCount /\ DOMAIN fired = 1..timerCount
      /\ clock \in Nat /\ asked \in Seq(Nat) /\ Len(asked) = timerCount
      /\ fired \in Seq(Seq(Nat))
  BY DEF TimerInv, TimerTypes, Punctual
<1>3. ASSUME NEW id \in fires
      PROVE  /\ id \notin erased /\ timers[id] = Env.timers[id].interval
             /\ IF fired[id] = <<>> THEN clock >= asked[id]
                ELSE timers[id] # OneShot /\ clock >= Last(fired[id]) + timers[id]
  <2>1. PICK e \in events : e.id = id /\ e.due <= clock
    BY DEF Due
  <2>2. id \in DOMAIN timers /\ id \in 1..timerCount
    BY <1>2
  <2>3. id \notin erased /\ timers[id] = Env.timers[id].interval
    BY <2>2 DEF TimerInv, Punctual
  <2>4. IF fired[id] = <<>> THEN e.due >= asked[id]
        ELSE timers[id] # OneShot /\ e.due >= Last(fired[id]) + timers[id]
    BY <2>1, <2>2 DEF TimerInv, Punctual
  <2>5. e.due \in Nat /\ timers[id] \in Nat /\ asked[id] \in Nat
    <3>1. e.due \in Nat
      BY DEF TimerInv, TimerTypes
    <3>2. id \in 1..Len(Env.timers)
      BY <2>2 DEF TimerInv, TimerTypes
    <3>3. timers[id] \in Nat
      BY <2>3, <3>2, TimerEnv
    <3>4. asked[id] \in Nat
      BY <1>2, <2>2
    <3>5. QED
      BY <3>1, <3>3, <3>4
  <2>6. CASE fired[id] = <<>>
    <3>1. clock \in Nat /\ e.due >= asked[id]
      BY <1>2, <2>4, <2>6
    <3>2. clock >= asked[id]
      BY <2>1, <2>5, <3>1
    <3>3. QED
      BY <2>3, <2>6, <3>2
  <2>7. CASE fired[id] # <<>>
    <3>1. fired[id] \in Seq(Nat) /\ Last(fired[id]) \in Nat
      <4>1. fired[id] \in Seq(Nat)
        BY <1>2, <2>2
      <4>2. QED
        BY <2>7, <4>1 DEF Last
    <3>2. clock >= Last(fired[id]) + timers[id]
      BY <1>2, <2>1, <2>4, <2>5, <2>7, <3>1
    <3>3. QED
      BY <2>3, <2>4, <2>7, <3>2
  <2>8. QED
    BY <2>6, <2>7
<1> HIDE DEF fires
<1>4. fires \subseteq DOMAIN timers
  BY DEF fires
<1>5. fires \subseteq 1..timerCount
  BY <1>2, <1>4
<1>6. \A id \in fires : id \in DOMAIN fired /\ fired'[id] = Append(fired[id], clock)
  BY <1>1, <1>2, <1>5
<1>7. (\A id \in DOMAIN fired \ fires : fired'[id] = fired[id]) /\ DOMAIN fired' = DOMAIN fired
  BY <1>1
<1>8. QED
  BY <1>3, <1>4, <1>5, <1>6, <1>7 DEF fires

\* What fires is fired now, what repeats is due an interval later.
LEMMA PassTypes ==
    ASSUME ThreadTypes, TimerInv, Env.part = "timer", Pass
    PROVE  ThreadTypes' /\ TimerInv' /\ Only(Pair)
<1> DEFINE fires == {e.id : e \in Due(clock)} \cap DOMAIN timers
           again == {id \in fires : timers[id] # OneShot}
           late == {[due |-> clock + timers[id], id |-> id] : id \in again}
<1>1. env' = env /\ Env' = Env
  BY EnvStays DEF Pass
<1>2. /\ at["timer"] = "lock" /\ Becomes("timer", "decided") /\ UNCHANGED <<env, pool, bound>>
      /\ timerLock' = "timer"
  BY DEF Pass, LockAfterPass
<1>3. ThreadTypes' /\ at'["timer"] = "decided" /\ \A u \in Threads : u # "timer" => at'[u] = at[u]
  BY <1>2, ThreadNames, BecomesTypes DEF Places
<1>4. /\ fires \subseteq DOMAIN timers /\ fires \subseteq 1..timerCount
      /\ \A id \in fires :
            /\ id \in DOMAIN fired /\ fired'[id] = Append(fired[id], clock)
            /\ timers[id] = Env.timers[id].interval
      /\ \A id \in DOMAIN fired \ fires : fired'[id] = fired[id]
      /\ DOMAIN fired' = DOMAIN fired
  BY PassFires
<1>5. /\ timers' = [id \in (DOMAIN timers \ fires) \cup again |-> timers[id]]
      /\ events' = (events \ Due(clock)) \cup late
      /\ fired' = [id \in DOMAIN fired |-> IF id \in fires THEN Append(fired[id], clock) ELSE fired[id]]
      /\ UNCHANGED <<clock, timerCount, asked, erased>>
  BY DEF Pass
<1>6. \A e \in events : e.id \in fires => e \in Due(clock)
  <2>1. \A e, f \in events : e.id = f.id => e = f
    BY DEF TimerInv, TimerTypes
  <2>2. \A id \in fires : \E f \in events : f.id = id /\ f \in Due(clock)
    BY DEF Due
  <2>3. QED
    BY <2>1, <2>2
<1> HIDE DEF fires
<1>7. /\ clock \in Nat /\ timerCount \in Nat /\ DOMAIN timers \subseteq 1..timerCount
      /\ DOMAIN fired = 1..timerCount /\ fired \in Seq(Seq(Nat)) /\ Len(fired) = timerCount
      /\ timerCount <= Len(Env.timers) /\ Len(Env.timers) \in Nat
  BY TimerEnv DEF TimerInv, TimerTypes, Punctual
<1>8. \A id \in fires : timers[id] \in Nat
  <2>1. ASSUME NEW id \in fires PROVE timers[id] \in Nat
    <3>1. id \in 1..Len(Env.timers)
      BY <1>4, <1>7
    <3>2. QED
      BY <1>4, <3>1, TimerEnv
  <2>2. QED
    BY <2>1
<1>9. \A e \in late : /\ e = [due |-> e.due, id |-> e.id] /\ e.due \in Nat /\ e.id \in again
                      /\ e.due = clock + timers[e.id]
  BY <1>7, <1>8
<1> HIDE DEF late
<1>10. TimerTypes'
  <2>1. \A e \in events' : e = [due |-> e.due, id |-> e.id] /\ e.due \in Nat /\ e.id \in 1..timerCount
    BY <1>4, <1>5, <1>9 DEF TimerInv, TimerTypes
  <2>2. ASSUME NEW e \in events', NEW f \in events', e.id = f.id
        PROVE  e = f
    <3>1. CASE e \in late
      <4>1. f \in late
        BY <1>5, <1>6, <1>9, <2>2, <3>1
      <4>2. QED
        BY <1>9, <2>2, <3>1, <4>1
    <3>2. CASE f \in late
      <4>1. e \in late
        BY <1>5, <1>6, <1>9, <2>2, <3>2
      <4>2. QED
        BY <1>9, <2>2, <3>2, <4>1
    <3>3. CASE e \in events /\ f \in events
      BY <2>2, <3>3 DEF TimerInv, TimerTypes
    <3>4. QED
      BY <1>5, <3>1, <3>2, <3>3
  <2>3. DOMAIN timers' \subseteq 1..timerCount
    BY <1>4, <1>5, <1>7
  <2>4. at'["main"] \in {"timing", "stop", "down"}
    BY <1>3, ThreadNames DEF TimerInv, TimerTypes
  <2>5. QED
    BY <1>1, <1>2, <1>3, <1>5, <1>7, <2>1, <2>2, <2>3, <2>4 DEF TimerInv, TimerTypes
<1>11. Punctual'
  <2>1. fired' \in Seq(Seq(Nat)) /\ Len(fired') = timerCount
    <3>1. \A i \in 1..timerCount : fired[i] \in Seq(Nat)
      BY <1>7
    <3>2. \A i \in 1..timerCount : fired'[i] \in Seq(Nat)
      BY <1>5, <1>7, <3>1
    <3>3. DOMAIN fired' = 1..timerCount /\ fired' = [i \in 1..timerCount |-> fired'[i]]
      BY <1>5, <1>7
    <3>4. QED
      BY <1>7, <3>2, <3>3, SequenceOf
  <2>2. erased \cap DOMAIN timers' = {} /\ \A id \in DOMAIN timers' : timers'[id] = Env.timers[id].interval
    BY <1>5, <1>4 DEF TimerInv, Punctual
  <2>3. ASSUME NEW id \in DOMAIN timers', NEW e \in events', e.id = id
        PROVE  IF fired'[id] = <<>> THEN e.due >= asked[id]
               ELSE timers'[id] # OneShot /\ e.due >= Last(fired'[id]) + timers'[id]
    <3>1. timers'[id] = timers[id] /\ id \in DOMAIN timers /\ id \in 1..timerCount
      BY <1>4, <1>5, <1>7
    <3>2. CASE id \in fires
      <4>1. id \in again /\ timers[id] # OneShot
        BY <1>5, <3>2
      <4>2. e \in late
        BY <1>5, <1>6, <2>3, <3>2
      <4>3. e.due = clock + timers[id]
        BY <1>9, <2>3, <4>2
      <4>4. fired'[id] = Append(fired[id], clock) /\ fired[id] \in Seq(Nat)
        BY <1>4, <1>7, <3>1, <3>2
      <4>5. fired'[id] # <<>> /\ Last(fired'[id]) = clock
        <5>1. clock \in Nat
          BY <1>7
        <5>2. Append(fired[id], clock) # <<>> /\ Last(Append(fired[id], clock)) = clock
          BY <4>4, <5>1, LastOfAppend
        <5>3. QED
          BY <4>4, <5>2
      <4>6. QED
        BY <1>7, <1>8, <3>1, <3>2, <4>1, <4>3, <4>5
    <3>3. CASE id \notin fires
      <4>1. e \in events /\ fired'[id] = fired[id]
        BY <1>4, <1>5, <1>7, <1>9, <2>3, <3>1, <3>3
      <4>2. QED
        BY <2>3, <3>1, <4>1 DEF TimerInv, Punctual
    <3>4. QED
      BY <3>2, <3>3
  <2>4. QED
    BY <1>1, <1>5, <2>1, <2>2, <2>3 DEF TimerInv, Punctual
<1>12. QED
  BY <1>1, <1>3, <1>10, <1>11 DEF TimerInv, Only, Pair

\* Every step of the timer thread and of the one that uses it, and of the clock.
LEMMA TimerTyped ==
    ASSUME ThreadTypes, TimerInv, Env.part = "timer", TimerMoves
    PROVE  ThreadTypes' /\ TimerInv' /\ Only(Pair)
<1>1. /\ {"timer", "main"} \subseteq Threads /\ clock \in Nat
      /\ timerLock = (IF at["timer"] = "decided" THEN "timer" ELSE "free")
      /\ at["main"] \in {"timing", "stop", "down"}
  BY ThreadNames DEF TimerInv, TimerTypes
<1>2. ASSUME NEW t \in Pair, NEW place \in Places, Becomes(t, place),
             place \notin {"none", "born", "ended", "decided"},
             t = "main" => place = "down", UNCHANGED <<env, pool, bound>>,
             UNCHANGED <<clock, timers, events, timerCount, asked, fired, erased>>,
             timerLock' = IF t = "timer" THEN "free" ELSE timerLock
      PROVE  ThreadTypes' /\ TimerInv' /\ Only(Pair)
  <2>1. ThreadTypes' /\ at'[t] = place /\ \A u \in Threads : u # t => at'[u] = at[u]
    BY <1>1, <1>2, BecomesTypes DEF Pair
  <2>2. /\ timerLock' = (IF at'["timer"] = "decided" THEN "timer" ELSE "free")
        /\ at'["main"] \in {"timing", "stop", "down"}
    BY <1>1, <1>2, <2>1 DEF Pair
  <2>3. TimerInv'
    BY <1>2, <2>2, TimerFrame
  <2>4. QED
    BY <1>2, <2>1, <2>3 DEF Only
<1>3. ASSUME NEW place \in {"loop", "ended"}, env' = env, ThreadTypes', at'["timer"] = place,
             \A u \in Threads : u # "timer" => at'[u] = at[u], UNCHANGED timerVars, at["timer"] # "decided"
      PROVE  ThreadTypes' /\ TimerInv' /\ Only(Pair)
  BY <1>1, <1>3, TimerFrame DEF Only, Pair
<1>4. CASE Bind("timer", "loop") /\ UNCHANGED timerVars
  <2>1. /\ ThreadTypes' /\ env' = env /\ at["timer"] = "born" /\ at'["timer"] = "loop"
        /\ \A u \in Threads : u # "timer" => at'[u] = at[u]
    BY <1>1, <1>4, BindTypes DEF Places
  <2>2. QED
    BY <1>3, <1>4, <2>1
<1>5. CASE TimerLoop
  <2>1. UNCHANGED <<env, pool, timerVars>> /\ at["timer"] = "loop"
    BY <1>5 DEF TimerLoop
  <2>2. CASE timerStop
    <3>1. ThreadTypes' /\ at'["timer"] = "ended" /\ \A u \in Threads : u # "timer" => at'[u] = at[u]
      BY <1>1, <1>5, <2>1, <2>2, EndsTypes DEF TimerLoop
    <3>2. QED
      BY <1>3, <2>1, <3>1
  <2>3. CASE ~timerStop
    BY <1>1, <1>2, <1>5, <2>1, <2>3 DEF TimerLoop, Places, Pair
  <2>4. QED
    BY <2>2, <2>3
<1>6. CASE TimerWait
  BY <1>1, <1>2, <1>6 DEF TimerWait, Places, Pair
<1>7. CASE TimesOut
  BY <1>1, <1>2, <1>7 DEF TimesOut, Places, Pair
<1>8. CASE Resume
  BY <1>1, <1>2, <1>8 DEF Resume, Places, Pair
<1>9. CASE TimerWakesSpuriously
  BY <1>1, <1>2, <1>9 DEF TimerWakesSpuriously, Places, Pair
<1>10. CASE JoinTimer
  BY <1>1, <1>2, <1>10 DEF JoinTimer, Places, Pair
<1>11. CASE Destroy
  <2>1. /\ at["main"] = "timing" /\ at' = [Roused EXCEPT !["main"] = "stop"]
        /\ UNCHANGED <<env, pool, bound, clock, timers, events, timerCount, timerLock, asked, fired, erased>>
    BY <1>11 DEF Destroy
  <2>2. /\ ThreadTypes' /\ Only(Pair) /\ at'["main"] = "stop"
        /\ at'["timer"] = "decided" <=> at["timer"] = "decided"
    BY <2>1, RousedTypes DEF TimerInv
  <2>3. QED
    BY <1>1, <2>1, <2>2, TimerFrame
<1>12. CASE TimePasses
  <2>1. UNCHANGED <<env, at, pool, bound, timers, events, timerCount, timerLock, asked, fired, erased>>
        /\ clock' = clock + 1
    BY <1>12 DEF TimePasses
  <2>2. ThreadTypes'
    BY <2>1, EnvStays DEF ThreadTypes
  <2>3. QED
    BY <1>1, <2>1, <2>2, TimerFrame DEF Only
<1>13. QED
  BY <1>4, <1>5, <1>6, <1>7, <1>8, <1>9, <1>10, <1>11, <1>12, ScheduleTypes, EraseTypes, PassTypes
     DEF TimerMoves, TimerStep, RunTimer
-----------------------------------------------------------------------------
(* The application *)

Starts == {"idle", "down", "startLogger", "startStore", "startNetwork", "startUpdate"}
Gone(t) == at[t] \in {"none", "ended"}

\* Where main has nothing of the thread that it has not joined.
WithoutUpdate == at["main"] \in Starts \/ (running /\ ~netRunning)
WithoutReaders == ~netRunning /\ at["main"] \notin {"stopReaders", "wakeReader"}
Without(w) ==
    \/ at["main"] \in {"idle", "down", "startLogger", "joinUpdate"}
    \/ w = "logger" /\ at["main"] \in {"stopStore", "joinStore"}
    \/ w = "store" /\ at["main"] = "startStore"

Ordered ==
    mishaps = {} =>
    /\ running => at["main"] \in (Starts \cup {"up", "terminated"}) \ {"idle", "down"}
    /\ at["main"] \in Starts \ {"idle", "down"} => running
    /\ netRunning => at["main"] \in {"startUpdate", "up", "stopSessions", "stopHandler",
                                     "disconnect", "release"}
    /\ at["main"] = "startUpdate" => netRunning
    /\ WithoutUpdate => Gone("update")
    /\ WithoutReaders => \A r \in Readers : Gone(r)
    /\ \A w \in Writers : Without(w) => Gone(w) /\ ~writer[w].dirty

\* A reader is closed when main has come to it, then no session has a socket of it, and
\* until main gets to its mutex a client that it assigns has one.
Unplugged ==
    mishaps = {} =>
    /\ netRunning => \A r \in Readers : ~reader[r].closed
    /\ WithoutReaders => \A r \in Readers : reader[r].closed
    /\ at["main"] \in {"stopReaders", "wakeReader"} =>
          \A r \in Readers : reader[r].closed \/ r \in loop["main"].left
                              \/ (at["main"] = "wakeReader" /\ r = loop["main"].now)
    /\ \A r \in Readers : reader[r].closed =>
          \A s \in Sessions : sess[s].connection # r /\ sess[s].port # r
    /\ \A r \in Readers : at[r] \in {"attach", "answer"} => ~reader[r].closed

ApplicationInv == Env.part = "application" => Ordered /\ Unplugged

Plan ==
    /\ ThreadTypes /\ ApplicationTypes /\ Env.part = "application"
    /\ Ordered /\ Unplugged

Staff == Readers \cup Writers \cup {"main", "update", "admin"}

ApplicationMoves ==
    \/ \E t \in Threads : ApplicationStep(t)
    \/ Start \/ Stop

\* The names of the application's threads.
LEMMA StaffNames ==
    /\ {"main", "update", "logger", "store", "admin"} \subseteq Threads /\ Readers \subseteq Threads
    /\ Writers = {"logger", "store"} /\ Staff \subseteq Threads
    /\ \A r \in Readers : r \notin {"main", "update", "logger", "store", "admin", Nobody}
  BY ThreadNames DEF Writers, Named, Staff, Nobody

\* What the step of a thread does not need to say again.
LEMMA StaffGoes ==
    ASSUME Plan, NEW t \in Staff, NEW place \in Places, Becomes(t, place),
           place \notin {"none", "born", "ended"}, UNCHANGED <<env, pool, bound>>
    PROVE  /\ ThreadTypes' /\ Only(Staff) /\ Env' = Env /\ Sessions' = Sessions
           /\ at'[t] = place /\ \A u \in Threads : u # t => at'[u] = at[u]
<1>1. /\ ThreadTypes' /\ at'[t] = place
      /\ \A u \in Threads : u # t => at'[u] = at[u]
  BY StaffNames, BecomesTypes DEF Plan
<1>2. QED
  BY <1>1, EnvStays DEF Only

\* A thread of the application begins.
LEMMA StaffBinds ==
    ASSUME Plan, NEW t \in Staff, NEW place \in Places, Bind(t, place),
           place \notin {"none", "born", "ended"}
    PROVE  /\ ThreadTypes' /\ Only(Staff) /\ Env' = Env /\ Sessions' = Sessions
           /\ at[t] = "born" /\ at'[t] = place /\ \A u \in Threads : u # t => at'[u] = at[u]
<1>1. /\ ThreadTypes' /\ env' = env /\ at[t] = "born" /\ at'[t] = place
      /\ \A u \in Threads : u # t => at'[u] = at[u]
  BY StaffNames, BindTypes DEF Plan
<1>2. QED
  BY <1>1, EnvStays DEF Only

\* It ends.
LEMMA StaffEnds ==
    ASSUME Plan, NEW t \in Staff, Ends(t), UNCHANGED <<env, pool>>
    PROVE  /\ ThreadTypes' /\ Only(Staff) /\ Env' = Env /\ Sessions' = Sessions
           /\ at'[t] = "ended" /\ \A u \in Threads : u # t => at'[u] = at[u]
<1>1. /\ ThreadTypes' /\ at'[t] = "ended"
      /\ \A u \in Threads : u # t => at'[u] = at[u]
  BY StaffNames, EndsTypes DEF Plan
<1>2. QED
  BY <1>1, EnvStays DEF Only

\* The main thread creates others.
LEMMA MainCreates ==
    ASSUME Plan, NEW new \in SUBSET (Staff \ {"main"}), NEW place \in Places, Creates("main", new, place),
           place \notin {"none", "born", "ended"}, UNCHANGED <<env, pool>>
    PROVE  /\ ThreadTypes' /\ Only(Staff) /\ Env' = Env /\ Sessions' = Sessions
           /\ at'["main"] = place /\ \A u \in new : at'[u] = "born"
           /\ \A u \in Threads : u # "main" /\ u \notin new => at'[u] = at[u]
<1>1. /\ ThreadTypes' /\ at'["main"] = place /\ \A u \in new : at'[u] = "born"
      /\ \A u \in Threads : u # "main" /\ u \notin new => at'[u] = at[u]
  <2>1. "main" \in Threads /\ new \in SUBSET Threads /\ "main" \notin new
    BY StaffNames
  <2>2. QED
    BY <2>1, CreatesTypes DEF Plan
<1>2. QED
  BY <1>1, EnvStays, StaffNames DEF Only, Staff

\* One by one, what the variables are.
LEMMA PlanParts ==
    ASSUME Plan
    PROVE  /\ running \in BOOLEAN /\ netRunning \in BOOLEAN /\ listed \in BOOLEAN
           /\ reader \in [Readers -> ReaderRecord]
           /\ writer \in [Writers -> [enabled: BOOLEAN, dirty: BOOLEAN]]
           /\ sess \in [Sessions -> Assignment]
           /\ loop \in [{"main", "update"} -> [left: SUBSET (Sessions \cup Readers),
                                              now: Sessions \cup Readers \cup {Nobody}]]
           /\ mishaps \subseteq {"early", "late", "undefined"}
           /\ at["main"] \in {"stopHandler", "disconnect", "release"} => loop["main"].now \in Sessions
           /\ at["main"] = "wakeReader" => loop["main"].now \in Readers
           /\ at["update"] \in {"check", "starting", "attaching"} => loop["update"].now \in Sessions
           /\ \A r \in Readers : at[r] \in Handling => reader[r].with \in Sessions
  BY DEF Plan, ApplicationTypes

\* One more is taken out of a loop.
LEMMA TakesTypes ==
    ASSUME Plan, NEW t \in {"main", "update"}, NEW x, Takes(t, x), Sessions' = Sessions
    PROVE  /\ x \in loop[t].left /\ loop'[t].left = loop[t].left \ {x} /\ loop'[t].now = x
           /\ \A u \in {"main", "update"} : u # t => loop'[u] = loop[u]
           /\ loop' \in [{"main", "update"} -> [left: SUBSET (Sessions \cup Readers),
                                               now: Sessions \cup Readers \cup {Nobody}]]
  BY PlanParts DEF Takes

\* A loop begins.
LEMMA OverTypes ==
    ASSUME Plan, NEW t \in {"main", "update"}, NEW S \in {Sessions, Readers}, Over(t, S), Sessions' = Sessions
    PROVE  /\ loop'[t].left = S /\ \A u \in {"main", "update"} : u # t => loop'[u] = loop[u]
           /\ loop' \in [{"main", "update"} -> [left: SUBSET (Sessions \cup Readers),
                                               now: Sessions \cup Readers \cup {Nobody}]]
  BY PlanParts DEF Over

\* What has been written to is dirty.
LEMMA DirtiedTypes ==
    ASSUME Plan, NEW ws \in SUBSET Writers
    PROVE  /\ Dirtied(ws) \in [Writers -> [enabled: BOOLEAN, dirty: BOOLEAN]]
           /\ \A w \in Writers : /\ Dirtied(ws)[w].enabled = writer[w].enabled
                                 /\ w \notin ws => Dirtied(ws)[w] = writer[w]
<1>1. writer \in [Writers -> [enabled: BOOLEAN, dirty: BOOLEAN]]
  BY PlanParts
<1>2. ASSUME NEW w \in Writers
      PROVE  /\ Dirtied(ws)[w] \in [enabled: BOOLEAN, dirty: BOOLEAN]
             /\ Dirtied(ws)[w].enabled = writer[w].enabled
             /\ w \notin ws => Dirtied(ws)[w] = writer[w]
  BY <1>1 DEF Dirtied
<1>3. Dirtied(ws) = [w \in Writers |-> Dirtied(ws)[w]]
  BY DEF Dirtied
<1>4. QED
  BY <1>2, <1>3

\* What a session is assigned to.
LEMMA AssignmentTypes ==
    ASSUME Plan, NEW s \in Sessions, NEW a \in Assignment, sess' = [sess EXCEPT ![s] = a]
    PROVE  /\ sess' \in [Sessions -> Assignment] /\ sess'[s] = a
           /\ \A o \in Sessions : o # s => sess'[o] = sess[o]
  BY PlanParts

\* A session that is changed is one.
LEMMA Edited ==
    ASSUME NEW a \in Assignment, NEW c \in Readers \cup {Nobody}, NEW p \in Readers \cup {Nobody},
           NEW b \in BOOLEAN
    PROVE  /\ [a EXCEPT !.enabled = b] \in Assignment
           /\ [a EXCEPT !.connection = c] \in Assignment
           /\ [a EXCEPT !.port = p] \in Assignment
           /\ [a EXCEPT !.closing = c] \in Assignment
           /\ [a EXCEPT !.stopped = b, !.closing = c] \in Assignment
           /\ [a EXCEPT !.connection = c, !.closing = p] \in Assignment
           /\ [a EXCEPT !.connection = c, !.port = p] \in Assignment
  BY DEF Assignment

\* A session gets or loses a connection and an accept port; the others do not.
Gets(s, c, p) ==
    /\ sess' \in [Sessions -> Assignment]
    /\ sess'[s].connection = c /\ sess'[s].port = p
    /\ \A o \in Sessions : o # s => sess'[o] = sess[o]

\* By all the assignments the code makes.
LEMMA Getting ==
    ASSUME Plan, NEW s \in Sessions, NEW c \in Readers \cup {Nobody}
    PROVE  /\ sess' = [sess EXCEPT ![s].connection = c] => Gets(s, c, sess[s].port)
           /\ sess' = [sess EXCEPT ![s].port = c] => Gets(s, sess[s].connection, c)
           /\ sess' = [sess EXCEPT ![s].closing = c] => Gets(s, sess[s].connection, sess[s].port)
           /\ sess' = [sess EXCEPT ![s].connection = Nobody, ![s].closing = Nobody]
                 => Gets(s, Nobody, sess[s].port)
           /\ sess' = [sess EXCEPT ![s].stopped = TRUE, ![s].closing = c]
                 => Gets(s, sess[s].connection, sess[s].port)
           /\ sess' = sess => Gets(s, sess[s].connection, sess[s].port)
<1>1. sess[s] \in Assignment
  BY PlanParts
<1>2. ASSUME NEW a \in Assignment, sess' = [sess EXCEPT ![s] = a]
      PROVE  Gets(s, a.connection, a.port)
  BY <1>2, AssignmentTypes DEF Gets
<1>3. sess' = [sess EXCEPT ![s].connection = c] => Gets(s, c, sess[s].port)
  <2> SUFFICES ASSUME sess' = [sess EXCEPT ![s].connection = c] PROVE Gets(s, c, sess[s].port)
    OBVIOUS
  <2> DEFINE a == [sess[s] EXCEPT !.connection = c]
  <2>1. a \in Assignment /\ a.connection = c /\ a.port = sess[s].port
    BY <1>1, Edited DEF Assignment
  <2>2. sess' = [sess EXCEPT ![s] = a]
    OBVIOUS
  <2> HIDE DEF a
  <2>3. QED
    BY <1>2, <2>1, <2>2
<1>4. sess' = [sess EXCEPT ![s].port = c] => Gets(s, sess[s].connection, c)
  <2> SUFFICES ASSUME sess' = [sess EXCEPT ![s].port = c] PROVE Gets(s, sess[s].connection, c)
    OBVIOUS
  <2> DEFINE a == [sess[s] EXCEPT !.port = c]
  <2>1. a \in Assignment /\ a.connection = sess[s].connection /\ a.port = c
    BY <1>1, Edited DEF Assignment
  <2>2. sess' = [sess EXCEPT ![s] = a]
    OBVIOUS
  <2> HIDE DEF a
  <2>3. QED
    BY <1>2, <2>1, <2>2
<1>5. sess' = [sess EXCEPT ![s].closing = c] => Gets(s, sess[s].connection, sess[s].port)
  <2> SUFFICES ASSUME sess' = [sess EXCEPT ![s].closing = c] PROVE Gets(s, sess[s].connection, sess[s].port)
    OBVIOUS
  <2> DEFINE a == [sess[s] EXCEPT !.closing = c]
  <2>1. a \in Assignment /\ a.connection = sess[s].connection /\ a.port = sess[s].port
    BY <1>1, Edited DEF Assignment
  <2>2. sess' = [sess EXCEPT ![s] = a]
    OBVIOUS
  <2> HIDE DEF a
  <2>3. QED
    BY <1>2, <2>1, <2>2
<1>6. sess' = [sess EXCEPT ![s].connection = Nobody, ![s].closing = Nobody] => Gets(s, Nobody, sess[s].port)
  <2> SUFFICES ASSUME sess' = [sess EXCEPT ![s].connection = Nobody, ![s].closing = Nobody] PROVE Gets(s, Nobody, sess[s].port)
    OBVIOUS
  <2> DEFINE a == [sess[s] EXCEPT !.connection = Nobody, !.closing = Nobody]
  <2>1. a \in Assignment /\ a.connection = Nobody /\ a.port = sess[s].port
    BY <1>1, Edited, ZenonT(60) DEF Assignment
  <2>2. sess' = [sess EXCEPT ![s] = a]
    OBVIOUS
  <2> HIDE DEF a
  <2>3. QED
    BY <1>2, <2>1, <2>2
<1>7. sess' = [sess EXCEPT ![s].stopped = TRUE, ![s].closing = c] => Gets(s, sess[s].connection, sess[s].port)
  <2> SUFFICES ASSUME sess' = [sess EXCEPT ![s].stopped = TRUE, ![s].closing = c] PROVE Gets(s, sess[s].connection, sess[s].port)
    OBVIOUS
  <2> DEFINE a == [sess[s] EXCEPT !.stopped = TRUE, !.closing = c]
  <2>1. a \in Assignment /\ a.connection = sess[s].connection /\ a.port = sess[s].port
    BY <1>1, Edited DEF Assignment
  <2>2. sess' = [sess EXCEPT ![s] = a]
    OBVIOUS
  <2> HIDE DEF a
  <2>3. QED
    BY <1>2, <2>1, <2>2
<1>8. sess' = sess => Gets(s, sess[s].connection, sess[s].port)
  BY PlanParts DEF Gets
<1>9. QED
  BY <1>3, <1>4, <1>5, <1>6, <1>7, <1>8

\* A reader's flags change, or the session that it handles; nothing is closed.
LEMMA ReaderFlags ==
    ASSUME Plan, NEW r \in Readers, NEW b \in BOOLEAN, NEW x \in Sessions \cup {Nobody},
           reader' \in {[reader EXCEPT ![r].running = b], [reader EXCEPT ![r].event = b],
                       [reader EXCEPT ![r].taken = b], [reader EXCEPT ![r].with = x]}
    PROVE  /\ reader' \in [Readers -> ReaderRecord]
           /\ \A q \in Readers : reader'[q].closed = reader[q].closed
           /\ \A q \in Readers : q # r => reader'[q] = reader[q]
           /\ reader'[r].with \in {reader[r].with, x}
           /\ reader' = [reader EXCEPT ![r].with = x] => reader'[r].with = x
<1>1. reader \in [Readers -> ReaderRecord] /\ reader[r] \in ReaderRecord
  BY PlanParts
<1>2. PICK a : /\ reader' = [reader EXCEPT ![r] = a]
               /\ a \in {[reader[r] EXCEPT !.running = b], [reader[r] EXCEPT !.event = b],
                         [reader[r] EXCEPT !.taken = b], [reader[r] EXCEPT !.with = x]}
  OBVIOUS
<1>3. a \in ReaderRecord /\ a.closed = reader[r].closed /\ a.with \in {reader[r].with, x}
  BY <1>1, <1>2 DEF ReaderRecord
<1>4. reader'[r] = a /\ \A q \in Readers : q # r => reader'[q] = reader[q]
  BY <1>1, <1>2
<1>5. reader' = [reader EXCEPT ![r].with = x] => reader'[r].with = x
  BY <1>1 DEF ReaderRecord
<1>6. reader' \in [Readers -> ReaderRecord]
  BY <1>1, <1>2, <1>3
<1>7. QED
  BY <1>3, <1>4, <1>5, <1>6

\* A file writer is one after a change.
LEMMA WriterEdits ==
    ASSUME Plan, NEW w \in Writers, NEW b \in BOOLEAN
    PROVE  /\ [writer EXCEPT ![w].enabled = b] \in [Writers -> [enabled: BOOLEAN, dirty: BOOLEAN]]
           /\ [writer EXCEPT ![w].dirty = b] \in [Writers -> [enabled: BOOLEAN, dirty: BOOLEAN]]
           /\ [writer EXCEPT ![w].enabled = b][w].dirty = writer[w].dirty
           /\ [writer EXCEPT ![w].dirty = b][w] = [enabled |-> writer[w].enabled, dirty |-> b]
<1>1. writer \in [Writers -> [enabled: BOOLEAN, dirty: BOOLEAN]]
  BY PlanParts
<1>2. QED
  BY <1>1

\* Nothing that has to do with sockets changes: Unplugged stays.
LEMMA SocketsStay ==
    ASSUME Plan, ThreadTypes', UNCHANGED <<netRunning, reader>>, Sessions' = Sessions, mishaps \subseteq mishaps',
           \A s \in Sessions : /\ sess'[s].connection \in {sess[s].connection, Nobody}
                               /\ sess'[s].port \in {sess[s].port, Nobody},
           \A r \in Readers : at'[r] \in {"attach", "answer"} => at[r] \in {"attach", "answer"},
           at["main"] \notin {"stopReaders", "wakeReader"}, at'["main"] \notin {"stopReaders", "wakeReader"}
    PROVE  Unplugged'
  BY StaffNames DEF Plan, Unplugged, WithoutReaders

\* Session::stop disables the session before its handler is stopped.
LEMMA StopSessionPlan ==
    ASSUME Plan, NEW s \in Sessions, StopSession(s)
    PROVE  Plan' /\ Only(Staff)
<1> USE StaffNames
<1>1. /\ ThreadTypes' /\ Only(Staff) /\ Env' = Env /\ Sessions' = Sessions
      /\ at'["main"] = "stopHandler" /\ \A u \in Threads : u # "main" => at'[u] = at[u]
  BY StaffGoes DEF StopSession, Places, Staff
<1>2. /\ s \in loop["main"].left /\ loop'["main"].left = loop["main"].left \ {s} /\ loop'["main"].now = s
      /\ loop'["update"] = loop["update"]
      /\ loop' \in [{"main", "update"} -> [left: SUBSET (Sessions \cup Readers),
                                          now: Sessions \cup Readers \cup {Nobody}]]
  BY <1>1, TakesTypes DEF StopSession
<1>3. /\ writer' \in [Writers -> [enabled: BOOLEAN, dirty: BOOLEAN]]
      /\ writer'["logger"] = writer["logger"]
  BY DirtiedTypes DEF StopSession
<1>4. /\ sess' \in [Sessions -> Assignment]
      /\ ~sess'[s].enabled /\ sess'[s].stopped = sess[s].stopped
      /\ sess'[s].connection = sess[s].connection /\ sess'[s].port = sess[s].port
      /\ \A o \in Sessions : o # s => sess'[o] = sess[o]
  <2>1. [sess[s] EXCEPT !.enabled = FALSE] \in Assignment
    BY PlanParts, Edited
  <2>2. sess' = [sess EXCEPT ![s] = [sess[s] EXCEPT !.enabled = FALSE]]
    BY DEF StopSession
  <2>3. sess[s] \in Assignment
    BY PlanParts
  <2>4. QED
    BY <2>1, <2>2, <2>3, AssignmentTypes DEF Assignment
<1>5. UNCHANGED <<running, netRunning, listed, reader, mishaps>> /\ at["main"] = "stopSessions"
  BY DEF StopSession
<1>6. ApplicationTypes'
  BY <1>1, <1>2, <1>3, <1>4, <1>5, PlanParts DEF ApplicationTypes, ReaderRecord, Handling
<1>7. Ordered'
  BY <1>1, <1>3, <1>5 DEF Plan, Ordered, Gone, Without, WithoutReaders, WithoutUpdate, Starts
<1>8. Unplugged'
  <2>1. \A o \in Sessions : sess'[o].connection = sess[o].connection /\ sess'[o].port = sess[o].port
    BY <1>4
  <2>2. QED
    BY <1>1, <1>5, <2>1, SocketsStay
<1>9. QED
  BY <1>1, <1>6, <1>7, <1>8 DEF Plan

\* NetworkHandler::stop and disconnect take sockets and give none.
LEMMA StopHandlerPlan ==
    ASSUME Plan, StopHandler \/ Disconnect \/ RemoveAcceptor
    PROVE  Plan' /\ Only(Staff)
<1> USE StaffNames
<1> DEFINE s == loop["main"].now
<1>1. /\ UNCHANGED <<env, pool, bound, running, netRunning, listed, reader, writer, loop, mishaps>>
      /\ at["main"] \in {"stopHandler", "disconnect", "release"} /\ s \in Sessions
  BY PlanParts DEF StopHandler, Disconnect, RemoveAcceptor
<1>2. PICK place \in {"stopSessions", "disconnect", "release"} : Becomes("main", place)
  BY DEF StopHandler, Disconnect, RemoveAcceptor
<1>3. /\ ThreadTypes' /\ Only(Staff) /\ Env' = Env /\ Sessions' = Sessions
      /\ at'["main"] = place /\ \A u \in Threads : u # "main" => at'[u] = at[u]
  <2>1. place \in Places /\ place \notin {"none", "born", "ended"} /\ "main" \in Staff
    BY DEF Places, Staff
  <2>2. QED
    BY <1>1, <1>2, <2>1, StaffGoes
<1>4. PICK c \in {sess[s].connection, Nobody}, p \in {sess[s].port, Nobody} : Gets(s, c, p)
  <2>1. sess[s].connection \in Readers \cup {Nobody} /\ Nobody \in Readers \cup {Nobody}
    BY <1>1, PlanParts DEF Assignment
  <2>2. CASE StopHandler
    BY <1>1, <2>1, <2>2, Getting DEF StopHandler
  <2>3. CASE Disconnect
    BY <1>1, <2>1, <2>3, Getting DEF Disconnect
  <2>4. CASE RemoveAcceptor
    BY <1>1, <2>1, <2>4, Getting DEF RemoveAcceptor
  <2>5. QED
    BY <2>2, <2>3, <2>4
<1>5. ApplicationTypes'
  BY <1>1, <1>3, <1>4, PlanParts DEF ApplicationTypes, ReaderRecord, Handling, Gets
<1>6. Ordered'
  BY <1>1, <1>3 DEF Plan, Ordered, Gone, Without, WithoutReaders, WithoutUpdate, Starts
<1>7. Unplugged'
  BY <1>1, <1>3, <1>4, SocketsStay DEF Gets
<1>8. QED
  BY <1>3, <1>5, <1>6, <1>7 DEF Plan

StartPlaces == {<<"logger", "startLogger", "startStore">>, <<"store", "startStore", "startNetwork">>}

\* Application::start creates the logger's and the store's thread only when the last one is gone.
LEMMA StartWriterPlan ==
    ASSUME Plan, NEW w, NEW from, NEW next, <<w, from, next>> \in StartPlaces,
           StartWriter(w, from, next)
    PROVE  Plan' /\ Only(Staff)
<1> USE StaffNames
<1>1. UNCHANGED <<env, pool, applicationVars>> /\ at["main"] = from
  BY DEF StartWriter
<1>2. /\ w \in Writers /\ w \in Staff /\ w # "main" /\ from # next
      /\ next \in {"startStore", "startNetwork"} /\ next \in Places
  BY DEF StartPlaces, Staff, Places
<1>3. CASE at[w] \in {"none", "ended"}
  <2>1. /\ ThreadTypes' /\ Only(Staff) /\ Env' = Env /\ Sessions' = Sessions
        /\ at'["main"] = next /\ at'[w] = "born"
        /\ \A u \in Threads : u # "main" /\ u # w => at'[u] = at[u]
    <3>1. Creates("main", {w}, next)
      BY <1>3 DEF StartWriter
    <3>2. {w} \in SUBSET (Staff \ {"main"})
      BY <1>2
    <3>3. /\ ThreadTypes' /\ Only(Staff) /\ Env' = Env /\ Sessions' = Sessions
          /\ at'["main"] = next /\ \A u \in {w} : at'[u] = "born"
          /\ \A u \in Threads : u # "main" /\ u \notin {w} => at'[u] = at[u]
      BY <1>1, <1>2, <3>1, <3>2, MainCreates
    <3>4. QED
      BY <3>3
  <2>2. ApplicationTypes'
    BY <1>1, <1>2, <2>1, PlanParts DEF ApplicationTypes, ReaderRecord, Handling
  <2>3. Ordered'
    BY <1>1, <2>1 DEF Plan, Ordered, Gone, Without, WithoutReaders, WithoutUpdate, Starts, StartPlaces
  <2>4. Unplugged'
    BY <1>1, <1>2, <2>1, SocketsStay DEF StartPlaces
  <2>5. QED
    BY <2>1, <2>2, <2>3, <2>4 DEF Plan
<1>4. CASE at[w] \notin {"none", "ended"}
  <2>1. /\ ThreadTypes' /\ Only(Staff) /\ Env' = Env /\ Sessions' = Sessions
        /\ at'["main"] = "terminated" /\ \A u \in Threads : u # "main" => at'[u] = at[u]
    BY <1>1, <1>4, StaffGoes DEF StartWriter, Places, Staff
  <2>2. ApplicationTypes'
    BY <1>1, <2>1, PlanParts DEF ApplicationTypes, ReaderRecord, Handling
  <2>3. Ordered'
    BY <1>1, <1>2, <2>1 DEF Plan, Ordered, Gone, Without, WithoutReaders, WithoutUpdate, Starts, StartPlaces
  <2>4. Unplugged'
    BY <1>1, <1>2, <2>1, SocketsStay DEF StartPlaces
  <2>5. QED
    BY <2>1, <2>2, <2>3, <2>4 DEF Plan
<1>5. QED
  BY <1>3, <1>4

\* It creates all readers,
LEMMA StartNetworkPlan ==
    ASSUME Plan, StartNetwork
    PROVE  Plan' /\ Only(Staff)
<1> USE StaffNames
<1>1. /\ UNCHANGED <<env, pool, running, writer, sess, loop, starts, mishaps>> /\ at["main"] = "startNetwork"
      /\ netRunning' = TRUE /\ listed' = TRUE
  BY DEF StartNetwork
<1>2. /\ ThreadTypes' /\ Only(Staff) /\ Env' = Env /\ Sessions' = Sessions
      /\ at'["main"] = "startUpdate" /\ \A r \in Readers : at'[r] = "born"
      /\ \A u \in Threads : u # "main" /\ u \notin Readers => at'[u] = at[u]
  <2>1. Readers \in SUBSET (Staff \ {"main"})
    BY DEF Staff
  <2>2. QED
    BY <1>1, <2>1, MainCreates DEF StartNetwork, Places
<1>3. reader' \in [Readers -> ReaderRecord]
  BY DEF StartNetwork, NewReaders, ReaderRecord
<1>4. ApplicationTypes'
  BY <1>1, <1>2, <1>3, PlanParts DEF ApplicationTypes, ReaderRecord, Handling
<1>5. Ordered'
  BY <1>1, <1>2 DEF Plan, Ordered, Gone, Without, WithoutReaders, WithoutUpdate, Starts
<1>6. Unplugged'
  <2>1. \A r \in Readers : at'[r] = "born" /\ ~reader'[r].closed
    BY <1>2 DEF StartNetwork, NewReaders
  <2>2. QED
    BY <1>1, <1>2, <2>1 DEF Unplugged, WithoutReaders
<1>7. QED
  BY <1>2, <1>4, <1>5, <1>6 DEF Plan

\* and at last the update thread.
LEMMA StartUpdatePlan ==
    ASSUME Plan, StartUpdate
    PROVE  Plan' /\ Only(Staff)
<1> USE StaffNames
<1>1. UNCHANGED <<env, pool, applicationVars>> /\ at["main"] = "startUpdate"
  BY DEF StartUpdate
<1>2. /\ ThreadTypes' /\ Only(Staff) /\ Env' = Env /\ Sessions' = Sessions
      /\ at'["main"] = "up" /\ at'["update"] = "born"
      /\ \A u \in Threads : u # "main" /\ u # "update" => at'[u] = at[u]
  <2>1. {"update"} \in SUBSET (Staff \ {"main"})
    BY DEF Staff
  <2>2. /\ ThreadTypes' /\ Only(Staff) /\ Env' = Env /\ Sessions' = Sessions
        /\ at'["main"] = "up" /\ \A u \in {"update"} : at'[u] = "born"
        /\ \A u \in Threads : u # "main" /\ u \notin {"update"} => at'[u] = at[u]
    BY <1>1, <2>1, MainCreates DEF StartUpdate, Places
  <2>3. QED
    BY <2>2
<1>3. ApplicationTypes'
  BY <1>1, <1>2, PlanParts DEF ApplicationTypes, ReaderRecord, Handling
<1>4. Ordered'
  BY <1>1, <1>2 DEF Plan, Ordered, Gone, Without, WithoutReaders, WithoutUpdate, Starts
<1>5. Unplugged'
  BY <1>1, <1>2, SocketsStay
<1>6. QED
  BY <1>2, <1>3, <1>4, <1>5 DEF Plan

\* It begins when nothing runs.
LEMMA StartPlan ==
    ASSUME Plan, Start
    PROVE  Plan' /\ Only(Staff)
<1> USE StaffNames
<1>1. /\ UNCHANGED <<env, bound, netRunning, listed, reader, writer, sess, loop, mishaps>>
      /\ at["main"] \in {"idle", "down"} /\ running' = TRUE
  BY DEF Start
<1>2. PICK place \in {"up", "startLogger"} : Becomes("main", place)
  BY DEF Start
<1>3. /\ at' \in [Threads -> Places] /\ at'["main"] = place
      /\ \A u \in Threads : u # "main" => at'[u] = at[u]
  BY <1>2 DEF Becomes, Plan, ThreadTypes, Places
<1>4. pool' \in [enabled: BOOLEAN, cores: {pool'.cores}, next: Nat \ {0}]
  <2>1. pool \in [enabled: BOOLEAN, cores: {pool.cores}, next: Nat \ {0}]
    BY DEF Plan, ThreadTypes
  <2>2. CASE pool' = pool
    BY <2>1, <2>2
  <2>3. CASE pool' = Initialize(pool, Env.cpu, Env.machine)
    <3>1. pool' \in [enabled: BOOLEAN, cores: {pool'.cores}, next: {pool.next}]
      BY <2>1, <2>3, InitializeTypes
    <3>2. QED
      BY <2>1, <3>1
  <2>4. QED
    BY <2>2, <2>3 DEF Start
<1>5. ThreadTypes' /\ Env' = Env /\ Sessions' = Sessions /\ Only(Staff)
  <2>1. \A u \in Threads : at'[u] \in {"none", "born", "ended"} => bound'[u] = NoCore
    BY <1>1, <1>3 DEF Plan, ThreadTypes
  <2>2. Env' = Env /\ Sessions' = Sessions
    BY <1>1, EnvStays
  <2>3. QED
    BY <1>1, <1>3, <1>4, <2>1, <2>2 DEF Plan, ThreadTypes, Only, Staff
<1>6. ApplicationTypes'
  BY <1>1, <1>3, <1>5, PlanParts DEF ApplicationTypes, ReaderRecord, Handling
<1>7. Ordered'
  BY <1>1, <1>3 DEF Plan, Ordered, Gone, Without, WithoutReaders, WithoutUpdate, Starts
<1>8. Unplugged'
  BY <1>1, <1>3, <1>5, SocketsStay
<1>9. QED
  BY <1>5, <1>6, <1>7, <1>8 DEF Plan

\* Application::stop begins when everything runs.
LEMMA StopPlan ==
    ASSUME Plan, Stop
    PROVE  Plan' /\ Only(Staff)
<1> USE StaffNames
<1>1. /\ UNCHANGED <<env, pool, bound, netRunning, listed, reader, writer, sess, starts, mishaps>>
      /\ at["main"] = "up" /\ running' = FALSE
  BY DEF Stop
<1>2. /\ ThreadTypes' /\ Only(Staff) /\ Env' = Env /\ Sessions' = Sessions
      /\ at'["main"] = "stopSessions" /\ \A u \in Threads : u # "main" => at'[u] = at[u]
  BY StaffGoes DEF Stop, Places, Staff
<1>3. /\ loop'["main"].left = Sessions /\ loop'["update"] = loop["update"]
      /\ loop' \in [{"main", "update"} -> [left: SUBSET (Sessions \cup Readers),
                                          now: Sessions \cup Readers \cup {Nobody}]]
  BY <1>2, OverTypes DEF Stop
<1>4. ApplicationTypes'
  BY <1>1, <1>2, <1>3, PlanParts DEF ApplicationTypes, ReaderRecord, Handling
<1>5. Ordered'
  BY <1>1, <1>2 DEF Plan, Ordered, Gone, Without, WithoutReaders, WithoutUpdate, Starts
<1>6. Unplugged'
  BY <1>1, <1>2, <1>3, SocketsStay
<1>7. QED
  BY <1>2, <1>4, <1>5, <1>6 DEF Plan

\* It gets to the network when every session is stopped.
LEMMA StopNetworkPlan ==
    ASSUME Plan, StopNetwork
    PROVE  Plan' /\ Only(Staff)
<1> USE StaffNames
<1>1. /\ UNCHANGED <<env, pool, bound, running, listed, reader, writer, sess, starts, mishaps>>
      /\ at["main"] = "stopSessions" /\ loop["main"].left = {} /\ netRunning' = FALSE
  BY DEF StopNetwork
<1>2. /\ ThreadTypes' /\ Only(Staff) /\ Env' = Env /\ Sessions' = Sessions
      /\ at'["main"] = (IF netRunning THEN "stopReaders" ELSE "stopLogger")
      /\ \A u \in Threads : u # "main" => at'[u] = at[u]
  BY StaffGoes DEF StopNetwork, Places, Staff
<1>3. /\ loop'["update"] = loop["update"] /\ loop'["main"].left = Readers
      /\ loop' \in [{"main", "update"} -> [left: SUBSET (Sessions \cup Readers),
                                          now: Sessions \cup Readers \cup {Nobody}]]
  BY <1>2, OverTypes DEF StopNetwork
<1>4. ApplicationTypes'
  BY <1>1, <1>2, <1>3, PlanParts DEF ApplicationTypes, ReaderRecord, Handling
<1>5. Ordered'
  BY <1>1, <1>2 DEF Plan, Ordered, Gone, Without, WithoutReaders, WithoutUpdate, Starts
<1>6. Unplugged'
  BY <1>1, <1>2, <1>3 DEF Plan, Unplugged, WithoutReaders
<1>7. QED
  BY <1>2, <1>4, <1>5, <1>6 DEF Plan

\* A reader is told to stop
LEMMA StopReaderPlan ==
    ASSUME Plan, NEW r \in Readers, StopReader(r)
    PROVE  Plan' /\ Only(Staff)
<1> USE StaffNames
<1>1. /\ UNCHANGED <<env, pool, bound, running, netRunning, listed, writer, sess, starts, mishaps>>
      /\ at["main"] = "stopReaders"
  BY DEF StopReader
<1>2. /\ ThreadTypes' /\ Only(Staff) /\ Env' = Env /\ Sessions' = Sessions
      /\ at'["main"] = "wakeReader" /\ \A u \in Threads : u # "main" => at'[u] = at[u]
  BY StaffGoes DEF StopReader, Places, Staff
<1>3. /\ loop'["main"].now = r /\ loop'["main"].left = loop["main"].left \ {r} /\ loop'["update"] = loop["update"]
      /\ loop' \in [{"main", "update"} -> [left: SUBSET (Sessions \cup Readers),
                                          now: Sessions \cup Readers \cup {Nobody}]]
  BY <1>2, TakesTypes DEF StopReader
<1>4. /\ reader' \in [Readers -> ReaderRecord]
      /\ \A q \in Readers : reader'[q].closed = reader[q].closed /\ reader'[q].with = reader[q].with
  <2>1. reader' = [reader EXCEPT ![r].running = FALSE]
    BY DEF StopReader
  <2>2. reader[r].with \in Sessions \cup {Nobody}
    BY PlanParts DEF ReaderRecord
  <2>3. QED
    BY <2>1, <2>2, ReaderFlags
<1>5. ApplicationTypes'
  BY <1>1, <1>2, <1>3, <1>4, PlanParts DEF ApplicationTypes, ReaderRecord, Handling
<1>6. Ordered'
  BY <1>1, <1>2 DEF Plan, Ordered, Gone, Without, WithoutReaders, WithoutUpdate, Starts
<1>7. Unplugged'
  BY <1>1, <1>2, <1>3, <1>4 DEF Plan, Unplugged, WithoutReaders
<1>8. QED
  BY <1>2, <1>5, <1>6, <1>7 DEF Plan

\* and woken, and its sockets are closed.
LEMMA WakeReaderPlan ==
    ASSUME Plan, WakeReader
    PROVE  Plan' /\ Only(Staff)
<1> USE StaffNames
<1>1. /\ UNCHANGED <<env, pool, bound, running, netRunning, listed, writer, loop, starts, mishaps>>
      /\ at["main"] = "wakeReader" /\ loop["main"].now \in Readers
  BY PlanParts DEF WakeReader
<1>2. /\ ThreadTypes' /\ Only(Staff) /\ Env' = Env /\ Sessions' = Sessions
      /\ at'["main"] = "stopReaders" /\ \A u \in Threads : u # "main" => at'[u] = at[u]
  BY StaffGoes DEF WakeReader, Places, Staff
<1>3. /\ reader' \in [Readers -> ReaderRecord]
      /\ reader'[loop["main"].now].closed
      /\ \A q \in Readers : q # loop["main"].now => reader'[q].closed = reader[q].closed
      /\ \A q \in Readers : reader'[q].with = reader[q].with
  <2>1. reader' = [reader EXCEPT ![loop["main"].now] =
                       [reader[loop["main"].now] EXCEPT !.event = TRUE, !.closed = TRUE]]
    BY DEF WakeReader, Signal
  <2>2. reader \in [Readers -> ReaderRecord] /\ reader[loop["main"].now] \in ReaderRecord
    BY <1>1, PlanParts
  <2>3. PICK a : /\ a = [reader[loop["main"].now] EXCEPT !.event = TRUE, !.closed = TRUE]
                 /\ reader' = [reader EXCEPT ![loop["main"].now] = a]
    BY <2>1
  <2>4. a \in ReaderRecord /\ a.closed /\ a.with = reader[loop["main"].now].with
    BY <2>2, <2>3 DEF ReaderRecord
  <2>5. QED
    BY <1>1, <2>2, <2>3, <2>4
<1>4. /\ sess' \in [Sessions -> Assignment]
      /\ \A s \in Sessions : /\ sess'[s].enabled = sess[s].enabled /\ sess'[s].stopped = sess[s].stopped
                              /\ sess'[s].connection \in {Nobody, sess[s].connection}
                              /\ sess'[s].port \in {Nobody, sess[s].port}
                              /\ sess'[s].connection # loop["main"].now /\ sess'[s].port # loop["main"].now
  <2>1. ASSUME NEW s \in Sessions
        PROVE  /\ sess'[s] \in Assignment
               /\ sess'[s].enabled = sess[s].enabled /\ sess'[s].stopped = sess[s].stopped
               /\ sess'[s].connection \in {Nobody, sess[s].connection}
               /\ sess'[s].port \in {Nobody, sess[s].port}
               /\ sess'[s].connection # loop["main"].now /\ sess'[s].port # loop["main"].now
    <3>1. sess[s] \in Assignment
      BY PlanParts
    <3>2. PICK c \in {Nobody, sess[s].connection}, p \in {Nobody, sess[s].port} :
             /\ sess'[s] = [sess[s] EXCEPT !.connection = c, !.port = p]
             /\ c # loop["main"].now /\ p # loop["main"].now
      BY <1>1 DEF WakeReader
    <3>3. c \in Readers \cup {Nobody} /\ p \in Readers \cup {Nobody}
      BY <3>1 DEF Assignment
    <3>4. sess'[s] \in Assignment
      <4>1. [sess[s] EXCEPT !.connection = c, !.port = p] \in Assignment
        BY <3>1, <3>3, Edited
      <4>2. QED
        BY <3>2, <4>1
    <3>5. /\ sess'[s].enabled = sess[s].enabled /\ sess'[s].stopped = sess[s].stopped
          /\ sess'[s].connection = c /\ sess'[s].port = p
      BY <3>1, <3>2 DEF Assignment
    <3>6. QED
      BY <3>2, <3>4, <3>5
  <2>2. sess' = [s \in Sessions |-> sess'[s]]
    BY DEF WakeReader
  <2>3. QED
    BY <2>1, <2>2
<1>5. ApplicationTypes'
  BY <1>1, <1>2, <1>3, <1>4, PlanParts DEF ApplicationTypes, ReaderRecord, Handling
<1>6. Ordered'
  BY <1>1, <1>2 DEF Plan, Ordered, Gone, Without, WithoutReaders, WithoutUpdate, Starts
<1>7. Unplugged'
  <2> SUFFICES ASSUME mishaps = {} PROVE Unplugged'
    BY <1>1 DEF Unplugged
  <2>1. ~netRunning /\ at[loop["main"].now] \notin {"attach", "answer"}
    BY <1>1 DEF Plan, Ordered, WakeReader, ReaderFree
  <2>2. /\ ~WithoutReaders' /\ ~netRunning'
        /\ \A r \in Readers : reader'[r].closed \/ r \in loop'["main"].left
    BY <1>1, <1>2, <1>3, <2>1 DEF Plan, Unplugged, WithoutReaders
  <2>3. \A r \in Readers : reader'[r].closed =>
           \A s \in Sessions : sess'[s].connection # r /\ sess'[s].port # r
    BY <1>1, <1>3, <1>4 DEF Plan, Unplugged
  <2>4. \A r \in Readers : at'[r] \in {"attach", "answer"} => ~reader'[r].closed
    BY <1>1, <1>2, <1>3, <2>1 DEF Plan, Unplugged
  <2>5. QED
    BY <1>2, <2>2, <2>3, <2>4 DEF Unplugged
<1>8. QED
  BY <1>2, <1>5, <1>6, <1>7 DEF Plan

\* The readers are joined when all have ended.
LEMMA JoinReadersPlan ==
    ASSUME Plan, JoinReaders
    PROVE  Plan' /\ Only(Staff)
<1> USE StaffNames
<1>1. /\ UNCHANGED <<env, pool, bound, running, netRunning, reader, writer, sess, loop, starts, mishaps>>
      /\ at["main"] = "stopReaders" /\ listed' = FALSE /\ \A r \in Readers : at[r] = "ended"
  BY DEF JoinReaders
<1>2. /\ ThreadTypes' /\ Only(Staff) /\ Env' = Env /\ Sessions' = Sessions
      /\ at'["main"] = "stopLogger" /\ \A u \in Threads : u # "main" => at'[u] = at[u]
  BY StaffGoes DEF JoinReaders, Places, Staff
<1>3. ApplicationTypes'
  BY <1>1, <1>2, PlanParts DEF ApplicationTypes, ReaderRecord, Handling
<1>4. Ordered'
  BY <1>1, <1>2 DEF Plan, Ordered, Gone, Without, WithoutReaders, WithoutUpdate, Starts
<1>5. Unplugged'
  <2>1. WithoutReaders' => \/ WithoutReaders
                           \/ at["main"] = "stopReaders" /\ \A r \in Readers : r \notin loop["main"].left
    BY <1>1, <1>2 DEF WithoutReaders, JoinReaders
  <2>2. at'["main"] \notin {"stopReaders", "wakeReader"} /\ \A r \in Readers : at'[r] = at[r]
    BY <1>2
  <2>3. QED
    BY <1>1, <1>2, <2>1, <2>2 DEF Plan, Unplugged
<1>6. QED
  BY <1>2, <1>3, <1>4, <1>5 DEF Plan

StopPlaces == {<<"logger", "stopLogger", "joinLogger", "stopStore">>,
               <<"store", "stopStore", "joinStore", "joinUpdate">>}

\* A writer is told to stop, unless it has not begun to write.
LEMMA StopWriterPlan ==
    ASSUME Plan, NEW w, NEW from, NEW joins, NEW next, <<w, from, joins, next>> \in StopPlaces,
           StopWriter(w, from, joins, next)
    PROVE  Plan' /\ Only(Staff)
<1> USE StaffNames
<1>1. /\ UNCHANGED <<env, pool, bound, running, netRunning, listed, reader, sess, loop, starts>>
      /\ at["main"] = from
  BY DEF StopWriter
<1>2. /\ w \in Writers /\ from \in {"stopLogger", "stopStore"}
      /\ joins \in {"joinLogger", "joinStore"} /\ next \in {"stopStore", "joinUpdate"}
      /\ \/ w = "logger" /\ from = "stopLogger" /\ joins = "joinLogger"
         \/ w = "store" /\ from = "stopStore" /\ joins = "joinStore"
  BY DEF StopPlaces
<1>3. PICK place \in {joins, next} : Becomes("main", place)
  BY DEF StopWriter
<1>4. /\ ThreadTypes' /\ Only(Staff) /\ Env' = Env /\ Sessions' = Sessions
      /\ at'["main"] = place /\ \A u \in Threads : u # "main" => at'[u] = at[u]
  <2>1. place \in Places /\ place \notin {"none", "born", "ended"} /\ "main" \in Staff
    BY <1>2 DEF Places, Staff
  <2>2. QED
    BY <1>1, <1>3, <2>1, StaffGoes
<1>5. CASE writer[w].enabled
  <2>1. /\ writer' \in [Writers -> [enabled: BOOLEAN, dirty: BOOLEAN]]
        /\ \A v \in Writers : writer'[v].dirty = writer[v].dirty
        /\ mishaps' = mishaps /\ at'["main"] = joins
    <3>1. writer' = [writer EXCEPT ![w].enabled = FALSE] /\ mishaps' = mishaps /\ Becomes("main", joins)
      BY <1>5 DEF StopWriter
    <3>2. at'["main"] = joins
      BY <3>1, <1>4 DEF Becomes, Plan, ThreadTypes
    <3>3. QED
      BY <1>2, <3>1, <3>2, WriterEdits, PlanParts
  <2>2. ApplicationTypes'
    BY <1>1, <1>2, <1>4, <2>1, PlanParts DEF ApplicationTypes, ReaderRecord, Handling
  <2>3. Ordered'
    BY <1>1, <1>2, <1>4, <2>1 DEF Plan, Ordered, Gone, Without, WithoutReaders, WithoutUpdate, Starts
  <2>4. Unplugged'
    BY <1>1, <1>2, <1>4, <2>1, SocketsStay
  <2>5. QED
    BY <1>4, <2>2, <2>3, <2>4 DEF Plan
<1>6. CASE ~writer[w].enabled
  <2>1. writer' = writer /\ mishaps' = mishaps \cup {"early"}
    BY <1>6 DEF StopWriter
  <2>2. ApplicationTypes'
    BY <1>1, <1>2, <1>4, <2>1, PlanParts DEF ApplicationTypes, ReaderRecord, Handling
  <2>3. Ordered' /\ Unplugged'
    BY <2>1 DEF Ordered, Unplugged
  <2>4. QED
    BY <1>4, <2>2, <2>3 DEF Plan
<1>7. QED
  BY <1>5, <1>6

JoinPlaces == {<<"logger", "joinLogger", "stopStore">>, <<"store", "joinStore", "joinUpdate">>}

\* It is joined, and what it has left is written.
LEMMA JoinWriterPlan ==
    ASSUME Plan, NEW w, NEW joins, NEW next, <<w, joins, next>> \in JoinPlaces, JoinWriter(w, joins, next)
    PROVE  Plan' /\ Only(Staff)
<1> USE StaffNames
<1>1. /\ UNCHANGED <<env, pool, bound, running, netRunning, listed, reader, sess, loop, starts, mishaps>>
      /\ at["main"] = joins /\ at[w] = "ended" /\ Becomes("main", next)
  BY DEF JoinWriter
<1>2. /\ w \in Writers /\ next \in {"stopStore", "joinUpdate"} /\ joins \in {"joinLogger", "joinStore"}
      /\ \/ w = "logger" /\ joins = "joinLogger" /\ next = "stopStore"
         \/ w = "store" /\ joins = "joinStore" /\ next = "joinUpdate"
  BY DEF JoinPlaces
<1>3. /\ ThreadTypes' /\ Only(Staff) /\ Env' = Env /\ Sessions' = Sessions
      /\ at'["main"] = next /\ \A u \in Threads : u # "main" => at'[u] = at[u]
  <2>1. next \in Places /\ next \notin {"none", "born", "ended"} /\ "main" \in Staff
    BY <1>2 DEF Places, Staff
  <2>2. QED
    BY <1>1, <2>1, StaffGoes
<1>4. /\ writer' \in [Writers -> [enabled: BOOLEAN, dirty: BOOLEAN]] /\ ~writer'[w].dirty
      /\ \A v \in Writers : v # w => writer'[v] = writer[v]
  <2>1. writer' = [writer EXCEPT ![w].dirty = FALSE]
    BY DEF JoinWriter, LastFlushOf
  <2>2. writer' \in [Writers -> [enabled: BOOLEAN, dirty: BOOLEAN]]
    BY <1>2, <2>1, WriterEdits
  <2>3. writer'[w] = [enabled |-> writer[w].enabled, dirty |-> FALSE]
    BY <1>2, <2>1, WriterEdits
  <2>4. \A v \in Writers : v # w => writer'[v] = writer[v]
    BY <2>1, PlanParts
  <2>5. QED
    BY <2>2, <2>3, <2>4
<1>5. ApplicationTypes'
  BY <1>1, <1>2, <1>3, <1>4, PlanParts DEF ApplicationTypes, ReaderRecord, Handling
<1>6. Ordered'
  BY <1>1, <1>2, <1>3, <1>4 DEF Plan, Ordered, Gone, Without, WithoutReaders, WithoutUpdate, Starts
<1>7. Unplugged'
  BY <1>1, <1>2, <1>3, SocketsStay
<1>8. QED
  BY <1>3, <1>5, <1>6, <1>7 DEF Plan

\* The update thread is joined last.
LEMMA JoinUpdatePlan ==
    ASSUME Plan, JoinUpdate
    PROVE  Plan' /\ Only(Staff)
<1> USE StaffNames
<1>1. /\ UNCHANGED <<env, pool, bound, applicationVars>> /\ at["main"] = "joinUpdate"
      /\ at["update"] \in {"none", "ended"}
  BY DEF JoinUpdate
<1>2. PICK place \in {"terminated", "down"} : Becomes("main", place)
  BY DEF JoinUpdate
<1>3. /\ ThreadTypes' /\ Only(Staff) /\ Env' = Env /\ Sessions' = Sessions
      /\ at'["main"] = place /\ \A u \in Threads : u # "main" => at'[u] = at[u]
  <2>1. place \in Places /\ place \notin {"none", "born", "ended"} /\ "main" \in Staff
    BY DEF Places, Staff
  <2>2. QED
    BY <1>1, <1>2, <2>1, StaffGoes
<1>4. ApplicationTypes'
  BY <1>1, <1>3, PlanParts DEF ApplicationTypes, ReaderRecord, Handling
<1>5. Ordered'
  BY <1>1, <1>3 DEF Plan, Ordered, Gone, Without, WithoutReaders, WithoutUpdate, Starts
<1>6. Unplugged'
  BY <1>1, <1>3, SocketsStay
<1>7. QED
  BY <1>3, <1>4, <1>5, <1>6 DEF Plan

-----------------------------------------------------------------------------
(* The threads that the application started *)

\* Where a thread needs to know which session it has.
Occupied == {"check", "starting", "attaching"} \cup Handling

\* Bind, and every step by which a thread of the application only goes on.
LEMMA StaffMoves ==
    ASSUME Plan, NEW t \in Staff \ {"main"}, UNCHANGED applicationVars,
           ThreadTypes', Only(Staff), Env' = Env, Sessions' = Sessions,
           \A u \in Threads : u # t => at'[u] = at[u],
           at[t] \notin {"none", "ended"}, at'[t] \notin Occupied
    PROVE  Plan' /\ Only(Staff)
<1> USE StaffNames
<1>1. ApplicationTypes'
  BY PlanParts DEF ApplicationTypes, ReaderRecord, Handling, Occupied
<1>2. Ordered'
  BY DEF Plan, Ordered, Gone, Without, WithoutReaders, WithoutUpdate, Starts
<1>3. Unplugged'
  <2>1. at'["main"] = at["main"]
    OBVIOUS
  <2>2. \A r \in Readers : at'[r] \in {"attach", "answer"} => at[r] \in {"attach", "answer"}
    BY DEF Occupied, Handling
  <2>3. QED
    BY <2>1, <2>2 DEF Plan, Unplugged, WithoutReaders
<1>4. QED
  BY <1>1, <1>2, <1>3 DEF Plan

\* While there is an update thread main is in no place where it has joined it.
LEMMA UpdateHere ==
    ASSUME Plan, at["update"] \notin {"none", "ended"}, mishaps = {}
    PROVE  /\ ~WithoutUpdate
           /\ running => netRunning /\ at["main"] = "up"
  BY DEF Plan, Ordered, WithoutUpdate, Gone, Starts

UpdatePlaces == {"loop", "update", "check", "starting", "attaching", "crashed"}

\* Whatever the update thread does, it writes and gives sockets only while the application
\* runs, or is late.
LEMMA UpdateActs ==
    ASSUME Plan, at["update"] \in UpdatePlaces, NEW place \in UpdatePlaces, Becomes("update", place),
           UNCHANGED <<env, pool, bound, running, netRunning, listed>>,
           loop'["main"] = loop["main"],
           loop' \in [{"main", "update"} -> [left: SUBSET (Sessions \cup Readers),
                                             now: Sessions \cup Readers \cup {Nobody}]],
           place \in {"check", "starting", "attaching"} => loop'["update"].now \in Sessions,
           writer' \in [Writers -> [enabled: BOOLEAN, dirty: BOOLEAN]],
           reader' \in [Readers -> ReaderRecord],
           \A r \in Readers : reader'[r].closed = reader[r].closed /\ reader'[r].with = reader[r].with,
           sess' \in [Sessions -> Assignment],
           mishaps \subseteq mishaps', mishaps' \subseteq {"early", "late", "undefined"},
           mishaps' = {} => running \/ (writer' = writer /\ sess' = sess)
    PROVE  Plan' /\ Only(Staff)
<1> USE StaffNames
<1>1. /\ ThreadTypes' /\ Only(Staff) /\ Env' = Env /\ Sessions' = Sessions
      /\ at'["update"] = place /\ \A u \in Threads : u # "update" => at'[u] = at[u]
  <2>1. place \in Places /\ place \notin {"none", "born", "ended"} /\ "update" \in Staff
    BY DEF Places, Staff, UpdatePlaces
  <2>2. QED
    BY <2>1, StaffGoes
<1>2. ApplicationTypes'
  BY <1>1, PlanParts DEF ApplicationTypes, ReaderRecord, Handling
<1>3. CASE mishaps' # {}
  BY <1>1, <1>2, <1>3 DEF Plan, Ordered, Unplugged
<1>4. CASE mishaps' = {}
  <2>1. mishaps = {} /\ ~WithoutUpdate /\ (running => netRunning /\ at["main"] = "up")
    BY <1>4, UpdateHere DEF UpdatePlaces
  <2>2. /\ at'["main"] = at["main"] /\ \A w \in Writers : at'[w] = at[w]
        /\ \A r \in Readers : at'[r] = at[r]
    BY <1>1
  <2>3. Ordered'
    <3>1. CASE running
      BY <1>1, <2>1, <2>2, <3>1 DEF Plan, Ordered, Gone, Without, WithoutReaders, WithoutUpdate, Starts
    <3>2. CASE ~running
      BY <1>1, <1>4, <2>1, <2>2, <3>2 DEF Plan, Ordered, Gone, Without, WithoutReaders, WithoutUpdate, Starts
    <3>3. QED
      BY <3>1, <3>2
  <2>4. Unplugged'
    <3>1. CASE running
      <4>1. \A r \in Readers : ~reader'[r].closed
        BY <2>1, <3>1 DEF Plan, Unplugged
      <4>2. QED
        BY <2>1, <2>2, <3>1, <4>1 DEF Unplugged, WithoutReaders
    <3>2. CASE ~running
      <4>1. sess' = sess
        BY <1>4, <3>2
      <4>2. QED
        BY <1>1, <2>1, <2>2, <4>1 DEF Plan, Unplugged, WithoutReaders
    <3>3. QED
      BY <3>1, <3>2
  <2>5. QED
    BY <1>1, <1>2, <2>3, <2>4 DEF Plan
<1>5. QED
  BY <1>3, <1>4

\* The update thread goes on only while the application runs.
LEMMA UpdateLoopPlan ==
    ASSUME Plan, UpdateLoop
    PROVE  Plan' /\ Only(Staff)
<1>1. /\ UNCHANGED <<env, pool, running, netRunning, listed, reader, writer, sess, starts, mishaps>>
      /\ at["update"] = "loop"
  BY DEF UpdateLoop
<1>2. CASE running
  <2>1. Becomes("update", "update") /\ UNCHANGED bound /\ Sessions' = Sessions
    BY <1>1, <1>2, EnvStays DEF UpdateLoop
  <2>2. /\ loop'["main"] = loop["main"]
        /\ loop' \in [{"main", "update"} -> [left: SUBSET (Sessions \cup Readers),
                                            now: Sessions \cup Readers \cup {Nobody}]]
    BY <1>2, <2>1, OverTypes DEF UpdateLoop
  <2>3. QED
    BY <1>1, <1>2, <2>1, <2>2, PlanParts, UpdateActs DEF UpdatePlaces
<1>3. CASE ~running
  <2>1. /\ ThreadTypes' /\ Only(Staff) /\ Env' = Env /\ Sessions' = Sessions
        /\ at'["update"] = "ended" /\ \A u \in Threads : u # "update" => at'[u] = at[u]
    BY <1>1, <1>3, StaffEnds DEF UpdateLoop, Staff
  <2>2. UNCHANGED applicationVars
    BY <1>1, <1>3 DEF UpdateLoop, applicationVars
  <2>3. "update" \in Staff \ {"main"} /\ "ended" \notin Occupied
    BY DEF Staff, Occupied, Handling
  <2>4. QED
    BY <1>1, <2>1, <2>2, <2>3, StaffMoves
<1>4. QED
  BY <1>2, <1>3

\* It writes something for a session without a connection, late if the application is stopped.
LEMMA UpdateSessionPlan ==
    ASSUME Plan, NEW s \in Sessions, UpdateSession(s)
    PROVE  Plan' /\ Only(Staff)
<1>1. /\ UNCHANGED <<env, pool, bound, running, netRunning, listed, reader, sess, starts>>
      /\ at["update"] = "update" /\ Sessions' = Sessions
  BY EnvStays DEF UpdateSession
<1>2. PICK place \in {"check", "update"} : at' = [at EXCEPT !["update"] = place]
  BY DEF UpdateSession, Plan, ThreadTypes
<1>3. /\ loop'["main"] = loop["main"] /\ loop'["update"].now = s
      /\ loop' \in [{"main", "update"} -> [left: SUBSET (Sessions \cup Readers),
                                          now: Sessions \cup Readers \cup {Nobody}]]
  BY <1>1, TakesTypes DEF UpdateSession
<1>4. /\ writer' \in [Writers -> [enabled: BOOLEAN, dirty: BOOLEAN]]
      /\ writer' = writer \/ mishaps' = Lateness
      /\ mishaps' \in {mishaps, Lateness}
  BY DirtiedTypes, PlanParts DEF UpdateSession
<1>5. /\ mishaps' \subseteq {"early", "late", "undefined"} /\ mishaps \subseteq mishaps'
      /\ mishaps' = {} => running \/ writer' = writer
  BY <1>4, PlanParts DEF Lateness
<1>6. Becomes("update", place) /\ place \in UpdatePlaces
  BY <1>2 DEF Becomes, UpdatePlaces
<1>7. QED
  BY <1>1, <1>3, <1>4, <1>5, <1>6, PlanParts, UpdateActs DEF UpdatePlaces

\* It starts the network of an enabled session,
LEMMA UpdateCheckPlan ==
    ASSUME Plan, UpdateCheck
    PROVE  Plan' /\ Only(Staff)
<1>1. UNCHANGED <<env, pool, bound, applicationVars>> /\ at["update"] = "check"
  BY DEF UpdateCheck
<1>2. PICK place \in {"starting", "update"} : Becomes("update", place)
  BY DEF UpdateCheck
<1>3. UNCHANGED <<env, pool, bound, running, netRunning, listed, reader, writer, sess, loop, mishaps>>
  BY <1>1 DEF applicationVars
<1>4. QED
  BY <1>1, <1>2, <1>3, PlanParts, UpdateActs DEF UpdatePlaces

\* which gives it a socket: late, if the application is stopped. A connection is first
\* under the mutex of its reader,
LEMMA UpdateAttachPlan ==
    ASSUME Plan, UpdateAttach
    PROVE  Plan' /\ Only(Staff)
<1> DEFINE s == loop["update"].now
<1>1. /\ UNCHANGED <<env, pool, bound, running, netRunning, listed, writer, loop, starts>>
      /\ at["update"] = "starting" /\ s \in Sessions
  BY PlanParts DEF UpdateAttach
<1>2. CASE ~listed
  <2>1. /\ Becomes("update", "crashed") /\ mishaps' = mishaps \cup {"undefined"} /\ UNCHANGED <<sess, reader>>
    BY <1>2 DEF UpdateAttach
  <2>2. QED
    BY <1>1, <2>1, PlanParts, UpdateActs DEF UpdatePlaces
<1>3. CASE listed
  <2>1. PICK r \in Readers :
           \/ /\ Becomes("update", "attaching")
              /\ reader' = [reader EXCEPT ![r].taken = TRUE] /\ UNCHANGED <<sess, mishaps>>
           \/ /\ Becomes("update", "update")
              /\ sess' = [sess EXCEPT ![s].port = r] /\ mishaps' = Lateness /\ UNCHANGED reader
    BY <1>3 DEF UpdateAttach
  <2>2. CASE /\ Becomes("update", "attaching")
             /\ reader' = [reader EXCEPT ![r].taken = TRUE] /\ UNCHANGED <<sess, mishaps>>
    <3>1. /\ reader' \in [Readers -> ReaderRecord]
          /\ \A q \in Readers : reader'[q].closed = reader[q].closed /\ reader'[q].with = reader[q].with
      <4>1. reader[r].with \in Sessions \cup {Nobody}
        BY PlanParts DEF ReaderRecord
      <4>2. QED
        BY <2>2, <4>1, ReaderFlags
    <3>2. QED
      BY <1>1, <2>2, <3>1, PlanParts, UpdateActs DEF UpdatePlaces
  <2>3. CASE /\ Becomes("update", "update")
             /\ sess' = [sess EXCEPT ![s].port = r] /\ mishaps' = Lateness /\ UNCHANGED reader
    <3>1. sess' \in [Sessions -> Assignment]
      BY <1>1, <2>3, Getting DEF Gets
    <3>2. mishaps' \subseteq {"early", "late", "undefined"} /\ mishaps \subseteq mishaps' /\ (mishaps' = {} => running)
      BY <2>3, PlanParts DEF Lateness
    <3>3. QED
      BY <1>1, <2>3, <3>1, <3>2, PlanParts, UpdateActs DEF UpdatePlaces
  <2>4. QED
    BY <2>1, <2>2, <2>3
<1>4. QED
  BY <1>2, <1>3

\* and then the session's.
LEMMA UpdateConnectsPlan ==
    ASSUME Plan, UpdateConnects
    PROVE  Plan' /\ Only(Staff)
<1> DEFINE s == loop["update"].now
<1>1. /\ UNCHANGED <<env, pool, bound, running, netRunning, listed, writer, loop, starts>>
      /\ at["update"] = "attaching" /\ s \in Sessions /\ Becomes("update", "update") /\ mishaps' = Lateness
  BY PlanParts DEF UpdateConnects
<1>2. PICK r \in Readers : /\ sess' = [sess EXCEPT ![s].connection = r]
                           /\ reader' = [reader EXCEPT ![r].taken = FALSE]
  BY DEF UpdateConnects
<1>3. /\ reader' \in [Readers -> ReaderRecord]
      /\ \A q \in Readers : reader'[q].closed = reader[q].closed /\ reader'[q].with = reader[q].with
  <2>1. reader[r].with \in Sessions \cup {Nobody}
    BY PlanParts DEF ReaderRecord
  <2>2. QED
    BY <1>2, <2>1, ReaderFlags
<1>4. sess' \in [Sessions -> Assignment]
  BY <1>1, <1>2, Getting DEF Gets
<1>5. mishaps' \subseteq {"early", "late", "undefined"} /\ mishaps \subseteq mishaps' /\ (mishaps' = {} => running)
  BY <1>1, PlanParts DEF Lateness
<1>6. QED
  BY <1>1, <1>3, <1>4, <1>5, PlanParts, UpdateActs DEF UpdatePlaces

\* Every step of the update thread.
LEMMA RunUpdatePlan ==
    ASSUME Plan, RunUpdate
    PROVE  Plan' /\ Only(Staff)
<1>1. "update" \in Staff \ {"main"} /\ "update" \in Staff /\ "loop" \notin Occupied
  BY DEF Staff, Occupied, Handling
<1>2. CASE Bind("update", "loop") /\ UNCHANGED applicationVars
  <2>1. /\ ThreadTypes' /\ Only(Staff) /\ Env' = Env /\ Sessions' = Sessions
        /\ at["update"] = "born" /\ at'["update"] = "loop"
        /\ \A u \in Threads : u # "update" => at'[u] = at[u]
    BY <1>1, <1>2, StaffBinds DEF Places
  <2>2. QED
    BY <1>1, <1>2, <2>1, StaffMoves
<1>3. ASSUME NEW place \in {"update", "loop"}, at["update"] \in {"starting", "update"}, Becomes("update", place),
             UNCHANGED <<env, pool, bound, applicationVars>>
      PROVE  Plan' /\ Only(Staff)
  <2>1. UNCHANGED <<env, pool, bound, running, netRunning, listed, reader, writer, sess, loop, mishaps>>
    BY <1>3 DEF applicationVars
  <2>2. QED
    BY <1>3, <2>1, PlanParts, UpdateActs DEF UpdatePlaces
<1>4. CASE ConnectFails
  BY <1>3, <1>4 DEF ConnectFails
<1>5. CASE UpdateDone
  BY <1>3, <1>5 DEF UpdateDone
<1>6. QED
  BY <1>2, <1>4, <1>5, UpdateLoopPlan, UpdateSessionPlan, UpdateCheckPlan, UpdateAttachPlan,
     UpdateConnectsPlan DEF RunUpdate

\* While there is a reader main is in no place where it has joined it.
LEMMA ReaderHere ==
    ASSUME Plan, NEW r \in Readers, at[r] \notin {"none", "ended"}, mishaps = {}
    PROVE  ~WithoutReaders /\ \A w \in Writers : ~Without(w)
<1>1. ~WithoutReaders
  BY DEF Plan, Ordered, Gone
<1>2. QED
  BY <1>1 DEF Plan, Ordered, WithoutReaders, Without

ReaderPlaces == {"loop", "epoll", "round", "closing", "flushing", "hung", "attach", "answer"}

\* Whatever a reader does, it takes connections, and gives them to itself only as long as it
\* is not closed, which its mutex holds up.
LEMMA ReaderActs ==
    ASSUME Plan, NEW r \in Readers, at[r] \in ReaderPlaces, NEW place \in ReaderPlaces, Becomes(r, place),
           UNCHANGED <<env, pool, bound, running, netRunning, listed, loop, mishaps>>,
           writer' \in [Writers -> [enabled: BOOLEAN, dirty: BOOLEAN]],
           reader' \in [Readers -> ReaderRecord],
           \A q \in Readers : reader'[q].closed = reader[q].closed /\ (q # r => reader'[q] = reader[q]),
           place \in Handling => reader'[r].with \in Sessions,
           sess' \in [Sessions -> Assignment],
           \A s \in Sessions : /\ sess'[s].port = sess[s].port
                               /\ sess'[s].connection \in {sess[s].connection, Nobody, r},
           mishaps = {} =>
              \/ ~reader[r].closed
              \/ /\ place \notin {"attach", "answer"}
                 /\ \A s \in Sessions : sess'[s].connection \in {sess[s].connection, Nobody}
    PROVE  Plan' /\ Only(Staff)
<1> USE StaffNames
<1>1. /\ ThreadTypes' /\ Only(Staff) /\ Env' = Env /\ Sessions' = Sessions
      /\ at'[r] = place /\ \A u \in Threads : u # r => at'[u] = at[u]
  <2>1. place \in Places /\ place \notin {"none", "born", "ended"} /\ r \in Staff
    BY DEF Places, Staff, ReaderPlaces
  <2>2. QED
    BY <2>1, StaffGoes
<1>2. ApplicationTypes'
  BY <1>1, PlanParts DEF ApplicationTypes, ReaderRecord, Handling
<1>3. Ordered'
  <2>1. mishaps = {} => ~WithoutReaders /\ \A w \in Writers : ~Without(w)
    BY ReaderHere DEF ReaderPlaces
  <2>2. QED
    BY <1>1, <2>1 DEF Plan, Ordered, Gone, Without, WithoutReaders, WithoutUpdate, Starts
<1>4. Unplugged'
  <2> SUFFICES ASSUME mishaps = {} PROVE Unplugged'
    BY DEF Unplugged
  <2>1. at'["main"] = at["main"] /\ \A q \in Readers : q # r => at'[q] = at[q]
    BY <1>1
  <2>2. \A q \in Readers : reader'[q].closed => \A s \in Sessions : sess'[s].connection # q /\ sess'[s].port # q
    BY DEF Plan, Unplugged
  <2>3. \A q \in Readers : at'[q] \in {"attach", "answer"} => ~reader'[q].closed
    BY <1>1, <2>1 DEF Plan, Unplugged
  <2>4. QED
    BY <1>1, <2>1, <2>2, <2>3 DEF Plan, Unplugged, WithoutReaders
<1>5. QED
  BY <1>1, <1>2, <1>3, <1>4 DEF Plan

\* epoll_wait returns.
LEMMA EpollReturnsPlan ==
    ASSUME Plan, NEW r \in Readers, EpollReturns(r)
    PROVE  Plan' /\ Only(Staff)
<1>1. /\ UNCHANGED <<env, pool, bound, running, netRunning, listed, writer, sess, loop, starts, mishaps>>
      /\ at[r] = "epoll" /\ Becomes(r, "round") /\ reader' = [reader EXCEPT ![r].event = FALSE]
  BY DEF EpollReturns
<1>2. reader[r].with \in Sessions \cup {Nobody}
  BY PlanParts DEF ReaderRecord
<1>3. /\ reader' \in [Readers -> ReaderRecord]
      /\ \A q \in Readers : reader'[q].closed = reader[q].closed /\ (q # r => reader'[q] = reader[q])
  BY <1>1, <1>2, ReaderFlags
<1>4. QED
  BY <1>1, <1>3, PlanParts, ReaderActs DEF ReaderPlaces, Handling

\* A round of a reader without another thread's mutex.
LEMMA RoundPlan ==
    ASSUME Plan, NEW r \in Readers, Round(r)
    PROVE  Plan' /\ Only(Staff)
<1>1. /\ UNCHANGED <<env, pool, bound, running, netRunning, listed, reader, loop, starts, mishaps>>
      /\ at[r] = "round" /\ Becomes(r, "loop")
  BY DEF Round
<1>2. writer' \in [Writers -> [enabled: BOOLEAN, dirty: BOOLEAN]]
  <2>1. writer' \in {writer, Dirtied(Writers), Dirtied({"logger"})}
    BY DEF Round
  <2>2. Writers \in SUBSET Writers /\ {"logger"} \in SUBSET Writers
    BY DEF Writers
  <2>3. QED
    BY <2>1, <2>2, PlanParts, DirtiedTypes
<1>3. /\ sess' \in [Sessions -> Assignment]
      /\ \A s \in Sessions : sess'[s].port = sess[s].port /\ sess'[s].connection \in {sess[s].connection, Nobody}
  <2>1. CASE sess' = sess
    BY <2>1, PlanParts
  <2>2. CASE sess' # sess
    <3>1. PICK s \in Sessions : sess' = [sess EXCEPT ![s].connection = Nobody]
      BY <2>2 DEF Round
    <3>2. Gets(s, Nobody, sess[s].port)
      BY <3>1, Getting
    <3>3. QED
      BY <3>2 DEF Gets
  <2>3. QED
    BY <2>1, <2>2
<1>4. QED
  BY <1>1, <1>2, <1>3, PlanParts, ReaderActs DEF ReaderPlaces, Handling

\* The session that a reader terminates keeps its sockets until both mutexes are there,
LEMMA TerminatePlan ==
    ASSUME Plan, NEW r \in Readers, Terminate(r)
    PROVE  Plan' /\ Only(Staff)
<1>1. /\ UNCHANGED <<env, pool, bound, running, netRunning, listed, loop, starts, mishaps>>
      /\ at[r] = "round" /\ writer' \in [Writers -> [enabled: BOOLEAN, dirty: BOOLEAN]]
  BY DirtiedTypes DEF Terminate
<1>2. PICK place \in {"closing", "flushing"} : Becomes(r, place)
  BY DEF Terminate, Becomes
<1>3. PICK s \in Sessions : /\ sess' = [sess EXCEPT ![s].closing = r]
                           /\ reader' = [reader EXCEPT ![r].with = s]
  BY DEF Terminate
<1>4. /\ reader' \in [Readers -> ReaderRecord] /\ reader'[r].with = s
      /\ \A q \in Readers : reader'[q].closed = reader[q].closed /\ (q # r => reader'[q] = reader[q])
  BY <1>3, ReaderFlags
<1>5. Gets(s, sess[s].connection, sess[s].port)
  BY <1>3, Getting
<1>6. /\ sess' \in [Sessions -> Assignment]
      /\ \A o \in Sessions : sess'[o].port = sess[o].port /\ sess'[o].connection = sess[o].connection
  BY <1>5 DEF Gets
<1>7. QED
  BY <1>1, <1>2, <1>4, <1>6, PlanParts, ReaderActs DEF ReaderPlaces, Handling

\* and loses its connection by the reader itself, which then may hang.
LEMMA ClosePlan ==
    ASSUME Plan, NEW r \in Readers, Close(r) \/ Hang(r)
    PROVE  Plan' /\ Only(Staff)
<1>1. /\ UNCHANGED <<env, pool, bound, running, netRunning, listed, writer, loop, starts, mishaps>>
      /\ at[r] \in {"closing", "flushing"}
  BY DEF Close, Hang
<1>2. PICK place \in {"loop", "hung"} : Becomes(r, place)
  BY DEF Close, Hang
<1>3. PICK s \in Sessions : s = reader[r].with
  BY <1>1, PlanParts DEF Handling
<1>4. /\ reader' \in [Readers -> ReaderRecord]
      /\ \A q \in Readers : reader'[q].closed = reader[q].closed /\ (q # r => reader'[q] = reader[q])
  BY PlanParts, ReaderFlags DEF Close, Hang, Leaves
<1>5. Gets(s, Nobody, sess[s].port)
  BY <1>3, Getting DEF Close, Hang
<1>6. /\ sess' \in [Sessions -> Assignment]
      /\ \A o \in Sessions : sess'[o].port = sess[o].port /\ sess'[o].connection \in {sess[o].connection, Nobody}
  BY <1>5 DEF Gets
<1>7. QED
  BY <1>1, <1>2, <1>4, <1>6, PlanParts, ReaderActs DEF ReaderPlaces, Handling

\* A client is assigned by a reader that is not closed,
LEMMA AssignPlan ==
    ASSUME Plan, NEW r \in Readers, Assign(r)
    PROVE  Plan' /\ Only(Staff)
<1>1. /\ UNCHANGED <<env, pool, bound, running, netRunning, listed, sess, loop, starts, mishaps>>
      /\ at[r] = "round" /\ Becomes(r, "attach") /\ ~reader[r].closed
      /\ writer' \in [Writers -> [enabled: BOOLEAN, dirty: BOOLEAN]]
  <2>1. {"logger"} \in SUBSET Writers
    BY DEF Writers
  <2>2. QED
    BY <2>1, DirtiedTypes DEF Assign
<1>2. PICK s \in Sessions : reader' = [reader EXCEPT ![r].with = s]
  BY DEF Assign
<1>3. /\ reader' \in [Readers -> ReaderRecord] /\ reader'[r].with = s
      /\ \A q \in Readers : reader'[q].closed = reader[q].closed /\ (q # r => reader'[q] = reader[q])
  BY <1>2, ReaderFlags
<1>4. QED
  BY <1>1, <1>3, PlanParts, ReaderActs DEF ReaderPlaces, Handling

\* gets the connection while it still is not,
LEMMA AttachPlan ==
    ASSUME Plan, NEW r \in Readers, Attach(r)
    PROVE  Plan' /\ Only(Staff)
<1>1. /\ UNCHANGED <<env, pool, bound, running, netRunning, listed, loop, starts, mishaps>>
      /\ at[r] = "attach" /\ writer' \in [Writers -> [enabled: BOOLEAN, dirty: BOOLEAN]]
  BY DirtiedTypes DEF Attach
<1>2. PICK place \in {"answer", "loop"} :
         /\ Becomes(r, place)
         /\ reader' = reader \/ (place = "loop" /\ reader' = [reader EXCEPT ![r].with = Nobody])
  BY DEF Attach, Leaves
<1>3. PICK s \in Sessions : s = reader[r].with
  BY <1>1, PlanParts DEF Handling
<1>4. /\ reader' \in [Readers -> ReaderRecord] /\ (place = "answer" => reader'[r].with \in Sessions)
      /\ \A q \in Readers : reader'[q].closed = reader[q].closed /\ (q # r => reader'[q] = reader[q])
  BY <1>2, <1>3, PlanParts, ReaderFlags
<1>5. Gets(s, r, sess[s].port)
  BY <1>3, Getting DEF Attach
<1>6. /\ sess' \in [Sessions -> Assignment]
      /\ \A o \in Sessions : sess'[o].port = sess[o].port /\ sess'[o].connection \in {sess[o].connection, Nobody, r}
  BY <1>5 DEF Gets
<1>7. mishaps = {} => ~reader[r].closed
  BY <1>1 DEF Plan, Unplugged
<1>8. QED
  BY <1>1, <1>2, <1>4, <1>6, <1>7, PlanParts, ReaderActs DEF ReaderPlaces, Handling

\* and its messages are answered.
LEMMA AnswerPlan ==
    ASSUME Plan, NEW r \in Readers, Answer(r)
    PROVE  Plan' /\ Only(Staff)
<1>1. /\ UNCHANGED <<env, pool, bound, running, netRunning, listed, loop, starts, mishaps>>
      /\ at[r] = "answer" /\ Becomes(r, "loop") /\ reader' = [reader EXCEPT ![r].with = Nobody]
      /\ writer' \in [Writers -> [enabled: BOOLEAN, dirty: BOOLEAN]]
  BY DirtiedTypes DEF Answer, Leaves
<1>2. PICK s \in Sessions : s = reader[r].with
  BY <1>1, PlanParts DEF Handling
<1>3. /\ reader' \in [Readers -> ReaderRecord]
      /\ \A q \in Readers : reader'[q].closed = reader[q].closed /\ (q # r => reader'[q] = reader[q])
  BY <1>1, PlanParts, ReaderFlags
<1>4. Gets(s, sess[s].connection, sess[s].port) \/ Gets(s, Nobody, sess[s].port)
  BY <1>2, Getting DEF Answer
<1>5. /\ sess' \in [Sessions -> Assignment]
      /\ \A o \in Sessions : sess'[o].port = sess[o].port /\ sess'[o].connection \in {sess[o].connection, Nobody}
  BY <1>4 DEF Gets
<1>6. QED
  BY <1>1, <1>3, <1>5, PlanParts, ReaderActs, ZenonT(60) DEF ReaderPlaces, Handling

\* A reader thread.
LEMMA RunReaderPlan ==
    ASSUME Plan, NEW r \in Readers, RunReader(r)
    PROVE  Plan' /\ Only(Staff)
<1> USE StaffNames
<1>1. r \in Staff \ {"main"} /\ r \in Staff /\ {"loop", "ended"} \cap Occupied = {}
  BY DEF Staff, Occupied, Handling
<1>2. CASE Bind(r, "loop") /\ UNCHANGED applicationVars
  <2>1. /\ ThreadTypes' /\ Only(Staff) /\ Env' = Env /\ Sessions' = Sessions
        /\ at[r] = "born" /\ at'[r] = "loop" /\ \A u \in Threads : u # r => at'[u] = at[u]
    BY <1>1, <1>2, StaffBinds DEF Places
  <2>2. QED
    BY <1>1, <1>2, <2>1, StaffMoves
<1>3. CASE ReaderLoop(r)
  <2>1. UNCHANGED <<env, pool, applicationVars>> /\ at[r] = "loop"
    BY <1>3 DEF ReaderLoop
  <2>2. CASE reader[r].running
    <3>1. /\ Becomes(r, "epoll") /\ UNCHANGED bound
          /\ UNCHANGED <<running, netRunning, listed, reader, writer, sess, loop, mishaps>>
      BY <1>3, <2>1, <2>2 DEF ReaderLoop, applicationVars
    <3>2. QED
      BY <2>1, <3>1, PlanParts, ReaderActs DEF ReaderPlaces, Handling
  <2>3. CASE ~reader[r].running
    <3>1. /\ ThreadTypes' /\ Only(Staff) /\ Env' = Env /\ Sessions' = Sessions
          /\ at'[r] = "ended" /\ \A u \in Threads : u # r => at'[u] = at[u]
      BY <1>1, <1>3, <2>1, <2>3, StaffEnds DEF ReaderLoop
    <3>2. QED
      BY <1>1, <2>1, <3>1, StaffMoves
  <2>4. QED
    BY <2>2, <2>3
<1>4. QED
  BY <1>2, <1>3, EpollReturnsPlan, RoundPlan, TerminatePlan, ClosePlan, AssignPlan, AttachPlan, AnswerPlan
     DEF RunReader

\* What a file writer does to its own flags: it is there, so main has not joined it.
LEMMA WriterFlags ==
    ASSUME Plan, NEW w \in Writers, at[w] \notin {"none", "ended"},
           ThreadTypes', Only(Staff), Env' = Env, Sessions' = Sessions,
           \A u \in Threads : u # w => at'[u] = at[u],
           writer' \in [Writers -> [enabled: BOOLEAN, dirty: BOOLEAN]],
           \A v \in Writers : v # w => writer'[v] = writer[v],
           UNCHANGED <<running, netRunning, listed, reader, sess, loop, starts, mishaps>>
    PROVE  Plan' /\ Only(Staff)
<1> USE StaffNames
<1>1. ApplicationTypes'
  BY PlanParts DEF ApplicationTypes, ReaderRecord, Handling
<1>2. Ordered'
  <2>1. mishaps = {} => ~Without(w)
    BY DEF Plan, Ordered, Gone
  <2>2. QED
    BY <2>1 DEF Plan, Ordered, Gone, Without, WithoutReaders, WithoutUpdate, Starts
<1>3. Unplugged'
  <2>1. at'["main"] = at["main"] /\ \A r \in Readers : at'[r] = at[r]
    OBVIOUS
  <2>2. QED
    BY <2>1 DEF Plan, Unplugged, WithoutReaders
<1>4. QED
  BY <1>1, <1>2, <1>3 DEF Plan

\* A thread of a FileWriter.
LEMMA RunWriterPlan ==
    ASSUME Plan, NEW w \in Writers, RunWriter(w)
    PROVE  Plan' /\ Only(Staff)
<1> USE StaffNames
<1>1. w \in Staff \ {"main"} /\ w \in Staff /\ "enable" \notin Occupied
  BY DEF Staff, Occupied, Handling
<1>2. CASE Bind(w, "enable") /\ UNCHANGED applicationVars
  <2>1. /\ ThreadTypes' /\ Only(Staff) /\ Env' = Env /\ Sessions' = Sessions
        /\ at[w] = "born" /\ at'[w] = "enable" /\ \A u \in Threads : u # w => at'[u] = at[u]
    BY <1>1, <1>2, StaffBinds DEF Places
  <2>2. QED
    BY <1>1, <1>2, <2>1, StaffMoves
<1>3. CASE EnableWriter(w)
  <2>1. /\ UNCHANGED <<env, pool, bound, running, netRunning, listed, reader, sess, loop, starts, mishaps>>
        /\ at[w] = "enable" /\ Becomes(w, "scan") /\ writer' = [writer EXCEPT ![w].enabled = TRUE]
    BY <1>3 DEF EnableWriter
  <2>2. /\ ThreadTypes' /\ Only(Staff) /\ Env' = Env /\ Sessions' = Sessions
        /\ \A u \in Threads : u # w => at'[u] = at[u]
    BY <1>1, <2>1, StaffGoes DEF Places
  <2>3. /\ writer' \in [Writers -> [enabled: BOOLEAN, dirty: BOOLEAN]]
        /\ \A v \in Writers : v # w => writer'[v] = writer[v]
    BY <2>1, WriterEdits, PlanParts
  <2>4. QED
    BY <2>1, <2>2, <2>3, WriterFlags
<1>4. CASE Scan(w)
  <2>1. /\ UNCHANGED <<env, pool, running, netRunning, listed, reader, sess, loop, starts, mishaps>>
        /\ at[w] = "scan"
    BY <1>4 DEF Scan
  <2>2. CASE writer[w].enabled
    <3>1. writer' = [writer EXCEPT ![w].dirty = FALSE] /\ UNCHANGED <<at, bound>>
      BY <1>4, <2>2 DEF Scan
    <3>2. ThreadTypes' /\ Only(Staff) /\ Env' = Env /\ Sessions' = Sessions
      BY <2>1, <3>1, EnvStays DEF Plan, ThreadTypes, Only
    <3>3. /\ writer' \in [Writers -> [enabled: BOOLEAN, dirty: BOOLEAN]]
          /\ \A v \in Writers : v # w => writer'[v] = writer[v]
      BY <3>1, WriterEdits, PlanParts
    <3>4. QED
      BY <2>1, <3>1, <3>2, <3>3, WriterFlags
  <2>3. CASE ~writer[w].enabled
    <3>1. /\ ThreadTypes' /\ Only(Staff) /\ Env' = Env /\ Sessions' = Sessions
          /\ \A u \in Threads : u # w => at'[u] = at[u]
      BY <1>1, <1>4, <2>1, <2>3, StaffEnds DEF Scan
    <3>2. writer' = writer
      BY <1>4, <2>3 DEF Scan
    <3>3. QED
      BY <2>1, <3>1, <3>2, PlanParts, WriterFlags
  <2>4. QED
    BY <2>2, <2>3
<1>5. QED
  BY <1>2, <1>3, <1>4 DEF RunWriter

\* Every step of the application's threads, and of the one that starts and stops it.
LEMMA ApplicationPlan ==
    ASSUME Plan, ApplicationMoves
    PROVE  Plan' /\ Only(Staff)
<1>1. CASE MainStep
  <2>1. \A w, from, next : <<w, from, next>> \in StartPlaces /\ StartWriter(w, from, next)
           => Plan' /\ Only(Staff)
    BY StartWriterPlan
  <2>2. \A w, from, joins, next : <<w, from, joins, next>> \in StopPlaces /\ StopWriter(w, from, joins, next)
           => Plan' /\ Only(Staff)
    BY StopWriterPlan
  <2>3. \A w, joins, next : <<w, joins, next>> \in JoinPlaces /\ JoinWriter(w, joins, next)
           => Plan' /\ Only(Staff)
    BY JoinWriterPlan
  <2>4. /\ <<"logger", "startLogger", "startStore">> \in StartPlaces
        /\ <<"store", "startStore", "startNetwork">> \in StartPlaces
        /\ <<"logger", "stopLogger", "joinLogger", "stopStore">> \in StopPlaces
        /\ <<"store", "stopStore", "joinStore", "joinUpdate">> \in StopPlaces
        /\ <<"logger", "joinLogger", "stopStore">> \in JoinPlaces
        /\ <<"store", "joinStore", "joinUpdate">> \in JoinPlaces
    BY DEF StartPlaces, StopPlaces, JoinPlaces
  <2>5. QED
    BY <1>1, <2>1, <2>2, <2>3, <2>4, StartNetworkPlan, StartUpdatePlan, StopSessionPlan, StopHandlerPlan,
       StopNetworkPlan, StopReaderPlan, WakeReaderPlan, JoinReadersPlan, JoinUpdatePlan DEF MainStep
<1>2. CASE RunAdmin
  <2>1. "admin" \in Staff \ {"main"} /\ "admin" \in Staff /\ "serving" \notin Occupied
    BY StaffNames DEF Staff, Occupied, Handling
  <2>2. /\ ThreadTypes' /\ Only(Staff) /\ Env' = Env /\ Sessions' = Sessions
        /\ at["admin"] = "born" /\ at'["admin"] = "serving" /\ \A u \in Threads : u # "admin" => at'[u] = at[u]
    BY <1>2, <2>1, StaffBinds DEF Places, RunAdmin
  <2>3. QED
    BY <1>2, <2>1, <2>2, StaffMoves DEF RunAdmin
<1>3. QED
  BY <1>1, <1>2, StartPlan, StopPlan, RunUpdatePlan, RunReaderPlan, RunWriterPlan
     DEF ApplicationMoves, ApplicationStep

-----------------------------------------------------------------------------
(* All of it *)

Inv ==
    /\ TypeInv
    /\ Env.part = "timer" => Punctual
    /\ ApplicationInv

\* Where the threads of a scenario begin.
LEMMA AtTheBeginning ==
    ASSUME Init
    PROVE  /\ at \in [Threads -> Places]
           /\ Env.part = "dispatcher" =>
                 /\ \A w \in Workers : at[w] = "born"
                 /\ at["main"] = "dispatch" /\ at["app"] \in {"dispatch", "none"}
           /\ Env.part # "dispatcher" => \A w \in Workers : at[w] = "none"
           /\ Env.part = "timer" => at["main"] = "timing" /\ at["timer"] = "born"
           /\ Env.part # "timer" => at["timer"] = "none"
           /\ Env.part = "application" => at["main"] = "idle"
           /\ \A t \in Readers \cup Writers \cup {"update"} : at[t] = "none"
<1>1. at = Env.start /\ Env.part \in {"dispatcher", "timer", "application"} /\ Env.start \in [Threads -> Places]
  BY EnvFacts DEF Init
<1>2. \A t \in Threads : at[t] \in Beginnings(Env.part, t)
  BY <1>1, EnvFacts DEF Init
<1>3. /\ \A w \in Workers : w \in Threads /\ w \notin {"main", "app", "timer", "update", "admin"}
      /\ \A t \in Readers \cup Writers \cup {"update"} :
            t \in Threads /\ t \notin Workers /\ t \notin {"main", "app", "timer", "admin"}
      /\ {"main", "app", "timer"} \subseteq Threads
      /\ "main" \notin Workers /\ "app" \notin Workers /\ "timer" \notin Workers
  BY ThreadNames DEF Named, Writers
<1>4. /\ Env.part = "dispatcher" =>
           /\ \A w \in Workers : Beginnings(Env.part, w) = {"born"}
           /\ Beginnings(Env.part, "main") = {"dispatch"} /\ Beginnings(Env.part, "app") = {"dispatch", "none"}
      /\ Env.part # "dispatcher" => \A w \in Workers : Beginnings(Env.part, w) = {"none"}
      /\ Env.part = "timer" =>
           Beginnings(Env.part, "main") = {"timing"} /\ Beginnings(Env.part, "timer") = {"born"}
      /\ Env.part # "timer" => Beginnings(Env.part, "timer") = {"none"}
      /\ Env.part = "application" => Beginnings(Env.part, "main") = {"idle"}
      /\ \A t \in Readers \cup Writers \cup {"update"} : Beginnings(Env.part, t) = {"none"}
  BY <1>3 DEF Beginnings
<1>5. QED
  BY <1>1, <1>2, <1>3, <1>4

\* The invariant holds at the beginning.
LEMMA InvInit == Init => Inv
<1> SUFFICES ASSUME Init PROVE Inv
  OBVIOUS
<1> USE AtTheBeginning
<1>1. ThreadTypes
  <2>1. pool \in [enabled: BOOLEAN, cores: {pool.cores}, next: Nat \ {0}]
    <3>1. NewPool \in [enabled: BOOLEAN, cores: {NewPool.cores}, next: {1}]
      BY DEF NewPool
    <3>2. CASE pool = NewPool
      BY <3>1, <3>2
    <3>3. CASE pool = Initialize(NewPool, Env.cpu, Env.machine)
      <4>1. NewPool.next = 1
        BY DEF NewPool
      <4>2. pool \in [enabled: BOOLEAN, cores: {pool.cores}, next: {1}]
        BY <3>1, <3>3, <4>1, InitializeTypes
      <4>3. QED
        BY <4>2
    <3>4. QED
      BY <3>2, <3>3 DEF Init
  <2>2. QED
    BY <2>1 DEF ThreadTypes, Init
<1>2. Absent
  BY DEF Absent, Init
<1>3. DispatcherTypes
  <2> SUFFICES ASSUME Env.part = "dispatcher" PROVE DispatcherTypes
    BY DEF DispatcherTypes
  <2>1. Producers = Crew /\ DOMAIN Env.todo = {"main", "app"} /\ Env.todo \in [{"main", "app"} -> Orders]
    BY <1>1, EnvFacts DEF Producers, Crew, ThreadTypes
  <2>2. todo \in [Producers -> Orders]
    <3>1. <<>> \in Orders
      BY DEF Orders
    <3>2. QED
      BY <2>1, <3>1 DEF Init, DispatcherInit, Crew
  <2>3. /\ tasks \in [Workers -> [Producers -> Seq(Jobs)]]
        /\ workerLock \in [Workers -> Workers \cup {"free"}]
        /\ \A w \in Workers : workerLock[w] = (IF at[w] = "decided" THEN w ELSE "free")
    BY DEF Init, DispatcherInit
  <2>4. \A p \in Producers : at[p] # "notify"
    BY <2>1 DEF Crew
  <2>5. QED
    BY <2>2, <2>3, <2>4 DEF DispatcherTypes
<1>4. TimerTypes
  <2>1. Len(Env.timers) \in Nat
    BY <1>1, TimerEnv
  <2>2. /\ clock = 0 /\ timers = <<>> /\ events = {} /\ timerCount = 0 /\ timerLock = "free"
    BY DEF Init, TimerInit
  <2>3. DOMAIN timers \subseteq 1..timerCount /\ timerCount \in 0..Len(Env.timers)
    BY <2>1, <2>2
  <2>4. QED
    BY <2>2, <2>3 DEF TimerTypes
<1>5. ApplicationTypes
  <2> SUFFICES ASSUME Env.part = "application" PROVE ApplicationTypes
    BY DEF ApplicationTypes
  <2>1. reader \in [Readers -> ReaderRecord]
    BY DEF Init, ApplicationInit, NewReaders, ReaderRecord
  <2>2. sess \in [Sessions -> Assignment]
    BY DEF Init, ApplicationInit, NewSessions, Assignment
  <2>3. loop \in [{"main", "update"} -> [left: SUBSET (Sessions \cup Readers),
                                       now: Sessions \cup Readers \cup {Nobody}]]
    BY DEF Init, ApplicationInit
  <2>4. QED
    BY <2>1, <2>2, <2>3 DEF ApplicationTypes, Init, ApplicationInit, Handling
<1>6. Env.part = "timer" => Punctual
  BY DEF Punctual, Init, TimerInit
<1>7. ApplicationInv
  <2> SUFFICES ASSUME Env.part = "application" PROVE Ordered /\ Unplugged
    BY DEF ApplicationInv
  <2>1. Ordered
    BY DEF Ordered, Gone, Without, WithoutReaders, WithoutUpdate, Starts, Init, ApplicationInit, Writers
  <2>2. \A r \in Readers : reader[r].closed /\ at[r] = "none" /\ r # Nobody
    BY StaffNames DEF Init, ApplicationInit, NewReaders
  <2>3. \A s \in Sessions : sess[s].connection = Nobody /\ sess[s].port = Nobody
    BY DEF Init, ApplicationInit, NewSessions
  <2>4. Unplugged
    BY <2>2, <2>3 DEF Unplugged, WithoutReaders, Init, ApplicationInit
  <2>5. QED
    BY <2>1, <2>4
<1>8. QED
  BY <1>1, <1>2, <1>3, <1>4, <1>5, <1>6, <1>7 DEF Inv, TypeInv

\* What a scenario does not have does not come about.
LEMMA AbsentStays ==
    ASSUME Inv, env' = env,
           Env.part # "dispatcher" =>
              UNCHANGED dispatcherVars /\ \A w \in Workers : at'[w] = at[w],
           Env.part # "timer" => UNCHANGED timerVars /\ at'["timer"] = at["timer"],
           Env.part # "application" =>
              /\ UNCHANGED applicationVars
              /\ \A t \in Readers \cup Writers \cup {"update"} : at'[t] = at[t]
    PROVE  Absent'
<1>1. Env' = Env /\ Producers' = Producers /\ Sessions' = Sessions
  BY EnvStays
<1>2. Absent
  BY DEF Inv, TypeInv
<1>3. Env.part # "dispatcher" => DispatcherInit' /\ \A w \in Workers : at'[w] = "none"
  BY <1>1, <1>2 DEF Absent, DispatcherInit
<1>4. Env.part # "timer" => TimerInit' /\ at'["timer"] = "none"
  BY <1>1, <1>2 DEF Absent, TimerInit
<1>5. Env.part # "application" =>
         ApplicationInit' /\ \A t \in Readers \cup Writers \cup {"update"} : at'[t] = "none"
  BY <1>1, <1>2 DEF Absent, ApplicationInit, NewSessions, NewReaders
<1>6. QED
  BY <1>1, <1>3, <1>4, <1>5 DEF Absent

\* The steps by the part of the scenario they belong to.
LEMMA Parts ==
    ASSUME Next
    PROVE  \/ Of("dispatcher") /\ DispatcherMoves
           \/ Of("timer") /\ TimerMoves
           \/ Of("application") /\ ApplicationMoves
  BY DEF Next, Step, Choice, Clock, DispatcherMoves, TimerMoves, ApplicationMoves

\* Every step keeps it.
LEMMA InvNext == Inv /\ [Next]_vars => Inv'
<1> SUFFICES ASSUME Inv, [Next]_vars PROVE Inv'
  OBVIOUS
<1>1. ThreadTypes /\ DispatcherTypes /\ TimerTypes /\ ApplicationTypes
  BY DEF Inv, TypeInv
<1>2. /\ Workers \subseteq Threads /\ Readers \subseteq Threads /\ Writers \subseteq Threads
      /\ {"timer", "update"} \subseteq Threads
      /\ \A w \in Workers : w \notin Staff /\ w \notin Pair
      /\ "timer" \notin Crew /\ "timer" \notin Staff
      /\ \A t \in Readers \cup Writers \cup {"update"} : t \notin Crew /\ t \notin Pair
  BY ThreadNames DEF Named, Writers, Staff, Pair, Crew
<1>3. CASE Of("dispatcher") /\ DispatcherMoves
  <2>1. ThreadTypes' /\ DispatcherTypes' /\ Only(Crew)
    BY <1>1, <1>3, DispatcherTyped DEF Of
  <2>2. env' = env /\ Env' = Env /\ Env.part = "dispatcher"
    BY <1>3, <2>1, EnvStays DEF Of, Only
  <2>3. Absent'
    BY <1>2, <1>3, <2>1, <2>2, AbsentStays DEF Of, Only
  <2>4. QED
    BY <2>1, <2>2, <2>3 DEF Inv, TypeInv, TimerTypes, ApplicationTypes, ApplicationInv
<1>4. CASE Of("timer") /\ TimerMoves
  <2>1. ThreadTypes' /\ TimerInv' /\ Only(Pair)
    BY <1>1, <1>4, TimerTyped DEF Of, Inv, TimerInv
  <2>2. env' = env /\ Env' = Env /\ Env.part = "timer"
    BY <1>4, <2>1, EnvStays DEF Of, Only
  <2>3. Absent'
    BY <1>2, <1>4, <2>1, <2>2, AbsentStays DEF Of, Only
  <2>4. QED
    BY <2>1, <2>2, <2>3 DEF Inv, TypeInv, TimerInv, DispatcherTypes, ApplicationTypes, ApplicationInv
<1>5. CASE Of("application") /\ ApplicationMoves
  <2>1. Plan
    BY <1>1, <1>5 DEF Plan, Of, Inv, ApplicationInv
  <2>2. Plan' /\ Only(Staff)
    BY <1>5, <2>1, ApplicationPlan
  <2>3. env' = env /\ Env' = Env /\ Env.part = "application"
    BY <1>5, <2>2, EnvStays DEF Of, Only
  <2>4. Absent'
    BY <1>2, <1>5, <2>2, <2>3, AbsentStays DEF Of, Only
  <2>5. QED
    BY <2>2, <2>3, <2>4 DEF Inv, TypeInv, Plan, DispatcherTypes, TimerTypes, ApplicationInv
<1>6. CASE UNCHANGED vars
  <2>1. /\ UNCHANGED <<env, at, pool, bound>> /\ UNCHANGED dispatcherVars
        /\ UNCHANGED timerVars /\ UNCHANGED applicationVars
    BY <1>6 DEF vars
  <2>2. Env' = Env /\ Producers' = Producers /\ Sessions' = Sessions /\ Jobs' = Jobs /\ Orders' = Orders
    BY <2>1, EnvStays
  <2>3. ThreadTypes'
    BY <1>1, <2>1, <2>2 DEF ThreadTypes
  <2>4. DispatcherTypes'
    BY <1>1, <2>1, <2>2 DEF DispatcherTypes
  <2>5. TimerTypes' /\ (Env.part = "timer" => Punctual')
    BY <1>1, <2>1, <2>2 DEF TimerTypes, Punctual, Inv
  <2>6. ApplicationTypes'
    BY <1>1, <2>1, <2>2 DEF ApplicationTypes, ReaderRecord, applicationVars
  <2>7. ApplicationInv'
    BY <2>1, <2>2 DEF Inv, ApplicationInv, Ordered, Unplugged, Gone, Without, WithoutReaders, WithoutUpdate
  <2>8. Absent'
    BY <2>1, AbsentStays
  <2>9. QED
    BY <2>2, <2>3, <2>4, <2>5, <2>6, <2>7, <2>8 DEF Inv, TypeInv
<1>7. QED
  BY <1>3, <1>4, <1>5, <1>6, Parts

\* Whatever the threads do, the invariant holds.
LEMMA Always == Spec => []Inv
  BY InvInit, InvNext, PTL DEF Spec

\* Threads are at places of their own, a thread that does not run is not bound, a
\* mutex is held exactly where a worker or the timer thread has tested and does not
\* wait yet, and readers, writers and sessions are what they should be.
THEOREM TypeCorrect == Spec => []TypeOK
<1>1. Inv => TypeOK
  <2> SUFFICES ASSUME Inv PROVE TypeOK
    OBVIOUS
  <2>1. ThreadTypes /\ Absent /\ DispatcherTypes /\ TimerTypes /\ ApplicationTypes
    BY DEF Inv, TypeInv
  <2>2. /\ env \in DOMAIN Scenarios /\ at \in [Threads -> Places]
        /\ pool.next \in Nat /\ pool.enabled \in BOOLEAN
        /\ \A t \in Threads : bound[t] = NoCore \/ bound[t] \in Env.machine.online
        /\ \A t \in Threads : at[t] \in {"none", "born", "ended"} => bound[t] = NoCore
    BY <2>1 DEF ThreadTypes
  <2>3. \A w \in Workers : workerLock[w] = (IF at[w] = "decided" THEN w ELSE "free")
    BY <2>1 DEF Absent, DispatcherTypes, DispatcherInit
  <2>4. /\ timerLock = (IF at["timer"] = "decided" THEN "timer" ELSE "free")
        /\ \A e \in events : e.id \in 1..timerCount
        /\ DOMAIN timers \subseteq 1..timerCount
    BY <2>1 DEF Absent, TimerTypes, TimerInit
  <2>5. CASE Env.part = "application"
    <3>1. /\ \A r \in Readers : reader[r] \in ReaderRecord
          /\ \A w \in Writers : writer[w] \in [enabled: BOOLEAN, dirty: BOOLEAN]
          /\ mishaps \subseteq {"early", "late", "undefined"}
      BY <2>1, <2>5 DEF ApplicationTypes
    <3>2. \A s \in Sessions : {sess[s].connection, sess[s].port, sess[s].closing} \subseteq Readers \cup {Nobody}
      BY <2>1, <2>5 DEF ApplicationTypes, Assignment
    <3>3. QED
      BY <2>2, <2>3, <2>4, <3>1, <3>2 DEF TypeOK, ReaderRecord
  <2>6. CASE Env.part # "application"
    <3>1. ApplicationInit
      BY <2>1, <2>6 DEF Absent
    <3>2. /\ \A r \in Readers : reader[r] \in ReaderRecord
          /\ \A w \in Writers : writer[w] \in [enabled: BOOLEAN, dirty: BOOLEAN]
          /\ mishaps \subseteq {"early", "late", "undefined"}
          /\ \A s \in Sessions : {sess[s].connection, sess[s].port, sess[s].closing} \subseteq Readers \cup {Nobody}
      BY <3>1 DEF ApplicationInit, NewReaders, NewSessions, ReaderRecord
    <3>3. QED
      BY <2>2, <2>3, <2>4, <3>2 DEF TypeOK, ReaderRecord
  <2>7. QED
    BY <2>5, <2>6
<1>2. QED
  BY <1>1, Always, PTL

\* When Application::stop has returned and neither of the two mishaps came in
\* between, no thread of the application runs, no session has a socket and the log
\* and the store are written, for any number of readers, sessions and restarts.
THEOREM StopsComplete == Spec => []StopIsComplete
<1>1. Inv => StopIsComplete
  <2> SUFFICES ASSUME Inv, at["main"] = "down", mishaps = {}
               PROVE  /\ \A t \in Readers \cup Writers \cup {"update"} : at[t] \in {"none", "ended"}
                      /\ \A s \in Sessions : sess[s].connection = Nobody /\ sess[s].port = Nobody
                      /\ \A w \in Writers : ~writer[w].dirty
    BY DEF StopIsComplete
  <2>1. CASE Env.part = "application"
    <3>1. Ordered /\ Unplugged
      BY <2>1 DEF Inv, ApplicationInv
    <3>2. ~netRunning /\ WithoutUpdate /\ WithoutReaders /\ \A w \in Writers : Without(w)
      BY <3>1 DEF Ordered, WithoutUpdate, WithoutReaders, Without, Starts
    <3>3. \A s \in Sessions : sess[s].connection \in Readers \cup {Nobody} /\ sess[s].port \in Readers \cup {Nobody}
      BY <2>1 DEF Inv, TypeInv, ApplicationTypes, Assignment
    <3>4. \A s \in Sessions : sess[s].connection \notin Readers /\ sess[s].port \notin Readers
      BY <3>1, <3>2 DEF Unplugged
    <3>5. QED
      BY <3>1, <3>2, <3>3, <3>4 DEF Ordered, Gone
  <2>2. CASE Env.part # "application"
    <3>1. ApplicationInit /\ \A t \in Readers \cup Writers \cup {"update"} : at[t] = "none"
      BY <2>2 DEF Inv, TypeInv, Absent
    <3>2. \A s \in Sessions : sess[s].connection = Nobody /\ sess[s].port = Nobody
      BY <3>1 DEF ApplicationInit, NewSessions
    <3>3. \A w \in Writers : ~writer[w].dirty
      BY <3>1 DEF ApplicationInit
    <3>4. QED
      BY <3>1, <3>2, <3>3
  <2>3. QED
    BY <2>1, <2>2
<1>2. QED
  BY <1>1, Always, PTL

\* No timer fires before it is due or after erase has returned, a one-shot fires
\* once, and a repeating one not sooner than its interval after the last time, for
\* any number of timers, delays and intervals.
THEOREM FiresOnTime == Spec => TimersOnTime
<1> DEFINE A == \A id \in DOMAIN fired : fired'[id] # fired[id] =>
                   /\ id \notin erased
                   /\ fired'[id] = Append(fired[id], clock)
                   /\ IF fired[id] = <<>> THEN clock >= asked[id]
                      ELSE /\ Env.timers[id].interval # OneShot
                           /\ clock >= Last(fired[id]) + Env.timers[id].interval
<1>1. Inv /\ [Next]_vars => [A]_fired
  <2> SUFFICES ASSUME Inv, [Next]_vars, fired' # fired PROVE A
    OBVIOUS
  <2>1. Of("timer") /\ TimerMoves
    BY Parts DEF vars, Of
  <2>2. ThreadTypes /\ TimerInv /\ Env.part = "timer"
    BY <2>1 DEF Inv, TypeInv, TimerInv, Of
  <2>3. Schedule \/ Pass
    BY <2>1 DEF TimerMoves, TimerStep, RunTimer, Erase, Destroy, TimerWakesSpuriously, TimePasses,
                JoinTimer, TimerLoop, TimerWait, TimesOut, Resume
  <2>4. CASE Schedule
    <3>1. fired' = Append(fired, <<>>) /\ fired \in Seq(Seq(Nat))
      BY <2>2, <2>4 DEF Schedule, TimerInv, Punctual
    <3>2. QED
      BY <3>1
  <2>5. CASE Pass
    BY <2>2, <2>5, PassFires
  <2>6. QED
    BY <2>3, <2>4, <2>5
<1>2. QED
  BY <1>1, Always, PTL DEF TimersOnTime, Spec

-----------------------------------------------------------------------------
(* The cores *)

\* A set of CPUs or of nodes has a first one.
LEMMA HasLeast ==
    ASSUME NEW S \in SUBSET Nat, S # {}
    PROVE  Least(S) \in S /\ \A y \in S : Least(S) <= y
<1> DEFINE R == {ss \in Nat \X Nat : ss[1] < ss[2]}
<1>1. OpToRel(<, Nat) = R
  BY Zenon DEF OpToRel
<1>2. IsWellFoundedOn(R, Nat)
  BY <1>1, NatLessThanWellFounded, Zenon
<1> HIDE DEF R
<1>3. PICK x \in S : \A y \in S : ~(<<y, x>> \in R)
  BY <1>2, WFMin
<1>4. \A y \in S : x <= y
  <2>1. ASSUME NEW y \in S PROVE ~(y < x)
    BY <1>3 DEF R
  <2>2. QED
    BY <2>1
<1>5. QED
  BY <1>4 DEF Least

\* How many cores come before each determines the order: every position is taken.
LEMMA Ranks ==
    ASSUME NEW S \in SUBSET Nat, IsFiniteSet(S), NEW i \in 1..Cardinality(S)
    PROVE  \E c \in S : Cardinality({d \in S : d < c}) = i - 1
<1> DEFINE n == Cardinality(S)
           Before(c) == {d \in S : d < c}
           f == [c \in S |-> Cardinality(Before(c))]
<1>1. n \in Nat
  BY FS_CardinalityType
<1>2. \A c \in S : IsFiniteSet(Before(c)) /\ Cardinality(Before(c)) \in Nat /\ Cardinality(Before(c)) < n
  <2> SUFFICES ASSUME NEW c \in S
               PROVE  IsFiniteSet(Before(c)) /\ Cardinality(Before(c)) \in Nat /\ Cardinality(Before(c)) < n
    OBVIOUS
  <2>1. Before(c) \in SUBSET S /\ c \notin Before(c)
    OBVIOUS
  <2> HIDE DEF Before
  <2>2. IsFiniteSet(Before(c)) /\ Cardinality(Before(c)) <= n /\ Cardinality(Before(c)) # n
    BY <2>1, FS_Subset
  <2>3. QED
    BY <1>1, <2>2, FS_CardinalityType
<1>3. \A c, d \in S : c < d => Cardinality(Before(c)) < Cardinality(Before(d))
  <2> SUFFICES ASSUME NEW c \in S, NEW d \in S, c < d
               PROVE  Cardinality(Before(c)) < Cardinality(Before(d))
    OBVIOUS
  <2>1. Before(c) \in SUBSET Before(d) /\ c \in Before(d) /\ c \notin Before(c)
    <3>1. \A b \in S : b < c => b < d
      <4> TAKE b \in S
      <4>1. b \in Nat /\ c \in Nat /\ d \in Nat
        OBVIOUS
      <4>2. QED
        BY <4>1
    <3>2. ~(c < c)
      OBVIOUS
    <3>3. QED
      BY <3>1, <3>2
  <2> HIDE DEF Before
  <2>2. IsFiniteSet(Before(d))
    BY <1>2
  <2>3. Cardinality(Before(c)) <= Cardinality(Before(d)) /\ Cardinality(Before(c)) # Cardinality(Before(d))
    BY <2>1, <2>2, FS_Subset
  <2>4. QED
    BY <1>2, <2>3
<1> HIDE DEF Before
<1>4. f \in Injection(S, 0..n-1)
  <2>1. f \in [S -> 0..n-1]
    BY <1>1, <1>2
  <2>2. \A c, d \in S : f[c] = f[d] => c = d
    <3> SUFFICES ASSUME NEW c \in S, NEW d \in S, f[c] = f[d], c # d PROVE FALSE
      OBVIOUS
    <3>1. c < d \/ d < c
      OBVIOUS
    <3>2. QED
      BY <1>2, <1>3, <3>1
  <2> HIDE DEF f
  <2>3. QED
    BY <2>1, <2>2 DEF Injection, IsInjective
<1>5. IsFiniteSet(0..n-1) /\ Cardinality(0..n-1) = n
  <2> HIDE DEF n
  <2>1. n - 1 \in Int /\ 0 \in Int
    BY <1>1
  <2>2. Cardinality(0..n-1) = IF 0 > n - 1 THEN 0 ELSE (n - 1) - 0 + 1
    BY <2>1, FS_Interval
  <2>3. IsFiniteSet(0..n-1)
    BY <2>1, FS_Interval
  <2>4. QED
    BY <1>1, <2>2, <2>3
<1> HIDE DEF f
<1>6. f \in Surjection(S, 0..n-1)
  BY <1>4, <1>5, FS_Injection
<1>7. PICK c \in S : f[c] = i - 1
  BY <1>1, <1>6 DEF Surjection
<1>8. QED
  BY <1>7 DEF f, Before

\* The sorted set has its elements, each at one place.
LEMMA AscendingFacts ==
    ASSUME NEW S \in SUBSET Nat, IsFiniteSet(S)
    PROVE  /\ Len(Ascending(S)) \in Nat /\ DOMAIN Ascending(S) = 1..Len(Ascending(S))
           /\ \A i \in 1..Len(Ascending(S)) : Ascending(S)[i] \in S
           /\ \A i, j \in 1..Len(Ascending(S)) : Ascending(S)[i] = Ascending(S)[j] => i = j
<1> DEFINE n == Cardinality(S)
           Rank(c) == Cardinality({d \in S : d < c})
<1>1. n \in Nat
  BY FS_CardinalityType
<1>2. Ascending(S) = [i \in 1..n |-> CHOOSE c \in S : Rank(c) = i - 1]
  BY DEF Ascending
<1>3. \A i \in 1..n : \E c \in S : Rank(c) = i - 1
  BY Ranks
<1> HIDE DEF n, Rank
<1>4. \A i \in 1..n : Ascending(S)[i] \in S /\ Rank(Ascending(S)[i]) = i - 1
  BY <1>2, <1>3
<1>5. Ascending(S) = [i \in 1..n |-> Ascending(S)[i]]
  BY <1>2
<1>6. Len(Ascending(S)) = n /\ DOMAIN Ascending(S) = 1..n
  BY <1>1, <1>4, <1>5, SequenceOf
<1>7. QED
  BY <1>1, <1>4, <1>6

\* The cores that stand for themselves, of which no two are the same one.
LEMMA PhysicalFacts ==
    ASSUME env \in DOMAIN Scenarios
    PROVE  LET m == Env.machine
               cores == DetectPhysicalCores(m)
           IN  /\ cores \in SUBSET Nat /\ IsFiniteSet(cores)
               /\ \A c, d \in cores : c # d => d \notin m.siblings[c]
               /\ \A n \in DOMAIN m.nodes :
                     {c \in m.nodes[n] \cap m.online : c \in m.siblings[c] /\ \A d \in m.siblings[c] : c <= d}
                        = m.nodes[n] \cap cores
<1> DEFINE m == Env.machine
           cores == DetectPhysicalCores(m)
<1>1. /\ IsFiniteSet(m.online) /\ DOMAIN m.siblings \subseteq Nat
      /\ \A c \in m.online :
            /\ m.siblings[c] # {} => c \in m.siblings[c]
            /\ \A d \in m.siblings[c] : m.siblings[d] = m.siblings[c]
  BY MachineAssumption DEF Env
<1>2. /\ m.online \subseteq DOMAIN m.siblings
      /\ \A c \in DOMAIN m.siblings : m.siblings[c] \subseteq DOMAIN m.siblings
  <2>1. m \in Machine(DOMAIN m.siblings, DOMAIN m.nodes)
    BY ProcessAssumption DEF Environment, Env
  <2>2. QED
    BY <2>1 DEF Machine
<1> HIDE DEF m
<1>3. cores \in SUBSET m.online /\ \A c \in cores : c = Least(m.siblings[c])
  BY DEF DetectPhysicalCores
<1>4. cores \in SUBSET Nat /\ IsFiniteSet(cores)
  BY <1>1, <1>2, <1>3, FS_Subset
<1>5. \A c, d \in cores : c # d => d \notin m.siblings[c]
  <2> SUFFICES ASSUME NEW c \in cores, NEW d \in cores, d \in m.siblings[c] PROVE c = d
    OBVIOUS
  <2>1. m.siblings[d] = m.siblings[c]
    BY <1>1, <1>3
  <2>2. QED
    BY <1>3, <2>1
<1>6. \A c \in m.online : c \in cores <=> c \in m.siblings[c] /\ \A d \in m.siblings[c] : c <= d
  <2> SUFFICES ASSUME NEW c \in m.online, m.siblings[c] # {}
               PROVE  c \in cores <=> \A d \in m.siblings[c] : c <= d
    BY <1>1 DEF DetectPhysicalCores
  <2> DEFINE S == m.siblings[c]
  <2>1. S \in SUBSET Nat /\ c \in S
    BY <1>1, <1>2
  <2>2. c \in cores <=> c = Least(S)
    BY <2>1 DEF DetectPhysicalCores
  <2> HIDE DEF S
  <2>3. Least(S) \in S /\ \A y \in S : Least(S) <= y
    BY <2>1, HasLeast
  <2>4. c = Least(S) => \A y \in S : c <= y
    BY <2>3
  <2>5. (\A y \in S : c <= y) => c <= Least(S) /\ Least(S) <= c
    BY <2>1, <2>3
  <2>6. (\A y \in S : c <= y) => c = Least(S)
    <3>1. c \in Nat /\ Least(S) \in Nat
      BY <2>1, <2>3
    <3>2. c <= Least(S) /\ Least(S) <= c => c = Least(S)
      BY <3>1
    <3>3. QED
      BY <2>5, <3>2
  <2>7. c \in cores <=> \A y \in S : c <= y
    <3> HIDE DEF cores
    <3>1. QED
      BY <2>2, <2>4, <2>6
  <2>8. QED
    BY <2>7 DEF S
<1>7. \A n \in DOMAIN m.nodes :
         {c \in m.nodes[n] \cap m.online : c \in m.siblings[c] /\ \A d \in m.siblings[c] : c <= d}
            = m.nodes[n] \cap cores
  BY <1>3, <1>6
<1>8. QED
  BY <1>4, <1>5, <1>7 DEF m

\* DetectBestNumaNode finds one.
LEMMA BestNode ==
    ASSUME NEW m, NEW cores, IsFiniteSet(cores), DOMAIN m.nodes \subseteq Nat, DOMAIN m.nodes # {}
    PROVE  LET best == DetectBestNumaNode(m, cores)
           IN  /\ best \in DOMAIN m.nodes
               /\ \A o \in DOMAIN m.nodes :
                     Cardinality(m.nodes[o] \cap cores) <= Cardinality(m.nodes[best] \cap cores)
<1> DEFINE N == DOMAIN m.nodes
           Count(n) == Cardinality(m.nodes[n] \cap cores)
           K == Cardinality(cores)
           best == {n \in N : \A o \in N : Count(n) >= Count(o)}
           Rest == {K - Count(n) : n \in N}
<1>1. \A n \in N : Count(n) \in Nat /\ Count(n) <= K
  <2> SUFFICES ASSUME NEW n \in N PROVE Count(n) \in Nat /\ Count(n) <= K
    OBVIOUS
  <2>1. m.nodes[n] \cap cores \in SUBSET cores
    OBVIOUS
  <2>2. QED
    BY <2>1, FS_Subset, FS_CardinalityType
<1>2. K \in Nat
  BY FS_CardinalityType
<1> HIDE DEF K, Count
<1>3. Rest \in SUBSET Nat /\ Rest # {}
  BY <1>1, <1>2
<1>4. Least(Rest) \in Rest /\ \A y \in Rest : Least(Rest) <= y
  BY <1>3, HasLeast
<1>5. PICK n \in N : Least(Rest) = K - Count(n)
  BY <1>4
<1>6. \A o \in N : Count(o) <= Count(n)
  <2> SUFFICES ASSUME NEW o \in N PROVE Count(o) <= Count(n)
    OBVIOUS
  <2>1. K - Count(n) <= K - Count(o)
    BY <1>4, <1>5
  <2>2. QED
    BY <1>1, <1>2, <2>1
<1>7. n \in best
  BY <1>1, <1>6
<1>8. best \in SUBSET Nat /\ best # {}
  BY <1>7
<1>9. Least(best) \in best
  BY <1>8, HasLeast
<1>10. DetectBestNumaNode(m, cores) = Least(best)
  BY <1>8 DEF DetectBestNumaNode, Count
<1>11. \A o \in N : Count(o) <= Count(Least(best))
  BY <1>1, <1>9
<1>12. QED
  BY <1>9, <1>10, <1>11 DEF Count

\* What CpuOrchestrator::initialize gives when it picks the cores itself.
Chosen == OnOneNode(Env.machine, DetectPhysicalCores(Env.machine), Env.cpu.node)
Cores == Ascending(Chosen)

\* The cores are physical ones and, when the orchestrator looks for the node, those of the best.
LEMMA ChosenFacts ==
    ASSUME env \in DOMAIN Scenarios
    PROVE  LET m == Env.machine
               cores == DetectPhysicalCores(m)
           IN  /\ Chosen \in SUBSET cores
               /\ (Env.cpu.node = AnyNode /\ \E n \in DOMAIN m.nodes : m.nodes[n] \cap cores # {}) =>
                     \E n \in DOMAIN m.nodes :
                        /\ Chosen = m.nodes[n] \cap cores
                        /\ \A o \in DOMAIN m.nodes :
                              Cardinality(m.nodes[o] \cap cores) <= Cardinality(m.nodes[n] \cap cores)
<1> DEFINE m == Env.machine
           cores == DetectPhysicalCores(m)
<1>1. Chosen \in SUBSET cores
  BY DEF Chosen, OnOneNode
<1>2. IsFiniteSet(cores)
  BY PhysicalFacts
<1>3. DOMAIN m.nodes \subseteq Nat
  BY MachineAssumption DEF Env
<1>4. ASSUME Env.cpu.node = AnyNode, NEW n \in DOMAIN m.nodes, m.nodes[n] \cap cores # {}
      PROVE  \E k \in DOMAIN m.nodes :
                /\ Chosen = m.nodes[k] \cap cores
                /\ \A o \in DOMAIN m.nodes :
                      Cardinality(m.nodes[o] \cap cores) <= Cardinality(m.nodes[k] \cap cores)
  <2> DEFINE k == DetectBestNumaNode(m, cores)
  <2> HIDE DEF m, cores
  <2>1. /\ k \in DOMAIN m.nodes
        /\ \A o \in DOMAIN m.nodes :
              Cardinality(m.nodes[o] \cap cores) <= Cardinality(m.nodes[k] \cap cores)
    BY <1>2, <1>3, BestNode
  <2> HIDE DEF k
  <2>2. /\ IsFiniteSet(m.nodes[k] \cap cores) /\ IsFiniteSet(m.nodes[n] \cap cores)
        /\ Cardinality(m.nodes[k] \cap cores) \in Nat /\ Cardinality(m.nodes[n] \cap cores) \in Nat
    <3>1. m.nodes[k] \cap cores \in SUBSET cores /\ m.nodes[n] \cap cores \in SUBSET cores
      OBVIOUS
    <3>2. QED
      BY <1>2, <3>1, FS_Subset, FS_CardinalityType
  <2>3. Cardinality(m.nodes[n] \cap cores) # 0
    BY <1>4, <2>2, FS_EmptySet
  <2>4. Cardinality(m.nodes[k] \cap cores) # 0
    <3>1. Cardinality(m.nodes[n] \cap cores) <= Cardinality(m.nodes[k] \cap cores)
      BY <2>1
    <3>2. QED
      BY <2>2, <2>3, <3>1
  <2>5. m.nodes[k] \cap cores # {}
    BY <2>4, FS_EmptySet
  <2>6. NodeCores(m, k) = m.nodes[k]
    BY <2>1 DEF NodeCores
  <2>7. Chosen = m.nodes[k] \cap cores
    <3>1. Chosen = OnOneNode(m, cores, Env.cpu.node)
      BY DEF Chosen, m, cores
    <3>2. OnOneNode(m, cores, AnyNode) = m.nodes[k] \cap cores
      BY <2>5, <2>6 DEF OnOneNode, k
    <3>3. QED
      BY <1>4, <3>1, <3>2
  <2>8. QED
    BY <2>1, <2>7
<1>5. QED
  BY <1>1, <1>4

\* What a step does to the cores: a thread binds, Application::start initializes the
\* pool, or threads only lose theirs.
Keeps == env' = env /\ pool' = pool /\ \A t \in Threads : bound'[t] \in {NoCore, bound[t]}
Binds == \E t \in Threads : \E place \in Places : Bind(t, place)
Restarts == env' = env /\ bound' = bound /\ pool' \in {pool, Initialize(pool, Env.cpu, Env.machine)}

\* A thread that ends or is created has no core; nothing else changes.
LEMMA Unbinding ==
    ASSUME ThreadTypes, UNCHANGED <<env, pool>>
    PROVE  /\ bound' = bound => Keeps
           /\ \A t \in Threads : Ends(t) => Keeps
           /\ \A t \in Threads : \A new \in SUBSET Threads : \A place : Creates(t, new, place) => Keeps
<1>1. bound \in [Threads -> {NoCore} \cup Env.machine.online]
  BY DEF ThreadTypes
<1>2. bound' = bound => Keeps
  BY <1>1 DEF Keeps
<1>3. \A t \in Threads : Ends(t) => Keeps
  BY <1>1 DEF Keeps, Ends
<1>4. \A t \in Threads : \A new \in SUBSET Threads : \A place : Creates(t, new, place) => Keeps
  BY <1>1 DEF Keeps, Creates
<1>5. QED
  BY <1>2, <1>3, <1>4

\* The threads of a dispatcher,
LEMMA DispatcherCores ==
    ASSUME ThreadTypes, DispatcherMoves
    PROVE  Keeps \/ Binds
<1> USE Unbinding
<1>1. ASSUME NEW w \in Workers, RunWorker(w) PROVE Keeps \/ Binds
  <2>1. w \in Threads /\ "loop" \in Places
    BY ThreadNames DEF Places
  <2>2. CASE BindWorker(w)
    BY <2>1, <2>2 DEF BindWorker, Binds
  <2>3. CASE LeaveLoop(w)
    BY <2>1, <2>3 DEF LeaveLoop
  <2>4. CASE Take(w) \/ Test(w) \/ Wait(w) \/ \E place : Goes(w, place)
    BY <2>4 DEF Take, Test, Wait, Goes
  <2>5. QED
    BY <1>1, <2>2, <2>3, <2>4 DEF RunWorker, Loop, Go
<1>2. ASSUME NEW t \in Threads, Enqueue(t) \/ Notify(t) PROVE Keeps \/ Binds
  BY <1>2 DEF Enqueue, Notify
<1>3. ASSUME BeginStop \/ (\E w \in Workers : SetStop(w) \/ WakeSpuriously(w)) \/ WakeToStop \/ JoinWorkers
      PROVE  Keeps \/ Binds
  BY <1>3 DEF BeginStop, SetStop, WakeSpuriously, WakeToStop, JoinWorkers, Goes
<1>4. QED
  BY <1>1, <1>2, <1>3 DEF DispatcherMoves, DispatcherStep

\* of a timer,
LEMMA TimerCores ==
    ASSUME ThreadTypes, TimerMoves
    PROVE  Keeps \/ Binds
<1> USE Unbinding
<1>1. "timer" \in Threads /\ "loop" \in Places
  BY ThreadNames DEF Places
<1>2. CASE Bind("timer", "loop")
  BY <1>1, <1>2 DEF Binds
<1>3. CASE TimerLoop
  BY <1>1, <1>3 DEF TimerLoop
<1>4. CASE Schedule \/ (\E id \in DOMAIN asked : Erase(id)) \/ Destroy \/ TimePasses
  BY <1>4 DEF Schedule, Erase, Destroy, TimePasses
<1>5. CASE Pass \/ TimerWait \/ TimesOut \/ Resume \/ TimerWakesSpuriously \/ JoinTimer
  BY <1>5 DEF Pass, TimerWait, TimesOut, Resume, TimerWakesSpuriously, JoinTimer
<1>6. QED
  BY <1>2, <1>3, <1>4, <1>5 DEF TimerMoves, TimerStep, RunTimer

\* and of the application.
LEMMA ApplicationCores ==
    ASSUME ThreadTypes, ApplicationMoves
    PROVE  Keeps \/ Binds \/ Restarts
<1> USE Unbinding
<1>1. /\ {"main", "update", "admin"} \subseteq Threads /\ {"loop", "enable", "serving"} \subseteq Places
      /\ {"logger"} \subseteq Threads /\ {"store"} \subseteq Threads /\ {"update"} \subseteq Threads
      /\ Readers \subseteq Threads /\ Writers \subseteq Threads
  BY ThreadNames DEF Places, Writers
<1>2. CASE Start
  BY <1>2 DEF Start, Restarts
<1>3. CASE Stop
  BY <1>3 DEF Stop
<1>4. CASE MainStep
  <2>1. ASSUME NEW w \in Writers, NEW from, NEW next, StartWriter(w, from, next) PROVE Keeps
    <3>1. UNCHANGED <<env, pool>> /\ {w} \in SUBSET Threads
      BY <1>1, <2>1 DEF StartWriter
    <3>2. QED
      BY <1>1, <2>1, <3>1 DEF StartWriter
  <2>2. CASE StartNetwork \/ StartUpdate
    BY <1>1, <2>2 DEF StartNetwork, StartUpdate
  <2>3. CASE (\E s \in Sessions : StopSession(s)) \/ StopHandler \/ Disconnect
          \/ RemoveAcceptor \/ StopNetwork
    BY <2>3 DEF StopSession, StopHandler, Disconnect, RemoveAcceptor, StopNetwork
  <2>4. CASE (\E r \in Readers : StopReader(r)) \/ WakeReader \/ JoinReaders \/ JoinUpdate
    BY <2>4 DEF StopReader, WakeReader, JoinReaders, JoinUpdate
  <2>5. ASSUME NEW w \in Writers, NEW from, NEW joins, NEW next,
               StopWriter(w, from, joins, next) \/ JoinWriter(w, joins, next)
        PROVE  Keeps
    BY <2>5 DEF StopWriter, JoinWriter
  <2>6. QED
    BY <1>4, <2>1, <2>2, <2>3, <2>4, <2>5 DEF MainStep, Writers
<1>5. CASE RunUpdate
  <2>1. CASE Bind("update", "loop")
    BY <1>1, <2>1 DEF Binds
  <2>2. CASE UpdateLoop
    BY <1>1, <2>2 DEF UpdateLoop
  <2>3. CASE (\E s \in Sessions : UpdateSession(s)) \/ UpdateCheck \/ UpdateAttach \/ UpdateConnects
          \/ ConnectFails \/ UpdateDone
    BY <2>3 DEF UpdateSession, UpdateCheck, UpdateAttach, UpdateConnects, ConnectFails, UpdateDone
  <2>4. QED
    BY <1>5, <2>1, <2>2, <2>3 DEF RunUpdate
<1>6. ASSUME NEW r \in Readers, RunReader(r) PROVE Keeps \/ Binds
  <2>1. CASE Bind(r, "loop")
    BY <1>1, <2>1 DEF Binds
  <2>2. CASE ReaderLoop(r)
    BY <1>1, <2>2 DEF ReaderLoop
  <2>3. CASE EpollReturns(r) \/ Round(r) \/ Terminate(r) \/ Close(r) \/ Hang(r) \/ Assign(r) \/ Attach(r) \/ Answer(r)
    BY <2>3 DEF EpollReturns, Round, Terminate, Close, Hang, Assign, Attach, Answer
  <2>4. QED
    BY <1>6, <2>1, <2>2, <2>3 DEF RunReader
<1>7. ASSUME NEW w \in Writers, RunWriter(w) PROVE Keeps \/ Binds
  <2>1. CASE Bind(w, "enable")
    BY <1>1, <2>1 DEF Binds
  <2>2. CASE EnableWriter(w)
    BY <2>2 DEF EnableWriter
  <2>3. CASE Scan(w)
    BY <1>1, <2>3 DEF Scan
  <2>4. QED
    BY <1>7, <2>1, <2>2, <2>3 DEF RunWriter
<1>8. CASE RunAdmin
  BY <1>1, <1>8 DEF RunAdmin, Binds
<1>9. QED
  BY <1>2, <1>3, <1>4, <1>5, <1>6, <1>7, <1>8 DEF ApplicationMoves, ApplicationStep

\* Every bound thread has the core of a turn of its own, and that turn is over.
Turns ==
    (~Env.cpu.explicit /\ Env.cpu.avoidHT) =>
    /\ pool.cores \in {<<>>, Cores}
    /\ \A t \in Threads : bound[t] # NoCore =>
          \E i \in 1..Len(Cores) : i < pool.next /\ bound[t] = Cores[i]
    /\ \A s, t \in Threads : s # t /\ bound[s] # NoCore => bound[s] # bound[t]

\* What CpuOrchestrator::initialize leaves in the pool when it picks the cores.
LEMMA InitializeTurns ==
    ASSUME ~Env.cpu.explicit, NEW p, p \in [enabled: BOOLEAN, cores: {p.cores}, next: Nat \ {0}],
           p.cores \in {<<>>, Cores}
    PROVE  LET q == Initialize(p, Env.cpu, Env.machine)
           IN  q.cores \in {<<>>, Cores} /\ q.next = p.next
<1>1. \/ Initialize(p, Env.cpu, Env.machine) = p
      \/ Initialize(p, Env.cpu, Env.machine) = Gives(p, Cores)
  BY DEF Initialize, Cores, Chosen
<1>2. Gives(p, Cores).cores = Cores /\ Gives(p, Cores).next = p.next
  BY DEF Gives
<1>3. QED
  BY <1>1, <1>2

\* At the beginning nobody has had a turn.
LEMMA TurnsInit == Init => Turns
<1> SUFFICES ASSUME Init, ~Env.cpu.explicit
             PROVE  pool.cores \in {<<>>, Cores} /\ \A t \in Threads : bound[t] = NoCore
  BY DEF Turns
<1>1. NewPool \in [enabled: BOOLEAN, cores: {NewPool.cores}, next: Nat \ {0}] /\ NewPool.cores = <<>>
  BY DEF NewPool
<1>2. pool = NewPool \/ pool = Initialize(NewPool, Env.cpu, Env.machine)
  BY DEF Init
<1>3. pool.cores \in {<<>>, Cores}
  BY <1>1, <1>2, InitializeTurns
<1>4. QED
  BY <1>3 DEF Init

\* Each bind takes the next turn, also after a second initialize; what a thread that
\* ended had is not given again.
LEMMA TurnsNext == Inv /\ Turns /\ [Next]_vars => Turns'
<1>0. Inv /\ [Next]_vars => Keeps \/ Binds \/ Restarts
  <2> SUFFICES ASSUME Inv, [Next]_vars PROVE Keeps \/ Binds \/ Restarts
    OBVIOUS
  <2>1. ThreadTypes
    BY DEF Inv, TypeInv
  <2>2. CASE Next
    BY <2>1, <2>2, DispatcherCores, TimerCores, ApplicationCores, Parts
  <2>3. CASE UNCHANGED vars
    BY <2>1, <2>3, Unbinding DEF vars
  <2>4. QED
    BY <2>2, <2>3
<1> SUFFICES ASSUME Inv, Turns, Keeps \/ Binds \/ Restarts, ~Env.cpu.explicit, Env.cpu.avoidHT, env' = env
             PROVE  Turns'
  <2>1. Inv /\ [Next]_vars => env' = env
    BY <1>0 DEF Keeps, Binds, Restarts, Bind
  <2>2. QED
    BY <1>0, <2>1, EnvStays DEF Turns
<1>1. ThreadTypes
  BY DEF Inv, TypeInv
<1>2. Env' = Env /\ Cores' = Cores
  BY EnvStays DEF Cores, Chosen
<1>3. /\ pool.cores \in {<<>>, Cores} /\ pool.next \in Nat
      /\ pool \in [enabled: BOOLEAN, cores: {pool.cores}, next: Nat \ {0}]
      /\ \A t \in Threads : bound[t] # NoCore =>
            \E i \in 1..Len(Cores) : i < pool.next /\ bound[t] = Cores[i]
      /\ \A s, t \in Threads : s # t /\ bound[s] # NoCore => bound[s] # bound[t]
      /\ bound \in [Threads -> {NoCore} \cup Env.machine.online]
  BY <1>1 DEF Turns, ThreadTypes
<1>4. /\ Len(Cores) \in Nat
      /\ \A i \in 1..Len(Cores) : Cores[i] \in Nat
      /\ \A i, j \in 1..Len(Cores) : Cores[i] = Cores[j] => i = j
  <2>1. Chosen \in SUBSET Nat /\ IsFiniteSet(Chosen)
    BY <1>1, PhysicalFacts, ChosenFacts, FS_Subset DEF ThreadTypes
  <2>2. QED
    BY <2>1, AscendingFacts DEF Cores
<1> SUFFICES /\ pool'.cores \in {<<>>, Cores}
             /\ \A t \in Threads : bound'[t] # NoCore =>
                   \E i \in 1..Len(Cores) : i < pool'.next /\ bound'[t] = Cores[i]
             /\ \A s, t \in Threads : s # t /\ bound'[s] # NoCore => bound'[s] # bound'[t]
  BY <1>2 DEF Turns
<1> HIDE DEF Cores
<1>5. CASE Keeps
  BY <1>3, <1>5 DEF Keeps
<1>6. CASE Restarts
  <2>1. pool'.cores \in {<<>>, Cores} /\ pool'.next = pool.next
    BY <1>3, <1>6, InitializeTurns DEF Restarts
  <2>2. QED
    BY <1>3, <1>6, <2>1 DEF Restarts
<1>7. CASE Binds
  <2>1. PICK t \in Threads, place \in Places : Bind(t, place)
    BY <1>7 DEF Binds
  <2>2. CASE UNCHANGED <<pool, bound>>
    BY <1>3, <2>2
  <2>3. CASE ~UNCHANGED <<pool, bound>>
    <3>1. /\ pool.enabled /\ pool.cores # <<>> /\ pool' = [pool EXCEPT !.next = @ + 1]
          /\ \/ bound' = bound
             \/ /\ pool.next <= Len(pool.cores)
                /\ bound' = [bound EXCEPT ![t] = pool.cores[pool.next]]
      BY <2>1, <2>3 DEF Bind
    <3>2. pool.cores = Cores /\ pool'.cores = Cores /\ pool'.next = pool.next + 1
      BY <1>3, <3>1
    <3>3. CASE bound' = bound
      BY <1>3, <3>2, <3>3
    <3>4. CASE pool.next <= Len(pool.cores) /\ bound' = [bound EXCEPT ![t] = pool.cores[pool.next]]
      <4>1. bound'[t] = Cores[pool.next] /\ \A u \in Threads : u # t => bound'[u] = bound[u]
        BY <1>3, <3>2, <3>4
      <4>2. pool.next \in 1..Len(Cores)
        BY <1>3, <1>4, <3>2, <3>4
      <4>3. \A u \in Threads : u # t /\ bound[u] # NoCore => bound[u] # Cores[pool.next]
        BY <1>3, <1>4, <4>2
      <4>4. Cores[pool.next] # NoCore
        BY <1>4, <4>2 DEF NoCore
      <4>5. \A u \in Threads : bound'[u] # NoCore =>
               \E i \in 1..Len(Cores) : i < pool'.next /\ bound'[u] = Cores[i]
        BY <1>3, <1>4, <3>2, <4>1, <4>2
      <4>6. \A s, u \in Threads : s # u /\ bound'[s] # NoCore => bound'[s] # bound'[u]
        BY <1>3, <4>1, <4>3, <4>4
      <4>7. QED
        BY <3>2, <4>5, <4>6
    <3>5. QED
      BY <3>1, <3>3, <3>4
  <2>4. QED
    BY <2>2, <2>3
<1>8. QED
  BY <1>5, <1>6, <1>7

\* Cores that the orchestrator picks itself are shared by no two threads, neither as
\* a core nor by hyper-threading, not even after a second start; and without a node
\* in the settings they are on one NUMA node, none having more of them.  For any
\* number of CPUs, nodes and threads, and any machine.
THEOREM CoresChosen == Spec => []CoresWellChosen
<1>1. Inv /\ Turns => CoresWellChosen
  <2> DEFINE m == Env.machine
             cores == DetectPhysicalCores(m)
             taken == {t \in DOMAIN bound : bound[t] # NoCore}
             Whole(n) == {c \in m.nodes[n] \cap m.online : c \in m.siblings[c] /\ \A d \in m.siblings[c] : c <= d}
  <2> SUFFICES ASSUME Inv, Turns, ~Env.cpu.explicit, Env.cpu.avoidHT
               PROVE  /\ \A s, t \in taken : s # t => bound[t] \notin m.siblings[bound[s]]
                      /\ (Env.cpu.node = AnyNode /\ \E n \in DOMAIN m.nodes : Whole(n) # {}) =>
                           \E n \in DOMAIN m.nodes :
                              /\ \A t \in taken : bound[t] \in m.nodes[n]
                              /\ \A o \in DOMAIN m.nodes : Cardinality(Whole(o)) <= Cardinality(Whole(n))
    BY DEF CoresWellChosen
  <2>1. env \in DOMAIN Scenarios /\ DOMAIN bound = Threads
    BY DEF Inv, TypeInv, ThreadTypes
  <2>2. /\ cores \in SUBSET Nat /\ IsFiniteSet(cores)
        /\ \A c, d \in cores : c # d => d \notin m.siblings[c]
        /\ \A n \in DOMAIN m.nodes : Whole(n) = m.nodes[n] \cap cores
    BY <2>1, PhysicalFacts
  <2>3. /\ Chosen \in SUBSET cores
        /\ (Env.cpu.node = AnyNode /\ \E n \in DOMAIN m.nodes : m.nodes[n] \cap cores # {}) =>
              \E n \in DOMAIN m.nodes :
                 /\ Chosen = m.nodes[n] \cap cores
                 /\ \A o \in DOMAIN m.nodes :
                       Cardinality(m.nodes[o] \cap cores) <= Cardinality(m.nodes[n] \cap cores)
    BY <2>1, ChosenFacts
  <2> HIDE DEF m, cores, Whole
  <2>4. \A i \in 1..Len(Cores) : Cores[i] \in Chosen
    <3>1. Chosen \in SUBSET Nat /\ IsFiniteSet(Chosen)
      BY <2>2, <2>3, FS_Subset
    <3>2. QED
      BY <3>1, AscendingFacts DEF Cores
  <2>5. \A t \in taken : bound[t] \in Chosen
    BY <2>1, <2>4 DEF Turns
  <2>6. \A s, t \in taken : s # t => bound[s] # bound[t]
    BY <2>1 DEF Turns
  <2>7. \A s, t \in taken : s # t => bound[t] \notin m.siblings[bound[s]]
    BY <2>2, <2>3, <2>5, <2>6
  <2>8. ASSUME Env.cpu.node = AnyNode, \E n \in DOMAIN m.nodes : Whole(n) # {}
        PROVE  \E n \in DOMAIN m.nodes :
                  /\ \A t \in taken : bound[t] \in m.nodes[n]
                  /\ \A o \in DOMAIN m.nodes : Cardinality(Whole(o)) <= Cardinality(Whole(n))
    <3>1. PICK n \in DOMAIN m.nodes :
             /\ Chosen = m.nodes[n] \cap cores
             /\ \A o \in DOMAIN m.nodes :
                   Cardinality(m.nodes[o] \cap cores) <= Cardinality(m.nodes[n] \cap cores)
      BY <2>2, <2>3, <2>8
    <3>2. \A t \in taken : bound[t] \in m.nodes[n]
      BY <2>5, <3>1
    <3>3. \A o \in DOMAIN m.nodes : Cardinality(Whole(o)) <= Cardinality(Whole(n))
      BY <2>2, <3>1
    <3>4. QED
      BY <3>2, <3>3
  <2>9. QED
    BY <2>7, <2>8
<1>2. Init => Inv /\ Turns
  BY InvInit, TurnsInit
<1>3. Inv /\ Turns /\ [Next]_vars => (Inv /\ Turns)'
  BY InvNext, TurnsNext
<1>4. QED
  BY <1>1, <1>2, <1>3, PTL DEF Spec
=============================================================================
