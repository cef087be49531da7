------------------------------- MODULE Dispatcher -------------------------------
(***************************************************************************)
(* Dispatcher and Worker: tasks are put into a worker's lock-free queue and *)
(* a condition variable wakes the worker; in spin mode it never sleeps.  A  *)
(* task may dispatch others.  "main" owns the dispatcher and may stop it.   *)
(*                                                                          *)
(* The queue (moodycamel) keeps the order of each producer and none among   *)
(* them.  Lock, test and wait are steps, since dispatch enqueues without    *)
(* the worker's mutex; what happens under the mutex in one go is one step.  *)
(***************************************************************************)
EXTENDS CpuOrchestrator

CONSTANT Workers        \* the workers' threads

VARIABLES
    tasks,              \* m_queue of each worker: by producer, what it enqueued
    workerLock,         \* the thread that holds each m_mutex, or "free"
    workerStop,         \* m_stop of each worker
    todo,               \* what each producer still dispatches, as <<worker, task>>
    aim,                \* the worker main is about to wake in stop
    ran                 \* history: what each worker ran, as <<producer, task>>

dispatcherVars == <<tasks, workerLock, workerStop, todo, aim, ran>>

Producers == Workers \cup DOMAIN Env.todo
NoWorker == "none"

DispatcherInit ==
    /\ tasks = [w \in Workers |-> [p \in Producers |-> <<>>]]
    /\ workerLock = [w \in Workers |-> "free"]
    /\ workerStop = [w \in Workers |-> FALSE]
    /\ todo = [p \in Producers |-> IF p \in Workers THEN <<>> ELSE Env.todo[p]]
    /\ aim = NoWorker
    /\ ran = [w \in Workers |-> <<>>]

-----------------------------------------------------------------------------
(* Worker::dispatch, by applications' threads and by tasks *)

\* A worker goes back to its loop when its task has dispatched all.
AfterDispatch(p) == IF p \in Workers /\ Len(todo[p]) = 1 THEN "loop" ELSE "dispatch"

\* A spinning worker needs no notification.
Enqueue(p) ==
    /\ at[p] = "dispatch" /\ todo[p] # <<>>
    /\ LET w == Head(todo[p])[1]
       IN  tasks' = [tasks EXCEPT ![w][p] = Append(@, Head(todo[p])[2])]
    /\ IF Env.spin
       THEN Becomes(p, AfterDispatch(p)) /\ todo' = [todo EXCEPT ![p] = Tail(@)]
       ELSE Becomes(p, "notify") /\ UNCHANGED todo
    /\ UNCHANGED <<env, pool, bound, workerLock, workerStop, aim, ran>>

\* No mutex: the notification may come when w has not begun to wait.
MayNotifyAnyTime(w) == TRUE

\* The mutex is taken to notify: w is not between its test and its wait.
MayNotify(w) == workerLock[w] = "free"

\* notify_one of w by p, which goes on at "place".
Notifies(p, w, place) ==
    /\ MayNotify(w)
    /\ at' = [at EXCEPT ![w] = IF @ = "waiting" THEN "awake" ELSE @, ![p] = place]

Notify(p) ==
    /\ at[p] = "notify"
    /\ Notifies(p, Head(todo[p])[1], AfterDispatch(p))
    /\ todo' = [todo EXCEPT ![p] = Tail(@)]
    /\ UNCHANGED <<env, pool, bound, tasks, workerLock, workerStop, aim, ran>>

-----------------------------------------------------------------------------
(* Worker::run *)

BindWorker(w) == Bind(w, "loop") /\ UNCHANGED dispatcherVars

Queued(w) == {p \in Producers : tasks[w][p] # <<>>}

\* try_dequeue, and the task.
Take(w) ==
    /\ \E p \in Queued(w) :
          LET task == Head(tasks[w][p])
          IN  /\ tasks' = [tasks EXCEPT ![w][p] = Tail(@)]
              /\ ran' = [ran EXCEPT ![w] = Append(@, <<p, task>>)]
              /\ todo' = [todo EXCEPT ![w] = Env.spawns[task]]
              /\ Becomes(w, IF Env.spawns[task] = <<>> THEN "loop" ELSE "dispatch")
    /\ UNCHANGED <<env, pool, bound, workerLock, workerStop, aim>>

LeaveLoop(w) ==
    /\ workerStop[w] /\ Ends(w)
    /\ UNCHANGED <<env, pool, dispatcherVars>>

Goes(w, place) == Becomes(w, place) /\ UNCHANGED <<env, pool, bound, dispatcherVars>>

Loop(w) ==
    /\ at[w] = "loop"
    /\ \/ LeaveLoop(w)
       \/ ~workerStop[w] /\ Take(w)
       \/ ~workerStop[w] /\ Queued(w) = {} /\ ~Env.spin /\ Goes(w, "test")

\* The predicate of m_cv.wait; if it is false the worker keeps the mutex until it
\* waits.
Test(w) ==
    /\ at[w] \in {"test", "awake"} /\ workerLock[w] = "free"
    /\ IF workerStop[w] \/ Queued(w) # {}
       THEN Becomes(w, "go") /\ UNCHANGED workerLock
       ELSE Becomes(w, "decided") /\ workerLock' = [workerLock EXCEPT ![w] = w]
    /\ UNCHANGED <<env, pool, bound, tasks, workerStop, todo, aim, ran>>

Wait(w) ==
    /\ at[w] = "decided"
    /\ Becomes(w, "waiting") /\ workerLock' = [workerLock EXCEPT ![w] = "free"]
    /\ UNCHANGED <<env, pool, bound, tasks, workerStop, todo, aim, ran>>

WakeSpuriously(w) == at[w] = "waiting" /\ Goes(w, "awake")

\* Behind the wait: m_stop again, and one more try.
Go(w) ==
    /\ at[w] = "go"
    /\ \/ LeaveLoop(w)
       \/ ~workerStop[w] /\ Take(w)
       \/ ~workerStop[w] /\ Queued(w) = {} /\ Goes(w, "loop")

RunWorker(w) == BindWorker(w) \/ Loop(w) \/ Test(w) \/ Wait(w) \/ Go(w)

-----------------------------------------------------------------------------
(* Dispatcher::stop *)

\* After its own tasks; other threads may still dispatch.
BeginStop ==
    /\ at["main"] = "dispatch" /\ todo["main"] = <<>> /\ Env.stops
    /\ Goes("main", "stop")

SetStop(w) ==
    /\ at["main"] = "stop" /\ ~workerStop[w]
    /\ workerStop' = [workerStop EXCEPT ![w] = TRUE]
    /\ IF Env.spin THEN UNCHANGED <<at, aim>> ELSE Becomes("main", "wake") /\ aim' = w
    /\ UNCHANGED <<env, pool, bound, tasks, workerLock, todo, ran>>

WakeToStop ==
    /\ at["main"] = "wake"
    /\ Notifies("main", aim, "stop")
    /\ UNCHANGED <<env, pool, bound, dispatcherVars>>

JoinWorkers ==
    /\ at["main"] = "stop"
    /\ \A w \in Workers : workerStop[w] /\ at[w] = "ended"
    /\ Goes("main", "down")

DispatcherStep(t) ==
    \/ t \in Workers /\ RunWorker(t)
    \/ t \in Producers /\ (Enqueue(t) \/ Notify(t))
    \/ t = "main" /\ ((\E w \in Workers : SetStop(w)) \/ WakeToStop \/ JoinWorkers)

-----------------------------------------------------------------------------
(* Properties *)

\* What p dispatches to w, in order: from the beginning, or by the tasks it ran.
Dispatched(p, w) ==
    LET all == IF p \in Workers THEN FlattenSeq([i \in DOMAIN ran[p] |-> Env.spawns[ran[p][i][2]]])
               ELSE Env.todo[p]
        mine == SelectSeq(all, LAMBDA x : x[1] = w)
    IN  [i \in DOMAIN mine |-> mine[i][2]]

RanFor(p, w) ==
    LET mine == SelectSeq(ran[w], LAMBDA x : x[1] = p) IN [i \in DOMAIN mine |-> mine[i][2]]

\* No wakeup is lost: unless the dispatcher is stopped, every task runs in the end,
\* once and in its producer's order.
EveryTaskRuns ==
    <>[](\/ \E w \in Workers : workerStop[w]
         \/ \A p \in Producers, w \in Workers : RanFor(p, w) = Dispatched(p, w))
=============================================================================
