--------------------------------- MODULE Timer ---------------------------------
(***************************************************************************)
(* Timer: callbacks that a thread of its own runs when they are due.  The   *)
(* timer thread fires everything due under m_mutex, and waits for the next  *)
(* event without having freed it; schedule, erase and the destructor take   *)
(* the mutex.  m_stop is looked at before the mutex is taken.               *)
(*                                                                          *)
(* Callbacks do not call the timer: it would wait for its own mutex.  The   *)
(* order of events of one millisecond is left out, and so is an interval    *)
(* of 0, for which the thread never leaves its pass.                        *)
(***************************************************************************)
EXTENDS CpuOrchestrator

VARIABLES
    clock,          \* getEpochMillis
    timers,         \* m_timers: by id, the interval, or OneShot
    events,         \* m_events, as a set of what is due when
    timerCount,
    timerLock, timerStop,
    gap,            \* how long the thread is about to wait, or Forever
    nextSet,        \* the local "next" has been assigned
    deadline,       \* when its wait ends, or Forever
    asked, fired,   \* history: when each timer was first due, when it fired
    erased          \* history: ids for which erase has returned

timerVars == <<clock, timers, events, timerCount, timerLock, timerStop, gap, nextSet,
               deadline, asked, fired, erased>>

OneShot == 0
Forever == -1

TimerInit ==
    /\ clock = 0 /\ timers = <<>> /\ events = {} /\ timerCount = 0
    /\ timerLock = "free" /\ timerStop = FALSE
    /\ gap = Forever /\ nextSet = FALSE /\ deadline = Forever
    /\ asked = <<>> /\ fired = <<>> /\ erased = {}

-----------------------------------------------------------------------------
(* schedule, erase and the destructor *)

\* notify_one, when the thread waits.
Roused == [at EXCEPT !["timer"] = IF @ = "waiting" THEN "awake" ELSE @]

Schedule ==
    /\ at["main"] = "timing" /\ timerLock = "free"
    /\ timerCount < Len(Env.timers)
    /\ LET id == timerCount + 1
           due == clock + Env.timers[id].delay
       IN  /\ timerCount' = id
           /\ timers' = [i \in DOMAIN timers \cup {id} |->
                            IF i = id THEN Env.timers[id].interval ELSE timers[i]]
           /\ events' = events \cup {[due |-> due, id |-> id]}
           /\ asked' = Append(asked, due) /\ fired' = Append(fired, <<>>)
    /\ at' = Roused
    /\ UNCHANGED <<env, pool, bound, clock, timerLock, timerStop, gap, nextSet, deadline, erased>>

\* The event stays.
Erase(id) ==
    /\ at["main"] = "timing" /\ timerLock = "free"
    /\ id \notin erased
    /\ timers' = [i \in DOMAIN timers \ {id} |-> timers[i]]
    /\ erased' = erased \cup {id}
    /\ at' = Roused
    /\ UNCHANGED <<env, pool, bound, clock, events, timerCount, timerLock, timerStop, gap,
                   nextSet, deadline, asked, fired>>

\* In careful scenarios a repeating timer keeps the thread from waiting without end.
Destroy ==
    /\ at["main"] = "timing" /\ timerLock = "free" /\ Env.stops
    /\ Env.careful => \E id \in DOMAIN timers : timers[id] # OneShot
    /\ timerStop' = TRUE
    /\ at' = [Roused EXCEPT !["main"] = "stop"]
    /\ UNCHANGED <<env, pool, bound, clock, timers, events, timerCount, timerLock, gap, nextSet,
                   deadline, asked, fired, erased>>

JoinTimer ==
    /\ at["main"] = "stop" /\ at["timer"] = "ended"
    /\ Becomes("main", "down")
    /\ UNCHANGED <<env, pool, bound, timerVars>>

-----------------------------------------------------------------------------
(* Timer::run *)

TimerLoop ==
    /\ at["timer"] = "loop"
    /\ IF timerStop THEN Ends("timer") ELSE Becomes("timer", "lock") /\ UNCHANGED bound
    /\ UNCHANGED <<env, pool, timerVars>>

\* One millisecond early.
DueNearly(time) == {e \in events : e.due <= time + 1}

Due(time) == {e \in events : e.due <= time}

\* The pass and the wait lock separately.
LockAfterPassFree == "free"

\* Who holds the mutex between the pass and the wait.
LockAfterPass == "timer"

\* The clock is read once; what repeats is due an interval after that.  "next" is
\* set when an event is left; otherwise it keeps an earlier, passed time, or is
\* uninitialized and may be anything.
Pass ==
    /\ at["timer"] = "lock" /\ timerLock = "free"
    /\ LET fires == {e.id : e \in Due(clock)} \cap DOMAIN timers
           again == {id \in fires : timers[id] # OneShot}
           left == (events \ Due(clock)) \cup {[due |-> clock + timers[id], id |-> id] : id \in again}
       IN  /\ fired' = [id \in DOMAIN fired |->
                           IF id \in fires THEN Append(fired[id], clock) ELSE fired[id]]
           /\ timers' = [id \in (DOMAIN timers \ fires) \cup again |-> timers[id]]
           /\ events' = left
           /\ nextSet' = (nextSet \/ left # {})
           /\ gap' \in IF left # {} THEN {Least({e.due : e \in left}) - clock}
                       ELSE {Forever} \cup (IF nextSet THEN {} ELSE {0})
    /\ Becomes("timer", "decided") /\ timerLock' = LockAfterPass
    /\ UNCHANGED <<env, pool, bound, clock, timerCount, timerStop, deadline, asked, erased>>

TimerWait ==
    /\ at["timer"] = "decided"
    /\ Becomes("timer", "waiting") /\ timerLock' = "free"
    /\ deadline' = IF gap = Forever THEN Forever ELSE clock + gap
    /\ UNCHANGED <<env, pool, bound, clock, timers, events, timerCount, timerStop, gap, nextSet,
                   asked, fired, erased>>

TimesOut ==
    /\ at["timer"] = "waiting" /\ deadline # Forever /\ clock >= deadline
    /\ Becomes("timer", "awake")
    /\ UNCHANGED <<env, pool, bound, timerVars>>

TimerWakesSpuriously ==
    /\ at["timer"] = "waiting" /\ Becomes("timer", "awake")
    /\ UNCHANGED <<env, pool, bound, timerVars>>

\* The wait ends with the mutex, which is freed at the end of the round.
Resume ==
    /\ at["timer"] = "awake" /\ timerLock = "free"
    /\ Becomes("timer", "loop")
    /\ UNCHANGED <<env, pool, bound, timerVars>>

RunTimer ==
    \/ Bind("timer", "loop") /\ UNCHANGED timerVars
    \/ TimerLoop \/ Pass \/ TimerWait \/ TimesOut \/ Resume

\* Time passes up to a bound, and beyond it as long as an event is late or the
\* thread has to be joined.
Late == \/ \E e \in events : e.due <= clock /\ e.id \in DOMAIN timers
        \/ timerStop /\ at["timer"] = "waiting"

TimePasses ==
    /\ clock < Env.maxTime \/ (Late /\ deadline > clock)
    /\ clock' = clock + 1
    /\ UNCHANGED <<threadVars, timers, events, timerCount, timerLock, timerStop, gap, nextSet,
                   deadline, asked, fired, erased>>

TimerStep(t) ==
    \/ t = "timer" /\ RunTimer
    \/ t = "main" /\ JoinTimer

-----------------------------------------------------------------------------
(* Properties *)

\* No timer fires before it is due or after erase has returned, a one-shot fires
\* once, and a repeating one not sooner than its interval after the last time.
TimersOnTime ==
    [][\A id \in DOMAIN fired : fired'[id] # fired[id] =>
          /\ id \notin erased
          /\ fired'[id] = Append(fired[id], clock)
          /\ IF fired[id] = <<>> THEN clock >= asked[id]
             ELSE /\ Env.timers[id].interval # OneShot
                  /\ clock >= Last(fired[id]) + Env.timers[id].interval]_fired

\* No wakeup is lost: unless it is erased or the timer destroyed, what is due
\* within the time that passes fires in the end.
EveryTimerFires ==
    <>[](\A id \in DOMAIN fired :
            \/ id \in erased \/ timerStop \/ asked[id] > Env.maxTime
            \/ fired[id] # <<>>)
=============================================================================
