------------------------------- MODULE MCProcess -------------------------------
(* Scenarios of Process for TLC. *)
EXTENDS Process

\* Three cores with two CPUs each, a CPU that is offline, and one without a topology;
\* the second node has most cores.
Sockets ==
    [online |-> 0..5 \cup {7},
     siblings |-> [c \in 0..7 |-> CASE c \in {0, 4} -> {0, 4} [] c \in {1, 5} -> {1, 5}
                                    [] c \in {2, 3} -> {2, 3} [] OTHER -> {}],
     nodes |-> [n \in 0..1 |-> IF n = 0 THEN {0, 4, 7} ELSE {1, 5, 2, 6, 3}]]

Auto == [explicit |-> FALSE, list |-> <<>>, avoidHT |-> TRUE, node |-> AnyNode]
Listed == [explicit |-> TRUE, list |-> <<<<3, 4>>, <<0, 0>>, <<6, 6>>>>, avoidHT |-> TRUE, node |-> 0]
Unpinned == [Auto EXCEPT !.avoidHT = FALSE]

Begin(places) == [t \in Threads |-> IF t \in DOMAIN places THEN places[t] ELSE "none"]

Nothing ==
    [part |-> "dispatcher", machine |-> Sockets, cpu |-> Unpinned, start |-> Begin(<<>>),
     stops |-> FALSE, spin |-> FALSE, todo |-> [p \in {"main", "app"} |-> <<>>],
     spawns |-> [job \in 1..5 |-> <<>>], timers |-> <<>>, maxTime |-> 0, careful |-> TRUE,
     sessions |-> <<>>, timeout |-> FALSE, malformed |-> FALSE, maxStarts |-> 0]

Pool == [t \in Workers \cup {"main", "app"} |-> IF t \in Workers THEN "born" ELSE "dispatch"]

\* Two threads and a task dispatch, to two workers.
Tasks ==
    [Nothing EXCEPT !.start = Begin(Pool), !.cpu = Auto,
                    !.todo = [main |-> <<<<"w1", 1>>, <<"w1", 2>>>>, app |-> <<<<"w1", 3>>>>],
                    !.spawns = [@ EXCEPT ![3] = <<<<"w2", 4>>, <<"w1", 5>>>>]]

Timed ==
    [Nothing EXCEPT !.part = "timer", !.cpu = Listed,
                    !.start = Begin([main |-> "timing", timer |-> "born"]), !.stops = TRUE,
                    !.timers = <<[delay |-> 2, interval |-> 0], [delay |-> 1, interval |-> 2]>>,
                    !.maxTime = 4]

\* One session; the two of them do not share more than the threads.
Served(kind) ==
    [Nothing EXCEPT !.part = "application", !.start = Begin([main |-> "idle"]),
                    !.sessions = [s \in {"s"} |-> kind], !.maxStarts = 1]

\* No sessions, but the dashboard's thread, and a second start.
Pinned ==
    [Nothing EXCEPT !.part = "application", !.cpu = Auto,
                    !.start = Begin([main |-> "idle", admin |-> "born"]), !.maxStarts = 2]

Processes ==
    [name \in {"tasks", "spinning", "stopped", "timers", "connecting", "accepting", "pinned"} |->
        CASE name = "tasks" -> Tasks
          [] name = "spinning" -> [Tasks EXCEPT !.spin = TRUE, !.stops = TRUE]
          [] name = "stopped" -> [Tasks EXCEPT !.stops = TRUE, !.cpu = Listed,
                                          !.todo = [main |-> <<<<"w1", 1>>>>, app |-> <<<<"w1", 3>>>>]]
          [] name = "timers" -> Timed
          [] name = "connecting" -> Served("initiator")
          [] name = "accepting" -> Served("acceptor")
          [] name = "pinned" -> Pinned]
=============================================================================
