------------------------------ MODULE Application ------------------------------
(***************************************************************************)
(* Application::start and stop, and the threads they create, wake and join: *)
(* the epoll readers, the logger's and the store's FileWriter, and the      *)
(* update thread, which also updates sessions while main stops everything.  *)
(* Sessions are what these threads see of them; Session and Acceptors have  *)
(* the rest.  A session is connected when it has a reader.                  *)
(***************************************************************************)
EXTENDS CpuOrchestrator

CONSTANT Readers        \* the reader threads

Writers == {"logger", "store"}

VARIABLES
    running,            \* Application::m_running
    netRunning,         \* Network::m_running
    listed,             \* Network::m_readerThreads is not empty
    reader,             \* each ReaderThread: m_running, its eventfd, its sockets, its m_mutex
    writer,             \* each FileWriter: m_enabled, and data not in the file
    sess,               \* each session: m_enabled, the readers of its sockets, its handler's m_mutex
    loop,               \* main's and the update thread's loops: what is left, and now
    starts,
    mishaps             \* history: what has gone wrong, see StopIsComplete

applicationVars == <<running, netRunning, listed, reader, writer, sess, loop, starts, mishaps>>

Sessions == DOMAIN Env.sessions
Nobody == "none"

\* "connection" and "port" are the readers that own the session's connection and
\* its listening socket; "stopped" is NetworkHandler::m_stopped.  "closing" is the
\* reader whose mutexes NetworkHandler::disconnect waits for while it holds its own.
NewSessions ==
    [s \in Sessions |-> [enabled |-> TRUE, stopped |-> FALSE, connection |-> Nobody, port |-> Nobody,
                         closing |-> Nobody]]

\* "with" is the session a reader handles at places of its own; "taken": the update
\* thread is in addConnection.
NewReaders(up) ==
    [r \in Readers |-> [running |-> up, event |-> FALSE, closed |-> ~up, taken |-> FALSE, with |-> Nobody]]

ApplicationInit ==
    /\ running = FALSE /\ netRunning = FALSE /\ listed = FALSE
    /\ reader = NewReaders(FALSE)
    /\ writer = [w \in Writers |-> [enabled |-> FALSE, dirty |-> FALSE]]
    /\ sess = NewSessions
    /\ loop = [t \in {"main", "update"} |-> [left |-> {}, now |-> Nobody]]
    /\ starts = 0 /\ mishaps = {}

\* Something was logged, or given to the store.
Dirtied(ws) == [w \in Writers |-> IF w \in ws THEN [writer[w] EXCEPT !.dirty = TRUE] ELSE writer[w]]

Over(t, set) == loop' = [loop EXCEPT ![t] = [left |-> set, now |-> Nobody]]
Takes(t, x) ==
    /\ x \in loop[t].left
    /\ loop' = [loop EXCEPT ![t] = [left |-> @.left \ {x}, now |-> x]]

-----------------------------------------------------------------------------
(* The mutexes that are held while another is waited for: of a handler in     *)
(* disconnect, of a reader in addConnection and while it handles a client's   *)
(* first messages, of a reader's writes while a flush runs a callback.  Others *)
(* are taken and given back in a step.  Network::m_mutex is only held around a *)
(* reader's.                                                                  *)

HandlerFree(s) == sess[s].closing = Nobody
ReaderFree(r) == at[r] \notin {"attach", "answer"} /\ ~reader[r].taken
WritesFree(r) == at[r] \notin {"flushing", "hung"}

\* NetworkHandler::m_connected, which disconnect clears before it waits.
Connected(s) == sess[s].connection # Nobody /\ sess[s].closing = Nobody

-----------------------------------------------------------------------------
(* Application::start *)

\* A core list that cannot be parsed throws out of it.
Start ==
    /\ at["main"] \in {"idle", "down"} /\ ~running /\ starts < Env.maxStarts
    /\ running' = TRUE /\ starts' = starts + 1
    /\ pool' = IF Env.malformed THEN pool ELSE Initialize(pool, Env.cpu, Env.machine)
    /\ Becomes("main", IF Env.malformed THEN "up" ELSE "startLogger")
    /\ UNCHANGED <<env, bound, netRunning, listed, reader, writer, sess, loop, mishaps>>

\* std::thread gives up when the last one has not been joined.
StartWriter(w, from, next) ==
    /\ at["main"] = from
    /\ IF at[w] \in {"none", "ended"} THEN Creates("main", {w}, next)
       ELSE Becomes("main", "terminated") /\ UNCHANGED bound
    /\ UNCHANGED <<env, pool, applicationVars>>

StartNetwork ==
    /\ at["main"] = "startNetwork"
    /\ netRunning' = TRUE /\ listed' = TRUE
    /\ reader' = NewReaders(TRUE)
    /\ Creates("main", Readers, "startUpdate")
    /\ UNCHANGED <<env, pool, running, writer, sess, loop, starts, mishaps>>

StartUpdate ==
    /\ at["main"] = "startUpdate"
    /\ Creates("main", {"update"}, "up")
    /\ UNCHANGED <<env, pool, applicationVars>>

-----------------------------------------------------------------------------
(* Application::stop *)

Stop ==
    /\ at["main"] = "up" /\ running
    /\ running' = FALSE
    /\ Over("main", Sessions)
    /\ Becomes("main", "stopSessions")
    /\ UNCHANGED <<env, pool, bound, netRunning, listed, reader, writer, sess, starts, mishaps>>

\* Session::stop: disabled, and flushed.
StopSession(s) ==
    /\ at["main"] = "stopSessions" /\ Takes("main", s)
    /\ sess' = [sess EXCEPT ![s].enabled = FALSE]
    /\ writer' = Dirtied({"store"})
    /\ Becomes("main", "stopHandler")
    /\ UNCHANGED <<env, pool, bound, running, netRunning, listed, reader, starts, mishaps>>

\* Its NetworkHandler::stop, which works once: a connection is closed
StopHandler ==
    /\ at["main"] = "stopHandler"
    /\ LET s == loop["main"].now
           r == sess[s].connection
       IN  IF sess[s].stopped
           THEN Becomes("main", "stopSessions") /\ UNCHANGED sess
           ELSE /\ HandlerFree(s)
                /\ sess' = [sess EXCEPT ![s].stopped = TRUE, ![s].closing = r]
                /\ Becomes("main", IF r = Nobody THEN "release" ELSE "disconnect")
    /\ UNCHANGED <<env, pool, bound, running, netRunning, listed, reader, writer, loop, starts, mishaps>>

\* by its reader, if it is still there,
Disconnect ==
    /\ at["main"] = "disconnect"
    /\ LET s == loop["main"].now
           r == sess[s].closing
       IN  /\ ReaderFree(r) /\ WritesFree(r)
           /\ sess' = [sess EXCEPT ![s].connection = Nobody, ![s].closing = Nobody]
    /\ Becomes("main", "release")
    /\ UNCHANGED <<env, pool, bound, running, netRunning, listed, reader, writer, loop, starts, mishaps>>

\* and, while the network runs, the accept port given up.  A client that was assigned
\* in between stays until its reader is stopped.
RemoveAcceptor ==
    /\ at["main"] = "release"
    /\ LET s == loop["main"].now
       IN  IF netRunning
           THEN /\ \A r \in Readers : r = sess[s].port => ReaderFree(r)
                /\ sess' = [sess EXCEPT ![s].port = Nobody]
           ELSE UNCHANGED sess
    /\ Becomes("main", "stopSessions")
    /\ UNCHANGED <<env, pool, bound, running, netRunning, listed, reader, writer, loop, starts, mishaps>>

StopNetwork ==
    /\ at["main"] = "stopSessions" /\ loop["main"].left = {}
    /\ netRunning' = FALSE
    /\ Over("main", Readers)
    /\ Becomes("main", IF netRunning THEN "stopReaders" ELSE "stopLogger")
    /\ UNCHANGED <<env, pool, bound, running, listed, reader, writer, sess, starts, mishaps>>

\* ReaderThread::stop: first the flag.
StopReader(r) ==
    /\ at["main"] = "stopReaders" /\ Takes("main", r)
    /\ reader' = [reader EXCEPT ![r].running = FALSE]
    /\ Becomes("main", "wakeReader")
    /\ UNCHANGED <<env, pool, bound, running, netRunning, listed, writer, sess, starts, mishaps>>


\* The eventfd is level-triggered.
Signal(r) == [reader EXCEPT ![r].event = TRUE, ![r].closed = TRUE]

\* Then the eventfd, every socket of the reader and what it has to write.
WakeReader ==
    LET r == loop["main"].now
        Without(x) == IF x = r THEN Nobody ELSE x
    IN  /\ at["main"] = "wakeReader" /\ ReaderFree(r) /\ WritesFree(r)
        /\ reader' = Signal(r)
        /\ sess' = [s \in Sessions |-> [sess[s] EXCEPT !.connection = Without(@), !.port = Without(@)]]
        /\ Becomes("main", "stopReaders")
        /\ UNCHANGED <<env, pool, bound, running, netRunning, listed, writer, loop, starts, mishaps>>

JoinReaders ==
    /\ at["main"] = "stopReaders" /\ loop["main"].left = {}
    /\ \A r \in Readers : at[r] = "ended"
    /\ listed' = FALSE
    /\ Becomes("main", "stopLogger")
    /\ UNCHANGED <<env, pool, bound, running, netRunning, reader, writer, sess, loop, starts, mishaps>>

\* FileWriter::stop does nothing as long as the thread has not enabled itself.
StopWriter(w, from, joins, next) ==
    /\ at["main"] = from
    /\ IF writer[w].enabled
       THEN /\ writer' = [writer EXCEPT ![w].enabled = FALSE]
            /\ Becomes("main", joins) /\ UNCHANGED mishaps
       ELSE Becomes("main", next) /\ mishaps' = mishaps \cup {"early"} /\ UNCHANGED writer
    /\ UNCHANGED <<env, pool, bound, running, netRunning, listed, reader, sess, loop, starts>>

\* What the thread has not got to is not written.
NoLastFlushOf(w) == writer

\* After the thread, what is left is written.
LastFlushOf(w) == [writer EXCEPT ![w].dirty = FALSE]

JoinWriter(w, joins, next) ==
    /\ at["main"] = joins /\ at[w] = "ended"
    /\ writer' = LastFlushOf(w)
    /\ Becomes("main", next)
    /\ UNCHANGED <<env, pool, bound, running, netRunning, listed, reader, sess, loop, starts, mishaps>>

\* A thread that start has not come to cannot be joined: that throws.
JoinUpdate ==
    /\ at["main"] = "joinUpdate" /\ at["update"] \in {"none", "ended"}
    /\ Becomes("main", IF at["update"] = "none" THEN "terminated" ELSE "down")
    /\ UNCHANGED <<env, pool, bound, applicationVars>>

MainStep ==
    \/ StartWriter("logger", "startLogger", "startStore")
    \/ StartWriter("store", "startStore", "startNetwork") \/ StartNetwork \/ StartUpdate
    \/ (\E s \in Sessions : StopSession(s)) \/ StopHandler \/ Disconnect \/ RemoveAcceptor
    \/ StopNetwork \/ (\E r \in Readers : StopReader(r)) \/ WakeReader \/ JoinReaders
    \/ StopWriter("logger", "stopLogger", "joinLogger", "stopStore")
    \/ JoinWriter("logger", "joinLogger", "stopStore")
    \/ StopWriter("store", "stopStore", "joinStore", "joinUpdate")
    \/ JoinWriter("store", "joinStore", "joinUpdate")
    \/ JoinUpdate

-----------------------------------------------------------------------------
(* The update thread: runUpdate over the sessions without a connection *)

Lateness == IF running THEN mishaps ELSE mishaps \cup {"late"}

UpdateLoop ==
    /\ at["update"] = "loop"
    /\ IF running THEN Becomes("update", "update") /\ Over("update", Sessions) /\ UNCHANGED bound
       ELSE Ends("update") /\ UNCHANGED loop
    /\ UNCHANGED <<env, pool, running, netRunning, listed, reader, writer, sess, starts, mishaps>>

\* onNetworkUpdate: a flush, and the network is started when its interval is over.
UpdateSession(s) ==
    /\ at["update"] = "update" /\ Takes("update", s)
    /\ IF ~Connected(s) /\ sess[s].enabled
       THEN /\ writer' = Dirtied(Writers) /\ mishaps' = Lateness
            /\ at' \in {[at EXCEPT !["update"] = place] : place \in {"check", "update"}}
       ELSE UNCHANGED <<at, writer, mishaps>>
    /\ UNCHANGED <<env, pool, bound, running, netRunning, listed, reader, sess, starts>>

\* NetworkHandler::start: nothing to do without a network, or on an open port.
UpdateCheck ==
    /\ at["update"] = "check"
    /\ LET s == loop["update"].now
       IN  /\ \A r \in Readers : r = sess[s].port => ReaderFree(r)
           /\ Becomes("update", IF netRunning /\ (Env.sessions[s] = "acceptor" => sess[s].port = Nobody)
                                THEN "starting" ELSE "update")
    /\ UNCHANGED <<env, pool, bound, applicationVars>>

\* The socket is made, which may take long, and given to a reader of the vector.
UpdateAttach ==
    /\ at["update"] = "starting"
    /\ LET s == loop["update"].now
       IN  IF ~listed
           THEN Becomes("update", "crashed") /\ mishaps' = mishaps \cup {"undefined"} /\ UNCHANGED <<sess, reader>>
           ELSE \E r \in Readers :
                   /\ ReaderFree(r)
                   /\ \/ /\ Env.sessions[s] = "initiator" /\ Becomes("update", "attaching")
                         /\ reader' = [reader EXCEPT ![r].taken = TRUE] /\ UNCHANGED <<sess, mishaps>>
                      \/ /\ Env.sessions[s] = "acceptor" /\ Becomes("update", "update")
                         /\ sess' = [sess EXCEPT ![s].port = r] /\ mishaps' = Lateness /\ UNCHANGED reader
    /\ UNCHANGED <<env, pool, bound, running, netRunning, listed, writer, loop, starts>>

\* Under the mutex of the reader the handler's is taken.
UpdateConnects ==
    /\ at["update"] = "attaching" /\ HandlerFree(loop["update"].now)
    /\ \E r \in Readers :
          /\ reader[r].taken
          /\ sess' = [sess EXCEPT ![loop["update"].now].connection = r]
          /\ reader' = [reader EXCEPT ![r].taken = FALSE]
    /\ Becomes("update", "update") /\ mishaps' = Lateness
    /\ UNCHANGED <<env, pool, bound, running, netRunning, listed, writer, loop, starts>>

ConnectFails ==
    /\ at["update"] = "starting" /\ Becomes("update", "update")
    /\ UNCHANGED <<env, pool, bound, applicationVars>>

UpdateDone ==
    /\ at["update"] = "update" /\ loop["update"].left = {}
    /\ Becomes("update", "loop")
    /\ UNCHANGED <<env, pool, bound, applicationVars>>

RunUpdate ==
    \/ Bind("update", "loop") /\ UNCHANGED applicationVars
    \/ UpdateLoop \/ (\E s \in Sessions : UpdateSession(s)) \/ UpdateCheck
    \/ UpdateAttach \/ UpdateConnects \/ ConnectFails \/ UpdateDone

-----------------------------------------------------------------------------
(* Reader threads and file writers *)

ReaderLoop(r) ==
    /\ at[r] = "loop"
    /\ IF reader[r].running THEN Becomes(r, "epoll") /\ UNCHANGED bound ELSE Ends(r)
    /\ UNCHANGED <<env, pool, applicationVars>>

\* Without a timeout (EpollTimeout = -1) only its sockets and the eventfd wake it.
EpollReturns(r) ==
    /\ at[r] = "epoll"
    /\ \/ reader[r].event \/ Env.timeout
       \/ \E s \in Sessions : ~reader[r].closed /\ r \in {sess[s].connection, sess[s].port}
    /\ Becomes(r, "round") /\ reader' = [reader EXCEPT ![r].event = FALSE]
    /\ UNCHANGED <<env, pool, bound, running, netRunning, listed, writer, sess, loop, starts, mishaps>>

\* A round without another thread's mutex but for a moment, which a reader needs in
\* any: messages and updates of sessions, a connection that is gone.
Round(r) ==
    /\ at[r] = "round" /\ ReaderFree(r) /\ Becomes(r, "loop")
    /\ \/ UNCHANGED <<sess, writer>>
       \/ \E s \in Sessions :
             sess[s].connection = r /\ HandlerFree(s) /\ UNCHANGED sess /\ writer' = Dirtied(Writers)
       \/ \E s \in Sessions :
             /\ ~reader[r].closed /\ sess[s].connection = r
             /\ sess' = [sess EXCEPT ![s].connection = Nobody] /\ writer' = Dirtied({"logger"})
    /\ UNCHANGED <<env, pool, bound, running, netRunning, listed, reader, loop, starts, mishaps>>

\* A session is terminated: by a message or its update, which hold nothing, or by the
\* callback of a Logout that had to wait, which a flush calls under the write mutex.
Terminate(r) ==
    /\ at[r] = "round"
    /\ \E s \in Sessions :
          /\ ~reader[r].closed /\ sess[s].connection = r /\ HandlerFree(s)
          /\ sess' = [sess EXCEPT ![s].closing = r] /\ reader' = [reader EXCEPT ![r].with = s]
    /\ at' \in {[at EXCEPT ![r] = place] : place \in {"closing", "flushing"}}
    /\ writer' = Dirtied(Writers)
    /\ UNCHANGED <<env, pool, bound, running, netRunning, listed, loop, starts, mishaps>>

Leaves(r) == reader' = [reader EXCEPT ![r].with = Nobody]

\* ReaderThread::disconnect by the reader itself.
Close(r) ==
    LET s == reader[r].with
    IN  /\ at[r] = "closing" /\ ReaderFree(r) /\ Becomes(r, "loop") /\ Leaves(r)
        /\ sess' = [sess EXCEPT ![s].connection = Nobody, ![s].closing = Nobody]
        /\ UNCHANGED <<env, pool, bound, running, netRunning, listed, writer, loop, starts, mishaps>>

\* Under a flush it then waits for the write mutex, which its own thread has.
Hang(r) ==
    /\ at[r] = "flushing" /\ ReaderFree(r) /\ Becomes(r, "hung")
    /\ sess' = [sess EXCEPT ![reader[r].with].connection = Nobody]
    /\ UNCHANGED <<env, pool, bound, running, netRunning, listed, reader, writer, loop, starts, mishaps>>

\* First messages of a client: it is assigned to its session under the reader's mutex.
Assign(r) ==
    /\ at[r] = "round" /\ ReaderFree(r) /\ ~reader[r].closed
    /\ \E s \in Sessions : /\ ~Connected(s) /\ sess[s].port # Nobody
                            /\ reader' = [reader EXCEPT ![r].with = s]
    /\ Becomes(r, "attach") /\ writer' = Dirtied({"logger"})
    /\ UNCHANGED <<env, pool, bound, running, netRunning, listed, sess, loop, starts, mishaps>>

\* addConnection; some messages are not answered.
Attach(r) ==
    /\ at[r] = "attach" /\ HandlerFree(reader[r].with)
    /\ sess' = [sess EXCEPT ![reader[r].with].connection = r]
    /\ \/ Becomes(r, "answer") /\ UNCHANGED reader
       \/ Becomes(r, "loop") /\ Leaves(r)
    /\ writer' = Dirtied(Writers)
    /\ UNCHANGED <<env, pool, bound, running, netRunning, listed, loop, starts, mishaps>>

\* The messages are answered, or end the connection, still under that mutex.
Answer(r) ==
    /\ at[r] = "answer" /\ HandlerFree(reader[r].with) /\ Becomes(r, "loop") /\ Leaves(r)
    /\ sess' \in {sess, [sess EXCEPT ![reader[r].with].connection = Nobody]}
    /\ writer' = Dirtied(Writers)
    /\ UNCHANGED <<env, pool, bound, running, netRunning, listed, loop, starts, mishaps>>

RunReader(r) ==
    \/ Bind(r, "loop") /\ UNCHANGED applicationVars
    \/ ReaderLoop(r) \/ EpollReturns(r) \/ Round(r)
    \/ Terminate(r) \/ Close(r) \/ Hang(r) \/ Assign(r) \/ Attach(r) \/ Answer(r)

EnableWriter(w) ==
    /\ at[w] = "enable" /\ Becomes(w, "scan")
    /\ writer' = [writer EXCEPT ![w].enabled = TRUE]
    /\ UNCHANGED <<env, pool, bound, running, netRunning, listed, reader, sess, loop, starts, mishaps>>

\* Looks for marked instances as long as it is enabled.
Scan(w) ==
    /\ at[w] = "scan"
    /\ IF writer[w].enabled
       THEN writer[w].dirty /\ writer' = [writer EXCEPT ![w].dirty = FALSE] /\ UNCHANGED <<at, bound>>
       ELSE Ends(w) /\ UNCHANGED writer
    /\ UNCHANGED <<env, pool, running, netRunning, listed, reader, sess, loop, starts, mishaps>>

RunWriter(w) ==
    \/ Bind(w, "enable") /\ UNCHANGED applicationVars
    \/ EnableWriter(w) \/ Scan(w)

\* The dashboard's thread; what its routes do is in Session.
RunAdmin == Bind("admin", "serving") /\ UNCHANGED applicationVars

ApplicationStep(t) ==
    \/ t = "main" /\ MainStep
    \/ t = "update" /\ RunUpdate
    \/ t \in Readers /\ RunReader(t)
    \/ t \in Writers /\ RunWriter(t)
    \/ t = "admin" /\ RunAdmin

-----------------------------------------------------------------------------
(* Properties *)

\* When stop has returned, its threads have ended, no session has a socket and
\* everything logged or stored is in the files.  Two mishaps excepted: the update
\* thread, which is joined last, still updated sessions; a writer was stopped
\* before its thread had enabled itself.
StopIsComplete ==
    at["main"] = "down" /\ mishaps = {} =>
        /\ \A t \in Readers \cup Writers \cup {"update"} : at[t] \in {"none", "ended"}
        /\ \A s \in Sessions : sess[s].connection = Nobody /\ sess[s].port = Nobody
        /\ \A w \in Writers : ~writer[w].dirty
=============================================================================
