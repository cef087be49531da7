-------------------------------- MODULE Acceptors --------------------------------
(***************************************************************************)
(* How the sessions of one accept port get their connections: the acceptor  *)
(* and connection tables of Network and ReaderThread (src/src/Network.cpp), *)
(* their locks, and the edge-triggered epoll of the reader threads.  Reader *)
(* threads accept connections, assign each by its first message and close   *)
(* it when its peer hangs up; the update thread opens the port; an          *)
(* application thread stops and restarts sessions.                          *)
(*                                                                          *)
(* Descriptors are numbers, the lowest free one is taken first, and a       *)
(* closed one is used again.  Whatever is on the wire behind the first      *)
(* message of a peer is one flag.  No TLS.                                  *)
(***************************************************************************)
EXTENDS Integers, Sequences, FiniteSetsExt, Functions

CONSTANTS
    Sessions,       \* sessions of the port
    Readers,        \* number of reader threads (InputThreads)
    MaxFd,          \* bound: descriptors, one of them the listening socket's
    MaxPeers,       \* bound: connections made by clients
    MaxStarts       \* bound: sessions started again

ASSUME AcceptorsAssumption ==
    /\ {Readers, MaxFd, MaxPeers} \subseteq Nat \ {0} /\ MaxStarts \in Nat
    /\ "none" \notin Sessions
    /\ MaxFd > MaxPeers

Fds == 1..MaxFd
Peers == 1..MaxPeers
ReaderThreads == 0..Readers - 1
Owner(f) == f % Readers     \* m_readerThreads[fd % m_readerThreadCount]
Update == Readers           \* the thread of Application::runUpdate
App == Readers + 1          \* the thread that stops and starts sessions
Threads == ReaderThreads \cup {Update, App}
Nobody == Readers + 2

VARIABLES
    acceptor,       \* Network::m_acceptors of the port: a descriptor, or 0
    listeners,      \* ReaderThread::m_acceptorSockets: descriptor -> its sessions
    unknown,        \* m_unknownConnections: descriptor -> listening socket, 0 once
                    \* its Acceptor has been emptied
    known,          \* m_connections: descriptor -> session
    handle,         \* NetworkHandler::m_connection: the descriptor, or 0
    valid,          \* NetworkHandler::m_valid
    connected,      \* NetworkHandler::m_connected
    enabled,        \* Session::m_enabled
    stopped,        \* NetworkHandler::m_stopped
    starts,         \* sessions started again so far
    networkMutex,   \* who holds Network::m_mutex
    readerMutex,    \* who holds each ReaderThread::m_mutex
    handlerMutex,   \* who holds each NetworkHandler::m_mutex
    at, fd, who,    \* where each thread is, with which descriptor and session
    batch,          \* what epoll_wait returned and the reader has not handled
    listening,      \* descriptors of listening sockets
    open,           \* descriptor -> the peer it is connected to
    watched,        \* descriptors registered with epoll
    edges,          \* descriptors with an event that was not reported yet
    backlog,        \* peers that connected and were not accepted
    names,          \* per peer, the session its first message is for
    unread,         \* peers with data that was not read
    gone            \* peers that closed their end

tables == <<acceptor, listeners, unknown, known>>
handlers == <<handle, valid, connected>>
sessions == <<enabled, stopped, starts>>
locks == <<networkMutex, readerMutex, handlerMutex>>
threads == <<at, fd, who>>
sockets == <<listening, open, watched, edges>>
peers == <<backlog, names, unread, gone>>
vars == <<tables, handlers, sessions, locks, threads, batch, sockets, peers>>

Init ==
    /\ acceptor = 0 /\ listeners = <<>> /\ unknown = <<>> /\ known = <<>>
    /\ handle = [s \in Sessions |-> 0] /\ valid = [s \in Sessions |-> TRUE]
    /\ connected = [s \in Sessions |-> FALSE]
    /\ enabled = [s \in Sessions |-> TRUE] /\ stopped = [s \in Sessions |-> FALSE]
    /\ starts = 0
    /\ networkMutex = Nobody /\ readerMutex = [r \in ReaderThreads |-> Nobody]
    /\ handlerMutex = [s \in Sessions |-> Nobody]
    /\ at = [t \in Threads |-> "idle"] /\ fd = [t \in Threads |-> 0]
    /\ who = [t \in Threads |-> "none"]
    /\ batch = [r \in ReaderThreads |-> {}]
    /\ listening = {} /\ open = <<>> /\ watched = {} /\ edges = {}
    /\ backlog = <<>> /\ names = <<>> /\ unread = {} /\ gone = {}

-----------------------------------------------------------------------------
(* Helpers *)

With(f, x, y) == [z \in DOMAIN f \cup {x} |-> IF z = x THEN y ELSE f[z]]
Without(f, x) == Restrict(f, DOMAIN f \ {x})
FreeFds == Fds \ (listening \cup DOMAIN open)

Goes(t, pc, f, s) ==
    /\ at' = [at EXCEPT ![t] = pc] /\ fd' = [fd EXCEPT ![t] = f] /\ who' = [who EXCEPT ![t] = s]

\* The recursive m_mutex of the reader that owns f.
Lockable(t, f) == readerMutex[Owner(f)] \in {Nobody, t}

\* A lock that is kept.
Unheld(t) == readerMutex
Released(t) == [r \in ReaderThreads |-> IF readerMutex[r] = t THEN Nobody ELSE readerMutex[r]]

\* Events that are there when a descriptor is registered are reported.
HasEvent(f) ==
    \/ f \in listening /\ backlog # <<>>
    \/ f \in DOMAIN open /\ open[f] \in unread \cup gone

Watch(f) ==
    /\ watched' = watched \cup {f}
    /\ edges' = IF HasEvent(f) THEN edges \cup {f} ELSE edges

\* close(2), whatever the descriptor is by now.
CloseFd(f) ==
    /\ open' = Without(open, f) /\ listening' = listening \ {f}
    /\ watched' = watched \ {f} /\ edges' = edges \ {f}

\* The peer's next data or its end is an event of a watched descriptor.
Signals(p) == {f \in DOMAIN open \cap watched : open[f] = p}

-----------------------------------------------------------------------------
(* Clients *)

\* A client connects while the port is open; an epoll that watches the listening
\* socket gets one edge for any number of connections.
Dial ==
    /\ listening # {} /\ Len(names) < MaxPeers
    /\ \E s \in Sessions : names' = Append(names, s)
    /\ backlog' = Append(backlog, Len(names) + 1)
    /\ edges' = edges \cup (listening \cap watched)
    /\ UNCHANGED <<tables, handlers, sessions, locks, threads, batch, listening, open, watched,
                   unread, gone>>

Speak(p) ==
    /\ p <= Len(names) /\ p \notin gone \cup unread
    /\ unread' = unread \cup {p} /\ edges' = edges \cup Signals(p)
    /\ UNCHANGED <<tables, handlers, sessions, locks, threads, batch, listening, open, watched,
                   backlog, names, gone>>

Leave(p) ==
    /\ p <= Len(names) /\ p \notin gone
    /\ gone' = gone \cup {p} /\ edges' = edges \cup Signals(p)
    /\ UNCHANGED <<tables, handlers, sessions, locks, threads, batch, listening, open, watched,
                   backlog, names, unread>>

-----------------------------------------------------------------------------
(* A reader thread *)

Kind(f) == IF f \in DOMAIN open /\ open[f] \in gone THEN "hangup" ELSE "read"

\* epoll_wait returns one event for each descriptor that has one.
EpollWait(r) ==
    /\ at[r] = "idle" /\ batch[r] = {}
    /\ LET mine == {f \in edges : Owner(f) = r}
       IN  /\ mine # {}
           /\ batch' = [batch EXCEPT ![r] = {<<f, Kind(f)>> : f \in mine}]
           /\ edges' = edges \ mine
    /\ UNCHANGED <<tables, handlers, sessions, locks, threads, listening, open, watched, peers>>

Takes(r, f, kind) ==
    /\ at[r] = "idle" /\ <<f, kind>> \in batch[r]
    /\ batch' = [batch EXCEPT ![r] = @ \ {<<f, kind>>}]

\* NetworkHandler::invalidate of the session that has f.
Invalidate(f) ==
    LET others == {s \in Sessions : f \notin DOMAIN known \/ known[f] # s}
    IN  /\ valid' = [s \in Sessions |-> valid[s] /\ s \in others]
        /\ connected' = [s \in Sessions |-> connected[s] /\ s \in others]

\* A disconnect that leaves the connection in the table.
DisconnectKeepsEntry(f) ==
    /\ CloseFd(f) /\ Invalidate(f)
    /\ unknown' = IF f \in DOMAIN known THEN unknown ELSE Without(unknown, f)
    /\ UNCHANGED <<acceptor, listeners, known>>

\* ReaderThread::disconnect: whichever session has the descriptor is told.
Disconnect(f) ==
    /\ CloseFd(f) /\ Invalidate(f)
    /\ known' = Without(known, f)
    /\ unknown' = IF f \in DOMAIN known THEN unknown ELSE Without(unknown, f)
    /\ UNCHANGED <<acceptor, listeners>>

HangUp(r, f) ==
    /\ Takes(r, f, "hangup") /\ readerMutex[r] = Nobody
    /\ Disconnect(f)
    /\ UNCHANGED <<handle, sessions, locks, threads, peers>>

\* processRead of a connection that has a session: the messages are handled without
\* the lock, and the session may decide to disconnect.
ReadKnown(r, f) ==
    /\ Takes(r, f, "read") /\ readerMutex[r] = Nobody
    /\ f \in DOMAIN known
    /\ unread' = IF f \in DOMAIN open THEN unread \ {open[f]} ELSE unread
    /\ \/ Goes(r, "idle", 0, "none")
       \/ Goes(r, "end", 0, known[f])
    /\ UNCHANGED <<tables, handlers, sessions, locks, sockets, backlog, names, gone>>

\* The update of a session at the end of the loop may decide to disconnect.
Tick(r) ==
    /\ at[r] = "idle" /\ batch[r] = {} /\ readerMutex[r] = Nobody
    /\ \E f \in DOMAIN known : Owner(f) = r /\ Goes(r, "end", 0, known[f])
    /\ UNCHANGED <<tables, handlers, sessions, locks, batch, sockets, peers>>

\* processRead of a listening socket: Network::accept holds the reader's lock, and
\* takes one connection.
ReadListener(r, f) ==
    /\ Takes(r, f, "read") /\ readerMutex[r] = Nobody
    /\ f \notin DOMAIN known /\ f \in DOMAIN listeners
    /\ readerMutex' = [readerMutex EXCEPT ![r] = r]
    /\ Goes(r, "accept", f, "none")
    /\ UNCHANGED <<tables, handlers, sessions, networkMutex, handlerMutex, sockets, peers>>

Accept(r) ==
    /\ at[r] = "accept" /\ backlog # <<>>
    /\ LET new == Min(FreeFds)
       IN  open' = With(open, new, Head(backlog)) /\ Goes(r, "hand", new, "none")
    /\ backlog' = Tail(backlog)
    /\ UNCHANGED <<tables, handlers, sessions, locks, batch, listening, watched, edges, names,
                   unread, gone>>

\* ReaderThread::accept
AddUnknown(f) == unknown' = With(unknown, f, acceptor)

\* The reader that owns the new descriptor gets it, and its epoll after that.
HandOver(r) ==
    /\ at[r] = "hand" /\ Lockable(r, fd[r])
    /\ AddUnknown(fd[r])
    /\ Watch(fd[r])
    /\ readerMutex' = Released(r)
    /\ Goes(r, "idle", 0, "none")
    /\ UNCHANGED <<acceptor, listeners, known, handlers, sessions, networkMutex, handlerMutex, batch,
                   listening, open, peers>>

\* A connection that is dropped but not closed.
RefuseOpen(f) == UNCHANGED sockets
Refuse(f) == CloseFd(f)

\* The first message of a connection decides about it.
ReadUnknown(r, f) ==
    /\ Takes(r, f, "read") /\ readerMutex[r] = Nobody
    /\ f \notin DOMAIN known \cup DOMAIN listeners /\ f \in DOMAIN unknown
    /\ LET s == names[open[f]]
       IN  IF open[f] \notin unread
           THEN UNCHANGED <<unknown, unread, readerMutex, threads, sockets>>
           ELSE /\ unknown' = Without(unknown, f) /\ unread' = unread \ {open[f]}
                /\ IF unknown[f] # 0 /\ s \in listeners[unknown[f]] /\ ~connected[s]
                   THEN /\ readerMutex' = [readerMutex EXCEPT ![r] = r] /\ Goes(r, "assign", f, s)
                        /\ UNCHANGED sockets
                   ELSE Refuse(f) /\ UNCHANGED <<readerMutex, threads>>
    /\ UNCHANGED <<acceptor, listeners, known, handlers, sessions, networkMutex, handlerMutex,
                   backlog, names, gone>>

\* NetworkHandler::setConnection
SetConnection(s, f) ==
    /\ handle' = [handle EXCEPT ![s] = f]
    /\ valid' = [valid EXCEPT ![s] = TRUE] /\ connected' = [connected EXCEPT ![s] = TRUE]

\* ReaderThread::addConnection
AddConnection(s, f) == SetConnection(s, f) /\ known' = With(known, f, s)

\* The reader's lock is held, and the handler's is taken.
Assign(r) ==
    /\ at[r] = "assign" /\ handlerMutex[who[r]] = Nobody
    /\ AddConnection(who[r], fd[r])
    /\ Goes(r, "first", fd[r], who[r])
    /\ UNCHANGED <<acceptor, listeners, unknown, sessions, locks, batch, sockets, peers>>

Leaves(r) == Goes(r, "idle", 0, "none") /\ readerMutex' = Released(r)
Ends(r) == Goes(r, "end", 0, who[r]) /\ UNCHANGED readerMutex

\* The first messages are handled with the reader's lock.  A session answers only if it
\* finds itself connected ...
First(r) ==
    /\ at[r] = "first"
    /\ \/ Leaves(r) \/ Ends(r)
       \/ connected[who[r]] /\ Goes(r, "reply", fd[r], who[r]) /\ UNCHANGED readerMutex
    /\ UNCHANGED <<tables, handlers, sessions, networkMutex, handlerMutex, batch, sockets, peers>>

\* ... and then takes the handler's lock.
Reply(r) ==
    /\ at[r] = "reply" /\ handlerMutex[who[r]] = Nobody
    /\ Leaves(r) \/ Ends(r)
    /\ UNCHANGED <<tables, handlers, sessions, networkMutex, handlerMutex, batch, sockets, peers>>

\* An event of a descriptor that is in no table any more.
ReadStray(r, f) ==
    /\ Takes(r, f, "read") /\ readerMutex[r] = Nobody
    /\ f \notin DOMAIN known \cup DOMAIN listeners \cup DOMAIN unknown
    /\ UNCHANGED <<tables, handlers, sessions, locks, threads, sockets, peers>>

-----------------------------------------------------------------------------
(* NetworkHandler::disconnect, by a reader thread or by the application's *)

\* stop goes on with removing the acceptor.
Ended(t) ==
    /\ readerMutex' = Released(t)
    /\ IF t = App THEN Goes(t, "remove", 0, who[t]) ELSE Goes(t, "idle", 0, "none")

\* Under the handler's lock; a connection that was invalidated is forgotten.
BeginEnd(t) ==
    /\ at[t] = "end"
    /\ LET s == who[t]
       IN  /\ handlerMutex[s] = Nobody
           /\ connected' = [connected EXCEPT ![s] = FALSE]
           /\ IF handle[s] # 0 /\ valid[s]
              THEN /\ handlerMutex' = [handlerMutex EXCEPT ![s] = t] /\ Goes(t, "close", handle[s], s)
                   /\ UNCHANGED <<handle, readerMutex>>
              ELSE handle' = [handle EXCEPT ![s] = 0] /\ Ended(t) /\ UNCHANGED handlerMutex
    /\ UNCHANGED <<tables, valid, sessions, networkMutex, batch, sockets, peers>>

\* ... and then the reader's.
EndClose(t) ==
    /\ at[t] = "close" /\ Lockable(t, fd[t])
    /\ Disconnect(fd[t])
    /\ handle' = [handle EXCEPT ![who[t]] = 0]
    /\ handlerMutex' = [handlerMutex EXCEPT ![who[t]] = Nobody] /\ Ended(t)
    /\ UNCHANGED <<sessions, networkMutex, batch, peers>>

-----------------------------------------------------------------------------
(* The application stops and starts sessions *)

\* NetworkHandler::stop returns at once the second time.
Stop(s) ==
    /\ at[App] = "idle" /\ enabled[s]
    /\ enabled' = [enabled EXCEPT ![s] = FALSE] /\ stopped' = [stopped EXCEPT ![s] = TRUE]
    /\ IF stopped[s] THEN UNCHANGED threads ELSE Goes(App, "end", 0, s)
    /\ UNCHANGED <<tables, handlers, starts, locks, batch, sockets, peers>>

Start(s) ==
    /\ at[App] = "idle" /\ ~enabled[s] /\ starts < MaxStarts
    /\ enabled' = [enabled EXCEPT ![s] = TRUE] /\ starts' = starts + 1
    /\ UNCHANGED <<tables, handlers, stopped, locks, threads, batch, sockets, peers>>

\* A port that is closed and stays in m_acceptors.
ClosePortKeepsEntry ==
    /\ CloseFd(acceptor) /\ backlog' = <<>>
    /\ listeners' = Without(listeners, acceptor)
    /\ unknown' = [f \in DOMAIN unknown |-> 0]
    /\ UNCHANGED acceptor

\* The port is closed, and connections that wait for their first message keep an
\* Acceptor without sessions.
ClosePort ==
    /\ CloseFd(acceptor) /\ acceptor' = 0 /\ backlog' = <<>>
    /\ listeners' = Without(listeners, acceptor)
    /\ unknown' = [f \in DOMAIN unknown |-> 0]

\* ReaderThread::removeAcceptor: true for the last session.
IsLast(s) == acceptor \notin DOMAIN listeners \/ listeners[acceptor] \subseteq {s}
RemoveListener(s) == listeners' = [listeners EXCEPT ![acceptor] = @ \ {s}]

\* Network::removeAcceptor, under Network::m_mutex and the reader's lock.
RemoveAcceptor(t) ==
    /\ at[t] = "remove" /\ networkMutex = Nobody
    /\ IF acceptor = 0 THEN UNCHANGED <<tables, sockets, backlog>>
       ELSE /\ readerMutex[Owner(acceptor)] = Nobody
            /\ IF IsLast(who[t]) THEN ClosePort
               ELSE RemoveListener(who[t]) /\ UNCHANGED <<acceptor, unknown, sockets, backlog>>
            /\ UNCHANGED known
    /\ Goes(t, "idle", 0, "none")
    /\ UNCHANGED <<handlers, sessions, locks, batch, names, unread, gone>>

-----------------------------------------------------------------------------
(* The update thread: NetworkHandler::start of an acceptor session *)

Look(s) ==
    /\ at[Update] = "idle" /\ enabled[s] /\ ~connected[s]
    /\ Goes(Update, "look", 0, s)
    /\ UNCHANGED <<tables, handlers, sessions, locks, batch, sockets, peers>>

\* ReaderThread::hasAcceptor
Listens(s) == acceptor \in DOMAIN listeners /\ s \in listeners[acceptor]

HasAcceptor ==
    /\ at[Update] = "look" /\ networkMutex = Nobody
    /\ acceptor # 0 => readerMutex[Owner(acceptor)] = Nobody
    /\ IF Listens(who[Update])
       THEN Goes(Update, "idle", 0, "none") ELSE Goes(Update, "add", 0, who[Update])
    /\ UNCHANGED <<tables, handlers, sessions, locks, batch, sockets, peers>>

\* Network::addAcceptor: the socket is made by the first session of the port, and
\* Network::m_mutex is held to the end.
Listen ==
    /\ at[Update] = "add" /\ networkMutex = Nobody
    /\ networkMutex' = Update
    /\ acceptor' = IF acceptor = 0 THEN Min(FreeFds) ELSE acceptor
    /\ listening' = listening \cup {acceptor'}
    /\ Goes(Update, "register", acceptor', who[Update])
    /\ UNCHANGED <<listeners, unknown, known, handlers, sessions, readerMutex, handlerMutex, batch,
                   open, watched, edges, peers>>

\* ReaderThread::addAcceptor
AddListener(s, f) ==
    listeners' = With(listeners, f, {s} \cup IF f \in DOMAIN listeners THEN listeners[f] ELSE {})

Register ==
    /\ at[Update] = "register"
    /\ LET f == fd[Update]
       IN  /\ readerMutex[Owner(f)] = Nobody
           /\ AddListener(who[Update], f)
           /\ IF f \in DOMAIN listeners THEN UNCHANGED <<watched, edges>> ELSE Watch(f)
    /\ networkMutex' = Nobody
    /\ Goes(Update, "idle", 0, "none")
    /\ UNCHANGED <<acceptor, unknown, known, handlers, sessions, readerMutex, handlerMutex, batch,
                   listening, open, peers>>

-----------------------------------------------------------------------------

Handle(r) ==
    \/ \E f \in Fds : HangUp(r, f) \/ ReadKnown(r, f) \/ ReadListener(r, f) \/ ReadUnknown(r, f)
                      \/ ReadStray(r, f)
    \/ Accept(r) \/ HandOver(r) \/ Assign(r) \/ First(r) \/ Reply(r) \/ BeginEnd(r) \/ EndClose(r)

Applies == BeginEnd(App) \/ EndClose(App) \/ RemoveAcceptor(App)
Updates == HasAcceptor \/ Listen \/ Register

Next ==
    \/ \E p \in Peers : Speak(p) \/ Leave(p)
    \/ Dial
    \/ \E r \in ReaderThreads : EpollWait(r) \/ Tick(r) \/ Handle(r)
    \/ Applies \/ Updates
    \/ \E s \in Sessions : Stop(s) \/ Start(s) \/ Look(s)

Spec == Init /\ [][Next]_vars

-----------------------------------------------------------------------------
(* Properties *)

Inside == {"accept", "hand", "assign", "first", "reply"}

\* Tables, locks and registers are of their types, and a lock is held exactly where
\* the code is inside its scope.
TypeOK ==
    /\ acceptor \in 0..MaxFd /\ DOMAIN listeners \subseteq Fds
    /\ \A f \in DOMAIN listeners : listeners[f] \subseteq Sessions
    /\ DOMAIN unknown \subseteq Fds /\ \A f \in DOMAIN unknown : unknown[f] \in 0..MaxFd
    /\ DOMAIN known \subseteq Fds /\ \A f \in DOMAIN known : known[f] \in Sessions
    /\ handle \in [Sessions -> 0..MaxFd]
    /\ {valid, connected, enabled, stopped} \subseteq [Sessions -> BOOLEAN]
    /\ starts \in 0..MaxStarts
    /\ networkMutex = Update <=> at[Update] = "register"
    /\ \A r \in ReaderThreads :
          /\ at[r] \in Inside => readerMutex[r] = r
          /\ readerMutex[r] = r => at[r] # "idle"
    /\ \A s \in Sessions, t \in Threads : handlerMutex[s] = t <=> at[t] = "close" /\ who[t] = s
    /\ \A r \in ReaderThreads : batch[r] \subseteq Fds \X {"read", "hangup"}
    /\ listening \subseteq Fds /\ DOMAIN open \subseteq Fds \ listening
    /\ edges \subseteq watched /\ watched \subseteq listening \cup DOMAIN open
    /\ backlog \in Seq(Peers) /\ names \in Seq(Sessions)
    /\ unread \cup gone \subseteq Peers

\* "already-connected session rejects duplicate connection" (ApplicationNetworkTest):
\* a session has at most one connection, which is open, is the one its handler would
\* close, and was made by a client that named this session.
OneConnection ==
    \A f \in DOMAIN known :
        /\ handle[known[f]] = f /\ valid[known[f]]
        /\ f \in DOMAIN open /\ names[open[f]] = known[f]

\* "acceptors should be created/destroyed atomically" (addAcceptor): when nobody is
\* changing them, the port's socket is open exactly as long as a session listens, and
\* the tables of Network and of the reader thread agree on it.
ListenersAgree ==
    networkMutex = Nobody =>
        /\ DOMAIN listeners = {acceptor} \ {0} /\ listening = {acceptor} \ {0}
        /\ \A f \in DOMAIN listeners : listeners[f] # {}

InHand(f) == \E r \in ReaderThreads : at[r] \in Inside \ {"accept"} /\ fd[r] = f
Reported(f) == f \in edges \/ \E r \in ReaderThreads : f \in {e[1] : e \in batch[r]}

\* "this connection is either invalid or will be known" (processRead): an accepted
\* connection that was not closed has an entry or is being given one, and if it has one,
\* data or an end that was not handled is an event that epoll has reported or will: the
\* registration and every read and close lose none, although events come as edges.
NothingForgotten ==
    \A f \in DOMAIN open :
        /\ f \in DOMAIN known \cup DOMAIN unknown \/ InHand(f)
        /\ open[f] \in unread \cup gone => Reported(f) \/ InHand(f)

-----------------------------------------------------------------------------
(* What does not hold *)

\* A reader thread with its own lock waits for a handler's, whose holder waits for the
\* reader's: a session is stopped while its first messages are handled.
NeverLocked ==
    ~ \E r \in ReaderThreads, s \in Sessions :
         /\ at[r] \in {"assign", "reply", "end"} /\ who[r] = s /\ readerMutex[r] = r
         /\ handlerMutex[s] = App /\ Owner(fd[App]) = r

\* One event may stand for several connections, and one is accepted: the next waits for
\* another client.
BacklogReported ==
    \A f \in listening \cap watched :
        backlog # <<>> => Reported(f) \/ \E r \in ReaderThreads : at[r] = "accept"

\* A session may be given a connection between the two halves of its stop.
StoppedIsSilent == \A s \in Sessions : ~enabled[s] /\ at[App] = "idle" => ~connected[s]
=============================================================================
