------------------------------- MODULE WritePath -------------------------------
(***************************************************************************)
(* How a session's messages get into its socket: NetworkHandler::send,      *)
(* ReaderThread::trySend, queueWrite and flushWrite of src/src/Network.cpp. *)
(* Threads that send take turns under the handler's mutex and write inline  *)
(* if nothing is pending; otherwise they queue, and the reader thread, woken*)
(* through its eventfd or by EPOLLOUT, writes the queue.  A write may take  *)
(* only a part of what it is given.  Either side may end the connection.    *)
(*                                                                          *)
(* With TLS nothing is written inline, and nothing until events of the      *)
(* socket have brought the handshake to its end.                            *)
(*                                                                          *)
(* One session and one descriptor number, which a later connection gets     *)
(* again.  A message is Size units, each written or not; what TLS makes of  *)
(* them is left out.                                                        *)
(***************************************************************************)
EXTENDS Integers, Sequences, FiniteSetsExt

CONSTANTS
    Senders,        \* threads that send, besides the reader thread
    Size,           \* units of a message
    Capacity,       \* units the socket holds until the peer reads them
    MaxIov,         \* MAX_WRITE_IOVECS
    MaxMsgs,        \* bound: messages sent
    MaxConns        \* bound: connections made

ASSUME WritePathAssumption ==
    /\ "reader" \notin Senders /\ "nobody" \notin Senders
    /\ {Size, Capacity, MaxIov, MaxMsgs, MaxConns} \subseteq Nat \ {0}

Threads == Senders \cup {"reader"}

VARIABLES
    connection,     \* NetworkHandler::m_connection is set
    valid,          \* NetworkHandler::m_valid
    mutex,          \* the thread that holds NetworkHandler::m_mutex, or "nobody"
    thread,         \* where each thread is in send or disconnect
    packet,         \* what each thread sends: the message and what is left of it
    queue, drain,   \* m_writeBuffers of the descriptor; no entry is an empty one
    event,          \* the eventfd is readable
    ready,          \* epoll will report EPOLLOUT
    reader,         \* the reader thread waits, is about to "flush" or to "erase"
    socket,         \* "none", "new" (not yet given to the handler), "open",
                    \* "half" (closed by the peer) or "reset"
    room,           \* free units in the socket
    noSpace,        \* the kernel owes an edge: it refused a write
    wire,           \* per connection, the units the socket took
    conns,          \* connections made so far
    tls,            \* the entry in m_tlsConnections, or "none": the peer has to answer
                    \* ("shaking"), has done so ("answered"), or m_ready is set
    secured,        \* TLSEnabled; ConnectionHandle::m_tls of its connections
    sent,           \* messages sent so far, which gives them their numbers
    called          \* messages whose callback ran

handlerVars == <<connection, valid, mutex>>
threadVars == <<thread, packet, sent>>
bufferVars == <<queue, drain>>
readerVars == <<event, ready, reader>>
socketVars == <<socket, room, noSpace, wire, conns>>
tlsVars == <<tls, secured>>
vars == <<handlerVars, threadVars, bufferVars, readerVars, socketVars, tlsVars, called>>

Units == [msg: 1..MaxMsgs, part: 1..Size]
Packet(n) == [msg |-> n, rest |-> [k \in 1..Size |-> [msg |-> n, part |-> k]]]
NoPacket == [msg |-> 0, rest |-> <<>>]
IsLast(u) == u.part = Size
From(us, n) == SubSeq(us, n, Len(us))

Init ==
    /\ connection = FALSE /\ valid = TRUE /\ mutex = "nobody"
    /\ thread = [t \in Threads |-> "idle"] /\ packet = [t \in Threads |-> NoPacket]
    /\ queue = <<>> /\ drain = <<>>
    /\ event = FALSE /\ ready = FALSE /\ reader = "wait"
    /\ socket = "none" /\ room = Capacity /\ noSpace = FALSE
    /\ wire = [c \in 1..MaxConns |-> <<>>]
    /\ conns = 0 /\ sent = 0 /\ called = <<>>
    /\ tls = "none" /\ secured \in BOOLEAN

-----------------------------------------------------------------------------
(* The socket *)

Taking == socket \in {"new", "open", "half"}

\* The kernel takes what it has room for.
Take(us, n) ==
    /\ wire' = [wire EXCEPT ![conns] = @ \o SubSeq(us, 1, n)]
    /\ room' = room - n
    /\ noSpace' = (noSpace \/ n < Len(us))
    /\ UNCHANGED <<socket, conns>>

PeerReads ==
    /\ Taking /\ room < Capacity
    /\ room' \in room + 1 .. Capacity
    /\ ready' = (ready \/ noSpace) /\ noSpace' = FALSE
    /\ UNCHANGED <<handlerVars, threadVars, bufferVars, event, reader, socket, wire, conns,
                   tlsVars, called>>

\* Data of the peer, or its part of the handshake: an edge-triggered event reports
\* everything that is ready, so also a socket with room.
PeerSends ==
    /\ socket = "open" /\ room > 0 /\ ~ready
    /\ ready' = TRUE
    /\ tls' = IF tls = "shaking" THEN "answered" ELSE tls
    /\ UNCHANGED <<handlerVars, threadVars, bufferVars, event, reader, socketVars, secured, called>>

PeerEnds ==
    /\ socket \in {"open", "half"}
    /\ socket' \in {"half", "reset"} \ {socket}
    /\ UNCHANGED <<handlerVars, threadVars, bufferVars, readerVars, room, noSpace, wire, conns,
                   tlsVars, called>>

\* createTLSConnection, before the descriptor is registered; if it fails there is no
\* connection.
TLSEntry == IF secured THEN "shaking" ELSE "none"

\* A new connection has the descriptor's number as soon as that is free ...
Dial ==
    /\ socket = "none" /\ ~(connection /\ valid) /\ conns < MaxConns
    /\ socket' = "new" /\ room' = Capacity /\ noSpace' = FALSE /\ conns' = conns + 1
    /\ tls' = TLSEntry
    /\ UNCHANGED <<handlerVars, threadVars, bufferVars, readerVars, wire, secured, called>>

\* ... and the handler a little later; its registration reports it writable.
Assign ==
    /\ socket = "new" /\ mutex = "nobody"
    /\ socket' = "open" /\ connection' = TRUE /\ valid' = TRUE /\ ready' = TRUE
    /\ UNCHANGED <<mutex, threadVars, bufferVars, event, reader, room, noSpace, wire, conns,
                   tlsVars, called>>

-----------------------------------------------------------------------------
(* A thread that sends *)

\* The reader thread sends only from its handlers.
Free(t) == thread[t] = "idle" /\ mutex = "nobody" /\ (t = "reader" => reader = "wait")
Goes(t, pc) == thread' = [thread EXCEPT ![t] = pc]

\* NetworkHandler::send: a connection that was invalidated is forgotten.
Begin(t) ==
    /\ Free(t) /\ sent < MaxMsgs /\ connection
    /\ IF valid
       THEN /\ mutex' = t /\ Goes(t, "try")
            /\ sent' = sent + 1 /\ packet' = [packet EXCEPT ![t] = Packet(sent + 1)]
            /\ UNCHANGED connection
       ELSE connection' = FALSE /\ UNCHANGED <<mutex, threadVars>>
    /\ UNCHANGED <<valid, bufferVars, readerVars, socketVars, tlsVars, called>>

\* The packet is trimmed by what was written.
WriteInline(t) ==
    LET us == packet[t].rest
        n == Min({room, Len(us)})
    IN  /\ Take(us, n)
        /\ packet' = [packet EXCEPT ![t].rest = From(us, n + 1)]
        /\ Goes(t, IF n = Len(us) THEN "callback" ELSE "queue")
        /\ mutex' = IF n = Len(us) THEN "nobody" ELSE mutex
        /\ UNCHANGED <<connection, valid, sent, bufferVars, readerVars, tlsVars, called>>

\* trySend without looking at the write buffer.
TryAnyway(t) ==
    /\ thread[t] = "try" /\ ~secured /\ Taking
    /\ WriteInline(t)

\* trySend, without TLS, with nothing pending.
TryInline(t) ==
    /\ thread[t] = "try" /\ ~secured /\ Taking /\ queue = <<>> /\ drain = <<>>
    /\ WriteInline(t)

\* trySend when m_writeMutex is taken, which it may always be by the flush of
\* another descriptor, when something is pending, and when the write fails.
TryFails(t) ==
    /\ thread[t] = "try"
    /\ Goes(t, "queue")
    /\ UNCHANGED <<handlerVars, packet, sent, bufferVars, readerVars, socketVars, tlsVars, called>>

QueueWrite(t) ==
    /\ thread[t] = "queue"
    /\ queue' = queue \o packet[t].rest
    /\ packet' = [packet EXCEPT ![t] = NoPacket]
    /\ Goes(t, "wake")
    /\ UNCHANGED <<handlerVars, sent, drain, readerVars, socketVars, tlsVars, called>>

\* A mutex that is not released.
WakeLocked(t) ==
    /\ thread[t] = "wake"
    /\ event' = TRUE
    /\ Goes(t, "idle")
    /\ UNCHANGED <<handlerVars, packet, sent, bufferVars, ready, reader, socketVars, tlsVars, called>>

Wake(t) ==
    /\ thread[t] = "wake"
    /\ event' = TRUE
    /\ Goes(t, "idle") /\ mutex' = "nobody"
    /\ UNCHANGED <<connection, valid, packet, sent, bufferVars, ready, reader, socketVars, tlsVars, called>>

\* After an inline write the callback runs without the mutex.
Callback(t) ==
    /\ thread[t] = "callback"
    /\ called' = Append(called, packet[t].msg)
    /\ packet' = [packet EXCEPT ![t] = NoPacket]
    /\ Goes(t, "idle")
    /\ UNCHANGED <<handlerVars, sent, bufferVars, readerVars, socketVars, tlsVars>>

----
(* NetworkHandler::disconnect, under the same mutex *)

BeginDisconnect(t) ==
    /\ Free(t) /\ connection
    /\ IF valid THEN mutex' = t /\ Goes(t, "close") /\ UNCHANGED connection
                ELSE connection' = FALSE /\ UNCHANGED <<mutex, thread>>
    /\ UNCHANGED <<valid, packet, sent, bufferVars, readerVars, socketVars, tlsVars, called>>

RemoveConnection == tls' = "none"

\* The descriptor is closed, whichever connection has it by now.
CloseSocket ==
    /\ socket' = "none" /\ valid' = FALSE /\ ready' = FALSE /\ RemoveConnection
    /\ UNCHANGED <<room, noSpace, wire, conns, secured>>

EraseBuffers == queue' = <<>> /\ drain' = <<>>

Close(t) ==
    /\ thread[t] = "close"
    /\ CloseSocket
    /\ Goes(t, "erase")
    /\ UNCHANGED <<connection, mutex, packet, sent, bufferVars, event, reader, called>>

EndDisconnect(t) ==
    /\ thread[t] = "erase"
    /\ EraseBuffers
    /\ connection' = FALSE /\ mutex' = "nobody" /\ Goes(t, "idle")
    /\ UNCHANGED <<valid, packet, sent, readerVars, socketVars, tlsVars, called>>

-----------------------------------------------------------------------------
(* The reader thread's loop *)

Waits == reader = "wait" /\ thread["reader"] = "idle"

OnEvent ==
    /\ Waits /\ event
    /\ event' = FALSE /\ reader' = "flush"
    /\ UNCHANGED <<handlerVars, threadVars, bufferVars, ready, socketVars, tlsVars, called>>

\* requiresConnectionProgress; meanwhile writeConnection would block.
Shaking == tls \in {"shaking", "answered"}

\* progressConnection.
Progressed == IF tls = "answered" THEN "ready" ELSE tls

\* The event that ends a handshake is handled on; an earlier one is not.
OnWritable ==
    /\ Waits /\ ready
    /\ ready' = FALSE
    /\ tls' = Progressed
    /\ reader' = IF tls' = "shaking" THEN "wait" ELSE "flush"
    /\ UNCHANGED <<handlerVars, threadVars, bufferVars, event, socketVars, secured, called>>

\* What is given to the kernel: at most MaxIov messages at once, with TLS one after
\* the other.
Vector(us) ==
    IF tls # "none" THEN us ELSE
    LET past == {i \in DOMAIN us : Cardinality({j \in 1..i - 1 : IsLast(us[j])}) >= MaxIov}
    IN  IF past = {} THEN us ELSE SubSeq(us, 1, Min(past) - 1)

Finished(us) ==
    LET upTo[i \in 0..Len(us)] ==
            IF i = 0 THEN <<>>
            ELSE IF IsLast(us[i]) THEN Append(upTo[i - 1], us[i].msg) ELSE upTo[i - 1]
    IN  upTo[Len(us)]

\* A flush that runs the callbacks of everything it tries to write.
CompletedTried(us, n) == Finished(us)
Completed(us, n) == Finished(SubSeq(us, 1, n))

\* An error drops everything; during a handshake it would block.
WriteOut(pending, later) ==
    LET us == Vector(pending)
        n == Min({room, Len(us)})
    IN  /\ IF pending = <<>> THEN UNCHANGED <<bufferVars, socketVars, called>>
           ELSE IF Shaking THEN drain' = pending /\ queue' = later /\ UNCHANGED <<socketVars, called>>
           ELSE IF ~Taking THEN EraseBuffers /\ UNCHANGED <<socketVars, called>>
           ELSE /\ Take(us, n)
                /\ drain' = From(pending, n + 1) /\ queue' = later
                /\ called' = called \o Completed(us, n)
        /\ reader' = "wait"
        /\ UNCHANGED <<handlerVars, threadVars, event, ready, tlsVars>>

\* A flush that does not take over the queue.
FlushDrain == reader = "flush" /\ WriteOut(drain, queue)

\* flushWrite: what is queued becomes the drain only when that is empty, and is
\* otherwise left for another flush.
Flush ==
    /\ reader = "flush"
    /\ IF drain = <<>> THEN WriteOut(queue, <<>>) ELSE WriteOut(drain, queue)

\* EPOLLHUP or EPOLLRDHUP, or a handshake that fails: ReaderThread::disconnect,
\* without the handler's mutex.
HangUp ==
    /\ Waits /\ (socket \in {"half", "reset"} \/ (tls = "answered" /\ ready))
    /\ CloseSocket
    /\ reader' = "erase"
    /\ UNCHANGED <<connection, mutex, threadVars, bufferVars, event, called>>

Erase ==
    /\ reader = "erase"
    /\ EraseBuffers
    /\ reader' = "wait"
    /\ UNCHANGED <<handlerVars, threadVars, event, ready, socketVars, tlsVars, called>>

Step(t) ==
    \/ TryInline(t) \/ TryFails(t) \/ QueueWrite(t) \/ Wake(t) \/ Callback(t)
    \/ Close(t) \/ EndDisconnect(t)

ReaderLoop == OnEvent \/ OnWritable \/ Flush \/ HangUp \/ Erase

Next ==
    \/ \E t \in Threads : Begin(t) \/ BeginDisconnect(t) \/ Step(t)
    \/ ReaderLoop
    \/ PeerReads \/ PeerSends \/ PeerEnds \/ Dial \/ Assign

Spec == Init /\ [][Next]_vars

\* Threads finish what they began, the reader's loop turns, and the peer of an open
\* connection reads and sends (its heartbeats, if nothing else).
FairSpec ==
    /\ Spec
    /\ \A t \in Threads : WF_vars(Step(t))
    /\ WF_vars(OnEvent) /\ SF_vars(OnWritable) /\ WF_vars(Flush)
    /\ SF_vars(HangUp) /\ WF_vars(Erase)
    /\ WF_vars(PeerReads) /\ SF_vars(PeerSends) /\ WF_vars(Assign)

-----------------------------------------------------------------------------
(* Properties *)

Inside == {"try", "queue", "wake", "close", "erase"}

\* Buffers hold units, and whoever is inside send or disconnect holds the mutex.
TypeOK ==
    /\ connection \in BOOLEAN /\ valid \in BOOLEAN
    /\ thread \in [Threads -> Inside \cup {"idle", "callback"}]
    /\ mutex \in Threads \cup {"nobody"}
    /\ \A t \in Threads : mutex = t <=> thread[t] \in Inside
    /\ packet \in [Threads -> [msg: 0..MaxMsgs, rest: Seq(Units)]]
    /\ queue \in Seq(Units) /\ drain \in Seq(Units)
    /\ event \in BOOLEAN /\ ready \in BOOLEAN /\ reader \in {"wait", "flush", "erase"}
    /\ socket \in {"none", "new", "open", "half", "reset"}
    /\ room \in 0..Capacity /\ noSpace \in BOOLEAN
    /\ wire \in [1..MaxConns -> Seq(Units)] /\ conns \in 0..MaxConns
    /\ sent \in 0..MaxMsgs /\ called \in Seq(1..MaxMsgs)
    /\ tls \in {"none", "shaking", "answered", "ready"} /\ (tls # "none" => secured)

Follows(u, v) ==
    \/ v.msg = u.msg /\ v.part = u.part + 1
    \/ IsLast(u) /\ v.msg > u.msg /\ v.part = 1

\* "preserves message ordering" (trySend): whatever is written inline, trimmed, queued
\* and flushed, the stream has whole messages in the order the senders had their
\* turn, and only its end may be cut off.
WholeMessages ==
    \A c \in 1..conns :
        /\ wire[c] # <<>> => wire[c][1].part = 1
        /\ \A i \in 2..Len(wire[c]) : Follows(wire[c][i - 1], wire[c][i])

\* The callback of a message, which may end the connection, runs once, after the last
\* of the message is in the socket.
CallbackAfterWrite ==
    /\ \A i, j \in DOMAIN called : i # j => called[i] # called[j]
    /\ \A i \in DOMAIN called :
          \E c \in 1..conns : \E k \in DOMAIN wire[c] : wire[c][k] = [msg |-> called[i], part |-> Size]

\* What is queued gets into the socket or is dropped with the connection.
EverythingFlushed == queue \o drain # <<>> ~> queue \o drain = <<>>
=============================================================================
