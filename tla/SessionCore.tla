------------------------------ MODULE SessionCore ------------------------------
(***************************************************************************)
(* The FIX session state machine of src/src/Session.cpp, as operators from  *)
(* session records to session records.  A record is everything the handlers *)
(* read and write: the state, the MemoryCache contents (sequence numbers,   *)
(* sent messages, inbound queue), the connection flag and the replay loop.  *)
(* Modules with variables (Session, SessionPair) choose which handler runs. *)
(*                                                                          *)
(* A handler runs in one step, with two exceptions where it loops over an   *)
(* unbounded number of messages while other threads may call send(): the    *)
(* replay of runMessageRecovery and the inbound-queue loop of               *)
(* onNetworkMessage advance one message at a time, under control of "phase".*)
(***************************************************************************)
EXTENDS Integers, Sequences, FiniteSets

SessionStates == {"LOGON", "READY", "TEST_REQUEST", "KILLING", "LOGOUT"}

\* MESSAGE::SESSION_MSGS: never replayed, gap-filled instead.  Reject is not one.
SessionMsgs == {"Heartbeat", "TestRequest", "ResendRequest", "SequenceReset",
                "Logout", "Logon"}
MsgTypes == SessionMsgs \cup {"Reject", "App"}

\* What validateMessage can hold against a message, in the order of its tests;
\* "noField" is a message without a body field that its handler requires.
Flaws == {"none", "noSeqNum", "badCompId", "badTime", "noOrigTime", "noField"}

Absent == -1        \* tag 789 is not in the Logon

(***************************************************************************)
(* Messages.  "seq" is MsgSeqNum(34), "dup" PossDupFlag(43), "id" the       *)
(* payload of an application message; the others are the body fields of the *)
(* administrative messages and keep a default in every other message.       *)
(***************************************************************************)
Message ==
    [type: MsgTypes, seq: Nat, dup: BOOLEAN, flaw: Flaws, id: Nat,
     begin: Nat, end: Nat, new: Nat, next: Nat \cup {Absent},
     gap: BOOLEAN, reset: BOOLEAN, test: BOOLEAN, reqId: Nat]

Plain(type) ==
    [type |-> type, seq |-> 0, dup |-> FALSE, flaw |-> "none", id |-> 0,
     begin |-> 0, end |-> 0, new |-> 0, next |-> Absent,
     gap |-> FALSE, reset |-> FALSE, test |-> FALSE, reqId |-> 0]

App(id) == [Plain("App") EXCEPT !.id = id]

Settings == [initiator: BOOLEAN, resetOnLogon: BOOLEAN, sendNext: BOOLEAN,
             test: BOOLEAN, persist: BOOLEAN]

\* An entry of MemoryCache::m_messages: a message sent under "seq".
Sent == [seq: Nat, type: MsgTypes, id: Nat]

\* What Session::load finds in the store after a restart.  "lacks" is history: since
\* the last reset something that was flushed was deleted (see FlushSeqNums).
Snapshot == [sender: Nat, target: Nat, msgs: SUBSET Sent, lacks: BOOLEAN]
EmptyStore == [sender |-> 1, target |-> 1, msgs |-> {}, lacks |-> FALSE]

(***************************************************************************)
(* The locals of runMessageRecovery and what its caller does afterwards:    *)
(* "seq" is the ResendRequest's MsgSeqNum, or Absent when handleLogon calls;*)
(* "ask" is the BeginSeqNo handleLogon requests next, or Absent.            *)
(***************************************************************************)
Replay ==
    {r \in [begin: Nat, ptr: Nat, end: Nat, todo: SUBSET Sent,
            seq: Nat \cup {Absent}, ask: Nat \cup {Absent}] :
        r.ptr # r.begin => r.ptr > 0}
NoReplay == [begin |-> 0, ptr |-> 0, end |-> 0, todo |-> {},
             seq |-> Absent, ask |-> Absent]

\* "hung": the reader thread waits for a mutex it holds itself (see Session!FlushWrites).
Phases == {"idle", "replay", "drain", "hung"}

\* "disk" is in the file, "stored" will be when the writer thread has done what it
\* has been asked to; "resetting" is m_shouldReset, which it has not seen yet, and
\* "pending" m_pendingStoreSeqNums.  "lacks" is that of the snapshot that was loaded.
SessionRecord ==
    [cfg: Settings, state: SessionStates, enabled: BOOLEAN,
     sender: Nat, target: Nat, dirty: BOOLEAN, msgs: SUBSET Sent, lacks: BOOLEAN,
     queue: SUBSET Message, testReqId: Nat,
     pending: SUBSET Nat, resetting: BOOLEAN, stored: Snapshot, disk: Snapshot,
     connected: BOOLEAN, congested: BOOLEAN, killQueued: BOOLEAN,
     phase: Phases, replay: Replay,
     out: Seq(Message), dlv: Seq(Message)]

\* The Session constructor, after load() of the snapshot "disk".
NewSession(cfg, disk) ==
    [cfg |-> cfg, state |-> "LOGON", enabled |-> TRUE,
     sender |-> disk.sender, target |-> disk.target, dirty |-> FALSE,
     msgs |-> disk.msgs, lacks |-> disk.lacks, queue |-> {}, testReqId |-> 0,
     pending |-> {}, resetting |-> FALSE, stored |-> disk, disk |-> disk,
     connected |-> FALSE, congested |-> FALSE, killQueued |-> FALSE,
     phase |-> "idle", replay |-> NoReplay, out |-> <<>>, dlv |-> <<>>]

-----------------------------------------------------------------------------
(* MemoryCache.  "dirty" (m_seqNumsDirty) and "pending" say what a flush gives   *)
(* to the store, so without one, where a flush has no effect, they stay FALSE   *)
(* and empty.                                                              *)

SetSender(s, n) == [s EXCEPT !.sender = n, !.dirty = s.cfg.persist]
SetTarget(s, n) == [s EXCEPT !.target = n, !.dirty = s.cfg.persist]
NextTarget(s) == SetTarget(s, s.target + 1)

\* A reset that forgets m_messages.clear().
ResetKeepsMessages(s) ==
    [s EXCEPT !.queue = {}, !.sender = 0, !.target = 0, !.dirty = FALSE, !.pending = {}]

\* Both numbers restart at 0.  The store is only told to: its file is emptied when
\* the writer thread looks (WriteOut), and a load would then find 1 and 1.
Reset(s) ==
    LET t == [s EXCEPT !.msgs = {}, !.queue = {}, !.sender = 0, !.target = 0,
                       !.dirty = FALSE, !.pending = {}, !.lacks = FALSE]
    IN  IF s.cfg.persist THEN [t EXCEPT !.resetting = TRUE, !.stored = EmptyStore] ELSE t

\* What a flush has to give: the messages cached since the last one.
Unstored(s) == {c \in s.msgs : c.seq \in s.pending}

\* A flush that forgets the pending messages.
OnlyNumbers(s) ==
    [s.stored EXCEPT !.sender = IF s.dirty THEN s.sender ELSE @,
                     !.target = IF s.dirty THEN s.target ELSE @]

\* Those messages and, if they changed, the numbers.  Behind a reset the writer has
\* not seen they are deleted with what was there before.
Updated(s) ==
    IF s.resetting THEN [s.stored EXCEPT !.lacks = @ \/ s.dirty \/ s.pending # {}]
    ELSE [s.stored EXCEPT
             !.sender = IF s.dirty THEN s.sender ELSE @,
             !.target = IF s.dirty THEN s.target ELSE @,
             !.msgs = {c \in @ : \A d \in Unstored(s) : d.seq # c.seq} \cup Unstored(s)]

FlushSeqNums(s) ==
    IF ~s.cfg.persist THEN s
    ELSE [s EXCEPT !.dirty = FALSE, !.pending = {}, !.stored = Updated(s)]

\* The writer thread's round: everything queued goes to the file or, after a
\* reset, nothing does and the file is truncated.
WriteOut(s) == [s EXCEPT !.disk = s.stored, !.resetting = FALSE]

\* A cache that skips what replay will not resend anyway.
CacheReplayable(s, m) ==
    IF m.type \in SessionMsgs THEN s
    ELSE [s EXCEPT !.msgs = @ \cup {[seq |-> m.seq, type |-> m.type, id |-> m.id]}]

\* m_messages[seqnum] = wire: an entry of the same number is overwritten.
Cache(s, m) ==
    [s EXCEPT !.msgs = {c \in @ : c.seq # m.seq}
                         \cup {[seq |-> m.seq, type |-> m.type, id |-> m.id]},
              !.pending = IF s.cfg.persist THEN @ \cup {m.seq} ELSE @]

Enqueue(s, m) == [s EXCEPT !.queue = {q \in @ : q.seq # m.seq} \cup {m}]

\* begin() of the ordered map: no element of an empty one.
FirstQueued(s) == {q \in s.queue : \A r \in s.queue : q.seq <= r.seq}

-----------------------------------------------------------------------------
(* Sending *)

\* internal_send: a message for a session without a connection is dropped.
Transmit(s, m) == IF s.connected THEN [s EXCEPT !.out = Append(@, m)] ELSE s

\* Session::send: number, cache, advance, transmit.
Send(s, m) ==
    LET stamped == [m EXCEPT !.seq = s.sender]
    IN  Transmit(SetSender(Cache(s, stamped), s.sender + 1), stamped)

\* NetworkHandler::disconnect and the erased write buffer.
Disconnect(s) == [s EXCEPT !.connected = FALSE, !.congested = FALSE, !.killQueued = FALSE]

Terminate(s) == [Disconnect(s) EXCEPT !.state = "LOGON"]

\* The callback of a terminal Logout runs at once if the socket takes the
\* message, waits in the write queue if it does not, and is lost with the
\* message if there is no connection.
SendLogout(s, terminal) ==
    LET t == Send(s, Plain("Logout"))
    IN  IF ~terminal \/ ~s.connected THEN t
        ELSE IF s.congested THEN [t EXCEPT !.killQueued = TRUE]
        ELSE Terminate(t)

Logout(s, terminal) ==
    SendLogout([s EXCEPT !.state = IF terminal THEN "KILLING" ELSE "LOGOUT"], terminal)

SendReject(s) == Send(s, Plain("Reject"))
\* A heartbeat that is numbered without using up the number.
SendHeartbeatUnnumbered(s, reqId) ==
    Transmit(s, [Plain("Heartbeat") EXCEPT !.seq = s.sender, !.reqId = reqId])
SendHeartbeat(s, reqId) == Send(s, [Plain("Heartbeat") EXCEPT !.reqId = reqId])
\* An identifier that counts down.
SendTestRequestDown(s) ==
    Send([s EXCEPT !.testReqId = @ - 1],
         [Plain("TestRequest") EXCEPT !.reqId = s.testReqId - 1])
SendTestRequest(s) ==
    Send([s EXCEPT !.testReqId = @ + 1],
         [Plain("TestRequest") EXCEPT !.reqId = s.testReqId + 1])
SendResendRequest(s, from, to) ==
    Send(s, [Plain("ResendRequest") EXCEPT !.begin = from, !.end = to])

\* Tags 789 and 141 are set on the header before the standard fields, so on the
\* wire they stand before MsgSeqNum.  They are not header fields: the receiving
\* Dictionary::parse is in the body by the time it meets MsgSeqNum.
SendLogon(s, shouldReset) ==
    Send(s, [Plain("Logon") EXCEPT
                !.reset = shouldReset,
                !.next = IF s.cfg.sendNext THEN s.target ELSE Absent,
                !.flaw = IF s.cfg.sendNext \/ shouldReset THEN "noSeqNum" ELSE "none"])

GapFill(seq, new) ==
    [Plain("SequenceReset") EXCEPT !.seq = seq, !.new = new, !.gap = TRUE, !.dup = TRUE]
Resend(c) == [Plain(c.type) EXCEPT !.seq = c.seq, !.id = c.id, !.dup = TRUE]

-----------------------------------------------------------------------------
(* runMessageRecovery: begin, one cached message at a time, end *)

Smaller(m, n) == IF m < n THEN m ELSE n

\* A replay that starts behind BeginSeqNo.
StartReplayBehind(s, begin, end, seq, ask) ==
    LET last == Smaller(end, s.sender)
    IN  [s EXCEPT !.phase = "replay",
                  !.replay = [begin |-> begin, ptr |-> begin, end |-> last,
                              todo |-> {c \in s.msgs : /\ c.type \notin SessionMsgs
                                                       /\ c.seq > begin
                                                       /\ last = 0 \/ c.seq <= last},
                              seq |-> seq, ask |-> ask]]

StartReplay(s, begin, end, seq, ask) ==
    LET last == Smaller(end, s.sender)
    IN  [s EXCEPT !.phase = "replay",
                  !.replay = [begin |-> begin, ptr |-> begin, end |-> last,
                              todo |-> {c \in s.msgs : /\ c.type \notin SessionMsgs
                                                       /\ c.seq >= begin
                                                       /\ last = 0 \/ c.seq <= last},
                              seq |-> seq, ask |-> ask]]

\* A replay without the sort: in the order of the hash map.
AnyToReplay(s) == s.replay.todo

NextToReplay(s) == {c \in s.replay.todo : \A d \in s.replay.todo : c.seq <= d.seq}

ReplayOne(s, c) ==
    LET r == s.replay
        t == IF c.seq # r.ptr THEN Transmit(s, GapFill(r.ptr, c.seq)) ELSE s
    IN  [Transmit(t, Resend(c)) EXCEPT !.replay.ptr = c.seq + 1,
                                       !.replay.todo = r.todo \ {c}]

\* A final gap fill without the test of line 355.
FinalGapFillUnguarded(s) ==
    LET r == s.replay
        end == IF r.end # 0 THEN r.end ELSE s.sender
    IN  IF r.ptr - 1 < end THEN Transmit(s, GapFill(r.ptr - 1, end)) ELSE s

\* A final gap fill up to and including the next number.
FinalGapFillBeyond(s) ==
    LET r == s.replay
        ptr == IF r.ptr # r.begin THEN r.ptr - 1 ELSE r.ptr
    IN  IF ptr < s.sender THEN Transmit(s, GapFill(ptr, s.sender + 1)) ELSE s

\* The final gap fill starts at the last message resent, not after it; an end of
\* 0 stands for the sender number at this moment.
FinalGapFill(s) ==
    LET r == s.replay
        ptr == IF r.ptr # r.begin THEN r.ptr - 1 ELSE r.ptr
        end == IF r.end # 0 THEN r.end ELSE s.sender
    IN  IF ptr < end THEN Transmit(s, GapFill(ptr, end)) ELSE s

\* The rest of handleResendRequest, or of handleLogon.
ReplayEnd(s) ==
    LET r == s.replay
        t == [FinalGapFill(s) EXCEPT !.phase = "drain", !.replay = NoReplay]
    IN  IF r.ask # Absent THEN SendResendRequest(t, r.ask, 0)
        ELSE IF r.seq = s.target THEN NextTarget(t)
        ELSE t

-----------------------------------------------------------------------------
(* Receiving *)

\* An exception out of processMessage: onNetworkMessage swallows it and skips
\* whatever was left of the inbound-queue loop.
Throw(s) == [s EXCEPT !.phase = "idle"]

\* A validation that does not wait for the Logon.
DefectLoggedOut(s, m) ==
    IF m.flaw \in {"noSeqNum", "badCompId", "badTime"} THEN m.flaw
    ELSE IF m.dup /\ m.flaw = "noOrigTime" THEN "noOrigTime"
    ELSE IF s.state = "LOGOUT" /\ m.type \notin {"Logout", "ResendRequest"} THEN "unexpected"
    ELSE "none"

\* The first test of validateMessage that the message fails, "none" if it passes.
Defect(s, m) ==
    IF m.flaw \in {"noSeqNum", "badCompId", "badTime"} THEN m.flaw
    ELSE IF m.dup /\ m.flaw = "noOrigTime" THEN "noOrigTime"
    ELSE IF \/ s.state = "LOGON" /\ m.type # "Logon"
            \/ s.state = "LOGOUT" /\ m.type \notin {"Logout", "ResendRequest"}
         THEN "unexpected"
    ELSE "none"

Refuse(s, defect) ==
    CASE defect = "badCompId" /\ s.state = "LOGON" -> Terminate(s)
      [] defect = "badTime" -> Logout(SendReject(s), FALSE)
      [] defect = "noOrigTime" -> SendReject(s)
      [] OTHER -> Logout(s, TRUE)

\* validateSeqNum for a message that is not the next one.
OutOfSequence(s, m) ==
    IF m.seq < s.target THEN Logout(s, TRUE)
    ELSE SendResendRequest(Enqueue(s, m), s.target, m.seq)

\* A SequenceReset whose NewSeqNo is not compared with the expected number.
HandleAnySequenceReset(s, m) ==
    IF m.flaw = "noField" THEN Throw(s)
    ELSE IF m.new <= m.seq THEN SendReject(s)
    ELSE IF m.gap /\ m.seq # s.target THEN OutOfSequence(s, m)
    ELSE SetTarget(s, m.new)

HandleSequenceReset(s, m) ==
    IF m.flaw = "noField" THEN Throw(s)
    ELSE IF m.new <= m.seq THEN SendReject(s)
    ELSE IF m.new < s.target THEN Logout(s, TRUE)
    ELSE IF m.gap /\ m.seq # s.target THEN OutOfSequence(s, m)
    ELSE SetTarget(s, m.new)

HandleResendRequest(s, m) ==
    IF m.flaw = "noField" THEN Throw(s)
    ELSE StartReplay(s, m.begin, m.end, m.seq, Absent)

LogonRefused(s, m) ==
    \/ ~m.dup /\ m.seq < s.target
    \/ m.next # Absent /\ m.next > s.sender
    \/ m.reset /\ ~s.cfg.resetOnLogon

\* An accepted Logon.  "expected" and the need for recovery are read before the
\* reset; the acceptor answers before the session becomes READY.
AcceptLogon(s, m) ==
    LET expected == s.target
        zeroed   == IF m.reset THEN Reset(s) ELSE s
        counted  == IF m.seq = expected THEN NextTarget(zeroed) ELSE zeroed
        answered == IF s.cfg.initiator THEN counted ELSE SendLogon(counted, m.reset)
        ready    == [answered EXCEPT !.state = "READY"]
        ask      == IF ~s.cfg.sendNext /\ m.seq > expected THEN expected ELSE Absent
    IN  IF ~s.cfg.initiator /\ m.flaw = "noField" THEN Throw(counted)
        ELSE IF m.next # Absent /\ m.next < s.sender
             THEN StartReplay(ready, m.next, 0, Absent, ask)
        ELSE IF ask # Absent THEN SendResendRequest(ready, ask, 0)
        ELSE ready

HandleLogon(s, m) ==
    IF m.test # s.cfg.test THEN Logout(s, FALSE)
    ELSE IF LogonRefused(s, m) THEN Logout(s, TRUE)
    ELSE AcceptLogon(s, m)

\* The message types that reach the end of processMessage, in sequence.
HandleLogout(s) ==
    IF s.state = "LOGOUT" THEN Terminate(s) ELSE SendLogout(s, TRUE)

HandleHeartbeat(s, m) ==
    IF s.state = "TEST_REQUEST" /\ m.reqId = s.testReqId
    THEN [s EXCEPT !.state = "READY"] ELSE s

HandleTestRequest(s, m) ==
    IF m.flaw = "noField" THEN Throw(s) ELSE SendHeartbeat(s, m.reqId)

\* A message in sequence that does not advance the expected number.
InSequenceUncounted(s, m) ==
    CASE m.type = "Logout" -> HandleLogout(s)
      [] m.type = "App" -> [s EXCEPT !.dlv = Append(@, m)]
      [] OTHER -> s

InSequence(s, m) ==
    LET t == NextTarget(s)
    IN  CASE m.type = "Logout" -> HandleLogout(t)
          [] m.type = "Heartbeat" -> HandleHeartbeat(t, m)
          [] m.type = "TestRequest" -> HandleTestRequest(t, m)
          [] m.type = "App" -> [t EXCEPT !.dlv = Append(@, m)]
          [] OTHER -> t

ProcessMessage(s, m) ==
    LET defect == Defect(s, m)
    IN  IF defect # "none" THEN Refuse(s, defect)
        ELSE CASE m.type = "SequenceReset" -> HandleSequenceReset(s, m)
               [] m.type = "Logon" -> HandleLogon(s, m)
               [] m.type = "ResendRequest" -> HandleResendRequest(s, m)
               [] OTHER -> IF m.seq = s.target THEN InSequence(s, m)
                           ELSE OutOfSequence(s, m)

\* onNetworkMessage up to the inbound-queue loop.
OnNetworkMessage(s, m) ==
    IF s.state = "KILLING" THEN s
    ELSE ProcessMessage([s EXCEPT !.phase = "drain"], m)

\* One round of that loop, with the first message of the queue: it is erased
\* only if processMessage returns.
NextToDrain(s) == {q \in FirstQueued(s) : q.seq = s.target}

DrainOne(s, q) ==
    LET t == ProcessMessage(s, q)
    IN  IF t.phase = "idle" THEN t
        ELSE [t EXCEPT !.queue = @ \ FirstQueued(t)]

DrainEnd(s) == [s EXCEPT !.phase = "idle"]

-----------------------------------------------------------------------------
(* internal_update.  "due" is the set of intervals that have run out. *)

Timers == {"logon", "testRequest", "logout", "heartbeat", "receive"}

LoggedOn(s) == s.state \notin {"LOGON", "LOGOUT", "KILLING"}

\* An update that leaves the state of the lost connection.
UpdateDisconnectedKeepsState(s) == FlushSeqNums(s)

UpdateDisconnected(s) == [FlushSeqNums(s) EXCEPT !.state = "LOGON"]

AttemptLogon(s) ==
    SendLogon(IF s.cfg.resetOnLogon THEN Reset(s) ELSE s, s.cfg.resetOnLogon)

\* Timeouts that forget a logout that is never acknowledged.
CheckTestRequestOnly(s, due) ==
    IF s.state = "TEST_REQUEST" /\ "testRequest" \in due THEN Terminate(s) ELSE s

CheckTimeouts(s, due) ==
    IF \/ s.state = "TEST_REQUEST" /\ "testRequest" \in due
       \/ s.state = "LOGOUT" /\ "logout" \in due
    THEN Terminate(s) ELSE s

KeepAlive(s, due) ==
    IF LoggedOn(s) /\ "heartbeat" \in due THEN SendHeartbeat(s, 0) ELSE s

ProbePeer(s, due) ==
    IF LoggedOn(s) /\ s.state # "TEST_REQUEST" /\ "receive" \in due
    THEN [SendTestRequest(s) EXCEPT !.state = "TEST_REQUEST"] ELSE s

UpdateConnected(s, due) ==
    LET t == FlushSeqNums(s)
    IN  IF s.cfg.initiator /\ s.state = "LOGON" /\ "logon" \in due THEN AttemptLogon(t)
        ELSE ProbePeer(KeepAlive(CheckTimeouts(t, due), due), due)

\* A connection is assigned to the session; the previous one is forgotten.
Connect(s) == [s EXCEPT !.connected = TRUE, !.congested = FALSE, !.killQueued = FALSE]

=============================================================================
