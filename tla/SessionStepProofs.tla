--------------------------- MODULE SessionStepProofs ---------------------------
(***************************************************************************)
(* What no step of Session does, for every peer, every setting and every    *)
(* bound: the action properties of Session.  SessionProofs says that every  *)
(* operator of SessionCore returns a valid record; the lemmas here say what  *)
(* it leaves as it was, up to Outcome, which is all of processMessage.      *)
(***************************************************************************)
EXTENDS SessionProofs

\* No message of a sequence is a SequenceReset.
NoFills(q) == \A i \in DOMAIN q : q[i].type # "SequenceReset"

\* From t to u the session only sent something other than a SequenceReset, or lost
\* its connection or its state: what it expects and holds for the peer is the same.
Says(t, u) ==
    /\ u.cfg = t.cfg /\ u.target = t.target
    /\ u.dlv = t.dlv /\ u.queue = t.queue
    /\ u.phase = t.phase /\ u.replay = t.replay
    /\ NoFills(t.out) => NoFills(u.out)

\* From t to u the expected number may also have risen and queued messages have gone,
\* and a Logon that resets may have done both.
Moves(t, u) ==
    /\ u.cfg = t.cfg /\ u.dlv = t.dlv /\ u.phase = t.phase /\ u.replay = t.replay
    /\ t.cfg.resetOnLogon \/ u.target >= t.target
    /\ u.queue \subseteq t.queue
    /\ NoFills(t.out) => NoFills(u.out)

\* What a replay has yet to resend.
Replayable(t, r) ==
    {c \in t.msgs : c.type \notin SessionMsgs /\ c.seq >= r.ptr /\ (r.end = 0 \/ c.seq <= r.end)}

\* A replay holds all of it, in and behind the message it resent last.
Covered(t) ==
    /\ Replayable(t, t.replay) \subseteq t.replay.todo
    /\ \A c \in t.replay.todo : /\ c.type \notin SessionMsgs
                                /\ c.seq + 1 >= t.replay.ptr
                                /\ t.replay.end = 0 \/ c.seq <= t.replay.end

\* What processMessage may make of a session t that meets the message m.
Outcome(t, m, u) ==
    /\ u.cfg = t.cfg
    /\ t.cfg.resetOnLogon \/ u.target >= t.target
    /\ \/ u.dlv = t.dlv
       \/ /\ u.dlv = Append(t.dlv, m) /\ m.seq = t.target /\ u.target = t.target + 1
          /\ t.state \notin {"LOGON", "LOGOUT"}
    /\ NoFills(t.out) => NoFills(u.out)
    /\ u.state = "KILLING" => t.state = "KILLING" \/ (u.queue = t.queue /\ u.target = t.target)
    /\ u.queue \subseteq t.queue \cup {m}
    /\ \/ u.phase = t.phase /\ u.replay = t.replay
       \/ u.phase = "idle" /\ m.flaw = "noField"
       \/ u.phase = "replay" /\ Covered(u) /\ (u.state = "KILLING" => t.state = "KILLING")

-----------------------------------------------------------------------------
(* Sending *)

\* A session record is a valid one if an operator may have edited it.
LEMMA RecordValid ==
    ASSUME NEW t
    PROVE  t \in SessionRecord <=> Valid(t, FALSE)
BY DEF Valid

\* One sending after the other.
LEMMA SaysTwice ==
    ASSUME NEW t, NEW u, NEW v, Says(t, u), Says(u, v)
    PROVE  Says(t, v)
BY DEF Says

\* internal_send adds one message to what is on the wire, or none.
LEMMA TransmitSays ==
    ASSUME NEW t \in SessionRecord, NEW m \in Message, m.type # "SequenceReset"
    PROVE  /\ Says(t, Transmit(t, m))
           /\ Transmit(t, m).state = t.state /\ Transmit(t, m).msgs = t.msgs
<1> DEFINE q == Append(t.out, m)
<1>1. t.out \in Seq(Message)
  BY DEF SessionRecord
<1>2. ASSUME NoFills(t.out) PROVE NoFills(q)
  <2>1. \A i \in DOMAIN q : (i \in DOMAIN t.out /\ q[i] = t.out[i]) \/ q[i] = m
    BY <1>1
  <2> HIDE DEF q
  <2>2. QED
    BY <1>2, <2>1 DEF NoFills
<1> HIDE DEF q
<1>3. Transmit(t, m) = IF t.connected THEN [t EXCEPT !.out = q] ELSE t
  BY DEF Transmit, q
<1>4. QED
  BY <1>2, <1>3 DEF Says, SessionRecord

\* send numbers, caches and transmits: a message of the session layer is never one
\* that a replay resends.
LEMMA SendSays ==
    ASSUME NEW t \in SessionRecord, NEW m \in Message, m.type # "SequenceReset"
    PROVE  /\ Send(t, m) \in SessionRecord
           /\ Says(t, Send(t, m)) /\ Send(t, m).state = t.state
           /\ m.type \in SessionMsgs =>
                \A c \in Send(t, m).msgs : c \in t.msgs \/ c.type \in SessionMsgs
<1> DEFINE stamped == [m EXCEPT !.seq = t.sender]
           entry == [seq |-> stamped.seq, type |-> stamped.type, id |-> stamped.id]
           more == {c \in t.msgs : c.seq # stamped.seq} \cup {entry}
           u == SetSender(Cache(t, stamped), t.sender + 1)
<1>1. stamped \in Message /\ stamped.type = m.type
  BY DEF SessionRecord, Message
<1>2. entry \in Sent /\ entry.type = m.type
  BY <1>1 DEF Message, Sent
<1>3. \A c \in more : c \in t.msgs \/ c = entry
  OBVIOUS
<1> DEFINE pending == IF t.cfg.persist THEN t.pending \cup {stamped.seq} ELSE t.pending
<1>4. u = [t EXCEPT !.msgs = more, !.sender = t.sender + 1, !.dirty = t.cfg.persist,
                    !.pending = pending]
  BY DEF SetSender, Cache, SessionRecord
<1>5. more \in SUBSET Sent /\ pending \in SUBSET Nat
  BY <1>1, <1>2 DEF SessionRecord, Message
<1> HIDE DEF more, pending, entry, stamped, u
<1>6. u \in SessionRecord
  <2>1. t.cfg.persist \in BOOLEAN /\ t.sender + 1 \in Nat
    BY DEF SessionRecord, Settings
  <2>2. QED
    BY <1>4, <1>5, <2>1 DEF SessionRecord
<1>7. Says(t, u) /\ u.state = t.state /\ u.msgs = more
  BY <1>4 DEF Says, SessionRecord
<1>8. Send(t, m) = Transmit(u, stamped)
  BY DEF Send, u, stamped
<1>9. Says(u, Send(t, m)) /\ Send(t, m).state = u.state /\ Send(t, m).msgs = u.msgs
  BY <1>1, <1>6, <1>8, TransmitSays
<1>10. Send(t, m) \in SessionRecord
  BY RecordValid, SendValid
<1>11. Says(t, Send(t, m))
  BY <1>7, <1>9, SaysTwice
<1>12. QED
  BY <1>2, <1>3, <1>7, <1>9, <1>10, <1>11

\* A lost connection changes nothing that the peer's messages meet.
LEMMA DisconnectSays ==
    ASSUME NEW t \in SessionRecord
    PROVE  /\ Disconnect(t) \in SessionRecord /\ Says(t, Disconnect(t))
           /\ Disconnect(t).state = t.state /\ Disconnect(t).msgs = t.msgs
BY DEF Disconnect, Says, SessionRecord

\* Nor does the end of a session, except for the state.
LEMMA TerminateSays ==
    ASSUME NEW t \in SessionRecord
    PROVE  /\ Terminate(t) \in SessionRecord /\ Says(t, Terminate(t))
           /\ Terminate(t).state = "LOGON" /\ Terminate(t).msgs = t.msgs
BY DEF Terminate, Disconnect, Says, SessionRecord, SessionStates

\* Setting the state alone says nothing.
LEMMA SetStateSays ==
    ASSUME NEW t \in SessionRecord, NEW x \in SessionStates
    PROVE  /\ [t EXCEPT !.state = x] \in SessionRecord /\ Says(t, [t EXCEPT !.state = x])
           /\ [t EXCEPT !.state = x].state = x
BY DEF Says, SessionRecord

\* A Logout ends the session at once only if the socket takes it.
LEMMA SendLogoutSays ==
    ASSUME NEW t \in SessionRecord, NEW terminal
    PROVE  /\ SendLogout(t, terminal) \in SessionRecord /\ Says(t, SendLogout(t, terminal))
           /\ SendLogout(t, terminal).state \in {t.state, "LOGON"}
<1> DEFINE u == Send(t, Plain("Logout"))
<1>1. Plain("Logout") \in Message /\ Plain("Logout").type # "SequenceReset"
  BY PlainType DEF MsgTypes, SessionMsgs, Plain
<1>2. u \in SessionRecord /\ Says(t, u) /\ u.state = t.state
  BY <1>1, SendSays
<1> HIDE DEF u
<1>3. /\ [u EXCEPT !.killQueued = TRUE] \in SessionRecord
      /\ Says(u, [u EXCEPT !.killQueued = TRUE]) /\ [u EXCEPT !.killQueued = TRUE].state = u.state
  BY <1>2 DEF Says, SessionRecord
<1>4. Terminate(u) \in SessionRecord /\ Says(u, Terminate(u)) /\ Terminate(u).state = "LOGON"
  BY <1>2, TerminateSays
<1>5. Says(t, [u EXCEPT !.killQueued = TRUE]) /\ Says(t, Terminate(u))
  BY <1>2, <1>3, <1>4, SaysTwice
<1>6. QED
  BY <1>2, <1>3, <1>4, <1>5 DEF SendLogout, u

\* A Logout is one message, whether it ends the session or waits for an answer.
LEMMA LogoutSays ==
    ASSUME NEW t \in SessionRecord, NEW terminal
    PROVE  Logout(t, terminal) \in SessionRecord /\ Says(t, Logout(t, terminal))
<1> DEFINE x == IF terminal THEN "KILLING" ELSE "LOGOUT"
           u == [t EXCEPT !.state = x]
<1>1. x \in SessionStates
  BY DEF SessionStates
<1> HIDE DEF x
<1>2. u \in SessionRecord /\ Says(t, u)
  BY <1>1, SetStateSays
<1> HIDE DEF u
<1>3. SendLogout(u, terminal) \in SessionRecord /\ Says(u, SendLogout(u, terminal))
  BY <1>2, SendLogoutSays
<1>4. Logout(t, terminal) = SendLogout(u, terminal)
  BY DEF Logout, u, x
<1>5. QED
  BY <1>2, <1>3, <1>4, SaysTwice

\* A Reject is one message.
LEMMA SendRejectSays ==
    ASSUME NEW t \in SessionRecord
    PROVE  /\ SendReject(t) \in SessionRecord /\ Says(t, SendReject(t))
           /\ SendReject(t).state = t.state
<1>1. Plain("Reject") \in Message /\ Plain("Reject").type # "SequenceReset"
  BY PlainType DEF MsgTypes, Plain
<1>2. QED
  BY <1>1, SendSays DEF SendReject

\* A Heartbeat is one message.
LEMMA SendHeartbeatSays ==
    ASSUME NEW t \in SessionRecord, NEW reqId \in Nat
    PROVE  /\ SendHeartbeat(t, reqId) \in SessionRecord /\ Says(t, SendHeartbeat(t, reqId))
           /\ SendHeartbeat(t, reqId).state = t.state
<1> DEFINE m == [Plain("Heartbeat") EXCEPT !.reqId = reqId]
<1>1. m \in Message /\ m.type # "SequenceReset"
  BY DEF Plain, Message, MsgTypes, SessionMsgs, Flaws, Absent
<1> HIDE DEF m
<1>2. SendHeartbeat(t, reqId) = Send(t, m)
  BY DEF SendHeartbeat, m
<1>3. QED
  BY <1>1, <1>2, SendSays

\* A TestRequest is one message.
LEMMA SendTestRequestSays ==
    ASSUME NEW t \in SessionRecord
    PROVE  SendTestRequest(t) \in SessionRecord /\ Says(t, SendTestRequest(t))
<1> DEFINE m == [Plain("TestRequest") EXCEPT !.reqId = t.testReqId + 1]
           u == [t EXCEPT !.testReqId = @ + 1]
<1>1. t.testReqId + 1 \in Nat
  BY DEF SessionRecord
<1>2. m \in Message /\ m.type # "SequenceReset"
  BY <1>1 DEF Plain, Message, MsgTypes, SessionMsgs, Flaws, Absent
<1>3. u \in SessionRecord /\ Says(t, u)
  BY <1>1 DEF SessionRecord, Says
<1>4. SendTestRequest(t) = Send(u, m)
  BY DEF SendTestRequest
<1> HIDE DEF m, u
<1>5. Send(u, m) \in SessionRecord /\ Says(u, Send(u, m))
  BY <1>2, <1>3, SendSays
<1>6. QED
  BY <1>3, <1>4, <1>5, SaysTwice

\* A ResendRequest is one message.
LEMMA SendResendRequestSays ==
    ASSUME NEW t \in SessionRecord, NEW from \in Nat, NEW to \in Nat
    PROVE  LET u == SendResendRequest(t, from, to)
           IN  /\ u \in SessionRecord /\ Says(t, u) /\ u.state = t.state
               /\ \A c \in u.msgs : c \in t.msgs \/ c.type \in SessionMsgs
<1> DEFINE m == [Plain("ResendRequest") EXCEPT !.begin = from, !.end = to]
<1>1. m \in Message /\ m.type # "SequenceReset" /\ m.type \in SessionMsgs
  BY DEF Plain, Message, MsgTypes, SessionMsgs, Flaws, Absent
<1> HIDE DEF m
<1>2. SendResendRequest(t, from, to) = Send(t, m)
  BY DEF SendResendRequest, m
<1>3. QED
  BY <1>1, <1>2, SendSays

\* A Logon is one message, and does not change the state by itself.
LEMMA SendLogonSays ==
    ASSUME NEW t \in SessionRecord, NEW shouldReset \in BOOLEAN
    PROVE  /\ SendLogon(t, shouldReset) \in SessionRecord /\ Says(t, SendLogon(t, shouldReset))
           /\ SendLogon(t, shouldReset).state = t.state
<1> DEFINE next == IF t.cfg.sendNext THEN t.target ELSE Absent
           flaw == IF t.cfg.sendNext \/ shouldReset THEN "noSeqNum" ELSE "none"
           m == [Plain("Logon") EXCEPT !.reset = shouldReset, !.next = next, !.flaw = flaw]
<1>1. next \in Nat \cup {Absent} /\ flaw \in Flaws
  BY DEF SessionRecord, Flaws
<1> HIDE DEF next, flaw
<1>2. m \in Message /\ m.type # "SequenceReset"
  BY <1>1 DEF Plain, Message, MsgTypes, SessionMsgs
<1>3. SendLogon(t, shouldReset) = Send(t, m)
  BY DEF SendLogon, next, flaw
<1> HIDE DEF m
<1>4. QED
  BY <1>2, <1>3, SendSays

-----------------------------------------------------------------------------
(* Receiving *)

\* Sending moves nothing.
LEMMA SaysMoves ==
    ASSUME NEW t \in SessionRecord, NEW u, Says(t, u)
    PROVE  Moves(t, u)
BY DEF Says, Moves, SessionRecord

\* One move after the other.
LEMMA MovesTwice ==
    ASSUME NEW t \in SessionRecord, NEW u \in SessionRecord, NEW v \in SessionRecord,
           Moves(t, u), Moves(u, v)
    PROVE  Moves(t, v)
<1>1. t.target \in Nat /\ u.target \in Nat /\ v.target \in Nat
  BY DEF SessionRecord
<1>2. QED
  BY <1>1 DEF Moves

\* Counting the next message moves the expected number forward by one.
LEMMA NextTargetMoves ==
    ASSUME NEW t \in SessionRecord
    PROVE  /\ NextTarget(t) \in SessionRecord
           /\ NextTarget(t) = [t EXCEPT !.target = t.target + 1, !.dirty = t.cfg.persist]
           /\ Moves(t, NextTarget(t)) /\ NextTarget(t).state = t.state
<1>1. NextTarget(t) = [t EXCEPT !.target = t.target + 1, !.dirty = t.cfg.persist]
  BY DEF NextTarget, SetTarget
<1>2. t.cfg.persist \in BOOLEAN /\ t.target \in Nat
  BY DEF SessionRecord, Settings
<1>3. NextTarget(t) \in SessionRecord
  BY RecordValid, NextTargetValid
<1>4. Moves(t, NextTarget(t)) /\ NextTarget(t).state = t.state
  BY <1>1, <1>2 DEF Moves, SessionRecord
<1>5. QED
  BY <1>1, <1>3, <1>4

\* A handler that only sends may kill the session, but leaves the queue alone.
LEMMA SaysOutcome ==
    ASSUME NEW t \in SessionRecord, NEW m, NEW u, Says(t, u)
    PROVE  Outcome(t, m, u)
BY DEF Says, Outcome, SessionRecord

\* One that moves on may do so if it does not kill the session.
LEMMA MovesOutcome ==
    ASSUME NEW t, NEW m, NEW u, Moves(t, u),
           u.state = "KILLING" => t.state = "KILLING"
    PROVE  Outcome(t, m, u)
BY DEF Moves, Outcome

\* An exception ends the handling where it was.
LEMMA ThrowOutcome ==
    ASSUME NEW t, NEW m, NEW u \in SessionRecord, Moves(t, u), m.flaw = "noField",
           u.state = "KILLING" => t.state = "KILLING"
    PROVE  Outcome(t, m, Throw(u))
BY DEF Moves, Outcome, Throw, SessionRecord

\* A refused message is answered, and not delivered.
LEMMA RefuseSays ==
    ASSUME NEW t \in SessionRecord, NEW defect
    PROVE  Says(t, Refuse(t, defect))
<1>1. Says(t, Terminate(t)) /\ Says(t, Logout(t, TRUE)) /\ Says(t, SendReject(t))
  BY TerminateSays, LogoutSays, SendRejectSays
<1>2. Says(t, Logout(SendReject(t), FALSE))
  BY SendRejectSays, LogoutSays, SaysTwice
<1>3. QED
  BY <1>1, <1>2 DEF Refuse

\* A message from the past ends the session, one from the future is queued.
LEMMA OutOfSequenceOutcome ==
    ASSUME NEW t \in SessionRecord, NEW m \in Message
    PROVE  Outcome(t, m, OutOfSequence(t, m))
<1> DEFINE u == Enqueue(t, m)
           v == SendResendRequest(u, t.target, m.seq)
<1>1. CASE m.seq < t.target
  <2>1. OutOfSequence(t, m) = Logout(t, TRUE)
    BY <1>1 DEF OutOfSequence
  <2>2. QED
    BY <2>1, LogoutSays, SaysOutcome
<1>2. CASE ~(m.seq < t.target)
  <2>1. /\ u = [t EXCEPT !.queue = {q \in t.queue : q.seq # m.seq} \cup {m}]
        /\ u \in SessionRecord /\ t.target \in Nat /\ m.seq \in Nat
    BY ZenonT(60) DEF Enqueue, SessionRecord, Message
  <2>2. /\ u.queue \subseteq t.queue \cup {m}
        /\ u.cfg = t.cfg /\ u.target = t.target /\ u.dlv = t.dlv /\ u.phase = t.phase
        /\ u.replay = t.replay /\ u.out = t.out /\ u.state = t.state
    BY <2>1 DEF SessionRecord
  <2> HIDE DEF u
  <2>3. Says(u, v) /\ v.state = u.state
    BY <2>1, SendResendRequestSays
  <2>4. OutOfSequence(t, m) = v
    BY <1>2 DEF OutOfSequence, u
  <2> HIDE DEF v
  <2>5. QED
    BY <2>1, <2>2, <2>3, <2>4 DEF Outcome, Says
<1>3. QED
  BY <1>1, <1>2

\* A replay starts with all of the cached messages in its range.
LEMMA StartReplayCovers ==
    ASSUME NEW t \in SessionRecord, NEW begin \in Nat, NEW end \in Nat, NEW seq, NEW ask
    PROVE  LET u == StartReplay(t, begin, end, seq, ask)
           IN  /\ u.phase = "replay" /\ Covered(u)
               /\ \A f \in {"cfg", "target", "dlv", "queue", "out", "state"} : u[f] = t[f]
<1> DEFINE u == StartReplay(t, begin, end, seq, ask)
           last == Smaller(end, t.sender)
           todo == {c \in t.msgs : /\ c.type \notin SessionMsgs
                                   /\ c.seq >= begin
                                   /\ last = 0 \/ c.seq <= last}
           r == [begin |-> begin, ptr |-> begin, end |-> last, todo |-> todo,
                 seq |-> seq, ask |-> ask]
<1>1. u = [t EXCEPT !.phase = "replay", !.replay = r]
  BY DEF StartReplay
<1>2. r.ptr = begin /\ r.end = last /\ r.todo = todo
  OBVIOUS
<1>3. \A c \in todo : c.seq \in Nat
  BY DEF SessionRecord, Sent
<1> HIDE DEF u, r, last
<1>4. /\ u.phase = "replay" /\ u.replay = r /\ u.msgs = t.msgs
      /\ \A f \in {"cfg", "target", "dlv", "queue", "out", "state"} : u[f] = t[f]
  BY <1>1 DEF SessionRecord
<1>5. Replayable(u, r) = todo
  BY <1>2, <1>4 DEF Replayable
<1>6. \A c \in todo : c.type \notin SessionMsgs /\ c.seq + 1 >= begin /\ (last = 0 \/ c.seq <= last)
  BY <1>3
<1> HIDE DEF todo
<1>7. Covered(u)
  BY <1>2, <1>4, <1>5, <1>6 DEF Covered
<1>8. QED
  BY <1>4, <1>7 DEF u

\* A SequenceReset moves the expected number forward only.
LEMMA HandleSequenceResetOutcome ==
    ASSUME NEW t \in SessionRecord, NEW m \in Message
    PROVE  Outcome(t, m, HandleSequenceReset(t, m))
<1>1. m.new \in Nat /\ t.target \in Nat
  BY DEF Message, SessionRecord
<1>2. Says(t, t)
  BY DEF Says
<1>3. m.flaw = "noField" => Outcome(t, m, Throw(t))
  BY <1>2, SaysMoves, ThrowOutcome
<1>4. Outcome(t, m, SendReject(t)) /\ Outcome(t, m, Logout(t, TRUE))
  BY SendRejectSays, LogoutSays, SaysOutcome
<1>5. Outcome(t, m, OutOfSequence(t, m))
  BY OutOfSequenceOutcome
<1>6. ~(m.new < t.target) => Outcome(t, m, SetTarget(t, m.new))
  <2>1. /\ SetTarget(t, m.new).state = t.state
        /\ ~(m.new < t.target) => Moves(t, SetTarget(t, m.new))
    BY <1>1 DEF Moves, SetTarget, SessionRecord
  <2>2. QED
    BY <2>1, MovesOutcome
<1>7. QED
  BY <1>3, <1>4, <1>5, <1>6 DEF HandleSequenceReset

\* A ResendRequest that is in range starts a replay.
LEMMA HandleResendRequestOutcome ==
    ASSUME NEW t \in SessionRecord, NEW m \in Message
    PROVE  Outcome(t, m, HandleResendRequest(t, m))
<1> DEFINE u == StartReplay(t, m.begin, m.end, m.seq, Absent)
<1>1. m.begin \in Nat /\ m.end \in Nat
  BY DEF Message
<1>2. /\ u.phase = "replay" /\ Covered(u)
      /\ \A f \in {"cfg", "target", "dlv", "queue", "out", "state"} : u[f] = t[f]
  BY <1>1, StartReplayCovers
<1> HIDE DEF u
<1>3. /\ u.cfg = t.cfg /\ u.target = t.target /\ u.dlv = t.dlv /\ u.queue = t.queue
      /\ u.out = t.out /\ u.state = t.state /\ t.target \in Nat
  BY <1>2 DEF SessionRecord
<1>4. Outcome(t, m, u)
  BY <1>2, <1>3 DEF Outcome
<1>5. Says(t, t)
  BY DEF Says
<1>6. m.flaw = "noField" => Outcome(t, m, Throw(t))
  BY <1>5, SaysMoves, ThrowOutcome
<1>7. QED
  BY <1>4, <1>6 DEF HandleResendRequest, u

\* A Logon that is accepted may reset the session, where the settings allow it, and
\* leaves it READY, perhaps with a replay to do.
LEMMA AcceptLogonOutcome ==
    ASSUME NEW t \in SessionRecord, NEW m \in Message, ~LogonRefused(t, m)
    PROVE  Outcome(t, m, AcceptLogon(t, m))
<1> DEFINE expected == t.target
           zeroed   == IF m.reset THEN Reset(t) ELSE t
           counted  == IF m.seq = expected THEN NextTarget(zeroed) ELSE zeroed
           answered == IF t.cfg.initiator THEN counted ELSE SendLogon(counted, m.reset)
           ready    == [answered EXCEPT !.state = "READY"]
           ask      == IF ~t.cfg.sendNext /\ m.seq > expected THEN expected ELSE Absent
<1>1. /\ m.reset \in BOOLEAN /\ m.next \in Nat \cup {Absent}
      /\ expected \in Nat /\ ask \in Nat \cup {Absent}
  BY DEF Message, SessionRecord
<1>2. m.reset => t.cfg.resetOnLogon
  BY DEF LogonRefused
<1>3. zeroed \in SessionRecord /\ Moves(t, zeroed) /\ zeroed.state = t.state
  <2>1. Reset(t) \in SessionRecord
    BY RecordValid, ResetValid
  <2>2. /\ Reset(t).state = t.state /\ Moves(t, t)
        /\ m.reset => Moves(t, Reset(t))
    BY <1>2 DEF Moves, Reset, SessionRecord
  <2>3. QED
    BY <2>1, <2>2
<1> HIDE DEF zeroed
<1>4. counted \in SessionRecord /\ Moves(t, counted) /\ counted.state = t.state
  <2>1. /\ NextTarget(zeroed) \in SessionRecord /\ Moves(zeroed, NextTarget(zeroed))
        /\ NextTarget(zeroed).state = zeroed.state
    BY <1>3, NextTargetMoves
  <2>2. QED
    BY <1>3, <2>1, MovesTwice
<1> HIDE DEF counted
<1>5. answered \in SessionRecord /\ Moves(t, answered)
  <2>1. SendLogon(counted, m.reset) \in SessionRecord /\ Moves(counted, SendLogon(counted, m.reset))
    BY <1>1, <1>4, SendLogonSays, SaysMoves
  <2>2. QED
    BY <1>4, <2>1, MovesTwice
<1> HIDE DEF answered
<1>6. ready \in SessionRecord /\ Moves(t, ready) /\ ready.state = "READY"
  <2>1. ready \in SessionRecord /\ Says(answered, ready) /\ ready.state = "READY"
    BY <1>5, SetStateSays DEF SessionStates
  <2>2. QED
    BY <1>5, <2>1, SaysMoves, MovesTwice
<1> HIDE DEF ready, ask, expected
<1>7. m.flaw = "noField" => Outcome(t, m, Throw(counted))
  BY <1>4, ThrowOutcome
<1>8. ASSUME m.next # Absent PROVE Outcome(t, m, StartReplay(ready, m.next, 0, Absent, ask))
  <2> DEFINE u == StartReplay(ready, m.next, 0, Absent, ask)
  <2>1. m.next \in Nat
    BY <1>1, <1>8
  <2>2. /\ u.phase = "replay" /\ Covered(u)
        /\ \A f \in {"cfg", "target", "dlv", "queue", "out", "state"} : u[f] = ready[f]
    BY <1>6, <2>1, StartReplayCovers
  <2> HIDE DEF u
  <2>3. /\ u.cfg = ready.cfg /\ u.target = ready.target /\ u.dlv = ready.dlv
        /\ u.queue = ready.queue /\ u.out = ready.out /\ u.state = ready.state
    BY <2>2
  <2>4. Outcome(t, m, u)
    BY <1>6, <2>2, <2>3 DEF Outcome, Moves
  <2>5. QED
    BY <2>4 DEF u
<1>9. ASSUME ask # Absent PROVE Outcome(t, m, SendResendRequest(ready, ask, 0))
  <2> DEFINE u == SendResendRequest(ready, ask, 0)
  <2>1. ask \in Nat
    BY <1>1, <1>9
  <2>2. u \in SessionRecord /\ Moves(ready, u) /\ u.state = ready.state
    BY <1>6, <2>1, SendResendRequestSays, SaysMoves
  <2> HIDE DEF u
  <2>3. Moves(t, u) /\ u.state # "KILLING"
    BY <1>6, <2>2, MovesTwice
  <2>4. Outcome(t, m, u)
    BY <2>3, MovesOutcome
  <2>5. QED
    BY <2>4 DEF u
<1>10. Outcome(t, m, ready)
  BY <1>6, MovesOutcome
<1>11. QED
  BY <1>7, <1>8, <1>9, <1>10
     DEF AcceptLogon, zeroed, counted, answered, ready, ask, expected

\* A Logon may also meet a session that is logged on already.
LEMMA HandleLogonOutcome ==
    ASSUME NEW t \in SessionRecord, NEW m \in Message
    PROVE  Outcome(t, m, HandleLogon(t, m))
<1>1. Outcome(t, m, Logout(t, FALSE)) /\ Outcome(t, m, Logout(t, TRUE))
  BY LogoutSays, SaysOutcome
<1>2. ~LogonRefused(t, m) => Outcome(t, m, AcceptLogon(t, m))
  BY AcceptLogonOutcome
<1>3. QED
  BY <1>1, <1>2 DEF HandleLogon

\* The next message counts; what it delivers, it delivers to a session logged on.
LEMMA InSequenceOutcome ==
    ASSUME NEW t \in SessionRecord, NEW m \in Message, m.seq = t.target,
           m.type = "App" => t.state \notin {"LOGON", "LOGOUT"}
    PROVE  Outcome(t, m, InSequence(t, m))
<1> DEFINE u == NextTarget(t)
           v == [u EXCEPT !.dlv = Append(@, m)]
<1>1. m.reqId \in Nat /\ t.target \in Nat
  BY DEF Message, SessionRecord
<1>2. /\ u = [t EXCEPT !.target = t.target + 1, !.dirty = t.cfg.persist]
      /\ u \in SessionRecord /\ Moves(t, u) /\ u.state = t.state
  BY NextTargetMoves
<1>3. u.target = t.target + 1
  BY <1>2 DEF SessionRecord
<1>4. m.type = "App" => Outcome(t, m, v)
  <2>1. /\ v.cfg = t.cfg /\ v.dlv = Append(t.dlv, m) /\ v.queue = t.queue /\ v.out = t.out
        /\ v.state = t.state /\ v.phase = t.phase /\ v.replay = t.replay
        /\ v.target = t.target + 1
    BY <1>2 DEF SessionRecord
  <2> HIDE DEF v
  <2>2. QED
    BY <1>1, <2>1 DEF Outcome
<1> HIDE DEF u
<1>5. ASSUME NEW w \in SessionRecord, Says(u, w), w.state \in {u.state, "LOGON", "READY"}
      PROVE  Outcome(t, m, w)
  <2>1. Moves(t, w)
    BY <1>2, <1>5, SaysMoves, MovesTwice
  <2>2. QED
    BY <1>2, <1>5, <2>1, MovesOutcome
<1>6. Outcome(t, m, HandleLogout(u))
  BY <1>2, <1>5, TerminateSays, SendLogoutSays DEF HandleLogout
<1>7. Says(u, u) /\ Outcome(t, m, u)
  BY <1>2, <1>5 DEF Says
<1>8. Outcome(t, m, HandleHeartbeat(u, m))
  BY <1>2, <1>5, <1>7, SetStateSays DEF HandleHeartbeat, SessionStates
<1>9. Outcome(t, m, HandleTestRequest(u, m))
  <2>1. m.flaw = "noField" => Outcome(t, m, Throw(u))
    BY <1>2, ThrowOutcome
  <2>2. Outcome(t, m, SendHeartbeat(u, m.reqId))
    BY <1>1, <1>2, <1>5, SendHeartbeatSays
  <2>3. QED
    BY <2>1, <2>2 DEF HandleTestRequest
<1>10. QED
  BY <1>4, <1>6, <1>7, <1>8, <1>9 DEF InSequence, u

\* processMessage, whatever the message.
LEMMA ProcessMessageOutcome ==
    ASSUME NEW t \in SessionRecord, NEW m \in Message
    PROVE  Outcome(t, m, ProcessMessage(t, m))
<1>1. Outcome(t, m, Refuse(t, Defect(t, m)))
  BY RefuseSays, SaysOutcome
<1>2. /\ Outcome(t, m, HandleSequenceReset(t, m)) /\ Outcome(t, m, HandleResendRequest(t, m))
      /\ Outcome(t, m, HandleLogon(t, m)) /\ Outcome(t, m, OutOfSequence(t, m))
  BY HandleSequenceResetOutcome, HandleResendRequestOutcome, HandleLogonOutcome,
     OutOfSequenceOutcome
<1>3. ASSUME Defect(t, m) = "none", m.seq = t.target PROVE Outcome(t, m, InSequence(t, m))
  <2>1. m.type = "App" => t.state \notin {"LOGON", "LOGOUT"}
    BY <1>3 DEF Defect
  <2>2. QED
    BY <1>3, <2>1, InSequenceOutcome
<1>4. QED
  BY <1>1, <1>2, <1>3 DEF ProcessMessage

-----------------------------------------------------------------------------
(* The inductive invariants of the action properties *)

\* The next expected number is behind every number given to the application.
Fed ==
    /\ starts >= 1
    /\ edits = 0 /\ starts = 1 /\ ~s.cfg.resetOnLogon => lastDlv < s.target

\* The inbound-queue loop has nothing for a session that is being killed, and
\* nothing is left for it once it has ended.
Killed ==
    edits = 0 /\ ~Throws =>
        /\ s.phase = "idle" \/ s.state = "KILLING" => NextToDrain(s) = {}
        /\ s.phase = "replay" => s.state # "KILLING"
        /\ s.queue \subseteq Env.inbound

\* A replay still holds every message it has not reached, unless the application
\* sends meanwhile.
Covers == s.phase = "replay" /\ ~Env.sendInReplay => Covered(s)

StepInv == Fed /\ Killed /\ Covers

\* What a step promises.
Promises ==
    /\ s'.target < s.target => edits' # edits \/ starts' # starts \/ s.cfg.resetOnLogon
    /\ s'.dlv # <<>> /\ edits = 0 /\ starts = 1 /\ ~s.cfg.resetOnLogon
         => s'.dlv[1].seq > lastDlv
    /\ s'.dlv # <<>> /\ edits = 0 => LoggedOn(s) \/ Throws
    /\ \A i \in DOMAIN s'.out : \A c \in s'.msgs :
          Hides(s'.out[i], c) => Env.sendInReplay \/ JustResent(c)

\* The queue holds a next message or not, whatever else the session record says.
LEMMA SameNextToDrain ==
    ASSUME NEW t, NEW u, u.queue = t.queue, u.target = t.target
    PROVE  NextToDrain(u) = NextToDrain(t)
BY DEF NextToDrain, FirstQueued

\* What a replay still has to cover depends on the cache and the replay alone.
LEMMA SameCovered ==
    ASSUME NEW t, NEW u, u.msgs = t.msgs, u.replay = t.replay
    PROVE  Covered(u) = Covered(t)
BY DEF Covered, Replayable

\* Covered, of a replay that has a name.
LEMMA CoveredBy ==
    ASSUME NEW t, NEW r, t.replay = r, Replayable(t, r) \subseteq r.todo,
           \A c \in r.todo : /\ c.type \notin SessionMsgs /\ c.seq + 1 >= r.ptr
                             /\ r.end = 0 \/ c.seq <= r.end
    PROVE  Covered(t)
BY DEF Covered

\* Without a SequenceReset nothing is hidden.
LEMMA NoFillsHideNothing ==
    ASSUME NEW q, NoFills(q)
    PROVE  \A i \in DOMAIN q : \A c : ~Hides(q[i], c)
BY DEF NoFills, Hides

\* The empty record fields a handler starts from.
LEMMA FreshFields ==
    ASSUME IInv
    PROVE  /\ s \in SessionRecord /\ Fresh \in SessionRecord
           /\ Fresh.dlv = <<>> /\ Fresh.out = <<>> /\ NoFills(<<>>)
           /\ Fresh.cfg = s.cfg /\ Fresh.state = s.state /\ Fresh.target = s.target
           /\ Fresh.queue = s.queue /\ Fresh.msgs = s.msgs /\ Fresh.phase = s.phase
           /\ Fresh.replay = s.replay
<1>1. s \in SessionRecord /\ Fresh \in SessionRecord
  BY FreshValid DEF Valid
<1>2. NoFills(<<>>)
  BY DEF NoFills
<1>3. QED
  BY <1>1, <1>2 DEF Fresh, SessionRecord

-----------------------------------------------------------------------------
(* Steps that give the application nothing *)

\* A step that only sends, flushes, connects or disconnects, or resets the session
\* where the settings say so.
Quiet ==
    /\ s' \in SessionRecord /\ s'.cfg = s.cfg /\ s'.dlv = <<>> /\ NoFills(s'.out)
    /\ \/ s'.target = s.target /\ s'.queue = s.queue
       \/ s.cfg.resetOnLogon /\ s'.queue = {}
    /\ s'.state = "KILLING" => s.state = "KILLING"
    /\ s'.phase = "idle" => s.phase = "idle" \/ NextToDrain(s) = {}
    /\ s'.phase = "replay" => /\ s.phase = "replay" /\ s'.replay = s.replay
                              /\ Env.sendInReplay \/ s'.msgs = s.msgs
    /\ UNCHANGED <<env, edits, starts, lastDlv>>

\* A step of the environment that says, delivers and moves nothing.
LEMMA QuietStep ==
    ASSUME IInv, StepInv, Quiet
    PROVE  StepInv' /\ Promises
<1>1. Fed'
  BY DEF Quiet, StepInv, Fed
<1>2. Killed'
  <2> SUFFICES ASSUME edits' = 0, ~Throws'
               PROVE  /\ s'.phase = "idle" \/ s'.state = "KILLING" => NextToDrain(s') = {}
                      /\ s'.phase = "replay" => s'.state # "KILLING"
                      /\ s'.queue \subseteq Env'.inbound
    BY DEF Killed
  <2>1. edits = 0 /\ ~Throws /\ Env' = Env
    BY DEF Quiet, Throws, Env
  <2>2. CASE s'.target = s.target /\ s'.queue = s.queue
    <3>1. NextToDrain(s') = NextToDrain(s)
      BY <2>2, SameNextToDrain
    <3>2. QED
      BY <2>1, <2>2, <3>1 DEF Quiet, StepInv, Killed
  <2>3. CASE s'.queue = {}
    <3>1. NextToDrain(s') = {}
      BY <2>3 DEF NextToDrain, FirstQueued
    <3>2. QED
      BY <2>1, <2>3, <3>1 DEF Quiet, StepInv, Killed
  <2>4. QED
    BY <2>2, <2>3 DEF Quiet
<1>3. Covers'
  <2> SUFFICES ASSUME s'.phase = "replay", ~Env'.sendInReplay PROVE Covered(s')
    BY DEF Covers
  <2>1. /\ s'.msgs = s.msgs /\ s'.replay = s.replay /\ s.phase = "replay"
        /\ ~Env.sendInReplay
    BY DEF Quiet, Env
  <2>2. QED
    BY <2>1, SameCovered DEF StepInv, Covers
<1>4. Promises
  <2>1. s.target \in Nat /\ s'.target \in Nat
    BY DEF Quiet, IInv, TypeOK, SessionRecord
  <2>2. \A i \in DOMAIN s'.out : \A c \in s'.msgs : ~Hides(s'.out[i], c)
    BY NoFillsHideNothing DEF Quiet
  <2>3. QED
    BY <2>1, <2>2 DEF Quiet, Promises
<1>5. QED
  BY <1>1, <1>2, <1>3, <1>4 DEF StepInv

\* A handler that only sends is quiet; while a replay runs it may cache nothing.
LEMMA SaysQuiet ==
    ASSUME IInv, NEW t \in SessionRecord, Says(Fresh, t), Becomes(t),
           UNCHANGED <<edits, starts>>,
           t.state = "KILLING" => s.state = "KILLING",
           s.phase = "replay" => Env.sendInReplay \/ t.msgs = s.msgs
    PROVE  Quiet
<1>1. /\ t.cfg = s.cfg /\ t.target = s.target /\ t.dlv = <<>> /\ t.queue = s.queue
      /\ t.phase = s.phase /\ t.replay = s.replay /\ NoFills(t.out)
  BY FreshFields DEF Says
<1>2. QED
  BY <1>1 DEF Quiet, Becomes

\* A flush writes to the store only.
LEMMA FlushSays ==
    ASSUME NEW t \in SessionRecord
    PROVE  /\ FlushSeqNums(t) \in SessionRecord /\ Says(t, FlushSeqNums(t))
           /\ FlushSeqNums(t).state = t.state /\ FlushSeqNums(t).msgs = t.msgs
           /\ FlushSeqNums(t).phase = t.phase
<1>1. FlushSeqNums(t) \in SessionRecord
  BY RecordValid, FlushValid
<1>2. QED
  BY <1>1 DEF FlushSeqNums, Says, SessionRecord

\* The connection's flags are nothing that the peer's messages meet.
LEMMA FlagsSay ==
    ASSUME NEW t \in SessionRecord, NEW x \in BOOLEAN
    PROVE  LET u == [t EXCEPT !.congested = x]
               v == [t EXCEPT !.enabled = x]
           IN  /\ u \in SessionRecord /\ Says(t, u) /\ u.state = t.state /\ u.msgs = t.msgs
               /\ v \in SessionRecord /\ Says(t, v) /\ v.state = t.state /\ v.msgs = t.msgs
               /\ Connect(t) \in SessionRecord /\ Says(t, Connect(t))
               /\ Connect(t).state = t.state /\ Connect(t).msgs = t.msgs
BY DEF Connect, Says, SessionRecord

\* The end of a read, of a connection and of a process, and a full socket.
LEMMA ConnectionQuiet ==
    ASSUME IInv, EndBatch \/ PeerCloses \/ Congest \/ StopFlush \/ StopNetwork
    PROVE  Quiet
<1> DEFINE off == [Fresh EXCEPT !.enabled = FALSE]
           full == [Fresh EXCEPT !.congested = TRUE]
<1>1. /\ off \in SessionRecord /\ Says(Fresh, off) /\ off.state = s.state /\ off.msgs = s.msgs
      /\ full \in SessionRecord /\ Says(Fresh, full) /\ full.state = s.state
      /\ full.msgs = s.msgs
  BY FreshFields, FlagsSay
<1> HIDE DEF off, full
<1>2. /\ FlushSeqNums(off) \in SessionRecord /\ Says(Fresh, FlushSeqNums(off))
      /\ FlushSeqNums(off).state = s.state /\ FlushSeqNums(off).msgs = s.msgs
  BY <1>1, FlushSays, SaysTwice
<1>3. /\ Disconnect(Fresh) \in SessionRecord /\ Says(Fresh, Disconnect(Fresh))
      /\ Disconnect(Fresh).state = s.state /\ Disconnect(Fresh).msgs = s.msgs
  BY FreshFields, DisconnectSays
<1>4. Fresh \in SessionRecord /\ Says(Fresh, Fresh) /\ Fresh.state = s.state /\ Fresh.msgs = s.msgs
  BY FreshFields DEF Says
<1>5. /\ Becomes(Fresh) \/ Becomes(full) \/ Becomes(FlushSeqNums(off)) \/ Becomes(Disconnect(Fresh))
      /\ UNCHANGED <<edits, starts>>
  BY DEF EndBatch, PeerCloses, Congest, StopFlush, StopNetwork, off, full
<1>6. QED
  BY <1>1, <1>2, <1>3, <1>4, <1>5, SaysQuiet

\* The writer thread looks at the store only.
LEMMA WriterRoundQuiet ==
    ASSUME IInv, WriterRound
    PROVE  Quiet
<1> DEFINE t == WriteOut(Fresh)
<1>1. Becomes(t) /\ UNCHANGED <<edits, starts>>
  BY DEF WriterRound
<1>2. t \in SessionRecord
  BY FreshFields, RecordValid, WriteOutValid
<1>3. Says(Fresh, t) /\ t.state = s.state /\ t.msgs = s.msgs
  BY <1>2, FreshFields DEF WriteOut, Says, SessionRecord
<1> HIDE DEF t
<1>4. QED
  BY <1>1, <1>2, <1>3, SaysQuiet

\* The end of the inbound-queue loop, which found nothing more to process.
LEMMA DrainDoneQuiet ==
    ASSUME IInv, DrainDone
    PROVE  Quiet
<1>1. /\ s' = [Fresh EXCEPT !.phase = "idle"] /\ NextToDrain(s) = {}
      /\ Becomes(DrainEnd(Fresh)) /\ DrainEnd(Fresh) = [Fresh EXCEPT !.phase = "idle"]
      /\ UNCHANGED <<edits, starts>>
  BY DEF DrainDone, Becomes, DrainEnd
<1>2. /\ s' \in SessionRecord /\ s'.cfg = s.cfg /\ s'.dlv = <<>> /\ s'.out = <<>>
      /\ s'.target = s.target /\ s'.queue = s.queue /\ s'.state = s.state /\ s'.phase = "idle"
  BY <1>1, FreshFields DEF SessionRecord, Phases
<1>3. UNCHANGED <<env, lastDlv>>
  BY <1>1, <1>2 DEF Becomes
<1>4. QED
  BY <1>1, <1>2, <1>3, FreshFields DEF Quiet

\* The socket takes what was queued, or the reader hangs in the callback.
LEMMA FlushWritesQuiet ==
    ASSUME IInv, FlushWrites
    PROVE  Quiet
<1> DEFINE hung == [Fresh EXCEPT !.connected = FALSE, !.phase = "hung"]
           free == [Fresh EXCEPT !.congested = FALSE]
<1>1. CASE Becomes(hung)
  <2>1. /\ hung \in SessionRecord /\ hung.cfg = s.cfg /\ hung.dlv = <<>> /\ hung.out = <<>>
        /\ hung.target = s.target /\ hung.queue = s.queue /\ hung.state = s.state
        /\ hung.phase = "hung"
    BY FreshFields DEF SessionRecord, Phases
  <2>2. s' = hung /\ UNCHANGED <<env, lastDlv, edits, starts>>
    BY <1>1, <2>1 DEF Becomes, FlushWrites
  <2> HIDE DEF hung
  <2>3. QED
    BY <2>1, <2>2, FreshFields DEF Quiet
<1>2. CASE Becomes(free)
  <2>1. free \in SessionRecord /\ Says(Fresh, free) /\ free.state = s.state /\ free.msgs = s.msgs
    BY FreshFields, FlagsSay
  <2>2. UNCHANGED <<edits, starts>>
    BY DEF FlushWrites
  <2> HIDE DEF free
  <2>3. QED
    BY <1>2, <2>1, <2>2, SaysQuiet
<1>3. QED
  BY <1>1, <1>2 DEF FlushWrites

\* The update of a session without a connection sends nothing.
LEMMA TickDisconnectedQuiet ==
    ASSUME IInv, TickDisconnected
    PROVE  Quiet
<1> DEFINE t == UpdateDisconnected(Fresh)
<1>1. t \in SessionRecord /\ Says(Fresh, t) /\ t.state = "LOGON" /\ t.msgs = s.msgs
  <2> DEFINE f == FlushSeqNums(Fresh)
  <2>1. f \in SessionRecord /\ Says(Fresh, f) /\ f.msgs = s.msgs
    BY FreshFields, FlushSays
  <2> HIDE DEF f
  <2>2. /\ [f EXCEPT !.state = "LOGON"] \in SessionRecord /\ Says(f, [f EXCEPT !.state = "LOGON"])
        /\ [f EXCEPT !.state = "LOGON"].msgs = f.msgs /\ [f EXCEPT !.state = "LOGON"].state = "LOGON"
    BY <2>1 DEF Says, SessionRecord, SessionStates
  <2>3. t = [f EXCEPT !.state = "LOGON"]
    BY DEF UpdateDisconnected, f
  <2>4. QED
    BY <2>1, <2>2, <2>3, SaysTwice
<1> HIDE DEF t
<1>2. /\ Connect(t) \in SessionRecord /\ Says(Fresh, Connect(t))
      /\ Connect(t).state = "LOGON" /\ Connect(t).msgs = s.msgs
  BY <1>1, FlagsSay, SaysTwice
<1>3. (Becomes(t) \/ Becomes(Connect(t))) /\ UNCHANGED <<edits, starts>>
  BY DEF TickDisconnected, t
<1>4. QED
  BY <1>1, <1>2, <1>3, SaysQuiet

\* send() from a thread of the application: not during a replay unless Env says so.
LEMMA AppSendQuiet ==
    ASSUME IInv, AppSend
    PROVE  Quiet
<1> DEFINE t == Send(Fresh, App(1))
<1>1. App(1) \in Message /\ App(1).type # "SequenceReset"
  BY DEF App, Plain, Message, MsgTypes, Flaws, Absent
<1>2. t \in SessionRecord /\ Says(Fresh, t) /\ t.state = s.state
  BY <1>1, FreshFields, SendSays
<1>3. /\ Becomes(t) /\ UNCHANGED <<edits, starts>>
      /\ s.phase = "replay" => Env.sendInReplay
  BY DEF AppSend
<1> HIDE DEF t
<1>4. QED
  BY <1>2, <1>3, SaysQuiet

\* The Logon of an initiator, which resets the session first if its settings say so.
LEMMA AttemptLogonQuiet ==
    ASSUME IInv, NEW t \in SessionRecord, Says(Fresh, t), t.state = s.state, s.phase = "idle",
           Becomes(AttemptLogon(t)), UNCHANGED <<edits, starts>>
    PROVE  Quiet
<1> DEFINE r == IF t.cfg.resetOnLogon THEN Reset(t) ELSE t
           u == AttemptLogon(t)
<1>1. /\ t.cfg = s.cfg /\ t.target = s.target /\ t.dlv = <<>> /\ t.queue = s.queue
      /\ t.phase = "idle" /\ NoFills(t.out)
  BY FreshFields DEF Says
<1>2. r \in SessionRecord /\ t.cfg.resetOnLogon \in BOOLEAN
  BY RecordValid, ResetValid, ZenonT(60) DEF SessionRecord, Settings
<1>3. /\ r.cfg = s.cfg /\ r.dlv = <<>> /\ r.phase = "idle" /\ NoFills(r.out)
      /\ r.state = s.state
      /\ \/ r.target = s.target /\ r.queue = s.queue
         \/ s.cfg.resetOnLogon /\ r.queue = {}
  <2>1. CASE t.cfg.resetOnLogon
    BY <1>1, <2>1 DEF Reset, SessionRecord
  <2>2. CASE ~t.cfg.resetOnLogon
    BY <1>1, <2>2
  <2>3. QED
    BY <2>1, <2>2
<1> HIDE DEF r
<1>4. u \in SessionRecord /\ Says(r, u) /\ u.state = r.state
  <2>1. u = SendLogon(r, t.cfg.resetOnLogon)
    BY DEF AttemptLogon, r
  <2>2. QED
    BY <1>2, <2>1, SendLogonSays
<1>5. Becomes(u)
  OBVIOUS
<1> HIDE DEF u
<1>6. QED
  BY <1>3, <1>4, <1>5 DEF Quiet, Becomes, Says

\* internal_update of a connected session.
LEMMA TickQuiet ==
    ASSUME IInv, NEW due, Tick(due)
    PROVE  Quiet
<1> DEFINE f == FlushSeqNums(Fresh)
           a == CheckTimeouts(f, due)
           b == KeepAlive(a, due)
           c == ProbePeer(b, due)
<1>1. f \in SessionRecord /\ Says(Fresh, f) /\ f.state = s.state
  BY FreshFields, FlushSays
<1>2. UNCHANGED <<edits, starts>> /\ s.phase = "idle" /\ (Becomes(AttemptLogon(f)) \/ Becomes(c))
  BY DEF Tick, UpdateConnected
<1> HIDE DEF f
<1>3. /\ a \in SessionRecord /\ Says(Fresh, a)
      /\ a.state = "KILLING" => s.state = "KILLING"
  <2>1. Says(f, f) /\ Terminate(f) \in SessionRecord /\ Says(f, Terminate(f))
        /\ Terminate(f).state = "LOGON"
    BY <1>1, TerminateSays DEF Says
  <2>2. a = f \/ a = Terminate(f)
    BY DEF CheckTimeouts
  <2>3. QED
    BY <1>1, <2>1, <2>2, SaysTwice
<1> HIDE DEF a
<1>4. /\ b \in SessionRecord /\ Says(Fresh, b)
      /\ b.state = "KILLING" => s.state = "KILLING"
  <2>1. /\ SendHeartbeat(a, 0) \in SessionRecord /\ Says(a, SendHeartbeat(a, 0))
        /\ SendHeartbeat(a, 0).state = a.state
    BY <1>3, SendHeartbeatSays
  <2>2. b = a \/ b = SendHeartbeat(a, 0)
    BY DEF KeepAlive
  <2>3. QED
    BY <1>3, <2>1, <2>2, SaysTwice
<1> HIDE DEF b
<1>5. /\ c \in SessionRecord /\ Says(Fresh, c)
      /\ c.state = "KILLING" => s.state = "KILLING"
  <2> DEFINE p == [SendTestRequest(b) EXCEPT !.state = "TEST_REQUEST"]
  <2>1. p \in SessionRecord /\ Says(b, p) /\ p.state = "TEST_REQUEST"
    BY <1>4, SendTestRequestSays, SetStateSays, SaysTwice DEF SessionStates
  <2>2. c = b \/ c = p
    BY DEF ProbePeer
  <2> HIDE DEF p
  <2>3. QED
    BY <1>4, <2>1, <2>2, SaysTwice
<1> HIDE DEF c
<1>6. CASE Becomes(AttemptLogon(f))
  BY <1>1, <1>2, <1>6, AttemptLogonQuiet
<1>7. CASE Becomes(c)
  BY <1>2, <1>5, <1>7, SaysQuiet
<1>8. QED
  BY <1>2, <1>6, <1>7

-----------------------------------------------------------------------------
(* Steps that handle a message *)

\* The session met m and became u, except for what the loop erased of its queue.
LEMMA HandledStep ==
    ASSUME IInv, StepInv, NEW t \in SessionRecord, NEW m \in Message,
           NEW u \in SessionRecord, Outcome(t, m, u),
           t.cfg = s.cfg, t.target = s.target, t.queue = s.queue, t.state = s.state,
           t.dlv = <<>>, NoFills(t.out), t.phase = "drain",
           s' \in SessionRecord, s'.queue \subseteq u.queue,
           \A f \in {"cfg", "target", "state", "dlv", "out", "phase", "replay", "msgs"} :
              s'[f] = u[f],
           edits = 0 /\ ~Throws =>
              /\ s.state # "KILLING" /\ m \in Env.inbound
              /\ u.queue = s.queue /\ u.target = s.target => NextToDrain(s') = {},
           lastDlv' = IF u.dlv # <<>> THEN u.dlv[Len(u.dlv)].seq ELSE lastDlv,
           UNCHANGED <<env, edits, starts>>
    PROVE  StepInv' /\ Promises
<1>1. /\ s'.cfg = u.cfg /\ s'.target = u.target /\ s'.state = u.state /\ s'.dlv = u.dlv
      /\ s'.out = u.out /\ s'.phase = u.phase /\ s'.replay = u.replay /\ s'.msgs = u.msgs
  OBVIOUS
<1>2. /\ s.target \in Nat /\ s'.target \in Nat /\ lastDlv \in Nat /\ starts \in Nat
  BY DEF IInv, TypeOK, SessionRecord
<1>3. \/ s'.dlv = <<>> /\ lastDlv' = lastDlv
      \/ /\ s'.dlv # <<>> /\ s'.dlv[1] = m /\ lastDlv' = m.seq /\ m.seq = s.target
         /\ s'.target = s.target + 1 /\ s.state \notin {"LOGON", "LOGOUT"}
  <2>1. CASE u.dlv = <<>>
    BY <1>1, <2>1
  <2>2. CASE u.dlv # <<>>
    <3>1. /\ u.dlv = Append(<<>>, m) /\ m.seq = s.target /\ u.target = s.target + 1
          /\ s.state \notin {"LOGON", "LOGOUT"}
      BY <2>2 DEF Outcome
    <3>2. u.dlv = <<m>> /\ Len(u.dlv) = 1 /\ u.dlv[1] = m
      BY <3>1
    <3>3. QED
      BY <1>1, <2>2, <3>1, <3>2
  <2>3. QED
    BY <2>1, <2>2
<1>4. s.cfg.resetOnLogon \/ s'.target >= s.target
  BY <1>1 DEF Outcome
<1>5. s'.cfg = s.cfg
  BY <1>1 DEF Outcome
<1>6. Fed'
  BY <1>2, <1>3, <1>4, <1>5 DEF StepInv, Fed
<1>7. Killed'
  <2> SUFFICES ASSUME edits' = 0, ~Throws'
               PROVE  /\ s'.phase = "idle" \/ s'.state = "KILLING" => NextToDrain(s') = {}
                      /\ s'.phase = "replay" => s'.state # "KILLING"
                      /\ s'.queue \subseteq Env'.inbound
    BY DEF Killed
  <2>1. edits = 0 /\ ~Throws /\ Env' = Env
    BY DEF Throws, Env
  <2>2. s.state # "KILLING" /\ m \in Env.inbound /\ m.flaw # "noField"
    BY <2>1 DEF Throws
  <2>3. s'.phase # "idle"
    BY <1>1, <2>2 DEF Outcome
  <2>4. ASSUME s'.state = "KILLING" PROVE NextToDrain(s') = {} /\ s'.phase # "replay"
    BY <1>1, <2>1, <2>2, <2>4 DEF Outcome
  <2>5. s'.queue \subseteq Env.inbound
    BY <2>1, <2>2 DEF Outcome, StepInv, Killed
  <2>6. QED
    BY <2>1, <2>3, <2>4, <2>5
<1>8. Covers'
  <2> SUFFICES ASSUME s'.phase = "replay" PROVE Covered(s')
    BY DEF Covers
  <2>1. Covered(u)
    BY <1>1 DEF Outcome
  <2>2. QED
    BY <1>1, <2>1, SameCovered
<1>9. Promises
  <2>1. NoFills(s'.out)
    BY <1>1 DEF Outcome
  <2>2. \A i \in DOMAIN s'.out : \A c \in s'.msgs : ~Hides(s'.out[i], c)
    BY <2>1, NoFillsHideNothing
  <2>3. s'.dlv # <<>> /\ edits = 0 => LoggedOn(s) \/ Throws
    BY <1>3 DEF LoggedOn
  <2>4. s'.dlv # <<>> /\ edits = 0 /\ starts = 1 /\ ~s.cfg.resetOnLogon => s'.dlv[1].seq > lastDlv
    BY <1>2, <1>3 DEF StepInv, Fed
  <2>5. s'.target < s.target => s.cfg.resetOnLogon
    BY <1>2, <1>4
  <2>6. QED
    BY <2>2, <2>3, <2>4, <2>5 DEF Promises
<1>10. QED
  BY <1>6, <1>7, <1>8, <1>9 DEF StepInv

\* A message from the network: nothing, if the session is being killed.
LEMMA ReceiveStep ==
    ASSUME IInv, StepInv, Env.inbound \subseteq Message,
           NEW m \in Env.inbound, Receive(m) \/ ReceiveFirst(m)
    PROVE  StepInv' /\ Promises
<1>1. PICK w : /\ w = Fresh \/ w = Connect(Fresh)
               /\ Becomes(OnNetworkMessage(w, m))
  BY DEF Receive, ReceiveFirst
<1>2. UNCHANGED <<env, edits, starts>> /\ s.phase = "idle" /\ m \in Message
  BY DEF Receive, ReceiveFirst, Becomes
<1>3. /\ w \in SessionRecord /\ w.state = s.state /\ Says(Fresh, w) /\ w.msgs = s.msgs
  <2>1. Says(Fresh, Fresh)
    BY DEF Says
  <2>2. QED
    BY <1>1, <2>1, FreshFields, FlagsSay
<1>4. CASE s.state = "KILLING"
  <2>1. Becomes(w)
    BY <1>1, <1>3, <1>4 DEF OnNetworkMessage
  <2>2. Quiet
    BY <1>2, <1>3, <2>1, SaysQuiet
  <2>3. QED
    BY <2>2, QuietStep
<1>5. CASE s.state # "KILLING"
  <2> DEFINE t == [w EXCEPT !.phase = "drain"]
             u == ProcessMessage(t, m)
  <2>1. t \in SessionRecord
    BY <1>3 DEF SessionRecord, Phases
  <2>2. /\ t.cfg = s.cfg /\ t.target = s.target /\ t.queue = s.queue /\ t.state = s.state
        /\ t.dlv = <<>> /\ NoFills(t.out) /\ t.phase = "drain"
    <3>1. /\ w.cfg = s.cfg /\ w.target = s.target /\ w.queue = s.queue /\ w.state = s.state
          /\ w.dlv = <<>> /\ NoFills(w.out)
      BY <1>3, FreshFields DEF Says
    <3>2. QED
      BY <1>3, <3>1 DEF SessionRecord
  <2>3. Becomes(u)
    BY <1>1, <1>3, <1>5 DEF OnNetworkMessage
  <2> HIDE DEF t
  <2>4. Outcome(t, m, u) /\ u \in SessionRecord
    BY <1>2, <2>1, ProcessMessageOutcome, RecordValid, ProcessMessageValid
  <2>5. s' = u /\ lastDlv' = IF u.dlv # <<>> THEN u.dlv[Len(u.dlv)].seq ELSE lastDlv
    BY <2>3 DEF Becomes
  <2> HIDE DEF u
  <2>6. edits = 0 /\ ~Throws /\ u.queue = s.queue /\ u.target = s.target => NextToDrain(s') = {}
    BY <1>2, <2>5, SameNextToDrain DEF StepInv, Killed
  <2>7. QED
    BY <1>2, <1>5, <2>1, <2>2, <2>4, <2>5, <2>6, HandledStep
<1>6. QED
  BY <1>4, <1>5

\* One round of the inbound-queue loop: the message it processed is erased with all
\* of its number, so none of that number is left.
LEMMA DrainStep ==
    ASSUME IInv, StepInv, Drain
    PROVE  StepInv' /\ Promises
<1>1. NextToDrain(s) = NextToDrain(Fresh) /\ NextToDrain(s) \subseteq s.queue
  BY FreshFields, SameNextToDrain DEF NextToDrain, FirstQueued
<1>2. PICK q \in NextToDrain(s) : Becomes(DrainOne(Fresh, q))
  BY DEF Drain
<1>3. s.phase = "drain" /\ UNCHANGED <<env, edits, starts>>
  BY DEF Drain, Becomes
<1>4. q \in Message /\ q \in s.queue /\ s.queue \subseteq Message
  BY <1>1, FreshFields DEF SessionRecord
<1> DEFINE u == ProcessMessage(Fresh, q)
           v == DrainOne(Fresh, q)
<1>5. Outcome(Fresh, q, u) /\ u \in SessionRecord
  BY <1>4, FreshFields, ProcessMessageOutcome, RecordValid, ProcessMessageValid
<1>6. v = IF u.phase = "idle" THEN u ELSE [u EXCEPT !.queue = u.queue \ FirstQueued(u)]
  BY DEF DrainOne
<1>7. s' = v /\ lastDlv' = IF v.dlv # <<>> THEN v.dlv[Len(v.dlv)].seq ELSE lastDlv
  BY <1>2 DEF Becomes
<1> HIDE DEF u, v
<1>8. /\ v \in SessionRecord /\ v.queue \subseteq u.queue
      /\ \A f \in {"cfg", "target", "state", "dlv", "out", "phase", "replay", "msgs"} : v[f] = u[f]
      /\ v.dlv = u.dlv
      /\ u.phase # "idle" => v.queue = u.queue \ FirstQueued(u)
  BY <1>5, <1>6 DEF SessionRecord
<1>9. ASSUME edits = 0, ~Throws
      PROVE  /\ s.state # "KILLING" /\ q \in Env.inbound
             /\ u.queue = s.queue /\ u.target = s.target => NextToDrain(s') = {}
  <2>1. s.state # "KILLING" /\ q \in Env.inbound
    BY <1>2, <1>4, <1>9 DEF StepInv, Killed
  <2>2. u.phase # "idle"
    <3>1. q.flaw # "noField"
      BY <1>9, <2>1 DEF Throws
    <3>2. QED
      BY <1>3, <1>5, <3>1, FreshFields DEF Outcome
  <2>3. ASSUME u.queue = s.queue, u.target = s.target PROVE NextToDrain(s') = {}
    <3>1. s'.queue = s.queue \ FirstQueued(s) /\ s'.target = s.target
      BY <1>7, <1>8, <2>2, <2>3 DEF FirstQueued
    <3>2. q \in FirstQueued(s) /\ q.seq = s.target
      BY <1>2 DEF NextToDrain
    <3>3. \A x \in s.queue : x.seq = s.target => x \in FirstQueued(s)
      BY <3>2 DEF FirstQueued
    <3>4. QED
      BY <3>1, <3>3 DEF NextToDrain, FirstQueued
  <2>4. QED
    BY <2>1, <2>3
<1>10. /\ Fresh.cfg = s.cfg /\ Fresh.target = s.target /\ Fresh.queue = s.queue
       /\ Fresh.state = s.state /\ Fresh.dlv = <<>> /\ NoFills(Fresh.out)
       /\ Fresh.phase = "drain" /\ Fresh \in SessionRecord
  BY <1>3, FreshFields
<1>11. QED
  BY <1>3, <1>4, <1>5, <1>7, <1>8, <1>9, <1>10, HandledStep

-----------------------------------------------------------------------------
(* The replay *)

\* One message of the replay: between the last one and this one there is nothing to
\* resend.
LEMMA ReplayNextStep ==
    ASSUME IInv, StepInv, ReplayNext
    PROVE  StepInv' /\ Promises
<1> DEFINE r == s.replay
<1>1. PICK c \in NextToReplay(s) : Becomes(ReplayOne(Fresh, c))
  BY DEF ReplayNext
<1>2. s.phase = "replay" /\ UNCHANGED <<env, edits, starts>>
  BY DEF ReplayNext, Becomes
<1>3. /\ r \in Replay /\ c \in r.todo /\ \A d \in r.todo : c.seq <= d.seq
      /\ \A d \in r.todo : d \in Sent /\ d.seq \in Nat
      /\ r.ptr \in Nat /\ r.todo \in SUBSET Sent
  BY <1>1, FreshFields DEF NextToReplay, SessionRecord, Replay, Sent
<1> DEFINE fill == GapFill(r.ptr, c.seq)
           t == IF c.seq # r.ptr THEN Transmit(Fresh, fill) ELSE Fresh
           again == Resend(c)
           v == Transmit(t, again)
           next == [r EXCEPT !.ptr = c.seq + 1, !.todo = r.todo \ {c}]
<1>4. fill \in Message /\ again \in Message /\ again.type = c.type
  BY <1>3, GapFillType, ResendType DEF Resend, Plain
<1>5. fill.type = "SequenceReset" /\ fill.seq = r.ptr /\ fill.new = c.seq
  BY DEF GapFill, Plain
<1> HIDE DEF fill, again
<1>6. /\ t \in SessionRecord
      /\ \A i \in DOMAIN t.out : t.out[i] = fill
      /\ \A f \in {"cfg", "target", "state", "dlv", "queue", "phase", "replay", "msgs"} :
            t[f] = Fresh[f]
  <2>1. Append(<<>>, fill) = <<fill>> /\ <<fill>> \in Seq(Message)
    BY <1>4
  <2>2. Transmit(Fresh, fill) = IF Fresh.connected THEN [Fresh EXCEPT !.out = <<fill>>] ELSE Fresh
    BY <2>1, FreshFields DEF Transmit
  <2>3. \A i \in DOMAIN <<fill>> : <<fill>>[i] = fill
    OBVIOUS
  <2>4. CASE c.seq # r.ptr /\ Fresh.connected
    <3>1. t = [Fresh EXCEPT !.out = <<fill>>]
      BY <2>2, <2>4
    <3> HIDE DEF t
    <3>2. t.out = <<fill>>
      BY <3>1, FreshFields DEF SessionRecord
    <3>3. QED
      BY <2>1, <2>3, <3>1, <3>2, FreshFields DEF SessionRecord
  <2>5. CASE ~(c.seq # r.ptr /\ Fresh.connected)
    <3>1. t = Fresh
      BY <2>2, <2>5
    <3>2. QED
      BY <3>1, FreshFields
  <2>6. QED
    BY <2>4, <2>5
<1> HIDE DEF t
<1>7. /\ v \in SessionRecord
      /\ \A i \in DOMAIN v.out : v.out[i] = fill \/ v.out[i] = again
      /\ \A f \in {"cfg", "target", "state", "dlv", "queue", "phase", "replay", "msgs"} :
            v[f] = t[f]
  <2> DEFINE more == Append(t.out, again)
  <2>1. t.out \in Seq(Message)
    BY <1>6 DEF SessionRecord
  <2>2. /\ more \in Seq(Message)
        /\ \A i \in DOMAIN more : (i \in DOMAIN t.out /\ more[i] = t.out[i]) \/ more[i] = again
    BY <1>4, <2>1
  <2> HIDE DEF more
  <2>3. v = IF t.connected THEN [t EXCEPT !.out = more] ELSE t
    BY DEF Transmit, more
  <2> HIDE DEF v
  <2>4. CASE t.connected
    BY <1>6, <2>2, <2>3, <2>4 DEF SessionRecord
  <2>5. CASE ~t.connected
    BY <1>6, <2>3, <2>5 DEF SessionRecord
  <2>6. QED
    BY <2>4, <2>5
<1>8. ReplayOne(Fresh, c) = [v EXCEPT !.replay.ptr = c.seq + 1, !.replay.todo = r.todo \ {c}]
  BY FreshFields DEF ReplayOne, v, t, again, fill
<1> HIDE DEF v
<1>9. /\ v.cfg = s.cfg /\ v.target = s.target /\ v.state = s.state /\ v.dlv = <<>>
      /\ v.queue = s.queue /\ v.phase = "replay" /\ v.replay = r /\ v.msgs = s.msgs
  BY <1>2, <1>6, <1>7, FreshFields
<1>10. s' = [v EXCEPT !.replay = next]
  <2>1. s' = [v EXCEPT !.replay.ptr = c.seq + 1, !.replay.todo = r.todo \ {c}]
    BY <1>1, <1>8 DEF Becomes
  <2>2. QED
    BY <1>3, <1>7, <1>9, <2>1 DEF SessionRecord, Replay
<1>11. /\ next.ptr = c.seq + 1 /\ next.end = r.end /\ next.todo = r.todo \ {c}
  BY <1>3 DEF Replay
<1> HIDE DEF next
<1>12. /\ s'.cfg = s.cfg /\ s'.target = s.target /\ s'.state = s.state /\ s'.dlv = <<>>
       /\ s'.queue = s.queue /\ s'.phase = "replay" /\ s'.replay = next /\ s'.msgs = s.msgs
       /\ s'.out = v.out
  BY <1>7, <1>9, <1>10 DEF SessionRecord
<1>13. lastDlv' = lastDlv
  <2>1. lastDlv' = IF s'.dlv # <<>> THEN s'.dlv[Len(s'.dlv)].seq ELSE lastDlv
    BY <1>1 DEF Becomes
  <2>2. QED
    BY <1>12, <2>1
<1>14. Fed'
  BY <1>2, <1>12, <1>13 DEF StepInv, Fed
<1>15. Killed'
  <2>1. NextToDrain(s') = NextToDrain(s)
    BY <1>12, SameNextToDrain
  <2>2. QED
    BY <1>2, <1>12, <2>1 DEF StepInv, Killed, Throws, Env
<1>16. ASSUME ~Env.sendInReplay
       PROVE  /\ Covered(s) /\ c.type \notin SessionMsgs
              /\ \A d \in s.msgs : d \in Sent /\ d.seq \in Nat
  BY <1>2, <1>3, <1>16, FreshFields DEF StepInv, Covers, Covered, SessionRecord, Sent
<1>17. Covers'
  <2> SUFFICES ASSUME ~Env'.sendInReplay PROVE Covered(s')
    BY DEF Covers
  <2>1. Covered(s) /\ \A d \in s.msgs : d.seq \in Nat
    BY <1>2, <1>16 DEF Env
  <2>2. Replayable(s', next) \subseteq next.todo
    <3> SUFFICES ASSUME NEW d \in s.msgs, d.type \notin SessionMsgs, d.seq >= c.seq + 1,
                        r.end = 0 \/ d.seq <= r.end
                 PROVE  d \in r.todo \ {c}
      BY <1>11, <1>12 DEF Replayable
    <3>1. c.seq + 1 >= r.ptr /\ c.seq \in Nat /\ d.seq \in Nat
      BY <1>3, <2>1 DEF Covered
    <3>2. d.seq >= r.ptr /\ d # c
      BY <1>3, <3>1
    <3>3. d \in Replayable(s, r)
      BY <3>2 DEF Replayable
    <3>4. QED
      BY <2>1, <3>2, <3>3 DEF Covered
  <2>3. \A d \in next.todo : /\ d.type \notin SessionMsgs /\ d.seq + 1 >= next.ptr
                             /\ next.end = 0 \/ d.seq <= next.end
    BY <1>3, <1>11, <2>1 DEF Covered
  <2>4. s'.replay = next
    BY <1>12
  <2>5. QED
    BY <2>2, <2>3, <2>4, CoveredBy
<1>18. ASSUME ~Env.sendInReplay, NEW i \in DOMAIN s'.out, NEW d \in s'.msgs
       PROVE  ~Hides(s'.out[i], d)
  <2>1. Covered(s) /\ c.type \notin SessionMsgs /\ d \in s.msgs /\ d.seq \in Nat
    BY <1>12, <1>16, <1>18
  <2>2. CASE s'.out[i] = again
    BY <1>4, <2>1, <2>2 DEF Hides, SessionMsgs
  <2>3. CASE s'.out[i] = fill
    <3> SUFFICES ASSUME d.type \notin SessionMsgs, r.ptr <= d.seq, d.seq < c.seq PROVE FALSE
      BY <1>5, <2>3 DEF Hides
    <3>1. r.end = 0 \/ c.seq <= r.end
      BY <1>3, <2>1 DEF Covered
    <3>2. r.end = 0 \/ d.seq <= r.end
      BY <1>3, <2>1, <3>1 DEF Replay
    <3>3. d \in Replayable(s, r)
      BY <1>3, <2>1, <3>2 DEF Replayable
    <3>4. d \in r.todo
      BY <2>1, <3>3 DEF Covered
    <3>5. QED
      BY <1>3, <2>1, <3>4
  <2>4. QED
    BY <1>7, <1>12, <2>2, <2>3
<1>19. Promises
  <2>1. s.target \in Nat
    BY FreshFields DEF SessionRecord
  <2>2. QED
    BY <1>12, <1>18, <2>1 DEF Promises
<1>20. QED
  BY <1>14, <1>15, <1>17, <1>19 DEF StepInv

\* The end of a replay: behind its last message there is nothing to resend either.
LEMMA ReplayDoneStep ==
    ASSUME IInv, StepInv, ReplayDone
    PROVE  StepInv' /\ Promises
<1> DEFINE r == s.replay
           ptr == IF r.ptr # r.begin THEN r.ptr - 1 ELSE r.ptr
           end == IF r.end # 0 THEN r.end ELSE s.sender
           fill == GapFill(ptr, end)
           f == FinalGapFill(Fresh)
           t == [f EXCEPT !.phase = "drain", !.replay = NoReplay]
           u == ReplayEnd(Fresh)
<1>1. /\ s.phase = "replay" /\ r.todo = {} /\ Becomes(u)
      /\ UNCHANGED <<env, edits, starts>>
  BY DEF ReplayDone, Becomes
<1>2. /\ r \in Replay /\ s.sender \in Nat /\ r.ptr \in Nat /\ r.end \in Nat
      /\ r.ask \in Nat \cup {Absent} /\ r.begin \in Nat
  BY FreshFields DEF SessionRecord, Replay
<1>3. ptr \in Nat /\ end \in Nat /\ r.ptr <= ptr + 1
  BY <1>2 DEF Replay
<1>4. fill \in Message /\ fill.seq = ptr /\ fill.new = end
  BY <1>3, GapFillType DEF GapFill, Plain
<1> HIDE DEF fill
<1>5. /\ f \in SessionRecord
      /\ \A i \in DOMAIN f.out : f.out[i] = fill
      /\ f.cfg = s.cfg /\ f.target = s.target /\ f.state = s.state /\ f.dlv = <<>>
      /\ f.queue = s.queue /\ f.msgs = s.msgs
  <2>1. Append(<<>>, fill) = <<fill>> /\ <<fill>> \in Seq(Message)
    BY <1>4
  <2>2. Fresh.sender = s.sender
    BY FreshFields DEF Fresh, SessionRecord
  <2>3. f = IF ptr < end THEN Transmit(Fresh, fill) ELSE Fresh
    BY <2>2, FreshFields DEF FinalGapFill, fill
  <2> HIDE DEF f, ptr, end
  <2>4. CASE ptr < end /\ Fresh.connected
    <3>1. f = [Fresh EXCEPT !.out = <<fill>>]
      BY <2>1, <2>3, <2>4, FreshFields DEF Transmit
    <3>2. f.out = <<fill>>
      BY <3>1, FreshFields DEF SessionRecord
    <3>3. \A i \in DOMAIN <<fill>> : <<fill>>[i] = fill
      OBVIOUS
    <3>4. QED
      BY <2>1, <3>1, <3>2, <3>3, FreshFields DEF SessionRecord
  <2>5. CASE ~(ptr < end /\ Fresh.connected)
    <3>1. f = Fresh
      BY <2>3, <2>5 DEF Transmit
    <3>2. QED
      BY <3>1, FreshFields
  <2>6. QED
    BY <2>4, <2>5
<1> HIDE DEF f, ptr, end
<1>6. /\ t \in SessionRecord /\ t.phase = "drain" /\ t.out = f.out
      /\ t.cfg = s.cfg /\ t.target = s.target /\ t.state = s.state /\ t.dlv = <<>>
      /\ t.queue = s.queue /\ t.msgs = s.msgs
  <2>1. NoReplay \in Replay /\ "drain" \in Phases
    BY DEF NoReplay, Replay, Absent, Phases
  <2>2. QED
    BY <1>5, <2>1 DEF SessionRecord
<1>7. u = IF r.ask # Absent THEN SendResendRequest(t, r.ask, 0)
          ELSE IF r.seq = s.target THEN NextTarget(t) ELSE t
  BY FreshFields DEF ReplayEnd, t, f
<1> HIDE DEF t
\* What may follow the gap fill: a ResendRequest, or the next expected number.
<1>8. /\ u.cfg = s.cfg /\ u.target >= s.target /\ u.state = s.state /\ u.dlv = <<>>
      /\ u.queue = s.queue /\ u.phase = "drain" /\ u.target \in Nat
      /\ \A i \in DOMAIN u.out : u.out[i] = fill \/ u.out[i].type # "SequenceReset"
      /\ \A c \in u.msgs : c \in s.msgs \/ c.type \in SessionMsgs
  <2>1. CASE r.ask # Absent
    <3> DEFINE ask == [Plain("ResendRequest") EXCEPT !.begin = r.ask, !.end = 0]
               stamped == [ask EXCEPT !.seq = t.sender]
               n == SetSender(Cache(t, stamped), t.sender + 1)
    <3>0. r.ask \in Nat
      BY <1>2, <2>1
    <3>1. /\ u \in SessionRecord /\ Says(t, u) /\ u.state = t.state
          /\ \A c \in u.msgs : c \in t.msgs \/ c.type \in SessionMsgs
      BY <1>6, <1>7, <2>1, <3>0, SendResendRequestSays
    <3>2. stamped \in Message /\ stamped.type = "ResendRequest"
      <4>1. ask \in Message /\ ask.type = "ResendRequest"
        BY <3>0 DEF Plain, Message, MsgTypes, SessionMsgs, Flaws, Absent
      <4>2. t.sender \in Nat
        BY <1>6 DEF SessionRecord
      <4> HIDE DEF ask
      <4>3. QED
        BY <4>1, <4>2 DEF Message
    <3>3. u = Transmit(n, stamped)
      BY <1>7, <2>1 DEF SendResendRequest, Send
    <3>4. n.out = t.out /\ t.out \in Seq(Message)
      BY <1>6 DEF SetSender, Cache, SessionRecord
    <3> HIDE DEF stamped, ask
    <3>5. u.out = t.out \/ u.out = Append(t.out, stamped)
      <4>1. n = [t EXCEPT !.msgs = n.msgs, !.sender = n.sender, !.dirty = n.dirty,
                          !.pending = n.pending]
        BY <1>6, ZenonT(60) DEF SetSender, Cache, SessionRecord
      <4> HIDE DEF n
      <4>2. [n EXCEPT !.out = Append(n.out, stamped)].out = Append(n.out, stamped)
        BY <1>6, <4>1 DEF SessionRecord
      <4>3. QED
        BY <3>3, <3>4, <4>2 DEF Transmit
    <3>6. \A i \in DOMAIN u.out : u.out[i] = fill \/ u.out[i].type # "SequenceReset"
      <4>1. CASE u.out = t.out
        BY <1>5, <1>6, <4>1
      <4>2. CASE u.out = Append(t.out, stamped)
        <5>1. \A i \in DOMAIN u.out : (i \in DOMAIN t.out /\ u.out[i] = t.out[i]) \/ u.out[i] = stamped
          BY <3>2, <3>4, <4>2
        <5>2. QED
          BY <1>5, <1>6, <3>2, <5>1
      <4>3. QED
        BY <3>5, <4>1, <4>2
    <3>7. s.target \in Nat
      BY FreshFields DEF SessionRecord
    <3>8. QED
      BY <1>6, <3>1, <3>6, <3>7 DEF Says
  <2>2. CASE r.ask = Absent
    <3>1. /\ NextTarget(t) = [t EXCEPT !.target = t.target + 1, !.dirty = t.cfg.persist]
          /\ t.target \in Nat
      BY <1>6, NextTargetMoves DEF SessionRecord
    <3>2. u = t \/ u = NextTarget(t)
      BY <1>7, <2>2
    <3>3. /\ u.cfg = s.cfg /\ u.target >= s.target /\ u.state = s.state /\ u.dlv = <<>>
          /\ u.queue = s.queue /\ u.phase = "drain" /\ u.target \in Nat
          /\ u.out = f.out /\ u.msgs = s.msgs
      <4> HIDE DEF u
      <4>1. CASE u = t
        BY <1>6, <3>1, <4>1
      <4>2. CASE u = NextTarget(t)
        <5>1. u = [t EXCEPT !.target = t.target + 1, !.dirty = t.cfg.persist]
          BY <3>1, <4>2
        <5>2. QED
          BY <1>6, <3>1, <5>1 DEF SessionRecord
      <4>3. QED
        BY <3>2, <4>1, <4>2
    <3>4. QED
      BY <1>5, <3>3
  <2>3. QED
    BY <2>1, <2>2
<1> HIDE DEF u
<1>9. s' = u /\ lastDlv' = lastDlv
  BY <1>1, <1>8 DEF Becomes
<1>10. Fed'
  <2>1. lastDlv \in Nat /\ s.target \in Nat
    BY FreshFields DEF IInv, TypeOK, SessionRecord
  <2>2. QED
    BY <1>1, <1>8, <1>9, <2>1 DEF StepInv, Fed
<1>11. Killed'
  <2>1. edits = 0 /\ ~Throws => s.state # "KILLING" /\ s.queue \subseteq Env.inbound
    BY <1>1 DEF StepInv, Killed
  <2>2. QED
    BY <1>1, <1>8, <1>9, <2>1 DEF Killed, Throws, Env
<1>12. Covers'
  BY <1>8, <1>9 DEF Covers
<1>13. ASSUME ~Env.sendInReplay, NEW i \in DOMAIN s'.out, NEW d \in s'.msgs, Hides(s'.out[i], d)
       PROVE  JustResent(d)
  <2> SUFFICES ASSUME ~JustResent(d) PROVE FALSE
    OBVIOUS
  <2>1. s'.out[i] = fill /\ d.type \notin SessionMsgs /\ ptr <= d.seq /\ d.seq < end
    BY <1>4, <1>8, <1>9, <1>13 DEF Hides
  <2>2. d \in s.msgs
    BY <1>8, <1>9, <2>1
  <2>3. d.seq \in Nat
    BY <2>2, FreshFields DEF SessionRecord, Sent
  <2>4. d.seq >= r.ptr
    BY <1>2, <2>1, <2>3 DEF ptr, JustResent
  <2>5. r.end = 0 \/ d.seq <= r.end
    BY <1>2, <1>3, <2>1, <2>3 DEF end
  <2>6. d \in Replayable(s, r)
    BY <2>1, <2>2, <2>4, <2>5 DEF Replayable
  <2>7. QED
    BY <1>1, <1>13, <2>6 DEF StepInv, Covers, Covered
<1>14. Promises
  <2>1. s.target \in Nat
    BY FreshFields DEF SessionRecord
  <2>2. QED
    BY <1>8, <1>9, <1>13, <2>1 DEF Promises
<1>15. QED
  BY <1>10, <1>11, <1>12, <1>14 DEF StepInv

-----------------------------------------------------------------------------
(* The operator and the process *)

\* An operator's edit ends what is promised of the numbers, not a replay.
LEMMA AdminStep ==
    ASSUME IInv, StepInv, Admin
    PROVE  StepInv' /\ Promises
<1>1. PICK t \in AdminEdits : Becomes(t)
  BY DEF Admin
<1>2. edits \in Nat /\ edits' = edits + 1 /\ UNCHANGED <<env, starts>>
  BY DEF Admin, Becomes, IInv, TypeOK
<1>3. /\ t.msgs = s.msgs /\ t.phase = s.phase /\ t.replay = s.replay
      /\ t.dlv = <<>> /\ t.out = <<>> /\ t.cfg = s.cfg
  BY <1>1, FreshFields DEF AdminEdits, SetSender, SetTarget, Disconnect, SessionRecord
<1>4. /\ s'.msgs = s.msgs /\ s'.phase = s.phase /\ s'.replay = s.replay
      /\ s'.dlv = <<>> /\ s'.out = <<>>
  BY <1>1, <1>3 DEF Becomes
<1>5. edits' # 0 /\ edits' # edits
  BY <1>2
<1>6. Fed' /\ Killed'
  BY <1>2, <1>5 DEF StepInv, Fed, Killed
<1>7. Covers'
  BY <1>2, <1>4, SameCovered DEF StepInv, Covers, Env
<1>8. Promises
  BY <1>4, <1>5 DEF Promises
<1>9. QED
  BY <1>6, <1>7, <1>8 DEF StepInv

\* A new process has an empty queue and no replay.
LEMMA RestartStep ==
    ASSUME IInv, StepInv, Restart
    PROVE  StepInv' /\ Promises
<1>1. /\ s' = NewSession(s.cfg, s.disk) /\ starts' = starts + 1
      /\ starts \in Nat /\ starts >= 1 /\ UNCHANGED <<env, edits, lastDlv>>
  BY DEF Restart, IInv, TypeOK, StepInv, Fed
<1>2. /\ s'.queue = {} /\ s'.phase = "idle" /\ s'.dlv = <<>> /\ s'.out = <<>>
      /\ s'.state = "LOGON"
  BY <1>1 DEF NewSession
<1>3. Fed'
  BY <1>1 DEF Fed
<1>4. NextToDrain(s') = {}
  BY <1>2 DEF NextToDrain, FirstQueued
<1>5. Killed' /\ Covers'
  BY <1>2, <1>4 DEF Killed, Covers
<1>6. Promises
  BY <1>1, <1>2 DEF Promises
<1>7. QED
  BY <1>3, <1>5, <1>6 DEF StepInv

\* A new session has delivered nothing, and has nothing to replay.
LEMMA StepInit == Init => StepInv
<1> SUFFICES ASSUME Init PROVE StepInv
  OBVIOUS
<1>1. PICK cfg \in Env.cfgs : s = NewSession(cfg, EmptyStore)
  BY DEF Init
<1>2. s.queue = {} /\ s.phase = "idle" /\ s.target = 1 /\ s.state = "LOGON"
  BY <1>1 DEF NewSession, EmptyStore
<1>3. NextToDrain(s) = {}
  BY <1>2 DEF NextToDrain, FirstQueued
<1>4. QED
  BY <1>2, <1>3 DEF Init, StepInv, Fed, Killed, Covers

\* Every step of every thread keeps the invariants, and its promises.
LEMMA StepPreserves ==
    SessionAssumption /\ IInv /\ StepInv /\ [Next]_vars
      => StepInv' /\ (Promises \/ UNCHANGED vars)
<1> SUFFICES ASSUME SessionAssumption, IInv, StepInv, [Next]_vars
             PROVE  StepInv' /\ (Promises \/ UNCHANGED vars)
  OBVIOUS
<1>1. CASE \E m \in Env.inbound : Receive(m) \/ ReceiveFirst(m)
  <2>1. Env.inbound \subseteq Message
    BY DEF SessionAssumption, Environment, Env, IInv, TypeOK
  <2>2. QED
    BY <1>1, <2>1, ReceiveStep
<1>2. CASE EndBatch \/ PeerCloses \/ Congest \/ StopFlush \/ StopNetwork \/ WriterRound
  BY <1>2, ConnectionQuiet, WriterRoundQuiet, QuietStep
<1>3. CASE ReplayNext \/ ReplayDone
  BY <1>3, ReplayNextStep, ReplayDoneStep
<1>4. CASE Drain
  BY <1>4, DrainStep
<1>5. CASE DrainDone
  BY <1>5, DrainDoneQuiet, QuietStep
<1>6. CASE \E due \in SUBSET Timers : Tick(due)
  BY <1>6, TickQuiet, QuietStep
<1>7. CASE FlushWrites
  BY <1>7, FlushWritesQuiet, QuietStep
<1>8. CASE TickDisconnected
  BY <1>8, TickDisconnectedQuiet, QuietStep
<1>9. CASE AppSend
  BY <1>9, AppSendQuiet, QuietStep
<1>10. CASE Admin
  BY <1>10, AdminStep
<1>11. CASE Restart
  BY <1>11, RestartStep
<1>12. CASE UNCHANGED vars
  BY <1>12 DEF vars, StepInv, Fed, Killed, Covers, Env, Throws
<1>13. QED
  BY <1>1, <1>2, <1>3, <1>4, <1>5, <1>6, <1>7, <1>8, <1>9, <1>10, <1>11, <1>12
     DEF Next, Reader

-----------------------------------------------------------------------------
(* The theorems *)

\* A promise for every step is an action property.
LEMMA Promised == Spec => [][Promises]_vars
<1>1. Init => StepInv
  BY StepInit
<1>2. SessionAssumption /\ IInv /\ StepInv /\ [Next]_vars => StepInv' /\ [Promises]_vars
  BY StepPreserves
<1>3. QED
  BY <1>1, <1>2, Invariance, SessionAssumption, PTL DEF Spec

\* Whatever the peer sends, processMessage never moves the next expected number back.
THEOREM NeverBackward == Spec => TargetNeverFalls
<1>1. [Promises]_vars => [s'.target < s.target => edits' # edits \/ starts' # starts
                                                  \/ s.cfg.resetOnLogon]_vars
  BY DEF Promises
<1>2. QED
  BY <1>1, Promised, PTL DEF TargetNeverFalls

\* onMessage gets the numbers in ascending order and none of them twice, out of the
\* queue as from the network, for every peer.
THEOREM DeliversInOrder == Spec => InOrderOnce
<1>1. [Promises]_vars => [s'.dlv # <<>> /\ edits = 0 /\ starts = 1 /\ ~s.cfg.resetOnLogon
                            => s'.dlv[1].seq > lastDlv]_vars
  BY DEF Promises
<1>2. QED
  BY <1>1, Promised, PTL DEF InOrderOnce

\* The inbound-queue loop, which looks at no state, never hands the application a
\* message of a session that is logging on, logging out or being killed.
THEOREM DeliversLoggedOn == Spec => DeliverLoggedOn
<1>1. [Promises]_vars => [s'.dlv # <<>> /\ edits = 0 => LoggedOn(s) \/ Throws]_vars
  BY DEF Promises
<1>2. QED
  BY <1>1, Promised, PTL DEF DeliverLoggedOn

\* No gap fill of runMessageRecovery, from its MsgSeqNum up to its NewSeqNo, covers a
\* message that was to be resent and has not been: the one it may cover is the last
\* that this replay resent, whose number the final gap fill takes (JustResent).
THEOREM HidesNothing == Spec => GapFillsHideNothing
<1>1. [Promises]_vars => [\A i \in DOMAIN s'.out : \A c \in s'.msgs :
                             Hides(s'.out[i], c) => Env.sendInReplay \/ JustResent(c)]_vars
  BY DEF Promises
<1>2. QED
  BY <1>1, Promised, PTL DEF GapFillsHideNothing
=============================================================================
