----------------------------- MODULE SessionProofs -----------------------------
(***************************************************************************)
(* What holds of Session for every peer, every setting and every bound: the *)
(* type invariant and CacheComplete.  Each operator of SessionCore takes a  *)
(* valid session record to a valid one; the lemmas say so one by one, from  *)
(* the cache upwards, in the order of SessionCore.                          *)
(***************************************************************************)
EXTENDS Session, TLAPS

\* A session record of the right type which, unless an operator edited it (~e),
\* has everything it sent.
Valid(t, e) == t \in SessionRecord /\ (e => Whole(t))

-----------------------------------------------------------------------------
(* Messages *)

\* An administrative message without fields is a message.
LEMMA PlainType ==
    ASSUME NEW type \in MsgTypes
    PROVE  Plain(type) \in Message
BY DEF Plain, Message, Flaws, Absent

-----------------------------------------------------------------------------
(* MemoryCache *)

\* A new target number is a change of the numbers only.
LEMMA SetTargetValid ==
    ASSUME NEW t, NEW e \in BOOLEAN, Valid(t, e), NEW n \in Nat
    PROVE  Valid(SetTarget(t, n), e)
BY DEF Valid, SetTarget, SessionRecord, Settings, Whole, Caught

LEMMA NextTargetValid ==
    ASSUME NEW t, NEW e \in BOOLEAN, Valid(t, e)
    PROVE  Valid(NextTarget(t), e)
<1>1. t.target + 1 \in Nat
  BY DEF Valid, SessionRecord
<1>2. QED
  BY <1>1, SetTargetValid DEF NextTarget

\* No messages are complete for the numbers 0 and 1.
LEMMA EmptyComplete == Complete({}, 0) /\ Complete({}, 1)
BY DEF Complete, Seqs

LEMMA ResetValid ==
    ASSUME NEW t, NEW e \in BOOLEAN, Valid(t, e)
    PROVE  Valid(Reset(t), e)
<1>1. Reset(t) \in SessionRecord
  BY ZenonT(60) DEF Valid, Reset, SessionRecord, Settings, Snapshot, EmptyStore
<1>2. ASSUME e PROVE Whole(Reset(t))
  <2>1. /\ Reset(t).msgs = {} /\ Reset(t).sender = 0 /\ Reset(t).pending = {}
        /\ ~Reset(t).lacks /\ Reset(t).disk = t.disk /\ Reset(t).cfg = t.cfg
        /\ Reset(t).stored = IF t.cfg.persist THEN EmptyStore ELSE t.stored
    BY DEF Valid, Reset, SessionRecord
  <2>2. /\ EmptyStore.msgs = {} /\ EmptyStore.sender = 1
    BY DEF EmptyStore
  <2>3. Seqs({}) = {} \cup {}
    BY DEF Seqs
  <2>4. t.cfg.persist \in BOOLEAN
    BY DEF Valid, SessionRecord, Settings
  <2>5. /\ ~t.disk.lacks => Complete(t.disk.msgs, t.disk.sender)
        /\ ~t.stored.lacks => Complete(t.stored.msgs, t.stored.sender)
    BY <1>2 DEF Valid, Whole
  <2>6. t.cfg.persist => Caught(Reset(t))
    BY <2>1, <2>2, <2>3, EmptyComplete DEF Caught
  <2>7. QED
    BY <2>1, <2>2, <2>4, <2>5, <2>6, EmptyComplete DEF Whole
<1>3. QED
  BY <1>1, <1>2 DEF Valid

\* A flush that is not lost leaves in the store what memory has.
LEMMA UpdatedComplete ==
    ASSUME NEW t \in SessionRecord, Whole(t), t.cfg.persist, ~t.resetting, ~t.stored.lacks
    PROVE  /\ Seqs(Updated(t).msgs) = Seqs(t.msgs)
           /\ Complete(t.msgs, Updated(t).sender)
           /\ Complete(Updated(t).msgs, Updated(t).sender)
<1> DEFINE new == Unstored(t)
           kept == {c \in t.stored.msgs : \A d \in new : d.seq # c.seq}
<1>1. /\ Complete(t.msgs, t.sender)
      /\ Complete(t.stored.msgs, t.stored.sender)
      /\ Seqs(t.msgs) = Seqs(t.stored.msgs) \cup t.pending
      /\ ~t.dirty => Complete(t.msgs, t.stored.sender)
  BY DEF Whole, Caught
<1>2. /\ Updated(t).msgs = kept \cup new
      /\ Updated(t).sender = IF t.dirty THEN t.sender ELSE t.stored.sender
  BY DEF Updated, SessionRecord, Snapshot
<1> HIDE DEF kept
<1>3. Seqs(new) = t.pending
  <2>1. t.pending \subseteq Seqs(t.msgs)
    BY <1>1
  <2>2. QED
    BY <2>1 DEF Seqs, Unstored
<1> HIDE DEF new
<1>4. Seqs(kept \cup new) = Seqs(t.msgs)
  <2>1. Seqs(kept \cup new) = Seqs(t.stored.msgs) \cup Seqs(new)
    BY DEF Seqs, kept
  <2>2. QED
    BY <1>1, <1>3, <2>1
<1>5. \A c, d \in kept \cup new : c.seq = d.seq => c = d
  <2>1. \A c, d \in kept : c.seq = d.seq => c = d
    BY <1>1 DEF Complete, kept
  <2>2. \A c, d \in new : c.seq = d.seq => c = d
    BY <1>1 DEF Complete, new, Unstored
  <2>3. \A c \in kept, d \in new : c.seq # d.seq
    BY DEF kept
  <2>4. QED
    BY <2>1, <2>2, <2>3
<1>6. Complete(t.msgs, Updated(t).sender)
  BY <1>1, <1>2
<1>7. QED
  BY <1>2, <1>4, <1>5, <1>6 DEF Complete

LEMMA FlushValid ==
    ASSUME NEW t, NEW e \in BOOLEAN, Valid(t, e)
    PROVE  Valid(FlushSeqNums(t), e)
<1> DEFINE u == Updated(t)
<1>1. t \in SessionRecord /\ t.cfg.persist \in BOOLEAN
  BY DEF Valid, SessionRecord, Settings
<1>2. u \in Snapshot
  <2>1. /\ t.stored \in Snapshot /\ Unstored(t) \in SUBSET Sent
        /\ t.sender \in Nat /\ t.target \in Nat /\ t.dirty \in BOOLEAN
    BY <1>1 DEF SessionRecord, Unstored
  <2>2. QED
    BY <2>1 DEF Updated, Snapshot
<1>3. t.resetting => u.lacks = (t.stored.lacks \/ t.dirty \/ t.pending # {})
                     /\ (~u.lacks => u = t.stored)
  <2>1. t.stored \in Snapshot /\ t.dirty \in BOOLEAN
    BY <1>1 DEF SessionRecord
  <2>2. t.stored.lacks \in BOOLEAN
    BY <2>1 DEF Snapshot
  <2>3. QED
    BY <2>1, <2>2 DEF Updated, Snapshot
<1>4. ~t.resetting => u.lacks = t.stored.lacks
  BY <1>1 DEF Updated, SessionRecord, Snapshot
<1> HIDE DEF u
<1>5. CASE ~t.cfg.persist
  BY <1>5 DEF FlushSeqNums, Valid
<1>6. CASE t.cfg.persist
  <2> DEFINE v == [t EXCEPT !.dirty = FALSE, !.pending = {}, !.stored = u]
  <2>1. FlushSeqNums(t) = v
    BY <1>6 DEF FlushSeqNums, u
  <2>2. v \in SessionRecord
    BY <1>1, <1>2 DEF SessionRecord
  <2>3. /\ v.msgs = t.msgs /\ v.sender = t.sender /\ v.lacks = t.lacks /\ v.disk = t.disk
        /\ v.cfg = t.cfg /\ v.stored = u /\ v.pending = {} /\ v.dirty = FALSE
    BY <1>1 DEF SessionRecord
  <2> HIDE DEF v
  <2>4. ASSUME e PROVE Whole(v)
    <3>1. Whole(t)
      BY <2>4 DEF Valid
    <3>2. ASSUME ~u.lacks, t.resetting
          PROVE  ~t.lacks /\ Complete(u.msgs, u.sender) /\ Caught(v)
      <4>1. u = t.stored /\ ~t.stored.lacks /\ ~t.dirty /\ t.pending = {}
        BY <1>3, <3>2
      <4>2. QED
        BY <1>6, <2>3, <3>1, <4>1 DEF Whole, Caught
    <3>3. ASSUME ~u.lacks, ~t.resetting
          PROVE  ~t.lacks /\ Complete(u.msgs, u.sender) /\ Caught(v)
      <4>1. ~t.stored.lacks
        BY <1>4, <3>3
      <4>2. /\ Seqs(u.msgs) = Seqs(t.msgs) /\ Complete(t.msgs, u.sender)
            /\ Complete(u.msgs, u.sender)
        BY <1>1, <1>6, <3>1, <3>3, <4>1, UpdatedComplete DEF u
      <4>3. QED
        BY <2>3, <3>1, <4>1, <4>2 DEF Whole, Caught
    <3>4. QED
      BY <1>6, <2>3, <3>1, <3>2, <3>3 DEF Whole
  <2>5. QED
    BY <2>1, <2>2, <2>4 DEF Valid
<1>7. QED
  BY <1>1, <1>5, <1>6

\* The writer's round puts in the file what the store has been given.
LEMMA WriteOutValid ==
    ASSUME NEW t, NEW e \in BOOLEAN, Valid(t, e)
    PROVE  Valid(WriteOut(t), e)
BY DEF Valid, WriteOut, SessionRecord, Whole, Caught

LEMMA EnqueueValid ==
    ASSUME NEW t, NEW e \in BOOLEAN, Valid(t, e), NEW m \in Message
    PROVE  Valid(Enqueue(t, m), e)
BY DEF Valid, Enqueue, SessionRecord, Whole, Caught

-----------------------------------------------------------------------------
(* Sending *)

LEMMA TransmitValid ==
    ASSUME NEW t, NEW e \in BOOLEAN, Valid(t, e), NEW m \in Message
    PROVE  Valid(Transmit(t, m), e)
<1>1. Append(t.out, m) \in Seq(Message)
  BY DEF Valid, SessionRecord
<1>2. QED
  BY <1>1 DEF Valid, Transmit, SessionRecord, Whole, Caught

\* Caching a message under the next number and using that number up keeps the
\* cache complete.
LEMMA CacheComplete1 ==
    ASSUME NEW msgs \in SUBSET Sent, NEW n \in Nat, NEW new \in Sent,
           Complete(msgs, n), new.seq = n
    PROVE  Complete({c \in msgs : c.seq # n} \cup {new}, n + 1)
<1> DEFINE more == {c \in msgs : c.seq # n} \cup {new}
<1>1. n \notin Seqs(msgs)
  BY DEF Complete
<1>2. more = msgs \cup {new}
  BY <1>1 DEF Seqs
<1>3. Seqs(more) = Seqs(msgs) \cup {n}
  BY <1>2 DEF Seqs
<1>4. \A k : k \in Seqs(more) <=> k \in 0..n+1 /\ k < n + 1 /\ (k = 0 => 0 \in Seqs(more))
  <2> SUFFICES ASSUME NEW k
               PROVE  k \in Seqs(more)
                        <=> k \in 0..n+1 /\ k < n + 1 /\ (k = 0 => 0 \in Seqs(more))
    OBVIOUS
  <2>1. k \in Seqs(msgs) <=> k \in 0..n /\ k < n /\ (k = 0 => 0 \in Seqs(msgs))
    BY DEF Complete
  <2>2. QED
    BY <2>1, <1>3
<1>5. \A c, d \in more : c.seq = d.seq => c = d
  BY <1>1, <1>2 DEF Complete, Seqs
<1>6. QED
  BY <1>4, <1>5 DEF Complete

LEMMA SendValid ==
    ASSUME NEW t, NEW e \in BOOLEAN, Valid(t, e), NEW m \in Message
    PROVE  Valid(Send(t, m), e)
<1> DEFINE stamped == [m EXCEPT !.seq = t.sender]
           entry == [seq |-> stamped.seq, type |-> stamped.type, id |-> stamped.id]
           u == SetSender(Cache(t, stamped), t.sender + 1)
<1>1. stamped \in Message /\ stamped.seq = t.sender
  BY DEF Valid, SessionRecord, Message
<1>2. entry \in Sent /\ entry.seq = t.sender
  BY <1>1 DEF Message, Sent
<1> DEFINE more == {c \in t.msgs : c.seq # t.sender} \cup {entry}
           pending == IF t.cfg.persist THEN t.pending \cup {t.sender} ELSE t.pending
<1>3. u = [t EXCEPT !.msgs = more, !.sender = t.sender + 1, !.dirty = t.cfg.persist,
                    !.pending = pending]
  BY <1>1, ZenonT(60) DEF SetSender, Cache, Valid, SessionRecord
<1> HIDE DEF u, entry, stamped
<1>4. /\ more \in SUBSET Sent /\ pending \in SUBSET Nat
      /\ t.cfg.persist \in BOOLEAN /\ t.sender + 1 \in Nat
  BY <1>2 DEF Valid, SessionRecord, Settings
<1> HIDE DEF more, pending
<1>5. /\ u \in SessionRecord
      /\ u.msgs = more /\ u.sender = t.sender + 1 /\ u.pending = pending
      /\ u.disk = t.disk /\ u.stored = t.stored /\ u.lacks = t.lacks
      /\ u.cfg = t.cfg /\ u.dirty = t.cfg.persist
  BY <1>3, <1>4 DEF Valid, SessionRecord
<1>6. ASSUME e PROVE Whole(u)
  <2>1. Whole(t)
    BY <1>6 DEF Valid
  <2>2. Seqs(more) = Seqs(t.msgs) \cup {t.sender} \/ t.lacks
    <3>1. ~t.lacks => t.sender \notin Seqs(t.msgs)
      BY <2>1 DEF Whole, Complete
    <3>2. QED
      BY <1>2, <3>1 DEF more, Seqs
  <2>3. ~t.lacks => Complete(more, t.sender + 1)
    BY <1>2, <2>1, CacheComplete1 DEF Valid, SessionRecord, Whole, more
  <2>4. t.cfg.persist /\ ~t.stored.lacks => Caught(u)
    BY <1>5, <2>1, <2>2 DEF Whole, Caught, pending
  <2>5. QED
    BY <1>4, <1>5, <2>1, <2>3, <2>4 DEF Whole
<1>7. Valid(u, e)
  BY <1>5, <1>6 DEF Valid
<1>8. Send(t, m) = Transmit(u, stamped)
  BY DEF Send, u, stamped
<1>9. QED
  BY <1>1, <1>7, <1>8, TransmitValid

\* What Whole looks at.
LEMMA SameCacheValid ==
    ASSUME NEW t, NEW e \in BOOLEAN, Valid(t, e), NEW u \in SessionRecord,
           u.msgs = t.msgs, u.sender = t.sender, u.pending = t.pending,
           u.stored = t.stored, u.disk = t.disk, u.lacks = t.lacks,
           u.cfg = t.cfg, u.dirty = t.dirty
    PROVE  Valid(u, e)
BY DEF Valid, Whole, Caught

LEMMA SetStateValid ==
    ASSUME NEW t, NEW e \in BOOLEAN, Valid(t, e), NEW x \in SessionStates
    PROVE  Valid([t EXCEPT !.state = x], e)
BY DEF Valid, Whole, Caught, SessionRecord

LEMMA SetPhaseValid ==
    ASSUME NEW t, NEW e \in BOOLEAN, Valid(t, e), NEW x \in Phases
    PROVE  Valid([t EXCEPT !.phase = x], e)
BY DEF Valid, Whole, Caught, SessionRecord

LEMMA DisconnectValid ==
    ASSUME NEW t, NEW e \in BOOLEAN, Valid(t, e)
    PROVE  Valid(Disconnect(t), e)
BY DEF Valid, Whole, Caught, SessionRecord, Disconnect

LEMMA ConnectValid ==
    ASSUME NEW t, NEW e \in BOOLEAN, Valid(t, e)
    PROVE  Valid(Connect(t), e)
BY DEF Valid, Whole, Caught, SessionRecord, Connect

LEMMA TerminateValid ==
    ASSUME NEW t, NEW e \in BOOLEAN, Valid(t, e)
    PROVE  Valid(Terminate(t), e)
BY DisconnectValid, SetStateValid DEF Terminate, SessionStates

\* Sending an administrative message without fields.
LEMMA SendPlainValid ==
    ASSUME NEW t, NEW e \in BOOLEAN, Valid(t, e), NEW type \in MsgTypes
    PROVE  Valid(Send(t, Plain(type)), e)
BY PlainType, SendValid

LEMMA SendLogoutValid ==
    ASSUME NEW t, NEW e \in BOOLEAN, Valid(t, e), NEW terminal
    PROVE  Valid(SendLogout(t, terminal), e)
<1> DEFINE u == Send(t, Plain("Logout"))
<1>1. Valid(u, e)
  BY SendPlainValid DEF MsgTypes, SessionMsgs
<1> HIDE DEF u
<1>2. Valid([u EXCEPT !.killQueued = TRUE], e)
  BY <1>1 DEF Valid, Whole, Caught, SessionRecord
<1>3. Valid(Terminate(u), e)
  BY <1>1, TerminateValid
<1>4. QED
  BY <1>1, <1>2, <1>3 DEF SendLogout, u

LEMMA LogoutValid ==
    ASSUME NEW t, NEW e \in BOOLEAN, Valid(t, e), NEW terminal
    PROVE  Valid(Logout(t, terminal), e)
<1>1. Valid([t EXCEPT !.state = IF terminal THEN "KILLING" ELSE "LOGOUT"], e)
  <2>1. (IF terminal THEN "KILLING" ELSE "LOGOUT") \in SessionStates
    BY DEF SessionStates
  <2>2. QED
    BY <2>1, SetStateValid
<1>2. QED
  BY <1>1, SendLogoutValid DEF Logout

LEMMA SendRejectValid ==
    ASSUME NEW t, NEW e \in BOOLEAN, Valid(t, e)
    PROVE  Valid(SendReject(t), e)
BY SendPlainValid DEF SendReject, MsgTypes

LEMMA SendHeartbeatValid ==
    ASSUME NEW t, NEW e \in BOOLEAN, Valid(t, e), NEW reqId \in Nat
    PROVE  Valid(SendHeartbeat(t, reqId), e)
<1>1. [Plain("Heartbeat") EXCEPT !.reqId = reqId] \in Message
  BY DEF Plain, Message, MsgTypes, SessionMsgs, Flaws, Absent
<1>2. QED
  BY <1>1, SendValid DEF SendHeartbeat

LEMMA SendTestRequestValid ==
    ASSUME NEW t, NEW e \in BOOLEAN, Valid(t, e)
    PROVE  Valid(SendTestRequest(t), e)
<1>1. t.testReqId + 1 \in Nat
  BY DEF Valid, SessionRecord
<1>2. [Plain("TestRequest") EXCEPT !.reqId = t.testReqId + 1] \in Message
  BY <1>1 DEF Plain, Message, MsgTypes, SessionMsgs, Flaws, Absent
<1>3. Valid([t EXCEPT !.testReqId = @ + 1], e)
  BY <1>1 DEF Valid, Whole, Caught, SessionRecord
<1>4. QED
  BY <1>2, <1>3, SendValid DEF SendTestRequest

LEMMA SendResendRequestValid ==
    ASSUME NEW t, NEW e \in BOOLEAN, Valid(t, e), NEW from \in Nat, NEW to \in Nat
    PROVE  Valid(SendResendRequest(t, from, to), e)
<1>1. [Plain("ResendRequest") EXCEPT !.begin = from, !.end = to] \in Message
  BY DEF Plain, Message, MsgTypes, SessionMsgs, Flaws, Absent
<1>2. QED
  BY <1>1, SendValid DEF SendResendRequest

LEMMA SendLogonValid ==
    ASSUME NEW t, NEW e \in BOOLEAN, Valid(t, e), NEW shouldReset \in BOOLEAN
    PROVE  Valid(SendLogon(t, shouldReset), e)
<1> DEFINE next == IF t.cfg.sendNext THEN t.target ELSE Absent
           flaw == IF t.cfg.sendNext \/ shouldReset THEN "noSeqNum" ELSE "none"
<1>1. next \in Nat \cup {Absent} /\ flaw \in Flaws
  BY DEF Valid, SessionRecord, Flaws
<1> HIDE DEF next, flaw
<1>2. [Plain("Logon") EXCEPT !.reset = shouldReset, !.next = next, !.flaw = flaw] \in Message
  BY <1>1 DEF Plain, Message, MsgTypes, SessionMsgs
<1>3. QED
  BY <1>2, SendValid DEF SendLogon, next, flaw

-----------------------------------------------------------------------------
(* Replay *)

LEMMA GapFillType ==
    ASSUME NEW seq \in Nat, NEW new \in Nat
    PROVE  GapFill(seq, new) \in Message
BY DEF GapFill, Plain, Message, MsgTypes, SessionMsgs, Flaws, Absent

LEMMA ResendType ==
    ASSUME NEW c \in Sent
    PROVE  Resend(c) \in Message
BY DEF Resend, Plain, Sent, Message, Flaws, Absent

\* A replay is a replay again after one of its messages.
LEMMA SetReplayValid ==
    ASSUME NEW t, NEW e \in BOOLEAN, Valid(t, e), NEW r \in Replay
    PROVE  /\ Valid([t EXCEPT !.replay = r], e)
           /\ \A x \in Phases : Valid([t EXCEPT !.phase = x, !.replay = r], e)
BY DEF Valid, Whole, Caught, SessionRecord

LEMMA StartReplayValid ==
    ASSUME NEW t, NEW e \in BOOLEAN, Valid(t, e), NEW begin \in Nat, NEW end \in Nat,
           NEW seq \in Nat \cup {Absent}, NEW ask \in Nat \cup {Absent}
    PROVE  Valid(StartReplay(t, begin, end, seq, ask), e)
<1> DEFINE last == Smaller(end, t.sender)
           todo == {c \in t.msgs : /\ c.type \notin SessionMsgs
                                   /\ c.seq >= begin
                                   /\ last = 0 \/ c.seq <= last}
           r == [begin |-> begin, ptr |-> begin, end |-> last, todo |-> todo,
                 seq |-> seq, ask |-> ask]
<1>1. last \in Nat
  BY DEF Valid, SessionRecord, Smaller
<1>2. todo \in SUBSET Sent
  BY DEF Valid, SessionRecord
<1>3. r \in Replay
  BY <1>1, <1>2 DEF Replay
<1>4. StartReplay(t, begin, end, seq, ask) = [t EXCEPT !.phase = "replay", !.replay = r]
  BY DEF StartReplay
<1> HIDE DEF r
<1>5. "replay" \in Phases
  BY DEF Phases
<1>6. Valid([t EXCEPT !.phase = "replay", !.replay = r], e)
  BY <1>3, <1>5, SetReplayValid
<1>7. QED
  BY <1>4, <1>6

LEMMA TransmitKeepsReplay ==
    ASSUME NEW t, NEW e \in BOOLEAN, Valid(t, e), NEW m
    PROVE  Transmit(t, m).replay = t.replay
BY DEF Valid, SessionRecord, Transmit

LEMMA ReplayOneValid ==
    ASSUME NEW t, NEW e \in BOOLEAN, Valid(t, e), NEW c \in NextToReplay(t)
    PROVE  Valid(ReplayOne(t, c), e)
<1> DEFINE u == IF c.seq # t.replay.ptr THEN Transmit(t, GapFill(t.replay.ptr, c.seq)) ELSE t
           v == Transmit(u, Resend(c))
           r == [t.replay EXCEPT !.ptr = c.seq + 1, !.todo = t.replay.todo \ {c}]
<1>1. t.replay \in Replay /\ c \in t.replay.todo
  BY DEF Valid, SessionRecord, NextToReplay
<1>2. c \in Sent /\ c.seq \in Nat /\ t.replay.ptr \in Nat
  BY <1>1 DEF Replay, Sent
<1>3. Valid(u, e) /\ u.replay = t.replay
  BY <1>2, GapFillType, TransmitValid, TransmitKeepsReplay
<1>4. Valid(v, e) /\ v.replay = t.replay
  BY <1>2, <1>3, ResendType, TransmitValid, TransmitKeepsReplay
<1>5. r \in Replay
  <2>1. t.replay.todo \ {c} \in SUBSET Sent /\ c.seq + 1 \in Nat /\ c.seq + 1 > 0
    BY <1>1, <1>2 DEF Replay
  <2>2. \A x \in Nat, y \in SUBSET Sent : x > 0 => [t.replay EXCEPT !.ptr = x, !.todo = y] \in Replay
    BY <1>1 DEF Replay
  <2>3. QED
    BY <2>1, <2>2
<1> HIDE DEF u
<1>6. [v EXCEPT !.replay.ptr = c.seq + 1, !.replay.todo = t.replay.todo \ {c}]
        = [v EXCEPT !.replay = r]
  BY <1>1, <1>4 DEF Replay, Valid, SessionRecord
<1>7. ReplayOne(t, c)
        = [v EXCEPT !.replay.ptr = c.seq + 1, !.replay.todo = t.replay.todo \ {c}]
  BY DEF ReplayOne, u
<1> HIDE DEF v, r
<1>8. Valid([v EXCEPT !.replay = r], e)
  BY <1>4, <1>5, SetReplayValid
<1>9. QED
  BY <1>6, <1>7, <1>8

LEMMA FinalGapFillValid ==
    ASSUME NEW t, NEW e \in BOOLEAN, Valid(t, e)
    PROVE  Valid(FinalGapFill(t), e)
<1> DEFINE r == t.replay
           ptr == IF r.ptr # r.begin THEN r.ptr - 1 ELSE r.ptr
           end == IF r.end # 0 THEN r.end ELSE t.sender
<1>1. r \in Replay /\ t.sender \in Nat
  BY DEF Valid, SessionRecord
<1>2. ptr \in Nat /\ end \in Nat
  BY <1>1 DEF Replay
<1> HIDE DEF ptr, end
<1>3. Valid(Transmit(t, GapFill(ptr, end)), e)
  BY <1>2, GapFillType, TransmitValid
<1>4. QED
  BY <1>3 DEF FinalGapFill, ptr, end

LEMMA ReplayEndValid ==
    ASSUME NEW t, NEW e \in BOOLEAN, Valid(t, e)
    PROVE  Valid(ReplayEnd(t), e)
<1> DEFINE u == [FinalGapFill(t) EXCEPT !.phase = "drain", !.replay = NoReplay]
<1>1. t.replay.ask \in Nat \cup {Absent}
  BY DEF Valid, SessionRecord, Replay
<1>2. NoReplay \in Replay
  BY DEF NoReplay, Replay, Absent
<1>3. Valid(u, e)
  BY <1>2, FinalGapFillValid, SetReplayValid DEF Phases
<1> HIDE DEF u
<1>4. ASSUME t.replay.ask # Absent
      PROVE  Valid(SendResendRequest(u, t.replay.ask, 0), e)
  BY <1>1, <1>3, <1>4, SendResendRequestValid
<1>5. Valid(NextTarget(u), e)
  BY <1>3, NextTargetValid
<1>6. QED
  BY <1>3, <1>4, <1>5 DEF ReplayEnd, u

-----------------------------------------------------------------------------
(* Receiving *)

LEMMA RefuseValid ==
    ASSUME NEW t, NEW e \in BOOLEAN, Valid(t, e), NEW defect
    PROVE  Valid(Refuse(t, defect), e)
<1>1. Valid(Terminate(t), e) /\ Valid(Logout(t, TRUE), e) /\ Valid(SendReject(t), e)
  BY TerminateValid, LogoutValid, SendRejectValid
<1>2. Valid(Logout(SendReject(t), FALSE), e)
  BY <1>1, LogoutValid
<1>3. QED
  BY <1>1, <1>2 DEF Refuse

LEMMA OutOfSequenceValid ==
    ASSUME NEW t, NEW e \in BOOLEAN, Valid(t, e), NEW m \in Message
    PROVE  Valid(OutOfSequence(t, m), e)
<1>1. Valid(Logout(t, TRUE), e)
  BY LogoutValid
<1>2. t.target \in Nat /\ m.seq \in Nat
  BY DEF Valid, SessionRecord, Message
<1>3. Valid(SendResendRequest(Enqueue(t, m), t.target, m.seq), e)
  BY <1>2, EnqueueValid, SendResendRequestValid
<1>4. QED
  BY <1>1, <1>3 DEF OutOfSequence

LEMMA ThrowValid ==
    ASSUME NEW t, NEW e \in BOOLEAN, Valid(t, e)
    PROVE  Valid(Throw(t), e)
BY SetPhaseValid DEF Throw, Phases

LEMMA HandleSequenceResetValid ==
    ASSUME NEW t, NEW e \in BOOLEAN, Valid(t, e), NEW m \in Message
    PROVE  Valid(HandleSequenceReset(t, m), e)
<1>1. m.new \in Nat
  BY DEF Message
<1>2. /\ Valid(Throw(t), e) /\ Valid(SendReject(t), e) /\ Valid(Logout(t, TRUE), e)
      /\ Valid(OutOfSequence(t, m), e) /\ Valid(SetTarget(t, m.new), e)
  BY <1>1, ThrowValid, SendRejectValid, LogoutValid, OutOfSequenceValid, SetTargetValid
<1>3. QED
  BY <1>2 DEF HandleSequenceReset

LEMMA HandleResendRequestValid ==
    ASSUME NEW t, NEW e \in BOOLEAN, Valid(t, e), NEW m \in Message
    PROVE  Valid(HandleResendRequest(t, m), e)
<1>1. m.begin \in Nat /\ m.end \in Nat /\ m.seq \in Nat \cup {Absent} /\ Absent \in Nat \cup {Absent}
  BY DEF Message
<1>2. Valid(StartReplay(t, m.begin, m.end, m.seq, Absent), e)
  BY <1>1, StartReplayValid
<1>3. QED
  BY <1>2, ThrowValid DEF HandleResendRequest

LEMMA AcceptLogonValid ==
    ASSUME NEW t, NEW e \in BOOLEAN, Valid(t, e), NEW m \in Message
    PROVE  Valid(AcceptLogon(t, m), e)
<1> DEFINE expected == t.target
           zeroed   == IF m.reset THEN Reset(t) ELSE t
           counted  == IF m.seq = expected THEN NextTarget(zeroed) ELSE zeroed
           answered == IF t.cfg.initiator THEN counted ELSE SendLogon(counted, m.reset)
           ready    == [answered EXCEPT !.state = "READY"]
           ask      == IF ~t.cfg.sendNext /\ m.seq > expected THEN expected ELSE Absent
<1>1. /\ m.reset \in BOOLEAN /\ m.next \in Nat \cup {Absent}
      /\ expected \in Nat /\ ask \in Nat \cup {Absent}
  BY DEF Message, Valid, SessionRecord
<1>2. Valid(zeroed, e)
  BY ResetValid
<1> HIDE DEF zeroed
<1>3. Valid(counted, e)
  BY <1>2, NextTargetValid
<1> HIDE DEF counted
<1>4. Valid(answered, e)
  BY <1>1, <1>3, SendLogonValid
<1> HIDE DEF answered
<1>5. Valid(ready, e)
  BY <1>4, SetStateValid DEF SessionStates
<1> HIDE DEF ready, ask, expected
<1>6. Valid(Throw(counted), e)
  BY <1>3, ThrowValid
<1>7. ASSUME m.next # Absent PROVE Valid(StartReplay(ready, m.next, 0, Absent, ask), e)
  <2>1. m.next \in Nat /\ 0 \in Nat /\ Absent \in Nat \cup {Absent}
    BY <1>1, <1>7
  <2>2. QED
    BY <1>1, <1>5, <2>1, StartReplayValid
<1>8. ASSUME ask # Absent PROVE Valid(SendResendRequest(ready, ask, 0), e)
  <2>1. ask \in Nat /\ 0 \in Nat
    BY <1>1, <1>8
  <2>2. QED
    BY <1>5, <2>1, SendResendRequestValid
<1>9. QED
  BY <1>5, <1>6, <1>7, <1>8
     DEF AcceptLogon, zeroed, counted, answered, ready, ask, expected

LEMMA HandleLogonValid ==
    ASSUME NEW t, NEW e \in BOOLEAN, Valid(t, e), NEW m \in Message
    PROVE  Valid(HandleLogon(t, m), e)
<1>1. Valid(Logout(t, FALSE), e) /\ Valid(Logout(t, TRUE), e) /\ Valid(AcceptLogon(t, m), e)
  BY LogoutValid, AcceptLogonValid
<1>2. QED
  BY <1>1 DEF HandleLogon

LEMMA InSequenceValid ==
    ASSUME NEW t, NEW e \in BOOLEAN, Valid(t, e), NEW m \in Message
    PROVE  Valid(InSequence(t, m), e)
<1> DEFINE u == NextTarget(t)
<1>1. Valid(u, e) /\ m.reqId \in Nat
  BY NextTargetValid DEF Message
<1> HIDE DEF u
<1>2. Valid(HandleLogout(u), e)
  BY <1>1, TerminateValid, SendLogoutValid DEF HandleLogout
<1>3. Valid(HandleHeartbeat(u, m), e)
  BY <1>1, SetStateValid DEF HandleHeartbeat, SessionStates
<1>4. Valid(HandleTestRequest(u, m), e)
  BY <1>1, ThrowValid, SendHeartbeatValid DEF HandleTestRequest
<1>5. Valid([u EXCEPT !.dlv = Append(@, m)], e)
  <2>1. Append(u.dlv, m) \in Seq(Message)
    BY <1>1 DEF Valid, SessionRecord
  <2>2. QED
    BY <1>1, <2>1 DEF Valid, Whole, Caught, SessionRecord
<1>6. QED
  BY <1>1, <1>2, <1>3, <1>4, <1>5 DEF InSequence, u

LEMMA ProcessMessageValid ==
    ASSUME NEW t, NEW e \in BOOLEAN, Valid(t, e), NEW m \in Message
    PROVE  Valid(ProcessMessage(t, m), e)
<1>1. /\ Valid(Refuse(t, Defect(t, m)), e) /\ Valid(HandleSequenceReset(t, m), e)
      /\ Valid(HandleLogon(t, m), e) /\ Valid(HandleResendRequest(t, m), e)
      /\ Valid(InSequence(t, m), e) /\ Valid(OutOfSequence(t, m), e)
  BY RefuseValid, HandleSequenceResetValid, HandleLogonValid, HandleResendRequestValid,
     InSequenceValid, OutOfSequenceValid
<1>2. QED
  BY <1>1 DEF ProcessMessage

LEMMA OnNetworkMessageValid ==
    ASSUME NEW t, NEW e \in BOOLEAN, Valid(t, e), NEW m \in Message
    PROVE  Valid(OnNetworkMessage(t, m), e)
<1>1. Valid([t EXCEPT !.phase = "drain"], e)
  BY SetPhaseValid DEF Phases
<1>2. QED
  BY <1>1, ProcessMessageValid DEF OnNetworkMessage

LEMMA DrainOneValid ==
    ASSUME NEW t, NEW e \in BOOLEAN, Valid(t, e), NEW q \in NextToDrain(t)
    PROVE  Valid(DrainOne(t, q), e)
<1> DEFINE u == ProcessMessage(t, q)
<1>1. q \in Message
  BY DEF NextToDrain, FirstQueued, Valid, SessionRecord
<1>2. Valid(u, e)
  BY <1>1, ProcessMessageValid
<1> HIDE DEF u
<1>3. Valid([u EXCEPT !.queue = @ \ FirstQueued(u)], e)
  BY <1>2 DEF Valid, Whole, Caught, SessionRecord
<1>4. QED
  BY <1>2, <1>3 DEF DrainOne, u

-----------------------------------------------------------------------------
(* internal_update *)

LEMMA UpdateDisconnectedValid ==
    ASSUME NEW t, NEW e \in BOOLEAN, Valid(t, e)
    PROVE  Valid(UpdateDisconnected(t), e)
BY FlushValid, SetStateValid DEF UpdateDisconnected, SessionStates

LEMMA AttemptLogonValid ==
    ASSUME NEW t, NEW e \in BOOLEAN, Valid(t, e)
    PROVE  Valid(AttemptLogon(t), e)
<1>1. t.cfg.resetOnLogon \in BOOLEAN
  BY DEF Valid, SessionRecord, Settings
<1>2. Valid(IF t.cfg.resetOnLogon THEN Reset(t) ELSE t, e)
  BY ResetValid
<1>3. QED
  BY <1>1, <1>2, SendLogonValid DEF AttemptLogon

LEMMA UpdateConnectedValid ==
    ASSUME NEW t, NEW e \in BOOLEAN, Valid(t, e), NEW due
    PROVE  Valid(UpdateConnected(t, due), e)
<1> DEFINE u == FlushSeqNums(t)
<1>1. Valid(u, e) /\ Valid(AttemptLogon(u), e)
  BY FlushValid, AttemptLogonValid
<1>2. Valid(CheckTimeouts(u, due), e)
  BY <1>1, TerminateValid DEF CheckTimeouts
<1>3. ASSUME NEW v, Valid(v, e) PROVE Valid(KeepAlive(v, due), e)
  <2>1. 0 \in Nat
    OBVIOUS
  <2>2. QED
    BY <1>3, <2>1, SendHeartbeatValid DEF KeepAlive
<1>4. ASSUME NEW v, Valid(v, e) PROVE Valid(ProbePeer(v, due), e)
  <2>1. Valid([SendTestRequest(v) EXCEPT !.state = "TEST_REQUEST"], e)
    BY <1>4, SendTestRequestValid, SetStateValid DEF SessionStates
  <2>2. QED
    BY <1>4, <2>1 DEF ProbePeer
<1> HIDE DEF u
<1>5. Valid(ProbePeer(KeepAlive(CheckTimeouts(u, due), due), due), e)
  BY <1>2, <1>3, <1>4
<1>6. QED
  BY <1>1, <1>5 DEF UpdateConnected, u

-----------------------------------------------------------------------------
(* Session *)

\* The inductive invariant.
IInv ==
    /\ TypeOK
    /\ CacheComplete

LEMMA NewSessionValid ==
    ASSUME NEW cfg \in Settings, NEW disk \in Snapshot, NEW e \in BOOLEAN,
           e => disk.lacks \/ Complete(disk.msgs, disk.sender)
    PROVE  Valid(NewSession(cfg, disk), e)
<1> DEFINE t == NewSession(cfg, disk)
<1>1. t \in SessionRecord
  BY DEF NewSession, SessionRecord, SessionStates, Phases, Snapshot, Replay, NoReplay, Absent
<1>2. /\ t.msgs = disk.msgs /\ t.sender = disk.sender /\ t.lacks = disk.lacks
      /\ t.disk = disk /\ t.stored = disk /\ t.pending = {}
  BY DEF NewSession
<1>3. QED
  BY <1>1, <1>2 DEF Valid, Whole, Caught

LEMMA InitValid == SessionAssumption /\ Init => IInv
<1> SUFFICES ASSUME SessionAssumption, Init PROVE IInv
  OBVIOUS
<1>0. env \in DOMAIN Scenarios
  BY DEF Init
<1>1. EmptyStore \in Snapshot /\ Complete(EmptyStore.msgs, EmptyStore.sender)
  BY EmptyComplete DEF EmptyStore, Snapshot
<1>2. PICK cfg \in Env.cfgs : s = NewSession(cfg, EmptyStore)
  BY DEF Init
<1>3. cfg \in Settings
  BY <1>0 DEF SessionAssumption, Environment, Env
<1>4. Valid(s, TRUE)
  BY <1>1, <1>2, <1>3, NewSessionValid
<1>5. QED
  BY <1>4 DEF Valid, Init, IInv, TypeOK, CacheComplete

\* The record a handler starts from, whoever ran before it.
LEMMA EmptiedValid ==
    ASSUME NEW t, NEW e \in BOOLEAN, Valid(t, e)
    PROVE  Valid([t EXCEPT !.out = <<>>, !.dlv = <<>>], e)
<1>1. <<>> \in Seq(Message)
  OBVIOUS
<1>2. QED
  BY <1>1 DEF Valid, Whole, Caught, SessionRecord

LEMMA FreshValid ==
    ASSUME IInv
    PROVE  /\ (edits = 0) \in BOOLEAN
           /\ Valid(s, edits = 0)
           /\ Valid(Fresh, edits = 0)
           /\ Fresh.replay = s.replay /\ Fresh.queue = s.queue /\ Fresh.target = s.target
<1>1. Valid(s, edits = 0) /\ s \in SessionRecord
  BY DEF IInv, TypeOK, CacheComplete, Valid
<1>2. (edits = 0) \in BOOLEAN
  OBVIOUS
<1>3. Valid(Fresh, edits = 0)
  BY <1>1, <1>2, EmptiedValid DEF Fresh
<1>4. Fresh.replay = s.replay /\ Fresh.queue = s.queue /\ Fresh.target = s.target
  BY <1>1 DEF Fresh, SessionRecord
<1>5. QED
  BY <1>1, <1>2, <1>3, <1>4

\* A step that gives the session a valid record keeps lastDlv a number.
LEMMA BecomesValid ==
    ASSUME IInv, NEW t, Becomes(t), Valid(t, edits' = 0),
           batch' \in BOOLEAN, life' \in {"running", "flushed", "stopped"},
           edits' \in Nat, starts' \in Nat
    PROVE  IInv'
<1>1. s' \in SessionRecord /\ (edits' = 0 => Whole(s)')
  BY DEF Becomes, Valid, Whole, Caught
<1>2. lastDlv' \in Nat
  <2>1. t.dlv \in Seq(Message) /\ lastDlv \in Nat
    BY DEF Valid, SessionRecord, IInv, TypeOK
  <2>2. t.dlv # <<>> => t.dlv[Len(t.dlv)] \in Message
    BY <2>1
  <2>3. \A m \in Message : m.seq \in Nat
    BY DEF Message
  <2>4. QED
    BY <2>1, <2>2, <2>3 DEF Becomes
<1>3. env' \in DOMAIN Scenarios
  BY DEF Becomes, IInv, TypeOK
<1>4. QED
  BY <1>1, <1>2, <1>3 DEF IInv, TypeOK, CacheComplete

\* The same for a step of which only the session and the batch flag change.
LEMMA HandlerValid ==
    ASSUME IInv, NEW t, Becomes(t), Valid(t, edits = 0),
           batch' \in BOOLEAN, UNCHANGED <<life, edits, starts>>
    PROVE  IInv'
<1>1. /\ life' \in {"running", "flushed", "stopped"} /\ edits' \in Nat /\ starts' \in Nat
      /\ edits' = edits
  BY DEF IInv, TypeOK
<1>2. Valid(t, edits' = 0)
  BY <1>1
<1>3. QED
  BY <1>1, <1>2, BecomesValid

-----------------------------------------------------------------------------
(* One lemma per action *)

LEMMA ReceivePreserves ==
    ASSUME IInv, NEW m \in Message, Receive(m) \/ ReceiveFirst(m)
    PROVE  IInv'
<1> DEFINE t == OnNetworkMessage(Fresh, m)
           u == OnNetworkMessage(Connect(Fresh), m)
<1>1. Valid(t, edits = 0) /\ Valid(u, edits = 0)
  BY FreshValid, ConnectValid, OnNetworkMessageValid
<1>2. /\ Becomes(t) \/ Becomes(u)
      /\ batch' \in BOOLEAN /\ UNCHANGED <<life, edits, starts>>
  BY DEF Receive, ReceiveFirst
<1> HIDE DEF t, u
<1>3. QED
  BY <1>1, <1>2, HandlerValid

LEMMA EndBatchPreserves ==
    ASSUME IInv, EndBatch
    PROVE  IInv'
<1>1. Becomes(Fresh) /\ batch' \in BOOLEAN /\ UNCHANGED <<life, edits, starts>>
  BY DEF EndBatch
<1>2. QED
  BY <1>1, FreshValid, HandlerValid

LEMMA ReplayPreserves ==
    ASSUME IInv, ReplayNext \/ ReplayDone
    PROVE  IInv'
<1>1. batch' \in BOOLEAN /\ UNCHANGED <<life, edits, starts>>
  BY DEF ReplayNext, ReplayDone, IInv, TypeOK
<1>2. CASE ReplayNext
  <2>1. NextToReplay(s) = NextToReplay(Fresh)
    BY FreshValid DEF NextToReplay
  <2>2. PICK c \in NextToReplay(Fresh) : Becomes(ReplayOne(Fresh, c))
    BY <1>2, <2>1 DEF ReplayNext
  <2>3. Valid(ReplayOne(Fresh, c), edits = 0)
    BY <2>2, FreshValid, ReplayOneValid
  <2>4. QED
    BY <1>1, <2>2, <2>3, HandlerValid
<1>3. CASE ReplayDone
  <2>1. Becomes(ReplayEnd(Fresh))
    BY <1>3 DEF ReplayDone
  <2>2. Valid(ReplayEnd(Fresh), edits = 0)
    BY FreshValid, ReplayEndValid
  <2>3. QED
    BY <1>1, <2>1, <2>2, HandlerValid
<1>4. QED
  BY <1>2, <1>3

LEMMA DrainPreserves ==
    ASSUME IInv, Drain \/ DrainDone
    PROVE  IInv'
<1>1. batch' \in BOOLEAN /\ UNCHANGED <<life, edits, starts>>
  BY DEF Drain, DrainDone, IInv, TypeOK
<1>2. CASE Drain
  <2>1. NextToDrain(s) = NextToDrain(Fresh)
    BY FreshValid DEF NextToDrain, FirstQueued
  <2>2. PICK q \in NextToDrain(Fresh) : Becomes(DrainOne(Fresh, q))
    BY <1>2, <2>1 DEF Drain
  <2>3. Valid(DrainOne(Fresh, q), edits = 0)
    BY <2>2, FreshValid, DrainOneValid
  <2>4. QED
    BY <1>1, <2>2, <2>3, HandlerValid
<1>3. CASE DrainDone
  <2>1. Becomes(DrainEnd(Fresh))
    BY <1>3 DEF DrainDone
  <2>2. Valid(DrainEnd(Fresh), edits = 0)
    BY FreshValid, SetPhaseValid DEF DrainEnd, Phases
  <2>3. QED
    BY <1>1, <2>1, <2>2, HandlerValid
<1>4. QED
  BY <1>2, <1>3

LEMMA TickPreserves ==
    ASSUME IInv, NEW due, Tick(due)
    PROVE  IInv'
<1> DEFINE t == UpdateConnected(Fresh, due)
<1>1. Becomes(t) /\ UNCHANGED <<batch, life, edits, starts>>
  BY DEF Tick
<1>2. Valid(t, edits = 0)
  BY FreshValid, UpdateConnectedValid
<1>3. batch' \in BOOLEAN
  BY <1>1 DEF IInv, TypeOK
<1> HIDE DEF t
<1>4. QED
  BY <1>1, <1>2, <1>3, HandlerValid

LEMMA TickDisconnectedPreserves ==
    ASSUME IInv, TickDisconnected
    PROVE  IInv'
<1> DEFINE t == UpdateDisconnected(Fresh)
           u == Connect(t)
<1>1. Becomes(t) \/ Becomes(u)
  BY DEF TickDisconnected
<1>2. UNCHANGED <<batch, life, edits, starts>>
  BY DEF TickDisconnected
<1>3. Valid(t, edits = 0)
  BY FreshValid, UpdateDisconnectedValid
<1>4. Valid(u, edits = 0)
  BY <1>3, FreshValid, ConnectValid
<1>5. batch' \in BOOLEAN
  BY <1>2 DEF IInv, TypeOK
<1> HIDE DEF t, u
<1>6. QED
  BY <1>1, <1>2, <1>3, <1>4, <1>5, HandlerValid

LEMMA ConnectionPreserves ==
    ASSUME IInv, PeerCloses \/ FlushWrites \/ Congest
    PROVE  IInv'
<1> DEFINE hung == [Fresh EXCEPT !.connected = FALSE, !.phase = "hung"]
<1>1. \A x \in BOOLEAN : Valid([Fresh EXCEPT !.congested = x], edits = 0)
  BY FreshValid, ZenonT(60) DEF Valid, Whole, Caught, SessionRecord
<1>2. Valid(hung, edits = 0)
  BY FreshValid, ZenonT(60) DEF Valid, Whole, Caught, SessionRecord, Phases
<1>3. Valid(Disconnect(Fresh), edits = 0)
  BY FreshValid, DisconnectValid
<1>4. PICK t : /\ \/ t = hung \/ t = Disconnect(Fresh)
                  \/ \E x \in BOOLEAN : t = [Fresh EXCEPT !.congested = x]
               /\ Becomes(t) /\ UNCHANGED <<batch, life, edits, starts>>
  BY DEF PeerCloses, FlushWrites, Congest
<1>5. Valid(t, edits = 0)
  BY <1>1, <1>2, <1>3, <1>4
<1>6. batch' \in BOOLEAN
  BY <1>4 DEF IInv, TypeOK
<1>7. QED
  BY <1>4, <1>5, <1>6, HandlerValid

LEMMA WriterRoundPreserves ==
    ASSUME IInv, WriterRound
    PROVE  IInv'
<1> DEFINE t == WriteOut(Fresh)
<1>1. Becomes(t) /\ UNCHANGED <<batch, life, edits, starts>>
  BY DEF WriterRound
<1>2. Valid(t, edits = 0)
  BY FreshValid, WriteOutValid
<1>3. batch' \in BOOLEAN
  BY <1>1 DEF IInv, TypeOK
<1> HIDE DEF t
<1>4. QED
  BY <1>1, <1>2, <1>3, HandlerValid

LEMMA AppSendPreserves ==
    ASSUME IInv, AppSend
    PROVE  IInv'
<1> DEFINE t == Send(Fresh, App(1))
<1>1. Becomes(t) /\ UNCHANGED <<batch, life, edits, starts>>
  BY DEF AppSend
<1>2. App(1) \in Message
  BY DEF App, Plain, Message, MsgTypes, Flaws, Absent
<1>3. Valid(t, edits = 0)
  BY <1>2, FreshValid, SendValid
<1>4. batch' \in BOOLEAN
  BY <1>1 DEF IInv, TypeOK
<1> HIDE DEF t
<1>5. QED
  BY <1>1, <1>3, <1>4, HandlerValid

\* After an operator's edit nothing but the type is promised.
LEMMA AdminPreserves ==
    ASSUME SessionAssumption, IInv, Admin
    PROVE  IInv'
<1>1. PICK t \in AdminEdits : Becomes(t)
  BY DEF Admin
<1>2. Valid(Fresh, FALSE)
  BY FreshValid DEF Valid
<1>3. \A n \in 1..Env.maxSeq : Valid(SetSender(Fresh, n), FALSE) /\ Valid(SetTarget(Fresh, n), FALSE)
  <2>1. \A n \in 1..Env.maxSeq : n \in Nat
    OBVIOUS
  <2>2. \A n \in Nat : Valid(SetSender(Fresh, n), FALSE)
    BY <1>2 DEF Valid, SetSender, SessionRecord, Settings
  <2>3. \A n \in Nat : Valid(SetTarget(Fresh, n), FALSE)
    BY <1>2, SetTargetValid
  <2>4. QED
    BY <2>1, <2>2, <2>3
<1>4. /\ \A e \in BOOLEAN : Valid([Fresh EXCEPT !.enabled = e], FALSE)
      /\ Valid(Disconnect(Fresh), FALSE)
  BY <1>2, DisconnectValid DEF Valid, SessionRecord
<1>5. Valid(t, FALSE)
  BY <1>1, <1>3, <1>4 DEF AdminEdits
<1>6. /\ edits' = edits + 1 /\ edits \in Nat
      /\ batch' \in BOOLEAN /\ life' \in {"running", "flushed", "stopped"} /\ starts' \in Nat
  BY DEF Admin, IInv, TypeOK
<1>7. edits' \in Nat /\ (edits' = 0) = FALSE
  BY <1>6
<1>8. Valid(t, edits' = 0)
  BY <1>5, <1>7
<1>9. QED
  BY <1>1, <1>6, <1>7, <1>8, BecomesValid

LEMMA StopPreserves ==
    ASSUME IInv, StopFlush \/ StopNetwork
    PROVE  IInv'
<1> DEFINE t == FlushSeqNums([Fresh EXCEPT !.enabled = FALSE])
           u == Disconnect(Fresh)
<1>1. Valid([Fresh EXCEPT !.enabled = FALSE], edits = 0)
  BY FreshValid DEF Valid, Whole, Caught, SessionRecord
<1>2. Valid(t, edits = 0) /\ Valid(u, edits = 0)
  BY <1>1, FreshValid, FlushValid, DisconnectValid
<1>3. /\ Becomes(t) \/ Becomes(u)
      /\ life' \in {"running", "flushed", "stopped"}
      /\ UNCHANGED <<batch, edits, starts>>
  BY DEF StopFlush, StopNetwork
<1>4. /\ batch' \in BOOLEAN /\ edits' \in Nat /\ starts' \in Nat
      /\ edits' = edits
  BY <1>3 DEF IInv, TypeOK
<1>5. Valid(t, edits' = 0) /\ Valid(u, edits' = 0)
  BY <1>2, <1>4
<1> HIDE DEF t, u
<1>6. QED
  BY <1>3, <1>4, <1>5, BecomesValid

\* What a restart loads is as complete as what was stored.
LEMMA RestartPreserves ==
    ASSUME IInv, Restart
    PROVE  IInv'
<1>1. s.cfg \in Settings /\ s.disk \in Snapshot
  BY DEF IInv, TypeOK, SessionRecord
<1>2. (edits = 0) \in BOOLEAN
  OBVIOUS
<1>3. edits = 0 => s.disk.lacks \/ Complete(s.disk.msgs, s.disk.sender)
  BY DEF IInv, CacheComplete, Whole, Caught
<1>4. Valid(NewSession(s.cfg, s.disk), edits = 0)
  BY <1>1, <1>2, <1>3, NewSessionValid
<1>5. /\ s' = NewSession(s.cfg, s.disk) /\ edits' = edits
      /\ batch' \in BOOLEAN /\ life' \in {"running", "flushed", "stopped"}
      /\ edits' \in Nat /\ starts' \in Nat /\ lastDlv' \in Nat
  <2>1. edits \in Nat /\ starts \in Nat /\ lastDlv \in Nat
    BY DEF IInv, TypeOK
  <2>2. /\ s' = NewSession(s.cfg, s.disk) /\ batch' = FALSE /\ life' = "running"
        /\ starts' = starts + 1 /\ edits' = edits /\ lastDlv' = lastDlv
    BY DEF Restart
  <2>3. starts' \in Nat
    BY <2>1, <2>2
  <2>4. batch' \in BOOLEAN
    BY <2>2, Zenon
  <2>5. QED
    BY <2>1, <2>2, <2>3, <2>4, Zenon
<1>6. s' \in SessionRecord /\ (edits' = 0 => Whole(s)')
  BY <1>4, <1>5 DEF Valid, Whole, Caught
<1>7. env' \in DOMAIN Scenarios
  BY DEF Restart, IInv, TypeOK
<1>8. QED
  BY <1>5, <1>6, <1>7 DEF IInv, TypeOK, CacheComplete

\* Every step of every thread preserves the invariant.
LEMMA NextPreserves == SessionAssumption /\ IInv /\ [Next]_vars => IInv'
<1> SUFFICES ASSUME SessionAssumption, IInv, [Next]_vars PROVE IInv'
  OBVIOUS
<1>1. CASE \E m \in Env.inbound : Receive(m) \/ ReceiveFirst(m)
  <2>1. Env.inbound \subseteq Message
    BY DEF SessionAssumption, Environment, Env, IInv, TypeOK
  <2>2. QED
    BY <1>1, <2>1, ReceivePreserves
<1>2. CASE EndBatch
  BY <1>2, EndBatchPreserves
<1>3. CASE ReplayNext \/ ReplayDone
  BY <1>3, ReplayPreserves
<1>4. CASE Drain \/ DrainDone
  BY <1>4, DrainPreserves
<1>5. CASE \E due \in SUBSET Timers : Tick(due)
  BY <1>5, TickPreserves
<1>6. CASE PeerCloses \/ FlushWrites \/ Congest
  BY <1>6, ConnectionPreserves
<1>7. CASE TickDisconnected
  BY <1>7, TickDisconnectedPreserves
<1>8. CASE AppSend \/ WriterRound
  BY <1>8, AppSendPreserves, WriterRoundPreserves
<1>9. CASE Admin
  BY <1>9, AdminPreserves
<1>10. CASE StopFlush \/ StopNetwork
  BY <1>10, StopPreserves
<1>11. CASE Restart
  BY <1>11, RestartPreserves
<1>12. CASE UNCHANGED vars
  BY <1>12 DEF vars, IInv, TypeOK, CacheComplete, Whole, Caught
<1>13. QED
  BY <1>1, <1>2, <1>3, <1>4, <1>5, <1>6, <1>7, <1>8, <1>9, <1>10, <1>11, <1>12
     DEF Next, Reader

-----------------------------------------------------------------------------
(* The theorems *)

LEMMA Invariance == SessionAssumption /\ Spec => []IInv
<1>1. SessionAssumption /\ Init => IInv
  BY InitValid
<1>2. SessionAssumption /\ IInv /\ [Next]_vars => IInv'
  BY NextPreserves
<1>3. QED
  BY <1>1, <1>2, SessionAssumption, PTL DEF Spec

\* Whatever the peer sends, and wherever the process stops or crashes, the
\* handlers of Session.cpp keep the session record within its type.
THEOREM TypeCorrect == Spec => []TypeOK
<1>1. IInv => TypeOK
  BY DEF IInv
<1>2. QED
  BY <1>1, Invariance, SessionAssumption, PTL

\* The replay of runMessageRecovery has the whole history to answer from, in memory,
\* in the file as a crash leaves it and as the writer thread will: every number
\* MemoryCache has given out, once.  What was flushed behind a reset that the
\* writer had not seen is excepted, and what has been loaded from there.
THEOREM HistoryComplete == Spec => []CacheComplete
<1>1. IInv => CacheComplete
  BY DEF IInv
<1>2. QED
  BY <1>1, Invariance, SessionAssumption, PTL
=============================================================================
