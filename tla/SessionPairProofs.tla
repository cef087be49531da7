--------------------------- MODULE SessionPairProofs ---------------------------
(***************************************************************************)
(* What holds of a pair of sessions for every scenario, whatever the        *)
(* timing, the applications and the connections do: the type invariant and, *)
(* unless a Logon resets the numbers, that no session expects a number its  *)
(* peer has not used, and that each application gets the other's messages   *)
(* in order and none twice.  SessionProofs and SessionStepProofs have one   *)
(* session and any peer; here the peer is known, and what a session relies  *)
(* on is what the other one keeps.                                          *)
(***************************************************************************)
EXTENDS SessionPair, SequenceTheorems, TLAPS

\* No session of the scenario is set to reset its numbers.
Kept == \A p \in Sides : ~Env.cfg[p].resetOnLogon

\* What an application is given is part of what the other one sent, in the order it was
\* sent and none of it twice, whatever is lost.
GivenOnceInOrder ==
    \A p \in Sides : \E place \in [DOMAIN got[p] -> DOMAIN sent[Peer(p)]] :
        \A i, j \in DOMAIN got[p] :
            /\ got[p][i] = sent[Peer(p)][place[i]]
            /\ i < j => place[i] < place[j]

-----------------------------------------------------------------------------
(* What one side keeps and the other relies on *)

Entry(m) == [seq |-> m.seq, type |-> m.type, id |-> m.id]

\* A message that a session with the next number n and the cache H may have sent: one
\* of its numbers, a gap fill up to the next number at most, and an application
\* message only if the cache has it under that number.
Offered(m, n, H) ==
    /\ m.type = "SequenceReset" => m.new <= n
    /\ m.type # "SequenceReset" => m.seq < n
    /\ m.type = "App" => Entry(m) \in H

AllOffered(ms, n, H) == \A i \in DOMAIN ms : Offered(ms[i], n, H)

\* What a session t whose application has sent "apps" messages keeps: the cache has
\* them by number in the order they were sent.
Ordered(msgs, apps) ==
    /\ \A c \in msgs : c.type = "App" => c.id \in 1..apps
    /\ \A c, d \in msgs : c.type = "App" /\ d.type = "App" =>
          /\ c.seq < d.seq => c.id < d.id
          /\ c.seq = d.seq => c = d

Numbered(t, apps) ==
    /\ \A c \in t.msgs : c.seq < t.sender
    /\ Ordered(t.msgs, apps)
    /\ t.replay.todo \subseteq t.msgs
    /\ t.replay.end <= t.sender
    /\ AllOffered(t.out, t.sender, t.msgs)

\* What a session has from its peer.
Trusting(t, peer) ==
    /\ t.target <= peer.sender
    /\ \A q \in t.queue : Offered(q, peer.sender, peer.msgs)
    /\ t.replay.seq < peer.sender

\* What a handler takes back of the record "own" it was called with: nothing.
Onwards(t, own) ==
    /\ own.sender <= t.sender /\ own.target <= t.target
    /\ own.msgs \subseteq t.msgs

\* What a handler delivers: messages of the peer's, in sequence from the first expected.
Delivering(t, own, peer) ==
    /\ \A i \in DOMAIN t.dlv :
          /\ t.dlv[i].type = "App" /\ Entry(t.dlv[i]) \in peer.msgs
          /\ own.target <= t.dlv[i].seq /\ t.dlv[i].seq < t.target
    /\ \A i, j \in DOMAIN t.dlv : i < j => t.dlv[i].seq < t.dlv[j].seq

\* When a handler runs: whether the numbers are kept, how many messages the application
\* has sent, the session's record before it and the peer's record.
Context == [kept: BOOLEAN, apps: Nat, own: SessionRecord, peer: SessionRecord]

Honest(t, x) ==
    /\ x \in Context /\ t \in SessionRecord
    /\ x.kept => /\ ~t.cfg.resetOnLogon
                 /\ Numbered(t, x.apps) /\ Trusting(t, x.peer)
                 /\ Onwards(t, x.own) /\ Delivering(t, x.own, x.peer)

\* What a handler of a session may be given.
FromPeer(m, x) == m \in Message /\ (x.kept => Offered(m, x.peer.sender, x.peer.msgs))

\* A later state of a session offers what an earlier one did.
LEMMA OfferedMore ==
    ASSUME NEW m, NEW n \in Nat, NEW H, NEW k \in Nat, NEW G,
           m \in Message, Offered(m, n, H), n <= k, H \subseteq G
    PROVE  Offered(m, k, G)
BY DEF Offered, Message

LEMMA AllOfferedMore ==
    ASSUME NEW ms \in Seq(Message), NEW n \in Nat, NEW H, NEW k \in Nat, NEW G,
           AllOffered(ms, n, H), n <= k, H \subseteq G
    PROVE  AllOffered(ms, k, G)
<1>1. \A i \in DOMAIN ms : ms[i] \in Message
  OBVIOUS
<1>2. QED
  BY <1>1, OfferedMore DEF AllOffered

\* What Honest looks at.
Same(t, u) ==
    /\ u.cfg = t.cfg /\ u.sender = t.sender /\ u.target = t.target
    /\ u.msgs = t.msgs /\ u.queue = t.queue /\ u.replay = t.replay
    /\ u.out = t.out /\ u.dlv = t.dlv

LEMMA SameHonest ==
    ASSUME NEW x, NEW t, Honest(t, x), NEW u \in SessionRecord, Same(t, u)
    PROVE  Honest(u, x)
<1>1. Numbered(t, x.apps) => Numbered(u, x.apps)
  BY DEF Same, Numbered
<1>2. Trusting(t, x.peer) => Trusting(u, x.peer)
  BY DEF Same, Trusting
<1>3. Onwards(t, x.own) => Onwards(u, x.own)
  BY DEF Same, Onwards
<1>4. Delivering(t, x.own, x.peer) => Delivering(u, x.own, x.peer)
  BY DEF Same, Delivering
<1>5. QED
  BY <1>1, <1>2, <1>3, <1>4 DEF Honest, Same

-----------------------------------------------------------------------------
(* MemoryCache *)

\* The types of what the lemmas compute with.
LEMMA Numbers ==
    ASSUME NEW x, NEW t, Honest(t, x)
    PROVE  /\ x.kept \in BOOLEAN /\ x.apps \in Nat
           /\ x.own \in SessionRecord /\ x.peer \in SessionRecord /\ t \in SessionRecord
           /\ x.own.sender \in Nat /\ x.own.target \in Nat /\ x.peer.sender \in Nat
           /\ t.sender \in Nat /\ t.target \in Nat /\ t.replay \in Replay
           /\ t.msgs \in SUBSET Sent /\ t.queue \in SUBSET Message
           /\ t.out \in Seq(Message) /\ t.dlv \in Seq(Message)
<1>1. x \in Context /\ t \in SessionRecord
  BY DEF Honest
<1>2. x.kept \in BOOLEAN /\ x.apps \in Nat /\ x.own \in SessionRecord /\ x.peer \in SessionRecord
  BY <1>1 DEF Context
<1>3. \A u \in SessionRecord :
          /\ u.sender \in Nat /\ u.target \in Nat /\ u.replay \in Replay
          /\ u.msgs \in SUBSET Sent /\ u.queue \in SUBSET Message
          /\ u.out \in Seq(Message) /\ u.dlv \in Seq(Message)
  BY DEF SessionRecord
<1>4. QED
  BY <1>1, <1>2, <1>3

\* A new expected number, not below the old one nor beyond what the peer has used.
LEMMA SetTargetHonest ==
    ASSUME NEW x, NEW t, Honest(t, x), NEW n \in Nat,
           x.kept => t.target <= n /\ n <= x.peer.sender
    PROVE  Honest(SetTarget(t, n), x)
<1> DEFINE u == SetTarget(t, n)
<1>0. t \in SessionRecord /\ t.target \in Nat /\ x.own.target \in Nat /\ t.dlv \in Seq(Message)
  BY Numbers
<1>1. u \in SessionRecord
  BY <1>0 DEF SetTarget, SessionRecord, Settings
<1>2. /\ u.cfg = t.cfg /\ u.sender = t.sender /\ u.target = n
      /\ u.msgs = t.msgs /\ u.queue = t.queue /\ u.replay = t.replay
      /\ u.out = t.out /\ u.dlv = t.dlv
  BY <1>0 DEF SetTarget, SessionRecord
<1> HIDE DEF u
<1>3. Numbered(t, x.apps) => Numbered(u, x.apps)
  BY <1>2 DEF Numbered
<1>4. x.kept /\ Trusting(t, x.peer) => Trusting(u, x.peer)
  BY <1>2 DEF Trusting
<1>5. x.kept /\ Onwards(t, x.own) => Onwards(u, x.own)
  BY <1>0, <1>2 DEF Onwards
<1>6. x.kept /\ Delivering(t, x.own, x.peer) => Delivering(u, x.own, x.peer)
  <2>1. \A i \in DOMAIN t.dlv : t.dlv[i] \in Message
    BY <1>0
  <2>2. \A i \in DOMAIN t.dlv : t.dlv[i].seq \in Nat
    BY <2>1 DEF Message
  <2>3. QED
    BY <1>0, <1>2, <2>2 DEF Delivering
<1>7. QED
  BY <1>1, <1>2, <1>3, <1>4, <1>5, <1>6 DEF Honest, u

LEMMA NextTargetHonest ==
    ASSUME NEW x, NEW t, Honest(t, x), x.kept => t.target < x.peer.sender
    PROVE  Honest(NextTarget(t), x)
<1>1. t.target \in Nat /\ x.peer.sender \in Nat
  BY Numbers
<1>2. t.target + 1 \in Nat /\ (x.kept => t.target <= t.target + 1 /\ t.target + 1 <= x.peer.sender)
  BY <1>1
<1>3. QED
  BY <1>2, SetTargetHonest DEF NextTarget

\* A reset keeps no numbers: it is for the types alone.
LEMMA ResetHonest ==
    ASSUME NEW x, NEW t, Honest(t, x), ~x.kept
    PROVE  Honest(Reset(t), x)
<1>1. /\ t \in SessionRecord /\ EmptyStore \in Snapshot
      /\ {} \in SUBSET Nat /\ {} \in SUBSET Sent /\ {} \in SUBSET Message
  BY DEF Honest, Snapshot, EmptyStore
<1>2. Reset(t) \in SessionRecord
  BY <1>1, ZenonT(60) DEF Reset, SessionRecord
<1>3. QED
  BY <1>2 DEF Honest

LEMMA FlushHonest ==
    ASSUME NEW x, NEW t, Honest(t, x)
    PROVE  Honest(FlushSeqNums(t), x)
<1>0. t \in SessionRecord
  BY DEF Honest
<1>1. FlushSeqNums(t) \in SessionRecord
  <2>1. Updated(t) \in Snapshot
    <3>1. /\ t.stored \in Snapshot /\ Unstored(t) \in SUBSET Sent
          /\ t.sender \in Nat /\ t.target \in Nat /\ t.dirty \in BOOLEAN
      BY <1>0 DEF SessionRecord, Unstored
    <3>2. QED
      BY <3>1 DEF Updated, Snapshot
  <2>2. QED
    BY <1>0, <2>1 DEF FlushSeqNums, SessionRecord
<1>2. Same(t, FlushSeqNums(t))
  BY <1>0 DEF FlushSeqNums, SessionRecord, Same
<1>3. QED
  BY <1>1, <1>2, SameHonest

LEMMA EnqueueHonest ==
    ASSUME NEW x, NEW t, Honest(t, x), NEW m, FromPeer(m, x)
    PROVE  Honest(Enqueue(t, m), x)
<1> DEFINE u == Enqueue(t, m)
<1>0. t \in SessionRecord
  BY DEF Honest
<1>1. u \in SessionRecord
  BY <1>0 DEF Enqueue, SessionRecord, FromPeer
<1>2. /\ u.cfg = t.cfg /\ u.sender = t.sender /\ u.target = t.target
      /\ u.msgs = t.msgs /\ u.queue \subseteq t.queue \cup {m} /\ u.replay = t.replay
      /\ u.out = t.out /\ u.dlv = t.dlv
  BY <1>0 DEF Enqueue, SessionRecord
<1> HIDE DEF u
<1>3. Numbered(t, x.apps) => Numbered(u, x.apps)
  BY <1>2 DEF Numbered
<1>4. x.kept /\ Trusting(t, x.peer) => Trusting(u, x.peer)
  BY <1>2 DEF Trusting, FromPeer
<1>5. Onwards(t, x.own) => Onwards(u, x.own)
  BY <1>2 DEF Onwards
<1>6. Delivering(t, x.own, x.peer) => Delivering(u, x.own, x.peer)
  BY <1>2 DEF Delivering
<1>7. QED
  BY <1>1, <1>2, <1>3, <1>4, <1>5, <1>6 DEF Honest, u

-----------------------------------------------------------------------------
(* Sending *)

LEMMA TransmitHonest ==
    ASSUME NEW x, NEW t, Honest(t, x), NEW m \in Message,
           x.kept => Offered(m, t.sender, t.msgs)
    PROVE  Honest(Transmit(t, m), x)
<1> DEFINE u == Transmit(t, m)
<1>0. t \in SessionRecord /\ t.out \in Seq(Message)
  BY Numbers
<1>1. Append(t.out, m) \in Seq(Message)
  BY <1>0
<1>2. u \in SessionRecord
  BY <1>0, <1>1 DEF Transmit, SessionRecord
<1>3. /\ u.cfg = t.cfg /\ u.sender = t.sender /\ u.target = t.target
      /\ u.msgs = t.msgs /\ u.queue = t.queue /\ u.replay = t.replay
      /\ u.out = t.out \/ u.out = Append(t.out, m)
      /\ u.dlv = t.dlv
  BY <1>0 DEF Transmit, SessionRecord
<1> HIDE DEF u
<1>4. x.kept /\ Numbered(t, x.apps) => Numbered(u, x.apps)
  <2>1. x.kept /\ AllOffered(t.out, t.sender, t.msgs) => AllOffered(Append(t.out, m), t.sender, t.msgs)
    BY <1>0 DEF AllOffered
  <2>2. QED
    BY <1>3, <2>1 DEF Numbered
<1>5. Trusting(t, x.peer) => Trusting(u, x.peer)
  BY <1>3 DEF Trusting
<1>6. Onwards(t, x.own) => Onwards(u, x.own)
  BY <1>3 DEF Onwards
<1>7. Delivering(t, x.own, x.peer) => Delivering(u, x.own, x.peer)
  BY <1>3 DEF Delivering
<1>8. QED
  BY <1>2, <1>3, <1>4, <1>5, <1>6, <1>7 DEF Honest, u

\* The cache with one more message, under the next number.
LEMMA OneMore ==
    ASSUME NEW msgs \in SUBSET Sent, NEW n \in Nat, NEW apps \in Nat, NEW new \in Sent,
           \A c \in msgs : c.seq < n,
           Ordered(msgs, apps), new.seq = n,
           new.type = "App" => /\ new.id \in 1..apps
                               /\ \A c \in msgs : c.type = "App" => c.id < new.id
    PROVE  Ordered(msgs \cup {new}, apps)
<1>1. \A c \in msgs \cup {new} : c.seq \in Nat /\ c.id \in Nat
  BY DEF Sent
<1>2. QED
  BY <1>1 DEF Ordered

\* An application message is a new one, the next of what the application has sent.
LEMMA SendHonest ==
    ASSUME NEW x, NEW t, Honest(t, x), NEW m \in Message, m.type # "SequenceReset",
           x.kept /\ m.type = "App" =>
               m.id \in 1..x.apps /\ \A c \in t.msgs : c.type = "App" => c.id < m.id
    PROVE  Honest(Send(t, m), x)
<1> DEFINE stamped == [m EXCEPT !.seq = t.sender]
           entry == Entry(stamped)
           u == SetSender(Cache(t, stamped), t.sender + 1)
<1>0. /\ t \in SessionRecord /\ t.sender \in Nat /\ t.msgs \in SUBSET Sent
      /\ t.out \in Seq(Message) /\ x.apps \in Nat /\ x.own.sender \in Nat
      /\ t.replay \in Replay
  BY Numbers
<1>1. /\ stamped \in Message /\ stamped.seq = t.sender
      /\ stamped.type = m.type /\ stamped.id = m.id
  BY <1>0 DEF Message
<1>2. entry \in Sent /\ entry.seq = t.sender /\ entry.type = m.type /\ entry.id = m.id
  BY <1>1 DEF Message, Sent, Entry
<1> DEFINE pending == IF t.cfg.persist THEN t.pending \cup {t.sender} ELSE t.pending
<1>3. u = [t EXCEPT !.msgs = {c \in @ : c.seq # t.sender} \cup {entry},
                    !.sender = t.sender + 1, !.dirty = t.cfg.persist, !.pending = pending]
  BY <1>0, <1>1, ZenonT(60) DEF SetSender, Cache, SessionRecord, Entry
<1> HIDE DEF u, entry, stamped
<1>4. u \in SessionRecord
  <2>1. {c \in t.msgs : c.seq # t.sender} \cup {entry} \in SUBSET Sent
    BY <1>0, <1>2
  <2>2. t.cfg.persist \in BOOLEAN /\ t.sender + 1 \in Nat /\ pending \in SUBSET Nat
    BY <1>0 DEF SessionRecord, Settings
  <2> HIDE DEF pending
  <2>3. QED
    BY <1>0, <1>3, <2>1, <2>2 DEF SessionRecord
<1> HIDE DEF pending
<1>5. /\ u.cfg = t.cfg /\ u.sender = t.sender + 1 /\ u.target = t.target
      /\ u.msgs = {c \in t.msgs : c.seq # t.sender} \cup {entry}
      /\ u.queue = t.queue /\ u.replay = t.replay /\ u.out = t.out /\ u.dlv = t.dlv
  BY <1>0, <1>3 DEF SessionRecord
<1>6. ASSUME x.kept PROVE /\ Numbered(u, x.apps) /\ Onwards(u, x.own)
                          /\ u.msgs = t.msgs \cup {entry}
  <2>1. Numbered(t, x.apps) /\ Onwards(t, x.own)
    BY <1>6 DEF Honest
  <2>2. \A c \in t.msgs : c.seq < t.sender
    BY <2>1 DEF Numbered
  <2>3. u.msgs = t.msgs \cup {entry}
    BY <1>0, <1>5, <2>2
  <2>4. \A c \in u.msgs : c.seq < u.sender
    <3>1. \A c \in t.msgs : c.seq \in Nat
      BY <1>0 DEF Sent
    <3>2. QED
      BY <1>0, <1>2, <1>5, <2>2, <2>3, <3>1
  <2>5. Ordered(u.msgs, x.apps)
    <3>1. Ordered(t.msgs, x.apps)
      BY <2>1 DEF Numbered
    <3>2. entry.type = "App" => /\ entry.id \in 1..x.apps
                                /\ \A c \in t.msgs : c.type = "App" => c.id < entry.id
      BY <1>2, <1>6
    <3>3. QED
      BY <1>0, <1>2, <2>2, <2>3, <3>1, <3>2, OneMore
  <2>6. AllOffered(u.out, u.sender, u.msgs)
    <3>1. t.sender + 1 \in Nat /\ t.sender <= t.sender + 1 /\ t.msgs \subseteq u.msgs
      BY <1>0, <2>3
    <3>2. AllOffered(t.out, t.sender + 1, u.msgs)
      BY <1>0, <2>1, <3>1, AllOfferedMore DEF Numbered
    <3>3. QED
      BY <1>5, <3>2
  <2>7. u.replay.end <= u.sender
    <3>1. t.replay.end \in Nat
      BY <1>0 DEF Replay
    <3>2. QED
      BY <1>0, <1>5, <2>1, <3>1 DEF Numbered
  <2>8. u.replay.todo \subseteq u.msgs
    BY <1>5, <2>1, <2>3 DEF Numbered
  <2>9. Onwards(u, x.own)
    BY <1>0, <1>5, <2>1, <2>3 DEF Onwards
  <2>10. QED
    BY <2>3, <2>4, <2>5, <2>6, <2>7, <2>8, <2>9 DEF Numbered
<1>7. Trusting(t, x.peer) => Trusting(u, x.peer)
  BY <1>5 DEF Trusting
<1>8. Delivering(t, x.own, x.peer) => Delivering(u, x.own, x.peer)
  BY <1>5 DEF Delivering
<1>9. Honest(u, x)
  BY <1>4, <1>5, <1>6, <1>7, <1>8 DEF Honest
<1>10. x.kept => Offered(stamped, u.sender, u.msgs)
  BY <1>0, <1>1, <1>5, <1>6 DEF Offered, entry
<1>11. Send(t, m) = Transmit(u, stamped)
  BY DEF Send, u, stamped
<1>12. QED
  BY <1>1, <1>9, <1>10, <1>11, TransmitHonest

LEMMA SendAdminHonest ==
    ASSUME NEW x, NEW t, Honest(t, x), NEW m \in Message, m.type \notin {"SequenceReset", "App"}
    PROVE  Honest(Send(t, m), x)
BY SendHonest

LEMMA SetStateHonest ==
    ASSUME NEW x, NEW t, Honest(t, x), NEW state \in SessionStates
    PROVE  Honest([t EXCEPT !.state = state], x)
<1>0. t \in SessionRecord
  BY DEF Honest
<1>1. [t EXCEPT !.state = state] \in SessionRecord /\ Same(t, [t EXCEPT !.state = state])
  BY <1>0 DEF SessionRecord, Same
<1>2. QED
  BY <1>1, SameHonest

LEMMA SetPhaseHonest ==
    ASSUME NEW x, NEW t, Honest(t, x), NEW phase \in Phases
    PROVE  Honest([t EXCEPT !.phase = phase], x)
<1>0. t \in SessionRecord
  BY DEF Honest
<1>1. [t EXCEPT !.phase = phase] \in SessionRecord /\ Same(t, [t EXCEPT !.phase = phase])
  BY <1>0 DEF SessionRecord, Same
<1>2. QED
  BY <1>1, SameHonest

LEMMA DisconnectHonest ==
    ASSUME NEW x, NEW t, Honest(t, x)
    PROVE  Honest(Disconnect(t), x) /\ Honest(Connect(t), x)
<1>0. t \in SessionRecord
  BY DEF Honest
<1>1. /\ Disconnect(t) \in SessionRecord /\ Same(t, Disconnect(t))
      /\ Connect(t) \in SessionRecord /\ Same(t, Connect(t))
  BY <1>0 DEF SessionRecord, Same, Disconnect, Connect
<1>2. QED
  BY <1>1, SameHonest

LEMMA TerminateHonest ==
    ASSUME NEW x, NEW t, Honest(t, x)
    PROVE  Honest(Terminate(t), x)
BY DisconnectHonest, SetStateHonest DEF Terminate, SessionStates

\* Administrative messages without fields.
LEMMA PlainMessage ==
    ASSUME NEW type \in MsgTypes
    PROVE  Plain(type) \in Message /\ Plain(type).type = type
BY DEF Plain, Message, Flaws, Absent

LEMMA SendLogoutHonest ==
    ASSUME NEW x, NEW t, Honest(t, x), NEW terminal
    PROVE  Honest(SendLogout(t, terminal), x)
<1> DEFINE u == Send(t, Plain("Logout"))
<1>1. Honest(u, x)
  <2>1. Plain("Logout") \in Message /\ Plain("Logout").type = "Logout"
    BY PlainMessage DEF MsgTypes, SessionMsgs
  <2>2. QED
    BY <2>1, SendAdminHonest
<1> HIDE DEF u
<1>2. Honest([u EXCEPT !.killQueued = TRUE], x)
  <2>1. u \in SessionRecord
    BY <1>1 DEF Honest
  <2>2. [u EXCEPT !.killQueued = TRUE] \in SessionRecord /\ Same(u, [u EXCEPT !.killQueued = TRUE])
    BY <2>1 DEF SessionRecord, Same
  <2>3. QED
    BY <1>1, <2>2, SameHonest
<1>3. Honest(Terminate(u), x)
  BY <1>1, TerminateHonest
<1>4. QED
  BY <1>1, <1>2, <1>3 DEF SendLogout, u

LEMMA LogoutHonest ==
    ASSUME NEW x, NEW t, Honest(t, x), NEW terminal
    PROVE  Honest(Logout(t, terminal), x)
<1>1. Honest([t EXCEPT !.state = IF terminal THEN "KILLING" ELSE "LOGOUT"], x)
  <2>1. (IF terminal THEN "KILLING" ELSE "LOGOUT") \in SessionStates
    BY DEF SessionStates
  <2>2. QED
    BY <2>1, SetStateHonest
<1>2. QED
  BY <1>1, SendLogoutHonest DEF Logout

LEMMA SendRejectHonest ==
    ASSUME NEW x, NEW t, Honest(t, x)
    PROVE  Honest(SendReject(t), x)
<1>1. Plain("Reject") \in Message /\ Plain("Reject").type = "Reject"
  BY PlainMessage DEF MsgTypes
<1>2. QED
  BY <1>1, SendAdminHonest DEF SendReject

LEMMA SendHeartbeatHonest ==
    ASSUME NEW x, NEW t, Honest(t, x), NEW reqId \in Nat
    PROVE  Honest(SendHeartbeat(t, reqId), x)
<1> DEFINE m == [Plain("Heartbeat") EXCEPT !.reqId = reqId]
<1>1. m \in Message /\ m.type = "Heartbeat"
  BY DEF Plain, Message, MsgTypes, SessionMsgs, Flaws, Absent
<1>2. QED
  BY <1>1, SendAdminHonest DEF SendHeartbeat

LEMMA SendTestRequestHonest ==
    ASSUME NEW x, NEW t, Honest(t, x)
    PROVE  Honest(SendTestRequest(t), x)
<1> DEFINE m == [Plain("TestRequest") EXCEPT !.reqId = t.testReqId + 1]
           u == [t EXCEPT !.testReqId = @ + 1]
<1>0. t \in SessionRecord
  BY DEF Honest
<1>1. t.testReqId \in Nat /\ t.testReqId + 1 \in Nat
  BY <1>0 DEF SessionRecord
<1>2. m \in Message /\ m.type = "TestRequest"
  BY <1>1 DEF Plain, Message, MsgTypes, SessionMsgs, Flaws, Absent
<1>3. u \in SessionRecord /\ Same(t, u)
  BY <1>0, <1>1 DEF SessionRecord, Same
<1>4. Honest(u, x)
  BY <1>3, SameHonest
<1>5. QED
  BY <1>2, <1>4, SendAdminHonest DEF SendTestRequest

LEMMA SendResendRequestHonest ==
    ASSUME NEW x, NEW t, Honest(t, x), NEW from \in Nat, NEW to \in Nat
    PROVE  Honest(SendResendRequest(t, from, to), x)
<1> DEFINE m == [Plain("ResendRequest") EXCEPT !.begin = from, !.end = to]
<1>1. m \in Message /\ m.type = "ResendRequest"
  BY DEF Plain, Message, MsgTypes, SessionMsgs, Flaws, Absent
<1>2. QED
  BY <1>1, SendAdminHonest DEF SendResendRequest

LEMMA SendLogonHonest ==
    ASSUME NEW x, NEW t, Honest(t, x), NEW shouldReset \in BOOLEAN
    PROVE  Honest(SendLogon(t, shouldReset), x)
<1> DEFINE next == IF t.cfg.sendNext THEN t.target ELSE Absent
           flaw == IF t.cfg.sendNext \/ shouldReset THEN "noSeqNum" ELSE "none"
           m == [Plain("Logon") EXCEPT !.reset = shouldReset, !.next = next, !.flaw = flaw]
<1>1. next \in Nat \cup {Absent} /\ flaw \in Flaws
  BY Numbers DEF Flaws
<1> HIDE DEF next, flaw
<1>2. m \in Message /\ m.type = "Logon"
  BY <1>1 DEF Plain, Message, MsgTypes, SessionMsgs
<1>3. QED
  BY <1>2, SendAdminHonest DEF SendLogon, next, flaw

-----------------------------------------------------------------------------
(* Replay *)

\* A gap fill up to the next number at most, and a message of the cache, are among
\* what a session may send.
LEMMA GapFillOffered ==
    ASSUME NEW seq \in Nat, NEW new \in Nat, NEW n \in Nat, NEW H, new <= n
    PROVE  GapFill(seq, new) \in Message /\ Offered(GapFill(seq, new), n, H)
BY DEF GapFill, Plain, Message, MsgTypes, SessionMsgs, Flaws, Absent, Offered

LEMMA ResendOffered ==
    ASSUME NEW c \in Sent, NEW n \in Nat, NEW H, c.seq < n, c \in H
    PROVE  Resend(c) \in Message /\ Offered(Resend(c), n, H)
<1>1. Resend(c) \in Message
  BY DEF Resend, Plain, Sent, Message, Flaws, Absent
<1>2. /\ Resend(c).seq = c.seq /\ Resend(c).new = 0 /\ Entry(Resend(c)) = c
  BY DEF Resend, Plain, Entry, Sent
<1>3. QED
  BY <1>1, <1>2 DEF Offered

\* Another replay, of messages of the cache, for a request of the peer's.
LEMMA SetReplayHonest ==
    ASSUME NEW x, NEW t, Honest(t, x), NEW phase \in Phases, NEW r \in Replay,
           x.kept => /\ r.todo \subseteq t.msgs /\ r.end <= t.sender
                     /\ r.seq < x.peer.sender
    PROVE  Honest([t EXCEPT !.phase = phase, !.replay = r], x)
<1> DEFINE u == [t EXCEPT !.phase = phase, !.replay = r]
<1>0. t \in SessionRecord
  BY DEF Honest
<1>1. u \in SessionRecord
  BY <1>0 DEF SessionRecord
<1>2. /\ u.cfg = t.cfg /\ u.sender = t.sender /\ u.target = t.target
      /\ u.msgs = t.msgs /\ u.queue = t.queue /\ u.replay = r
      /\ u.out = t.out /\ u.dlv = t.dlv
  BY <1>0 DEF SessionRecord
<1> HIDE DEF u
<1>3. x.kept /\ Numbered(t, x.apps) => Numbered(u, x.apps)
  BY <1>2 DEF Numbered
<1>4. x.kept /\ Trusting(t, x.peer) => Trusting(u, x.peer)
  BY <1>2 DEF Trusting
<1>5. Onwards(t, x.own) => Onwards(u, x.own)
  BY <1>2 DEF Onwards
<1>6. Delivering(t, x.own, x.peer) => Delivering(u, x.own, x.peer)
  BY <1>2 DEF Delivering
<1>7. QED
  BY <1>1, <1>2, <1>3, <1>4, <1>5, <1>6 DEF Honest, u

LEMMA StartReplayHonest ==
    ASSUME NEW x, NEW t, Honest(t, x), NEW begin \in Nat, NEW end \in Nat,
           NEW seq \in Nat \cup {Absent}, NEW ask \in Nat \cup {Absent},
           x.kept => seq < x.peer.sender
    PROVE  Honest(StartReplay(t, begin, end, seq, ask), x)
<1> DEFINE last == Smaller(end, t.sender)
           todo == {c \in t.msgs : /\ c.type \notin SessionMsgs
                                   /\ c.seq >= begin
                                   /\ last = 0 \/ c.seq <= last}
           r == [begin |-> begin, ptr |-> begin, end |-> last, todo |-> todo,
                 seq |-> seq, ask |-> ask]
<1>0. t.sender \in Nat /\ t.msgs \in SUBSET Sent
  BY Numbers
<1>1. last \in Nat /\ last <= t.sender
  BY <1>0 DEF Smaller
<1>2. todo \in SUBSET Sent /\ todo \subseteq t.msgs
  BY <1>0
<1>3. StartReplay(t, begin, end, seq, ask) = [t EXCEPT !.phase = "replay", !.replay = r]
  BY DEF StartReplay
<1> HIDE DEF last, todo
<1>4. /\ r \in Replay
      /\ r.todo = todo /\ r.end = last /\ r.seq = seq
  BY <1>1, <1>2 DEF Replay
<1> HIDE DEF r
<1>5. "replay" \in Phases
  BY DEF Phases
<1>6. x.kept => r.todo \subseteq t.msgs /\ r.end <= t.sender /\ r.seq < x.peer.sender
  BY <1>1, <1>2, <1>4
<1>7. Honest([t EXCEPT !.phase = "replay", !.replay = r], x)
  BY <1>4, <1>5, <1>6, SetReplayHonest
<1>8. QED
  BY <1>3, <1>7

\* What a transmission leaves alone.
LEMMA TransmitKeeps ==
    ASSUME NEW t \in SessionRecord, NEW m
    PROVE  /\ Transmit(t, m).replay = t.replay /\ Transmit(t, m).msgs = t.msgs
           /\ Transmit(t, m).sender = t.sender /\ Transmit(t, m).target = t.target
BY DEF SessionRecord, Transmit

LEMMA ReplayOneHonest ==
    ASSUME NEW x, NEW t, Honest(t, x), NEW c \in NextToReplay(t)
    PROVE  Honest(ReplayOne(t, c), x)
<1> DEFINE u == IF c.seq # t.replay.ptr THEN Transmit(t, GapFill(t.replay.ptr, c.seq)) ELSE t
           v == Transmit(u, Resend(c))
           r == [t.replay EXCEPT !.ptr = c.seq + 1, !.todo = t.replay.todo \ {c}]
<1>0. t \in SessionRecord /\ t.sender \in Nat /\ t.replay \in Replay /\ t.msgs \in SUBSET Sent
  BY Numbers
<1>1. c \in t.replay.todo
  BY DEF NextToReplay
<1>2. c \in Sent /\ c.seq \in Nat /\ t.replay.ptr \in Nat
  BY <1>0, <1>1 DEF Replay, Sent
<1>3. x.kept => c \in t.msgs /\ c.seq < t.sender
  BY <1>1 DEF Honest, Numbered
<1>4. Honest(u, x) /\ u.replay = t.replay /\ u.msgs = t.msgs /\ u.sender = t.sender
  <2>1. GapFill(t.replay.ptr, c.seq) \in Message
    BY <1>2, GapFillOffered
  <2>2. x.kept => Offered(GapFill(t.replay.ptr, c.seq), t.sender, t.msgs)
    BY <1>0, <1>2, <1>3, GapFillOffered
  <2>3. QED
    BY <1>0, <2>1, <2>2, TransmitHonest, TransmitKeeps
<1> HIDE DEF u
<1>5. Honest(v, x) /\ v.replay = t.replay /\ v.msgs = t.msgs /\ v.sender = t.sender
  <2>0. u \in SessionRecord
    BY <1>4 DEF Honest
  <2>1. Resend(c) \in Message
    BY <1>2 DEF Resend, Plain, Sent, Message, Flaws, Absent
  <2>2. x.kept => Offered(Resend(c), t.sender, t.msgs)
    BY <1>0, <1>2, <1>3, ResendOffered
  <2>3. QED
    BY <1>4, <2>0, <2>1, <2>2, TransmitHonest, TransmitKeeps
<1>6. /\ r \in Replay /\ r.todo \subseteq t.replay.todo
      /\ r.end = t.replay.end /\ r.seq = t.replay.seq
  <2>1. t.replay.todo \ {c} \in SUBSET Sent /\ c.seq + 1 \in Nat /\ c.seq + 1 > 0
    BY <1>0, <1>2 DEF Replay
  <2>2. \A n \in Nat, y \in SUBSET Sent : n > 0 => [t.replay EXCEPT !.ptr = n, !.todo = y] \in Replay
    BY <1>0 DEF Replay
  <2>3. QED
    BY <1>0, <2>1, <2>2 DEF Replay
<1>7. v \in SessionRecord
  BY <1>5 DEF Honest
<1> HIDE DEF v
<1>8. [v EXCEPT !.replay.ptr = c.seq + 1, !.replay.todo = t.replay.todo \ {c}]
        = [v EXCEPT !.phase = v.phase, !.replay = r]
  BY <1>0, <1>5, <1>7 DEF Replay, SessionRecord
<1>9. ReplayOne(t, c)
        = [v EXCEPT !.replay.ptr = c.seq + 1, !.replay.todo = t.replay.todo \ {c}]
  BY DEF ReplayOne, u, v
<1> HIDE DEF r
<1>10. v.phase \in Phases
  BY <1>7 DEF SessionRecord
<1>11. x.kept => /\ r.todo \subseteq v.msgs /\ r.end <= v.sender /\ r.seq < x.peer.sender
  BY <1>5, <1>6 DEF Honest, Numbered, Trusting
<1>12. Honest([v EXCEPT !.phase = v.phase, !.replay = r], x)
  BY <1>5, <1>6, <1>10, <1>11, SetReplayHonest
<1>13. QED
  BY <1>8, <1>9, <1>12

LEMMA FinalGapFillHonest ==
    ASSUME NEW x, NEW t, Honest(t, x)
    PROVE  /\ Honest(FinalGapFill(t), x)
           /\ FinalGapFill(t).target = t.target /\ FinalGapFill(t).sender = t.sender
<1> DEFINE r == t.replay
           ptr == IF r.ptr # r.begin THEN r.ptr - 1 ELSE r.ptr
           end == IF r.end # 0 THEN r.end ELSE t.sender
<1>1. r \in Replay /\ t.sender \in Nat /\ t \in SessionRecord
  BY Numbers
<1>2. ptr \in Nat /\ end \in Nat
  BY <1>1 DEF Replay
<1>3. x.kept => end <= t.sender
  BY <1>1 DEF Honest, Numbered
<1> HIDE DEF ptr, end
<1>4. GapFill(ptr, end) \in Message
  BY <1>2, GapFillOffered
<1>5. x.kept => Offered(GapFill(ptr, end), t.sender, t.msgs)
  BY <1>1, <1>2, <1>3, GapFillOffered
<1>6. Honest(Transmit(t, GapFill(ptr, end)), x)
  BY <1>4, <1>5, TransmitHonest
<1>7. QED
  BY <1>1, <1>6, TransmitKeeps DEF FinalGapFill, ptr, end

LEMMA ReplayEndHonest ==
    ASSUME NEW x, NEW t, Honest(t, x)
    PROVE  Honest(ReplayEnd(t), x)
<1> DEFINE f == FinalGapFill(t)
           u == [f EXCEPT !.phase = "drain", !.replay = NoReplay]
<1>0. x.peer.sender \in Nat /\ t.replay \in Replay /\ t.sender \in Nat /\ t.target \in Nat
  BY Numbers
<1>1. t.replay.ask \in Nat \cup {Absent} /\ t.replay.seq \in Nat \cup {Absent}
  BY <1>0 DEF Replay
<1>2. Honest(f, x) /\ f.target = t.target /\ f.sender = t.sender
  BY FinalGapFillHonest
<1>3. f \in SessionRecord
  BY <1>2 DEF Honest
<1> HIDE DEF f
<1>4. /\ NoReplay \in Replay /\ NoReplay.todo = {} /\ NoReplay.end = 0
      /\ NoReplay.seq < x.peer.sender
  BY <1>0 DEF NoReplay, Replay, Absent
<1>5. Honest(u, x) /\ u.target = t.target
  <2>1. NoReplay.todo \subseteq f.msgs /\ NoReplay.end <= f.sender /\ "drain" \in Phases
    BY <1>0, <1>2, <1>4 DEF Phases
  <2>2. Honest(u, x)
    BY <1>2, <1>4, <2>1, SetReplayHonest
  <2>3. u.target = f.target
    BY <1>3 DEF SessionRecord
  <2>4. QED
    BY <1>2, <2>2, <2>3
<1> HIDE DEF u
<1>6. ASSUME t.replay.ask # Absent
      PROVE  Honest(SendResendRequest(u, t.replay.ask, 0), x)
  <2>1. t.replay.ask \in Nat /\ 0 \in Nat
    BY <1>1, <1>6
  <2>2. QED
    BY <1>5, <2>1, SendResendRequestHonest
<1>7. ASSUME t.replay.seq = t.target PROVE Honest(NextTarget(u), x)
  <2>1. x.kept => t.replay.seq < x.peer.sender
    BY DEF Honest, Trusting
  <2>2. QED
    BY <1>5, <1>7, <2>1, NextTargetHonest
<1>8. QED
  BY <1>5, <1>6, <1>7 DEF ReplayEnd, u, f

-----------------------------------------------------------------------------
(* Receiving *)

\* A message other than a gap fill bears a number that the peer has used.
LEMMA OfferedSeq ==
    ASSUME NEW x, NEW t, Honest(t, x), NEW m, FromPeer(m, x)
    PROVE  /\ m \in Message /\ m.seq \in Nat /\ m.new \in Nat
           /\ x.kept /\ m.type # "SequenceReset" => m.seq < x.peer.sender
           /\ x.kept /\ m.type = "SequenceReset" => m.new <= x.peer.sender
BY DEF FromPeer, Offered, Message

LEMMA RefuseHonest ==
    ASSUME NEW x, NEW t, Honest(t, x), NEW defect
    PROVE  Honest(Refuse(t, defect), x)
<1>1. Honest(Terminate(t), x) /\ Honest(Logout(t, TRUE), x) /\ Honest(SendReject(t), x)
  BY TerminateHonest, LogoutHonest, SendRejectHonest
<1>2. Honest(Logout(SendReject(t), FALSE), x)
  BY <1>1, LogoutHonest
<1>3. QED
  BY <1>1, <1>2 DEF Refuse

LEMMA OutOfSequenceHonest ==
    ASSUME NEW x, NEW t, Honest(t, x), NEW m, FromPeer(m, x)
    PROVE  Honest(OutOfSequence(t, m), x)
<1>1. Honest(Logout(t, TRUE), x)
  BY LogoutHonest
<1>2. t.target \in Nat /\ m.seq \in Nat
  BY Numbers, OfferedSeq
<1>3. Honest(SendResendRequest(Enqueue(t, m), t.target, m.seq), x)
  BY <1>2, EnqueueHonest, SendResendRequestHonest
<1>4. QED
  BY <1>1, <1>3 DEF OutOfSequence

LEMMA ThrowHonest ==
    ASSUME NEW x, NEW t, Honest(t, x)
    PROVE  Honest(Throw(t), x)
BY SetPhaseHonest DEF Throw, Phases

\* A gap fill takes the expected number no further than the peer's next number.
LEMMA HandleSequenceResetHonest ==
    ASSUME NEW x, NEW t, Honest(t, x), NEW m, FromPeer(m, x), m.type = "SequenceReset"
    PROVE  Honest(HandleSequenceReset(t, m), x)
<1>1. m.new \in Nat /\ t.target \in Nat /\ (x.kept => m.new <= x.peer.sender)
  BY OfferedSeq, Numbers
<1>2. /\ Honest(Throw(t), x) /\ Honest(SendReject(t), x) /\ Honest(Logout(t, TRUE), x)
      /\ Honest(OutOfSequence(t, m), x)
  BY ThrowHonest, SendRejectHonest, LogoutHonest, OutOfSequenceHonest
<1>3. ASSUME ~(m.new < t.target) PROVE Honest(SetTarget(t, m.new), x)
  BY <1>1, <1>3, SetTargetHonest
<1>4. QED
  BY <1>2, <1>3 DEF HandleSequenceReset

LEMMA HandleResendRequestHonest ==
    ASSUME NEW x, NEW t, Honest(t, x), NEW m, FromPeer(m, x), m.type = "ResendRequest"
    PROVE  Honest(HandleResendRequest(t, m), x)
<1>1. m.begin \in Nat /\ m.end \in Nat /\ m.seq \in Nat \cup {Absent} /\ Absent \in Nat \cup {Absent}
  BY DEF Message, FromPeer
<1>2. x.kept => m.seq < x.peer.sender
  BY OfferedSeq
<1>3. Honest(StartReplay(t, m.begin, m.end, m.seq, Absent), x)
  BY <1>1, <1>2, StartReplayHonest
<1>4. QED
  BY <1>3, ThrowHonest DEF HandleResendRequest

\* A Logon is counted if it bears the expected number, unless it resets the numbers.
LEMMA AcceptLogonHonest ==
    ASSUME NEW x, NEW t, Honest(t, x), NEW m, FromPeer(m, x), m.type = "Logon",
           x.kept => ~m.reset
    PROVE  Honest(AcceptLogon(t, m), x)
<1> DEFINE expected == t.target
           zeroed   == IF m.reset THEN Reset(t) ELSE t
           counted  == IF m.seq = expected THEN NextTarget(zeroed) ELSE zeroed
           answered == IF t.cfg.initiator THEN counted ELSE SendLogon(counted, m.reset)
           ready    == [answered EXCEPT !.state = "READY"]
           ask      == IF ~t.cfg.sendNext /\ m.seq > expected THEN expected ELSE Absent
<1>1. /\ m.reset \in BOOLEAN /\ m.next \in Nat \cup {Absent}
      /\ expected \in Nat /\ ask \in Nat \cup {Absent}
  BY Numbers DEF Message, FromPeer
<1>2. Honest(zeroed, x) /\ (x.kept => zeroed = t)
  BY ResetHonest
<1> HIDE DEF zeroed
<1>3. Honest(counted, x)
  <2>1. ASSUME m.seq = expected PROVE x.kept => zeroed.target < x.peer.sender
    BY <1>2, <2>1, OfferedSeq
  <2>2. QED
    BY <1>2, <2>1, NextTargetHonest
<1> HIDE DEF counted
<1>4. Honest(answered, x)
  BY <1>1, <1>3, SendLogonHonest
<1> HIDE DEF answered
<1>5. Honest(ready, x)
  BY <1>4, SetStateHonest DEF SessionStates
<1> HIDE DEF ready, ask, expected
<1>6. Honest(Throw(counted), x)
  BY <1>3, ThrowHonest
<1>7. ASSUME m.next # Absent PROVE Honest(StartReplay(ready, m.next, 0, Absent, ask), x)
  <2>1. m.next \in Nat /\ 0 \in Nat /\ Absent \in Nat \cup {Absent}
    BY <1>1, <1>7
  <2>2. Absent < x.peer.sender
    BY Numbers DEF Absent
  <2>3. QED
    BY <1>1, <1>5, <2>1, <2>2, StartReplayHonest
<1>8. ASSUME ask # Absent PROVE Honest(SendResendRequest(ready, ask, 0), x)
  <2>1. ask \in Nat /\ 0 \in Nat
    BY <1>1, <1>8
  <2>2. QED
    BY <1>5, <2>1, SendResendRequestHonest
<1>9. QED
  BY <1>5, <1>6, <1>7, <1>8
     DEF AcceptLogon, zeroed, counted, answered, ready, ask, expected

LEMMA HandleLogonHonest ==
    ASSUME NEW x, NEW t, Honest(t, x), NEW m, FromPeer(m, x), m.type = "Logon"
    PROVE  Honest(HandleLogon(t, m), x)
<1>1. Honest(Logout(t, FALSE), x) /\ Honest(Logout(t, TRUE), x)
  BY LogoutHonest
<1>2. ASSUME ~LogonRefused(t, m) PROVE Honest(AcceptLogon(t, m), x)
  <2>1. x.kept => ~m.reset
    BY <1>2 DEF LogonRefused, Honest
  <2>2. QED
    BY <2>1, AcceptLogonHonest
<1>3. QED
  BY <1>1, <1>2 DEF HandleLogon

\* The delivery of the message that bears the expected number.
LEMMA DeliverHonest ==
    ASSUME NEW x, NEW t, Honest(t, x), NEW m, FromPeer(m, x), m.type = "App", m.seq = t.target
    PROVE  Honest([NextTarget(t) EXCEPT !.dlv = Append(@, m)], x)
<1> DEFINE u == NextTarget(t)
           v == [u EXCEPT !.dlv = Append(@, m)]
<1>0. /\ t \in SessionRecord /\ t.dlv \in Seq(Message) /\ t.target \in Nat
      /\ x.own.target \in Nat /\ m \in Message
  BY Numbers DEF FromPeer
<1>1. Honest(u, x)
  BY OfferedSeq, NextTargetHonest
<1>2. u \in SessionRecord /\ u.dlv = t.dlv /\ u.target = t.target + 1
  BY <1>0, <1>1 DEF NextTarget, SetTarget, SessionRecord, Honest
<1> HIDE DEF u
<1>3. Append(t.dlv, m) \in Seq(Message)
  BY <1>0
<1>4. /\ v \in SessionRecord
      /\ v.cfg = u.cfg /\ v.sender = u.sender /\ v.target = u.target
      /\ v.msgs = u.msgs /\ v.queue = u.queue /\ v.replay = u.replay
      /\ v.out = u.out /\ v.dlv = Append(t.dlv, m)
  BY <1>2, <1>3 DEF SessionRecord
<1> HIDE DEF v
<1>5. Numbered(u, x.apps) => Numbered(v, x.apps)
  BY <1>4 DEF Numbered
<1>6. Trusting(u, x.peer) => Trusting(v, x.peer)
  BY <1>4 DEF Trusting
<1>7. Onwards(u, x.own) => Onwards(v, x.own)
  BY <1>4 DEF Onwards
<1>8. ASSUME x.kept PROVE Delivering(v, x.own, x.peer)
  <2>1. Delivering(t, x.own, x.peer) /\ x.own.target <= t.target
    BY <1>8 DEF Honest, Onwards
  <2>2. Entry(m) \in x.peer.msgs
    BY <1>8 DEF FromPeer, Offered
  <2>3. /\ DOMAIN v.dlv = DOMAIN t.dlv \cup {Len(t.dlv) + 1} /\ Len(t.dlv) \in Nat
        /\ DOMAIN t.dlv = 1..Len(t.dlv)
        /\ \A i \in DOMAIN t.dlv : v.dlv[i] = t.dlv[i]
        /\ v.dlv[Len(t.dlv) + 1] = m
    BY <1>0, <1>4
  <2>4. \A i \in DOMAIN t.dlv : t.dlv[i].seq \in Nat
    <3>1. \A i \in DOMAIN t.dlv : t.dlv[i] \in Message
      BY <1>0
    <3>2. QED
      BY <3>1 DEF Message
  <2>5. \A i \in DOMAIN v.dlv :
          /\ v.dlv[i].type = "App" /\ Entry(v.dlv[i]) \in x.peer.msgs
          /\ x.own.target <= v.dlv[i].seq /\ v.dlv[i].seq < v.target
    BY <1>0, <1>2, <1>4, <2>1, <2>2, <2>3, <2>4 DEF Delivering
  <2>6. \A i, j \in DOMAIN v.dlv : i < j => v.dlv[i].seq < v.dlv[j].seq
    <3> SUFFICES ASSUME NEW i \in DOMAIN v.dlv, NEW j \in DOMAIN v.dlv, i < j
                 PROVE  v.dlv[i].seq < v.dlv[j].seq
      OBVIOUS
    <3>1. i \in DOMAIN t.dlv
      BY <2>3
    <3>2. CASE j \in DOMAIN t.dlv
      BY <2>1, <2>3, <3>1, <3>2 DEF Delivering
    <3>3. CASE j = Len(t.dlv) + 1
      BY <2>1, <2>3, <3>1, <3>3 DEF Delivering
    <3>4. QED
      BY <2>3, <3>2, <3>3
  <2>7. QED
    BY <2>5, <2>6 DEF Delivering
<1>9. QED
  BY <1>1, <1>4, <1>5, <1>6, <1>7, <1>8 DEF Honest, u, v

LEMMA InSequenceHonest ==
    ASSUME NEW x, NEW t, Honest(t, x), NEW m, FromPeer(m, x), m.type # "SequenceReset",
           m.seq = t.target
    PROVE  Honest(InSequence(t, m), x)
<1> DEFINE u == NextTarget(t)
<1>1. Honest(u, x) /\ m.reqId \in Nat
  BY OfferedSeq, NextTargetHonest DEF Message
<1>2. ASSUME m.type = "App" PROVE Honest([u EXCEPT !.dlv = Append(@, m)], x)
  BY <1>2, DeliverHonest
<1> HIDE DEF u
<1>3. Honest(HandleLogout(u), x)
  BY <1>1, TerminateHonest, SendLogoutHonest DEF HandleLogout
<1>4. Honest(HandleHeartbeat(u, m), x)
  BY <1>1, SetStateHonest DEF HandleHeartbeat, SessionStates
<1>5. Honest(HandleTestRequest(u, m), x)
  BY <1>1, ThrowHonest, SendHeartbeatHonest DEF HandleTestRequest
<1>6. QED
  BY <1>1, <1>2, <1>3, <1>4, <1>5 DEF InSequence, u

LEMMA ProcessMessageHonest ==
    ASSUME NEW x, NEW t, Honest(t, x), NEW m, FromPeer(m, x)
    PROVE  Honest(ProcessMessage(t, m), x)
<1>1. Honest(Refuse(t, Defect(t, m)), x) /\ Honest(OutOfSequence(t, m), x)
  BY RefuseHonest, OutOfSequenceHonest
<1>2. /\ m.type = "SequenceReset" => Honest(HandleSequenceReset(t, m), x)
      /\ m.type = "Logon" => Honest(HandleLogon(t, m), x)
      /\ m.type = "ResendRequest" => Honest(HandleResendRequest(t, m), x)
      /\ m.type # "SequenceReset" /\ m.seq = t.target => Honest(InSequence(t, m), x)
  BY HandleSequenceResetHonest, HandleLogonHonest, HandleResendRequestHonest, InSequenceHonest
<1>3. QED
  BY <1>1, <1>2 DEF ProcessMessage

LEMMA OnNetworkMessageHonest ==
    ASSUME NEW x, NEW t, Honest(t, x), NEW m, FromPeer(m, x)
    PROVE  Honest(OnNetworkMessage(t, m), x)
<1>1. Honest([t EXCEPT !.phase = "drain"], x)
  BY SetPhaseHonest DEF Phases
<1>2. QED
  BY <1>1, ProcessMessageHonest DEF OnNetworkMessage

LEMMA DrainOneHonest ==
    ASSUME NEW x, NEW t, Honest(t, x), NEW q \in NextToDrain(t)
    PROVE  Honest(DrainOne(t, q), x)
<1> DEFINE u == ProcessMessage(t, q)
           v == [u EXCEPT !.queue = @ \ FirstQueued(u)]
<1>1. FromPeer(q, x)
  BY Numbers DEF NextToDrain, FirstQueued, FromPeer, Honest, Trusting
<1>2. Honest(u, x)
  BY <1>1, ProcessMessageHonest
<1> HIDE DEF u
<1>3. Honest(v, x)
  <2>1. u \in SessionRecord
    BY <1>2 DEF Honest
  <2>2. /\ v \in SessionRecord
        /\ v.cfg = u.cfg /\ v.sender = u.sender /\ v.target = u.target
        /\ v.msgs = u.msgs /\ v.queue \subseteq u.queue /\ v.replay = u.replay
        /\ v.out = u.out /\ v.dlv = u.dlv
    BY <2>1 DEF SessionRecord
  <2> HIDE DEF v
  <2>3. Numbered(u, x.apps) => Numbered(v, x.apps)
    BY <2>2 DEF Numbered
  <2>4. Trusting(u, x.peer) => Trusting(v, x.peer)
    BY <2>2 DEF Trusting
  <2>5. Onwards(u, x.own) => Onwards(v, x.own)
    BY <2>2 DEF Onwards
  <2>6. Delivering(u, x.own, x.peer) => Delivering(v, x.own, x.peer)
    BY <2>2 DEF Delivering
  <2>7. QED
    BY <1>2, <2>2, <2>3, <2>4, <2>5, <2>6 DEF Honest
<1>4. QED
  BY <1>2, <1>3 DEF DrainOne, u, v

LEMMA DrainEndHonest ==
    ASSUME NEW x, NEW t, Honest(t, x)
    PROVE  Honest(DrainEnd(t), x)
BY SetPhaseHonest DEF DrainEnd, Phases

-----------------------------------------------------------------------------
(* internal_update *)

LEMMA UpdateDisconnectedHonest ==
    ASSUME NEW x, NEW t, Honest(t, x)
    PROVE  Honest(UpdateDisconnected(t), x)
BY FlushHonest, SetStateHonest DEF UpdateDisconnected, SessionStates

LEMMA AttemptLogonHonest ==
    ASSUME NEW x, NEW t, Honest(t, x)
    PROVE  Honest(AttemptLogon(t), x)
<1>1. t.cfg.resetOnLogon \in BOOLEAN /\ (x.kept => ~t.cfg.resetOnLogon)
  BY DEF Honest, SessionRecord, Settings
<1>2. Honest(IF t.cfg.resetOnLogon THEN Reset(t) ELSE t, x)
  BY <1>1, ResetHonest
<1>3. QED
  BY <1>1, <1>2, SendLogonHonest DEF AttemptLogon

LEMMA UpdateConnectedHonest ==
    ASSUME NEW x, NEW t, Honest(t, x), NEW due
    PROVE  Honest(UpdateConnected(t, due), x)
<1> DEFINE u == FlushSeqNums(t)
<1>1. Honest(u, x) /\ Honest(AttemptLogon(u), x)
  BY FlushHonest, AttemptLogonHonest
<1>2. Honest(CheckTimeouts(u, due), x)
  BY <1>1, TerminateHonest DEF CheckTimeouts
<1>3. ASSUME NEW v, Honest(v, x) PROVE Honest(KeepAlive(v, due), x)
  <2>1. 0 \in Nat
    OBVIOUS
  <2>2. QED
    BY <1>3, <2>1, SendHeartbeatHonest DEF KeepAlive
<1>4. ASSUME NEW v, Honest(v, x) PROVE Honest(ProbePeer(v, due), x)
  <2>1. Honest([SendTestRequest(v) EXCEPT !.state = "TEST_REQUEST"], x)
    BY <1>4, SendTestRequestHonest, SetStateHonest DEF SessionStates
  <2>2. QED
    BY <1>4, <2>1 DEF ProbePeer
<1> HIDE DEF u
<1>5. Honest(ProbePeer(KeepAlive(CheckTimeouts(u, due), due), due), x)
  BY <1>2, <1>3, <1>4
<1>6. QED
  BY <1>1, <1>5 DEF UpdateConnected, u

-----------------------------------------------------------------------------
(* The pair *)

\* The payloads "given" are those of messages of the cache H with numbers below "next",
\* and they rise.
Placed(given, H, next) ==
    /\ \A i \in DOMAIN given : \E c \in H : c.type = "App" /\ c.id = given[i] /\ c.seq < next
    /\ \A i, j \in DOMAIN given : i < j => given[i] < given[j]

\* What an application has been given is in the peer's cache, before the next number.
Handed(p) == Placed(got[p], ses[Peer(p)].msgs, ses[p].target)

\* Whatever is on its way to p its peer may have sent.
InFlight(p) ==
    /\ AllOffered(wire[p], ses[Peer(p)].sender, ses[Peer(p)].msgs)
    /\ AllOffered(read[p], ses[Peer(p)].sender, ses[Peer(p)].msgs)

Keeps(p) ==
    /\ ~ses[p].cfg.resetOnLogon
    /\ Numbered(ses[p], Len(sent[p]))
    /\ Trusting(ses[p], ses[Peer(p)])
    /\ InFlight(p) /\ Handed(p)

\* The inductive invariant.
PairInv ==
    /\ TypeOK
    /\ \A p \in Sides : ses[p].out = <<>> /\ ses[p].dlv = <<>>
    /\ \A p \in Sides : \A i \in DOMAIN sent[p] : sent[p][i] = i
    /\ Kept => \A p \in Sides : Keeps(p)

\* A handler of p runs now, and the application of p has sent n messages after it.
About(p, n) == [kept |-> Kept, apps |-> n, own |-> ses[p], peer |-> ses[Peer(p)]]

\* The request that a replay answers is numbered, or there is none.
LEMMA ReplaySeq == \A r \in Replay : r.seq \in Int
<1>1. \A r \in Replay : r.seq \in Nat \cup {Absent}
  BY DEF Replay
<1>2. Absent \in Int
  BY DEF Absent
<1>3. QED
  BY <1>1, <1>2

\* The other side's other side.
LEMMA Peers ==
    ASSUME NEW p \in Sides
    PROVE  Peer(p) \in Sides /\ Peer(p) # p /\ Peer(Peer(p)) = p /\ Sides = {p, Peer(p)}
BY DEF Sides, Peer

LEMMA PairTypes ==
    ASSUME PairInv, NEW p \in Sides
    PROVE  /\ ses[p] \in SessionRecord /\ wire[p] \in Seq(Message) /\ read[p] \in Seq(Message)
           /\ sent[p] \in Seq(Nat) /\ got[p] \in Seq(Nat) /\ Len(sent[p]) \in Nat
           /\ ses[p].sender \in Nat /\ ses[p].target \in Nat /\ ses[p].msgs \in SUBSET Sent
<1>1. /\ ses[p] \in SessionRecord /\ wire[p] \in Seq(Message) /\ read[p] \in Seq(Message)
      /\ sent[p] \in Seq(Nat) /\ got[p] \in Seq(Nat)
  BY DEF PairInv, TypeOK
<1>2. \A u \in SessionRecord : u.sender \in Nat /\ u.target \in Nat /\ u.msgs \in SUBSET Sent
  BY DEF SessionRecord
<1>3. QED
  BY <1>1, <1>2

LEMMA HonestNow ==
    ASSUME PairInv, NEW p \in Sides, NEW n \in Nat, Len(sent[p]) <= n
    PROVE  Honest(ses[p], About(p, n))
<1> DEFINE x == About(p, n)
           s == ses[p]
<1>0. /\ s \in SessionRecord /\ ses[Peer(p)] \in SessionRecord /\ Len(sent[p]) \in Nat
      /\ s.sender \in Nat /\ s.target \in Nat /\ s.msgs \in SUBSET Sent
  BY PairTypes, Peers
<1>1. /\ x \in Context
      /\ x.kept = Kept /\ x.apps = n /\ x.own = s /\ x.peer = ses[Peer(p)]
  <2>1. Kept \in BOOLEAN
    BY DEF Kept
  <2>2. QED
    BY <1>0, <2>1 DEF Context, About
<1> HIDE DEF x
<1>2. ASSUME Kept
      PROVE  /\ ~s.cfg.resetOnLogon
             /\ Numbered(s, n) /\ Trusting(s, ses[Peer(p)])
             /\ Onwards(s, s) /\ Delivering(s, s, ses[Peer(p)])
  <2>1. ~s.cfg.resetOnLogon /\ Numbered(s, Len(sent[p])) /\ Trusting(s, ses[Peer(p)])
    BY <1>2 DEF PairInv, Keeps
  <2>2. Ordered(s.msgs, n)
    <3>1. \A c \in s.msgs : c.id \in Nat
      BY <1>0 DEF Sent
    <3>2. QED
      BY <1>0, <2>1, <3>1 DEF Numbered, Ordered
  <2>3. Numbered(s, n)
    BY <2>1, <2>2 DEF Numbered
  <2>4. Onwards(s, s)
    BY <1>0 DEF Onwards
  <2>5. s.dlv = <<>>
    BY DEF PairInv
  <2>6. Delivering(s, s, ses[Peer(p)])
    BY <2>5 DEF Delivering
  <2>7. QED
    BY <2>1, <2>3, <2>4, <2>6
<1>3. QED
  BY <1>0, <1>1, <1>2 DEF Honest, x

\* The parts of a sequence of offered messages, and two such sequences.
LEMMA OfferedParts ==
    ASSUME NEW ms \in Seq(Message), NEW n, NEW H, AllOffered(ms, n, H)
    PROVE  /\ ms # <<>> => /\ Tail(ms) \in Seq(Message) /\ AllOffered(Tail(ms), n, H)
                           /\ Head(ms) \in Message /\ Offered(Head(ms), n, H)
           /\ \A i \in 1..Len(ms) : AllOffered(SubSeq(ms, 1, i), n, H)
           /\ \A i \in 1..Len(ms) : AllOffered(SubSeq(ms, i + 1, Len(ms)), n, H)
<1>1. ASSUME ms # <<>>
      PROVE  /\ Tail(ms) \in Seq(Message) /\ AllOffered(Tail(ms), n, H)
             /\ Head(ms) \in Message /\ Offered(Head(ms), n, H)
  <2>1. Head(ms) = ms[1] /\ 1 \in DOMAIN ms /\ Tail(ms) \in Seq(Message) /\ Head(ms) \in Message
    BY <1>1
  <2>2. \A i \in DOMAIN Tail(ms) : i + 1 \in DOMAIN ms /\ Tail(ms)[i] = ms[i + 1]
    BY <1>1
  <2>3. QED
    BY <2>1, <2>2 DEF AllOffered
<1>2. ASSUME NEW i \in 1..Len(ms) PROVE AllOffered(SubSeq(ms, 1, i), n, H)
  <2>1. \A k \in DOMAIN SubSeq(ms, 1, i) : k \in DOMAIN ms /\ SubSeq(ms, 1, i)[k] = ms[k]
    BY SubSeqProperties
  <2>2. QED
    BY <2>1 DEF AllOffered
<1>3. ASSUME NEW i \in 1..Len(ms) PROVE AllOffered(SubSeq(ms, i + 1, Len(ms)), n, H)
  <2>1. \A k \in DOMAIN SubSeq(ms, i + 1, Len(ms)) :
           i + k \in DOMAIN ms /\ SubSeq(ms, i + 1, Len(ms))[k] = ms[i + k]
    BY SubSeqProperties
  <2>2. QED
    BY <2>1 DEF AllOffered
<1>4. QED
  BY <1>1, <1>2, <1>3

LEMMA OfferedConcat ==
    ASSUME NEW ms \in Seq(Message), NEW ns \in Seq(Message), NEW n, NEW H,
           AllOffered(ms, n, H), AllOffered(ns, n, H)
    PROVE  AllOffered(ms \o ns, n, H)
<1>1. \A i \in DOMAIN (ms \o ns) :
          \/ i \in DOMAIN ms /\ (ms \o ns)[i] = ms[i]
          \/ i - Len(ms) \in DOMAIN ns /\ (ms \o ns)[i] = ns[i - Len(ms)]
  OBVIOUS
<1>2. QED
  BY <1>1 DEF AllOffered

\* The record that a handler leaves, without what it sent and delivered.
Emptied(t) == [t EXCEPT !.out = <<>>, !.dlv = <<>>]

LEMMA EmptiedFields ==
    ASSUME NEW t \in SessionRecord
    PROVE  /\ Emptied(t) \in SessionRecord
           /\ Emptied(t).out = <<>> /\ Emptied(t).dlv = <<>>
           /\ Emptied(t).cfg = t.cfg /\ Emptied(t).sender = t.sender
           /\ Emptied(t).target = t.target /\ Emptied(t).msgs = t.msgs
           /\ Emptied(t).queue = t.queue /\ Emptied(t).replay = t.replay
<1>1. <<>> \in Seq(Message)
  OBVIOUS
<1>2. QED
  BY <1>1 DEF Emptied, SessionRecord

LEMMA IdsType ==
    ASSUME NEW ms \in Seq(Message)
    PROVE  /\ Ids(ms) \in Seq(Nat) /\ DOMAIN Ids(ms) = DOMAIN ms
           /\ \A i \in DOMAIN ms : Ids(ms)[i] = ms[i].id
<1>1. DOMAIN ms = 1..Len(ms) /\ Len(ms) \in Nat /\ \A i \in DOMAIN ms : ms[i] \in Message
  OBVIOUS
<1>2. \A m \in Message : m.id \in Nat
  BY DEF Message
<1>3. \A i \in 1..Len(ms) : ms[i].id \in Nat
  BY <1>1, <1>2
<1>4. Ids(ms) = [i \in 1..Len(ms) |-> ms[i].id]
  BY <1>1 DEF Ids
<1>5. Ids(ms) \in [1..Len(ms) -> Nat]
  BY <1>3, <1>4
<1>6. QED
  BY <1>1, <1>4, <1>5

\* What is delivered goes on where the last delivery ended.
LEMMA HandedOn ==
    ASSUME PairInv, Kept, NEW p \in Sides, NEW n \in Nat, NEW t, Honest(t, About(p, n))
    PROVE  Placed(got[p] \o Ids(t.dlv), ses[Peer(p)].msgs, t.target)
<1> DEFINE x == About(p, n)
           H == ses[Peer(p)].msgs
           old == got[p]
           new == Ids(t.dlv)
           all == old \o new
<1>0. /\ t \in SessionRecord /\ t.dlv \in Seq(Message) /\ t.target \in Nat
      /\ ses[p].target \in Nat /\ old \in Seq(Nat) /\ H \in SUBSET Sent
  BY Numbers, PairTypes, Peers
<1>1. /\ Delivering(t, ses[p], ses[Peer(p)]) /\ ses[p].target <= t.target
  <2>1. x.kept = Kept /\ x.own = ses[p] /\ x.peer = ses[Peer(p)]
    BY DEF About
  <2>2. QED
    BY <2>1 DEF Honest, Onwards
<1>2. \A c \in H, d \in H : c.type = "App" /\ d.type = "App" /\ c.seq < d.seq => c.id < d.id
  BY Peers DEF PairInv, Keeps, Numbered, Ordered
<1>3. Placed(old, H, ses[p].target)
  BY DEF Handed, PairInv, Keeps
<1>4. /\ new \in Seq(Nat) /\ DOMAIN new = DOMAIN t.dlv
      /\ \A i \in DOMAIN new : new[i] = t.dlv[i].id
  BY <1>0, IdsType
<1>5. /\ \A i \in DOMAIN new : /\ Entry(t.dlv[i]) \in H /\ Entry(t.dlv[i]).type = "App"
                               /\ Entry(t.dlv[i]).id = new[i]
                               /\ ses[p].target <= Entry(t.dlv[i]).seq
                               /\ Entry(t.dlv[i]).seq < t.target
      /\ \A i, j \in DOMAIN new : i < j => Entry(t.dlv[i]).seq < Entry(t.dlv[j]).seq
  BY <1>1, <1>4 DEF Delivering, Entry
<1> HIDE DEF new
<1>6. /\ \A i \in DOMAIN all :
            \/ i \in DOMAIN old /\ all[i] = old[i]
            \/ i - Len(old) \in DOMAIN new /\ all[i] = new[i - Len(old)] /\ i \notin DOMAIN old
      /\ \A i, j \in DOMAIN all : i < j /\ j \in DOMAIN old => i \in DOMAIN old
      /\ \A i \in DOMAIN all : i \in Nat
      /\ Len(old) \in Nat
  BY <1>0, <1>4
<1> HIDE DEF all
<1>7. \A c \in H : c.seq \in Nat /\ c.id \in Nat
  BY <1>0 DEF Sent
<1>8. \A i \in DOMAIN old : \E c \in H :
         c.type = "App" /\ c.id = old[i] /\ c.seq < ses[p].target
  BY <1>3 DEF Placed
<1>9. \A i \in DOMAIN all : \E c \in H : c.type = "App" /\ c.id = all[i] /\ c.seq < t.target
  <2> SUFFICES ASSUME NEW i \in DOMAIN all
               PROVE  \E c \in H : c.type = "App" /\ c.id = all[i] /\ c.seq < t.target
    OBVIOUS
  <2>1. CASE i \in DOMAIN old /\ all[i] = old[i]
    <3>1. PICK c \in H : c.type = "App" /\ c.id = old[i] /\ c.seq < ses[p].target
      BY <1>8, <2>1
    <3>2. c.seq < t.target
      BY <1>0, <1>1, <1>7, <3>1
    <3>3. QED
      BY <2>1, <3>1, <3>2
  <2>2. CASE i - Len(old) \in DOMAIN new /\ all[i] = new[i - Len(old)]
    BY <1>5, <2>2
  <2>3. QED
    BY <1>6, <2>1, <2>2
<1>10. \A i, j \in DOMAIN all : i < j => all[i] < all[j]
  <2> SUFFICES ASSUME NEW i \in DOMAIN all, NEW j \in DOMAIN all, i < j
               PROVE  all[i] < all[j]
    OBVIOUS
  <2>1. CASE j \in DOMAIN old
    BY <1>3, <1>6, <2>1 DEF Placed
  <2>2. CASE i \in DOMAIN old /\ j \notin DOMAIN old
    <3>1. PICK c \in H : c.type = "App" /\ c.id = old[i] /\ c.seq < ses[p].target
      BY <1>8, <2>2
    <3> DEFINE d == Entry(t.dlv[j - Len(old)])
    <3>2. d \in H /\ d.type = "App" /\ d.id = all[j] /\ ses[p].target <= d.seq
      BY <1>5, <1>6, <2>2
    <3> HIDE DEF d
    <3>3. c.seq < d.seq
      BY <1>0, <1>7, <3>1, <3>2
    <3>4. c.id < d.id
      BY <1>2, <3>1, <3>2, <3>3
    <3>5. all[i] = old[i]
      BY <1>6, <2>2
    <3>6. QED
      BY <3>1, <3>2, <3>4, <3>5
  <2>3. CASE i \notin DOMAIN old /\ j \notin DOMAIN old
    <3> DEFINE k == i - Len(old)
               l == j - Len(old)
    <3>1. /\ k \in DOMAIN new /\ all[i] = new[k] /\ l \in DOMAIN new /\ all[j] = new[l] /\ k < l
      BY <1>6, <2>3
    <3> HIDE DEF k, l
    <3>2. /\ Entry(t.dlv[k]) \in H /\ Entry(t.dlv[k]).type = "App" /\ Entry(t.dlv[k]).id = new[k]
          /\ Entry(t.dlv[l]) \in H /\ Entry(t.dlv[l]).type = "App" /\ Entry(t.dlv[l]).id = new[l]
          /\ Entry(t.dlv[k]).seq < Entry(t.dlv[l]).seq
      BY <1>5, <3>1
    <3>3. Entry(t.dlv[k]).id < Entry(t.dlv[l]).id
      BY <1>2, <3>2
    <3>4. QED
      BY <3>1, <3>2, <3>3
  <2>4. QED
    BY <1>6, <2>1, <2>2, <2>3
<1>11. QED
  BY <1>9, <1>10 DEF Placed, all, new

-----------------------------------------------------------------------------
(* Steps *)

\* The record of p becomes that of a handler's result: all it could have sent before it
\* can have sent now, and what the handler sent too.
LEMMA Later ==
    ASSUME PairInv, Kept, NEW p \in Sides, NEW n \in Nat, NEW t, Honest(t, About(p, n)),
           ses' = [ses EXCEPT ![p] = Emptied(t)]
    PROVE  /\ \A q \in Sides : /\ ses'[q].sender \in Nat /\ ses[q].sender <= ses'[q].sender
                               /\ ses[q].msgs \subseteq ses'[q].msgs
           /\ \A q \in Sides, ms \in Seq(Message) :
                 AllOffered(ms, ses[q].sender, ses[q].msgs)
                     => AllOffered(ms, ses'[q].sender, ses'[q].msgs)
           /\ t.out \in Seq(Message) /\ AllOffered(t.out, ses'[p].sender, ses'[p].msgs)
<1>1. About(p, n).kept /\ About(p, n).own = ses[p]
  BY DEF About
<1>2. /\ t \in SessionRecord /\ t.sender \in Nat /\ t.out \in Seq(Message)
      /\ Onwards(t, ses[p]) /\ AllOffered(t.out, t.sender, t.msgs)
  BY <1>1, Numbers DEF Honest, Numbered
<1>3. \A q \in Sides : ses[q] \in SessionRecord /\ ses[q].sender \in Nat
  BY PairTypes
<1>4. /\ ses'[p].sender = t.sender /\ ses'[p].msgs = t.msgs
      /\ \A q \in Sides : q # p => ses'[q] = ses[q]
  <2>1. ses \in [Sides -> SessionRecord]
    BY DEF PairInv, TypeOK
  <2>2. ses'[p] = Emptied(t) /\ \A q \in Sides : q # p => ses'[q] = ses[q]
    BY <2>1
  <2>3. QED
    BY <1>2, <2>2, EmptiedFields
<1>5. \A q \in Sides : /\ ses'[q].sender \in Nat /\ ses[q].sender <= ses'[q].sender
                       /\ ses[q].msgs \subseteq ses'[q].msgs
  BY <1>2, <1>3, <1>4 DEF Onwards
<1>6. \A q \in Sides, ms \in Seq(Message) :
         AllOffered(ms, ses[q].sender, ses[q].msgs)
             => AllOffered(ms, ses'[q].sender, ses'[q].msgs)
  <2> SUFFICES ASSUME NEW q \in Sides, NEW ms \in Seq(Message),
                      AllOffered(ms, ses[q].sender, ses[q].msgs)
               PROVE  AllOffered(ms, ses'[q].sender, ses'[q].msgs)
    OBVIOUS
  <2>1. QED
    BY <1>3, <1>5, AllOfferedMore
<1>7. QED
  BY <1>2, <1>4, <1>5, <1>6

\* The pair after a handler of p, whatever happens to the wires and reads, as long as
\* they hold what may have been sent.
LEMMA StepPreserves ==
    ASSUME PairInv, NEW p \in Sides, NEW t, Honest(t, About(p, Len(sent'[p]))),
           ses' = [ses EXCEPT ![p] = Emptied(t)],
           got' = [got EXCEPT ![p] = @ \o Ids(t.dlv)],
           env' = env, link' \in {"none", "fresh", "joined"}, cuts' \in Nat,
           sent' \in [Sides -> Seq(Nat)], sent'[Peer(p)] = sent[Peer(p)],
           \A i \in DOMAIN sent'[p] : sent'[p][i] = i,
           wire' \in [Sides -> Seq(Message)], read' \in [Sides -> Seq(Message)],
           Kept => \A q \in Sides : InFlight(q)'
    PROVE  PairInv'
<1> DEFINE n == Len(sent'[p])
<1>0. PICK o \in Sides : o = Peer(p) /\ o # p /\ Peer(o) = p /\ Sides = {p, o}
  BY Peers
<1>1. /\ t \in SessionRecord /\ t.dlv \in Seq(Message) /\ n \in Nat
      /\ t.sender \in Nat /\ t.target \in Nat
  BY Numbers
<1>2. /\ ses \in [Sides -> SessionRecord] /\ got \in [Sides -> Seq(Nat)]
      /\ env \in DOMAIN Scenarios
  BY DEF PairInv, TypeOK
<1>3. /\ ses'[p] = Emptied(t) /\ ses'[o] = ses[o] /\ ses' \in [Sides -> SessionRecord]
  BY <1>0, <1>1, <1>2, EmptiedFields
<1>4. /\ ses'[p].out = <<>> /\ ses'[p].dlv = <<>> /\ ses'[p].cfg = t.cfg
      /\ ses'[p].sender = t.sender /\ ses'[p].target = t.target /\ ses'[p].msgs = t.msgs
      /\ ses'[p].queue = t.queue /\ ses'[p].replay = t.replay
  BY <1>1, <1>3, EmptiedFields
<1>5. got'[p] = got[p] \o Ids(t.dlv) /\ got'[o] = got[o] /\ got' = [got EXCEPT ![p] = got'[p]]
  BY <1>0, <1>2
<1>6. Ids(t.dlv) \in Seq(Nat)
  BY <1>1, IdsType
<1>7. TypeOK'
  <2>1. got'[p] \in Seq(Nat)
    BY <1>2, <1>5, <1>6
  <2>2. got' \in [Sides -> Seq(Nat)]
    BY <1>2, <1>5, <2>1
  <2>3. QED
    BY <1>2, <1>3, <2>2 DEF TypeOK
<1>8. \A q \in Sides : ses'[q].out = <<>> /\ ses'[q].dlv = <<>>
  BY <1>0, <1>3, <1>4 DEF PairInv
<1>9. \A q \in Sides : \A i \in DOMAIN sent'[q] : sent'[q][i] = i
  BY <1>0 DEF PairInv
<1>10. Kept' = Kept
  BY DEF Kept, Env
<1>11. ASSUME Kept PROVE \A q \in Sides : Keeps(q)'
  <2>1. /\ ~t.cfg.resetOnLogon /\ Numbered(t, n) /\ Trusting(t, ses[o])
        /\ ses[p].target <= t.target
    <3>1. /\ About(p, n).kept /\ About(p, n).own = ses[p] /\ About(p, n).peer = ses[o]
          /\ About(p, n).apps = n
      BY <1>0, <1>11 DEF About
    <3>2. QED
      BY <3>1 DEF Honest, Onwards
  <2>2. Keeps(p) /\ Keeps(o)
    BY <1>0, <1>11 DEF PairInv
  <2>3. \A q \in Sides : /\ ses'[q].sender \in Nat /\ ses[q].sender <= ses'[q].sender
                         /\ ses[q].msgs \subseteq ses'[q].msgs
    BY <1>1, <1>11, Later
  <2>4. Keeps(p)'
    <3>1. Numbered(ses'[p], n)
      <4>1. AllOffered(ses'[p].out, ses'[p].sender, ses'[p].msgs)
        BY <1>4 DEF AllOffered
      <4>2. QED
        BY <1>4, <2>1, <4>1 DEF Numbered
    <3>2. Trusting(ses'[p], ses'[o])
      BY <1>3, <1>4, <2>1 DEF Trusting
    <3>3. Handed(p)'
      <4>1. Placed(got[p] \o Ids(t.dlv), ses[o].msgs, t.target)
        BY <1>0, <1>1, <1>11, HandedOn
      <4>2. QED
        BY <1>0, <1>3, <1>4, <1>5, <4>1 DEF Handed
    <3>4. QED
      BY <1>0, <1>4, <1>11, <2>1, <3>1, <3>2, <3>3 DEF Keeps
  <2>5. Keeps(o)'
    <3>1. ~ses'[o].cfg.resetOnLogon /\ Numbered(ses'[o], Len(sent'[o]))
      BY <1>0, <1>3, <2>2 DEF Keeps
    <3>2. Trusting(ses'[o], ses'[p])
      <4>1. /\ ses[o].target \in Nat /\ ses[p].sender \in Nat /\ ses[p].msgs \in SUBSET Sent
            /\ ses[o].queue \in SUBSET Message /\ ses[o].replay \in Replay
        BY <1>0, PairTypes DEF SessionRecord
      <4>2. ses[o].replay.seq \in Int
        BY <4>1, ReplaySeq
      <4>3. Trusting(ses[o], ses[p])
        BY <1>0, <2>2 DEF Keeps
      <4>4. \A q \in ses[o].queue : Offered(q, ses'[p].sender, ses'[p].msgs)
        BY <2>3, <4>1, <4>3, OfferedMore, SMTT(60) DEF Trusting
      <4>5. ses[o].target <= ses'[p].sender /\ ses[o].replay.seq < ses'[p].sender
        <5> DEFINE mine == ses[o].target
                   last == ses[o].replay.seq
                   before == ses[p].sender
                   after == ses'[p].sender
        <5>1. mine <= before /\ last < before
          BY <4>3 DEF Trusting
        <5>2. before <= after /\ after \in Nat
          BY <2>3
        <5>3. mine \in Nat /\ last \in Int /\ before \in Nat
          BY <4>1, <4>2
        <5>4. mine <= after /\ last < after
          <6> HIDE DEF mine, last, before, after
          <6>1. QED
            BY <5>1, <5>2, <5>3
        <5>5. QED
          BY <5>4
      <4>6. QED
        BY <1>3, <4>4, <4>5 DEF Trusting
    <3>3. Handed(o)'
      <4>1. Placed(got[o], ses[p].msgs, ses[o].target)
        BY <1>0, <2>2 DEF Keeps, Handed
      <4>2. Placed(got[o], ses'[p].msgs, ses[o].target)
        BY <2>3, <4>1 DEF Placed
      <4>3. QED
        BY <1>0, <1>3, <1>5, <4>2 DEF Handed
    <3>4. QED
      BY <1>0, <1>11, <3>1, <3>2, <3>3 DEF Keeps
  <2>6. QED
    BY <1>0, <2>4, <2>5
<1>12. QED
  BY <1>7, <1>8, <1>9, <1>10, <1>11 DEF PairInv

\* A handler's step: what it sent goes on the wire or is lost, a message may have been
\* taken from what was read, and the application may have sent one more.
LEMMA HandlePreserves ==
    ASSUME PairInv, NEW p \in Sides, NEW t, Honest(t, About(p, Len(sent'[p]))),
           Handle(p, t), cuts' = cuts,
           read' = read \/ (read[p] # <<>> /\ read' = [read EXCEPT ![p] = Tail(@)]),
           sent' \in [Sides -> Seq(Nat)], sent'[Peer(p)] = sent[Peer(p)],
           \A i \in DOMAIN sent'[p] : sent'[p][i] = i
    PROVE  PairInv'
<1> DEFINE n == Len(sent'[p])
<1>0. PICK o \in Sides : o = Peer(p) /\ o # p /\ Peer(o) = p /\ Sides = {p, o}
  BY Peers
<1>1. /\ ses' = [ses EXCEPT ![p] = Emptied(t)]
      /\ got' = [got EXCEPT ![p] = @ \o Ids(t.dlv)]
      /\ env' = env /\ link' \in {"none", "fresh", "joined"} /\ cuts' \in Nat
  BY DEF Handle, Becomes, Emptied, PairInv, TypeOK
<1>2. /\ wire \in [Sides -> Seq(Message)] /\ read \in [Sides -> Seq(Message)]
      /\ n \in Nat /\ t.out \in Seq(Message)
  BY Numbers DEF PairInv, TypeOK
<1>3. /\ wire'[o] \in {wire[o], wire[o] \o t.out} /\ wire'[p] \in {wire[p], <<>>}
      /\ wire' \in [Sides -> Seq(Message)]
  <2>1. wire' = [wire EXCEPT ![o] = IF OnLink(p) THEN @ \o t.out ELSE @,
                             ![p] = IF t.connected \/ (~OnLink(p) /\ link # "none") THEN @ ELSE <<>>]
    BY <1>0 DEF Handle, Becomes
  <2>2. wire[o] \o t.out \in Seq(Message) /\ wire[o] \in Seq(Message) /\ wire[p] \in Seq(Message)
        /\ <<>> \in Seq(Message)
    BY <1>0, <1>2
  <2>3. QED
    BY <1>0, <1>2, <2>1, <2>2
<1>4. /\ read'[o] = read[o]
      /\ \/ read'[p] = read[p]
         \/ read[p] # <<>> /\ read'[p] = Tail(read[p])
      /\ read' \in [Sides -> Seq(Message)]
  <2>1. read[p] \in Seq(Message) /\ (read[p] # <<>> => Tail(read[p]) \in Seq(Message))
    BY <1>2
  <2>2. QED
    BY <1>0, <1>2, <2>1
<1>5. ASSUME Kept PROVE \A q \in Sides : InFlight(q)'
  <2>1. /\ \A q \in Sides, ms \in Seq(Message) :
              AllOffered(ms, ses[q].sender, ses[q].msgs)
                  => AllOffered(ms, ses'[q].sender, ses'[q].msgs)
        /\ AllOffered(t.out, ses'[p].sender, ses'[p].msgs)
    BY <1>1, <1>2, <1>5, Later
  <2>2. \A q \in Sides : InFlight(q)
    BY <1>5 DEF PairInv, Keeps
  <2>3. \A q \in Sides : /\ AllOffered(wire[q], ses'[Peer(q)].sender, ses'[Peer(q)].msgs)
                         /\ AllOffered(read[q], ses'[Peer(q)].sender, ses'[Peer(q)].msgs)
    BY <1>2, <2>1, <2>2, Peers DEF InFlight
  <2>4. InFlight(o)'
    <3>1. AllOffered(wire[o] \o t.out, ses'[p].sender, ses'[p].msgs)
      BY <1>0, <1>2, <2>1, <2>3, OfferedConcat
    <3>2. QED
      BY <1>0, <1>3, <1>4, <2>3, <3>1 DEF InFlight
  <2>5. InFlight(p)'
    <3>1. AllOffered(<<>>, ses'[o].sender, ses'[o].msgs)
      BY DEF AllOffered
    <3>2. AllOffered(read'[p], ses'[o].sender, ses'[o].msgs)
      <4>1. read[p] \in Seq(Message) /\ AllOffered(read[p], ses'[o].sender, ses'[o].msgs)
        BY <1>0, <1>2, <2>3
      <4>2. read[p] # <<>> => AllOffered(Tail(read[p]), ses'[o].sender, ses'[o].msgs)
        BY <4>1, OfferedParts
      <4>3. QED
        BY <1>4, <4>1, <4>2
    <3>3. QED
      BY <1>0, <1>3, <2>3, <3>1, <3>2 DEF InFlight
  <2>6. QED
    BY <1>0, <2>4, <2>5
<1>6. QED
  BY <1>1, <1>3, <1>4, <1>5, StepPreserves

\* Wires and reads change and no session does.
LEMMA WiresPreserve ==
    ASSUME PairInv, UNCHANGED <<env, ses, sent, got>>,
           link' \in {"none", "fresh", "joined"}, cuts' \in Nat,
           wire' \in [Sides -> Seq(Message)], read' \in [Sides -> Seq(Message)],
           Kept => \A q \in Sides : InFlight(q)'
    PROVE  PairInv'
<1>1. TypeOK' /\ Kept' = Kept
  BY DEF PairInv, TypeOK, Kept, Env
<1>2. ASSUME Kept, NEW q \in Sides PROVE Keeps(q)'
  <2>1. Keeps(q)
    BY <1>2 DEF PairInv
  <2>2. Handed(q)'
    BY <2>1 DEF Keeps, Handed
  <2>3. QED
    BY <1>2, <2>1, <2>2 DEF Keeps
<1>3. QED
  BY <1>1, <1>2 DEF PairInv

\* A session that a handler leaves with nothing sent or delivered.
LEMMA SilentStep ==
    ASSUME PairInv, NEW p \in Sides, NEW t, Honest(t, About(p, Len(sent[p]))),
           t.out = <<>>, t.dlv = <<>>,
           ses' = [ses EXCEPT ![p] = t],
           UNCHANGED <<env, sent, got>>,
           link' \in {"none", "fresh", "joined"}, cuts' \in Nat,
           wire' \in [Sides -> Seq(Message)], read' \in [Sides -> Seq(Message)],
           Kept => \A q \in Sides :
                     /\ \/ wire'[q] = <<>> \/ wire'[q] = wire[q]
                     /\ \/ read'[q] = read[q] \/ read'[q] = wire[q]
    PROVE  PairInv'
<1>1. t \in SessionRecord
  BY Numbers
<1>2. Emptied(t) = t
  BY <1>1 DEF Emptied, SessionRecord
<1>3. ses' = [ses EXCEPT ![p] = Emptied(t)]
  BY <1>2
<1>4. got' = [got EXCEPT ![p] = @ \o Ids(t.dlv)]
  <2>1. Ids(t.dlv) = <<>>
    BY DEF Ids
  <2>2. got \in [Sides -> Seq(Nat)] /\ got[p] \in Seq(Nat)
    BY DEF PairInv, TypeOK
  <2>3. got[p] \o <<>> = got[p]
    BY <2>2
  <2>4. QED
    BY <2>1, <2>2, <2>3
<1>5. ASSUME Kept PROVE \A q \in Sides : InFlight(q)'
  <2>1. Len(sent[p]) \in Nat
    BY PairTypes
  <2>2. \A q \in Sides, ms \in Seq(Message) :
           AllOffered(ms, ses[q].sender, ses[q].msgs)
               => AllOffered(ms, ses'[q].sender, ses'[q].msgs)
    BY <1>3, <1>5, <2>1, Later
  <2>3. ASSUME NEW q \in Sides PROVE InFlight(q)'
    <3>1. InFlight(q) /\ Peer(q) \in Sides
      BY <1>5, Peers DEF PairInv, Keeps
    <3>2. wire[q] \in Seq(Message) /\ read[q] \in Seq(Message)
      BY PairTypes
    <3>3. /\ AllOffered(wire[q], ses'[Peer(q)].sender, ses'[Peer(q)].msgs)
          /\ AllOffered(read[q], ses'[Peer(q)].sender, ses'[Peer(q)].msgs)
      BY <2>2, <3>1, <3>2 DEF InFlight
    <3>4. AllOffered(<<>>, ses'[Peer(q)].sender, ses'[Peer(q)].msgs)
      BY DEF AllOffered
    <3>5. QED
      BY <1>5, <3>3, <3>4 DEF InFlight
  <2>4. QED
    BY <2>3
<1>6. sent' \in [Sides -> Seq(Nat)] /\ \A i \in DOMAIN sent'[p] : sent'[p][i] = i
  BY DEF PairInv, TypeOK
<1>7. QED
  BY <1>3, <1>4, <1>5, <1>6, StepPreserves

-----------------------------------------------------------------------------
(* One lemma per action *)

LEMMA ReadPreserves ==
    ASSUME PairInv, NEW p \in Sides, Read(p)
    PROVE  PairInv'
<1>1. /\ wire \in [Sides -> Seq(Message)] /\ read \in [Sides -> Seq(Message)]
      /\ wire[p] \in Seq(Message)
  BY DEF PairInv, TypeOK
<1>2. PICK n \in 1..Len(wire[p]) :
        /\ read' = [read EXCEPT ![p] = SubSeq(wire[p], 1, n)]
        /\ wire' = [wire EXCEPT ![p] = SubSeq(@, n + 1, Len(@))]
  BY DEF Read
<1>3. /\ SubSeq(wire[p], 1, n) \in Seq(Message)
      /\ SubSeq(wire[p], n + 1, Len(wire[p])) \in Seq(Message)
  BY <1>1
<1>4. wire' \in [Sides -> Seq(Message)] /\ read' \in [Sides -> Seq(Message)]
  BY <1>1, <1>2, <1>3
<1>5. ASSUME Kept, NEW q \in Sides PROVE InFlight(q)'
  <2>1. InFlight(q) /\ ses' = ses
    BY <1>5 DEF PairInv, Keeps, Read
  <2>2. /\ AllOffered(SubSeq(wire[q], 1, n), ses[Peer(q)].sender, ses[Peer(q)].msgs)
        /\ AllOffered(SubSeq(wire[q], n + 1, Len(wire[q])), ses[Peer(q)].sender, ses[Peer(q)].msgs)
      \/ q # p
    BY <1>1, <2>1, OfferedParts DEF InFlight
  <2>3. QED
    BY <1>1, <1>2, <2>1, <2>2 DEF InFlight
<1>6. UNCHANGED <<env, ses, sent, got, link, cuts>>
  BY DEF Read
<1>7. link' \in {"none", "fresh", "joined"} /\ cuts' \in Nat
  BY <1>6 DEF PairInv, TypeOK
<1>8. QED
  BY <1>4, <1>5, <1>6, <1>7, WiresPreserve

\* A step of the reader, the update thread or a timer that gives p the record t.
LEMMA HandledPreserves ==
    ASSUME PairInv, NEW p \in Sides, NEW t, Honest(t, About(p, Len(sent[p]))),
           Handle(p, t), UNCHANGED <<cuts, sent>>,
           read' = read \/ (read[p] # <<>> /\ read' = [read EXCEPT ![p] = Tail(@)])
    PROVE  PairInv'
<1>1. sent' \in [Sides -> Seq(Nat)] /\ \A i \in DOMAIN sent'[p] : sent'[p][i] = i
  BY DEF PairInv, TypeOK
<1>2. Honest(t, About(p, Len(sent'[p])))
  OBVIOUS
<1>3. QED
  BY <1>1, <1>2, HandlePreserves

LEMMA Now ==
    ASSUME PairInv, NEW p \in Sides
    PROVE  Honest(ses[p], About(p, Len(sent[p])))
BY HonestNow, PairTypes

LEMMA ReceivePreserves ==
    ASSUME PairInv, NEW p \in Sides, Receive(p)
    PROVE  PairInv'
<1> DEFINE x == About(p, Len(sent[p]))
           m == Head(read[p])
<1>1. read[p] \in Seq(Message) /\ read[p] # <<>>
  BY PairTypes DEF Receive
<1>2. x.kept = Kept /\ x.peer = ses[Peer(p)]
  BY DEF About
<1>3. FromPeer(m, x)
  <2>1. m \in Message
    BY <1>1
  <2>2. ASSUME Kept PROVE Offered(m, ses[Peer(p)].sender, ses[Peer(p)].msgs)
    <3>1. AllOffered(read[p], ses[Peer(p)].sender, ses[Peer(p)].msgs)
      BY <2>2 DEF PairInv, Keeps, InFlight
    <3>2. QED
      BY <1>1, <3>1, OfferedParts
  <2>3. QED
    BY <1>2, <2>1, <2>2 DEF FromPeer
<1> HIDE DEF x, m
<1>4. Honest(OnNetworkMessage(ses[p], m), x)
  BY <1>3, Now, OnNetworkMessageHonest DEF x
<1>5. QED
  BY <1>1, <1>4, HandledPreserves DEF Receive, x, m

LEMMA ReplayPreserves ==
    ASSUME PairInv, NEW p \in Sides, ReplayNext(p) \/ ReplayDone(p)
    PROVE  PairInv'
<1> DEFINE x == About(p, Len(sent[p]))
<1>1. Honest(ses[p], x)
  BY Now
<1>2. CASE ReplayNext(p)
  <2>1. PICK c \in NextToReplay(ses[p]) : Handle(p, ReplayOne(ses[p], c))
    BY <1>2 DEF ReplayNext
  <2>2. Honest(ReplayOne(ses[p], c), x)
    BY <1>1, ReplayOneHonest
  <2>3. QED
    BY <1>2, <2>1, <2>2, HandledPreserves DEF ReplayNext
<1>3. CASE ReplayDone(p)
  <2>1. Honest(ReplayEnd(ses[p]), x)
    BY <1>1, ReplayEndHonest
  <2>2. QED
    BY <1>3, <2>1, HandledPreserves DEF ReplayDone
<1>4. QED
  BY <1>2, <1>3

LEMMA DrainPreserves ==
    ASSUME PairInv, NEW p \in Sides, Drain(p)
    PROVE  PairInv'
<1> DEFINE x == About(p, Len(sent[p]))
<1>1. Honest(ses[p], x)
  BY Now
<1>2. ASSUME NEW q \in NextToDrain(ses[p]), Handle(p, DrainOne(ses[p], q)) PROVE PairInv'
  <2>1. Honest(DrainOne(ses[p], q), x)
    BY <1>1, DrainOneHonest
  <2>2. QED
    BY <1>2, <2>1, HandledPreserves DEF Drain
<1>3. CASE Handle(p, DrainEnd(ses[p]))
  <2>1. Honest(DrainEnd(ses[p]), x)
    BY <1>1, DrainEndHonest
  <2>2. QED
    BY <1>3, <2>1, HandledPreserves DEF Drain
<1>4. QED
  BY <1>2, <1>3 DEF Drain

LEMMA HangupPreserves ==
    ASSUME PairInv, NEW p \in Sides, Hangup(p)
    PROVE  PairInv'
<1>1. Honest(Disconnect(ses[p]), About(p, Len(sent[p])))
  BY Now, DisconnectHonest
<1>2. QED
  BY <1>1, HandledPreserves DEF Hangup

LEMMA TickPreserves ==
    ASSUME PairInv, NEW p \in Sides, NEW due, Tick(p, due) \/ TickDisconnected(p)
    PROVE  PairInv'
<1>1. /\ Honest(UpdateConnected(ses[p], due), About(p, Len(sent[p])))
      /\ Honest(UpdateDisconnected(ses[p]), About(p, Len(sent[p])))
  BY Now, UpdateConnectedHonest, UpdateDisconnectedHonest
<1>2. QED
  BY <1>1, HandledPreserves DEF Tick, TickDisconnected

\* What the application sends comes after all it has sent, in the cache too.
LEMMA AppSendPreserves ==
    ASSUME PairInv, NEW p \in Sides, AppSend(p)
    PROVE  PairInv'
<1> DEFINE id == Len(sent[p]) + 1
           x == About(p, id)
           t == Send(ses[p], App(id))
<1>1. /\ sent \in [Sides -> Seq(Nat)] /\ sent[p] \in Seq(Nat) /\ Len(sent[p]) \in Nat
      /\ id \in Nat /\ ses[p].msgs \in SUBSET Sent
  BY PairTypes DEF PairInv, TypeOK
<1>2. /\ sent'[p] = Append(sent[p], id) /\ sent'[Peer(p)] = sent[Peer(p)]
      /\ sent' \in [Sides -> Seq(Nat)] /\ Len(sent'[p]) = id
  <2>1. sent' = [sent EXCEPT ![p] = Append(@, id)]
    BY DEF AppSend
  <2>2. Append(sent[p], id) \in Seq(Nat) /\ Len(Append(sent[p], id)) = id
    BY <1>1
  <2>3. QED
    BY <1>1, <2>1, <2>2, Peers
<1>3. \A i \in DOMAIN sent'[p] : sent'[p][i] = i
  <2>1. \A i \in DOMAIN sent[p] : sent[p][i] = i
    BY DEF PairInv
  <2>2. QED
    BY <1>1, <1>2, <2>1
<1>4. Honest(t, x)
  <2>1. Honest(ses[p], x)
    BY <1>1, HonestNow
  <2>2. App(id) \in Message /\ App(id).type = "App" /\ App(id).id = id
    BY <1>1 DEF App, Plain, Message, MsgTypes, Flaws, Absent
  <2>3. ASSUME x.kept
        PROVE  id \in 1..x.apps /\ \A c \in ses[p].msgs : c.type = "App" => c.id < id
    <3>1. Kept /\ x.apps = id
      BY <2>3 DEF About
    <3>2. \A c \in ses[p].msgs : c.type = "App" => c.id \in 1..Len(sent[p])
      BY <3>1 DEF PairInv, Keeps, Numbered, Ordered
    <3>3. QED
      BY <1>1, <3>1, <3>2
  <2> HIDE DEF x, id
  <2>4. QED
    BY <2>1, <2>2, <2>3, SendHonest
<1> HIDE DEF t
<1>5. Handle(p, t) /\ read' = read /\ cuts' = cuts
  BY DEF AppSend, t
<1>6. Honest(t, About(p, Len(sent'[p])))
  BY <1>2, <1>4
<1>7. QED
  BY <1>2, <1>3, <1>5, <1>6, HandlePreserves

\* A connection is assigned to the acceptor's session, or closed.
LEMMA JoinPreserves ==
    ASSUME PairInv, Join
    PROVE  PairInv'
<1>0. PICK a \in Sides : a = "acceptor"
  BY DEF Sides
<1>1. /\ wire \in [Sides -> Seq(Message)] /\ read \in [Sides -> Seq(Message)]
      /\ ses \in [Sides -> SessionRecord] /\ cuts \in Nat
      /\ <<>> \in Seq(Message) /\ wire[a] \in Seq(Message)
  BY <1>0 DEF PairInv, TypeOK
<1>2. UNCHANGED <<env, cuts, sent, got>> /\ wire' = [wire EXCEPT ![a] = <<>>]
  BY <1>0 DEF Join
<1>3. wire' \in [Sides -> Seq(Message)] /\ cuts' \in Nat
  BY <1>1, <1>2
<1>4. CASE ses[a].connected
  <2>1. link' = "none" /\ UNCHANGED <<ses, read>>
    BY <1>0, <1>4 DEF Join
  <2>2. ASSUME Kept, NEW q \in Sides PROVE InFlight(q)'
    <3>1. InFlight(q)
      BY <2>2 DEF PairInv, Keeps
    <3>2. AllOffered(<<>>, ses[Peer(q)].sender, ses[Peer(q)].msgs)
      BY DEF AllOffered
    <3>3. wire'[q] = <<>> \/ wire'[q] = wire[q]
      BY <1>1, <1>2
    <3>4. QED
      BY <2>1, <3>1, <3>2, <3>3 DEF InFlight
  <2>3. read' \in [Sides -> Seq(Message)] /\ link' \in {"none", "fresh", "joined"}
    BY <1>1, <2>1
  <2>4. QED
    BY <1>2, <1>3, <2>1, <2>2, <2>3, WiresPreserve
<1>5. CASE ~ses[a].connected
  <2> DEFINE t == Connect(ses[a])
  <2>1. /\ link' = "joined" /\ ses' = [ses EXCEPT ![a] = t]
        /\ read' = [read EXCEPT ![a] = wire[a]]
    BY <1>0, <1>5 DEF Join
  <2>2. Honest(t, About(a, Len(sent[a])))
    BY Now, DisconnectHonest
  <2>3. t.out = <<>> /\ t.dlv = <<>>
    BY <1>1 DEF Connect, PairInv, SessionRecord
  <2> HIDE DEF t
  <2>4. read' \in [Sides -> Seq(Message)] /\ link' \in {"none", "fresh", "joined"}
    BY <1>1, <2>1
  <2>5. \A q \in Sides : /\ wire'[q] = <<>> \/ wire'[q] = wire[q]
                         /\ read'[q] = read[q] \/ read'[q] = wire[q]
    BY <1>1, <1>2, <2>1
  <2>6. QED
    BY <1>2, <1>3, <2>1, <2>2, <2>3, <2>4, <2>5, SilentStep
<1>6. QED
  BY <1>4, <1>5

LEMMA ReconnectPreserves ==
    ASSUME PairInv, Reconnect
    PROVE  PairInv'
<1>0. PICK i \in Sides : i = "initiator"
  BY DEF Sides
<1> DEFINE u == UpdateDisconnected(ses[i])
           t == Connect(u)
<1>1. /\ wire \in [Sides -> Seq(Message)] /\ read \in [Sides -> Seq(Message)]
      /\ ses \in [Sides -> SessionRecord] /\ cuts \in Nat /\ <<>> \in Seq(Message)
  BY DEF PairInv, TypeOK
<1>2. /\ UNCHANGED <<env, read, cuts, sent, got>>
      /\ ses' = [ses EXCEPT ![i] = t] /\ link' = "fresh"
      /\ wire' = [p \in Sides |-> <<>>]
  BY <1>0 DEF Reconnect
<1>3. Honest(u, About(i, Len(sent[i]))) /\ u \in SessionRecord
  BY Now, UpdateDisconnectedHonest DEF Honest
<1>4. u.out = <<>> /\ u.dlv = <<>>
  <2>1. ses[i] \in SessionRecord /\ ses[i].out = <<>> /\ ses[i].dlv = <<>>
    BY <1>1 DEF PairInv
  <2>2. QED
    BY <2>1 DEF UpdateDisconnected, FlushSeqNums, SessionRecord
<1> HIDE DEF u
<1>5. Honest(t, About(i, Len(sent[i])))
  BY <1>3, DisconnectHonest
<1>6. t.out = <<>> /\ t.dlv = <<>>
  BY <1>3, <1>4 DEF Connect, SessionRecord
<1> HIDE DEF t
<1>7. /\ wire' \in [Sides -> Seq(Message)] /\ read' \in [Sides -> Seq(Message)]
      /\ link' \in {"none", "fresh", "joined"} /\ cuts' \in Nat
  BY <1>1, <1>2
<1>8. \A q \in Sides : wire'[q] = <<>> /\ read'[q] = read[q]
  BY <1>2
<1>9. QED
  BY <1>2, <1>5, <1>6, <1>7, <1>8, SilentStep

LEMMA CutPreserves ==
    ASSUME PairInv, Cut \/ UNCHANGED vars
    PROVE  PairInv'
<1>1. /\ UNCHANGED <<env, ses, wire, read, sent, got>>
      /\ link' \in {"none", "fresh", "joined"} /\ cuts' \in Nat
      /\ wire' \in [Sides -> Seq(Message)] /\ read' \in [Sides -> Seq(Message)]
  BY DEF Cut, vars, PairInv, TypeOK
<1>2. Kept => \A q \in Sides : InFlight(q)'
  BY <1>1 DEF PairInv, Keeps, InFlight
<1>3. QED
  BY <1>1, <1>2, WiresPreserve

-----------------------------------------------------------------------------
(* Theorems *)

LEMMA PairInit == SessionPairAssumption /\ Init => PairInv
<1> SUFFICES ASSUME SessionPairAssumption, Init PROVE PairInv
  OBVIOUS
<1>1. \A p \in Sides : Env.cfg[p] \in Settings
  BY DEF Init, SessionPairAssumption, Environment, Env
<1>2. EmptyStore \in Snapshot
  BY DEF EmptyStore, Snapshot
<1>3. ASSUME NEW p \in Sides
      PROVE  /\ ses[p] \in SessionRecord
             /\ ses[p].out = <<>> /\ ses[p].dlv = <<>> /\ ses[p].cfg = Env.cfg[p]
             /\ ses[p].sender = 1 /\ ses[p].target = 1 /\ ses[p].msgs = {}
             /\ ses[p].queue = {} /\ ses[p].replay = NoReplay
  <2>1. ses[p] = NewSession(Env.cfg[p], EmptyStore)
    BY DEF Init
  <2>2. \A cfg \in Settings : NewSession(cfg, EmptyStore) \in SessionRecord
    BY <1>2 DEF NewSession, SessionRecord, SessionStates, Phases, Snapshot, EmptyStore,
                Replay, NoReplay, Absent
  <2>3. QED
    BY <1>1, <2>1, <2>2 DEF NewSession, EmptyStore
<1>4. TypeOK
  <2>1. ses = [p \in Sides |-> ses[p]]
    BY DEF Init
  <2>2. ses \in [Sides -> SessionRecord]
    BY <1>3, <2>1
  <2>3. <<>> \in Seq(Message) /\ <<>> \in Seq(Nat)
    OBVIOUS
  <2>4. QED
    BY <2>2, <2>3 DEF TypeOK, Init
<1>5. ASSUME Kept, NEW p \in Sides PROVE Keeps(p)
  <2>1. Peer(p) \in Sides
    BY Peers
  <2>2. /\ wire[p] = <<>> /\ read[p] = <<>> /\ got[p] = <<>> /\ sent[p] = <<>>
    BY DEF Init
  <2>3. NoReplay.todo = {} /\ NoReplay.end = 0 /\ NoReplay.seq < 1
    BY DEF NoReplay, Absent
  <2>4. Numbered(ses[p], Len(sent[p]))
    BY <1>3, <2>3 DEF Numbered, Ordered, AllOffered
  <2>5. Trusting(ses[p], ses[Peer(p)])
    BY <1>3, <2>1, <2>3 DEF Trusting
  <2>6. InFlight(p) /\ Handed(p)
    BY <2>2 DEF InFlight, AllOffered, Handed, Placed
  <2>7. QED
    BY <1>3, <1>5, <2>4, <2>5, <2>6 DEF Keeps, Kept
<1>6. \A p \in Sides : sent[p] = <<>>
  BY DEF Init
<1>7. QED
  BY <1>3, <1>4, <1>5, <1>6 DEF PairInv

LEMMA PairPreserves == PairInv /\ [Next]_vars => PairInv'
<1> SUFFICES ASSUME PairInv, [Next]_vars PROVE PairInv'
  OBVIOUS
<1>1. ASSUME NEW p \in Sides, ReaderStep(p) PROVE PairInv'
  BY <1>1, ReadPreserves, ReceivePreserves, ReplayPreserves, DrainPreserves, HangupPreserves
     DEF ReaderStep
<1>2. ASSUME NEW p \in Sides, TickDisconnected(p) PROVE PairInv'
  BY <1>2, TickPreserves
<1>3. ASSUME NEW p \in Sides, AppSend(p) PROVE PairInv'
  BY <1>3, AppSendPreserves
<1>4. ASSUME NEW p \in Sides, NEW due \in SUBSET Env.intervals, Tick(p, due) PROVE PairInv'
  BY <1>4, TickPreserves
<1>5. CASE Join
  BY <1>5, JoinPreserves
<1>6. CASE Reconnect
  BY <1>6, ReconnectPreserves
<1>7. CASE Cut \/ UNCHANGED vars
  BY <1>7, CutPreserves
<1>8. QED
  BY <1>1, <1>2, <1>3, <1>4, <1>5, <1>6, <1>7 DEF Next

LEMMA PairInvariance == Spec => []PairInv
<1>1. SessionPairAssumption /\ Init => PairInv
  BY PairInit
<1>2. PairInv /\ [Next]_vars => PairInv'
  BY PairPreserves
<1>3. QED
  BY <1>1, <1>2, SessionPairAssumption, PTL DEF Spec

\* The two sessions stay what SessionCore makes them.
THEOREM TypeCorrect == Spec => []TypeOK
<1>1. PairInv => TypeOK
  BY DEF PairInv
<1>2. QED
  BY <1>1, PairInvariance, PTL

\* Unless a Logon resets the numbers (resetOnLogon), no session expects a number its
\* peer has not used: whatever is counted, gap-filled or recovered, and whatever is lost.
THEOREM NobodyAhead == Spec => [](Kept => NeverAhead)
<1>1. PairInv => (Kept => NeverAhead)
  BY DEF PairInv, Keeps, Trusting, NeverAhead
<1>2. QED
  BY <1>1, PairInvariance, PTL

\* Under the same condition an application is given the other's messages in the order
\* they were sent and none twice, also when connections break under replays, when the
\* update thread logs on too early and when the applications send at any time: what
\* resends, queues and gap fills may do is lose.
THEOREM DeliversOnce == Spec => [](Kept => GivenOnceInOrder)
<1>1. ASSUME PairInv, Kept PROVE GivenOnceInOrder
  <2> SUFFICES ASSUME NEW p \in Sides
               PROVE  \E place \in [DOMAIN got[p] -> DOMAIN sent[Peer(p)]] :
                        \A i, j \in DOMAIN got[p] :
                            /\ got[p][i] = sent[Peer(p)][place[i]]
                            /\ i < j => place[i] < place[j]
    BY DEF GivenOnceInOrder
  <2>0. PICK o \in Sides : o = Peer(p)
    BY Peers
  <2>1. /\ got[p] \in Seq(Nat) /\ sent[o] \in Seq(Nat)
        /\ \A i \in DOMAIN sent[o] : sent[o][i] = i
    BY <1>1, PairTypes DEF PairInv
  <2>2. Placed(got[p], ses[o].msgs, ses[p].target)
    BY <1>1, <2>0 DEF PairInv, Keeps, Handed
  <2>3. \A c \in ses[o].msgs : c.type = "App" => c.id \in 1..Len(sent[o])
    BY <1>1 DEF PairInv, Keeps, Numbered, Ordered
  <2>4. \A i \in DOMAIN got[p] : got[p][i] \in DOMAIN sent[o]
    BY <2>1, <2>2, <2>3 DEF Placed
  <2>5. got[p] \in [DOMAIN got[p] -> DOMAIN sent[o]]
    BY <2>1, <2>4
  <2>6. \A i, j \in DOMAIN got[p] : /\ got[p][i] = sent[o][got[p][i]]
                                    /\ i < j => got[p][i] < got[p][j]
    BY <2>1, <2>2, <2>4 DEF Placed
  <2>7. QED
    BY <2>0, <2>5, <2>6
<1>2. QED
  BY <1>1, PairInvariance, PTL

=============================================================================
