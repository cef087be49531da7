-------------------------------- MODULE Session --------------------------------
(***************************************************************************)
(* One FIX session against an arbitrary peer.  The peer sends any message   *)
(* of its scenario at any time and closes the connection when it likes; the      *)
(* application sends, the operator edits sequence numbers or disables the   *)
(* session, the process stops, crashes and restarts from the store.         *)
(*                                                                          *)
(* Four threads act: the reader thread (Receive ... Tick, FlushWrites,      *)
(* PeerCloses), the update thread (TickDisconnected), the store's writer    *)
(* thread (WriterRound) and the application's own (AppSend, Admin...,       *)
(* Stop...).  "out" and "dlv" hold what the *)
(* last step gave to the network and to SessionDelegate::onMessage.         *)
(***************************************************************************)
EXTENDS SessionCore

\* What the session meets: the peer, its settings, and what else may happen to it.
\* The Max... fields are bounds, the last three say what the environment does.
Environment ==
    [inbound: SUBSET Message,       \* messages the peer may send
     cfgs: SUBSET Settings,         \* settings the session may run with
     maxSeq: Nat,                   \* no new work once a number is above it
     maxEdits: Nat,                 \* operator actions
     maxStarts: Nat,                \* process starts
     sendInReplay: BOOLEAN,         \* the application sends from a thread of its own, so
                                    \* also while the reader thread replays messages
     mayCongest: BOOLEAN,           \* the socket may refuse an inline write (or uses TLS)
     mayCrash: BOOLEAN]             \* the process may die at any moment

CONSTANT Scenarios                  \* a function from names to environments

ASSUME SessionAssumption ==
    \A name \in DOMAIN Scenarios : Scenarios[name] \in Environment

VARIABLES
    env,        \* the scenario of this behaviour
    s,          \* the session record
    batch,      \* the reader thread holds more messages of the read it is handling
    life,       \* "running", "flushed" and "stopped" are the stages of Session::stop
    edits,      \* operator actions so far
    starts,     \* process starts so far
    lastDlv     \* history: MsgSeqNum of the last message given to the application

vars == <<env, s, batch, life, edits, starts, lastDlv>>

Env == Scenarios[env]

Init ==
    /\ env \in DOMAIN Scenarios
    /\ s \in {NewSession(cfg, EmptyStore) : cfg \in Env.cfgs}
    /\ batch = FALSE
    /\ life = "running"
    /\ edits = 0 /\ starts = 1
    /\ lastDlv = 0

-----------------------------------------------------------------------------

Fresh == [s EXCEPT !.out = <<>>, !.dlv = <<>>]
Room == s.sender <= Env.maxSeq /\ s.target <= Env.maxSeq /\ s.testReqId <= Env.maxSeq

\* The session becomes t; the history follows.
Becomes(t) ==
    /\ s' = t
    /\ UNCHANGED env
    /\ lastDlv' = IF t.dlv # <<>> THEN t.dlv[Len(t.dlv)].seq ELSE lastDlv

----
(* Reader thread *)

\* A message of a read made on the session's connection.  The messages of one
\* read are all handled, even if an earlier one made the session disconnect.
Receive(m) ==
    /\ s.phase = "idle" /\ Room
    /\ s.connected \/ batch
    /\ Becomes(OnNetworkMessage(Fresh, m))
    /\ batch' \in BOOLEAN
    /\ UNCHANGED <<life, edits, starts>>

\* The first message of an accepted connection, which is thereby assigned to
\* this session unless it has one already.
ReceiveFirst(m) ==
    /\ s.phase = "idle" /\ Room /\ ~batch
    /\ ~s.cfg.initiator /\ ~s.connected /\ life = "running"
    /\ Becomes(OnNetworkMessage(Connect(Fresh), m))
    /\ batch' \in BOOLEAN
    /\ UNCHANGED <<life, edits, starts>>

EndBatch ==
    /\ s.phase = "idle" /\ batch
    /\ Becomes(Fresh)
    /\ batch' = FALSE
    /\ UNCHANGED <<life, edits, starts>>

ReplayNext ==
    /\ s.phase = "replay"
    /\ \E c \in NextToReplay(s) : Becomes(ReplayOne(Fresh, c))
    /\ UNCHANGED <<batch, life, edits, starts>>

ReplayDone ==
    /\ s.phase = "replay" /\ s.replay.todo = {}
    /\ Becomes(ReplayEnd(Fresh))
    /\ UNCHANGED <<batch, life, edits, starts>>

Drain ==
    /\ s.phase = "drain"
    /\ \E q \in NextToDrain(s) : Becomes(DrainOne(Fresh, q))
    /\ UNCHANGED <<batch, life, edits, starts>>

DrainDone ==
    /\ s.phase = "drain" /\ NextToDrain(s) = {}
    /\ Becomes(DrainEnd(Fresh))
    /\ UNCHANGED <<batch, life, edits, starts>>

\* Session::onNetworkUpdate from the epoll loop, after the reads.
Tick(due) ==
    /\ s.phase = "idle" /\ ~batch /\ s.connected /\ s.enabled
    /\ Room \/ due \subseteq {"testRequest", "logout"}
    /\ Becomes(UpdateConnected(Fresh, due))
    /\ UNCHANGED <<batch, life, edits, starts>>

PeerCloses ==
    /\ s.phase = "idle" /\ ~batch /\ s.connected
    /\ Becomes(Disconnect(Fresh))
    /\ UNCHANGED <<batch, life, edits, starts>>

\* The reader flushes the write queue holding m_writeMutex; the callback of a
\* queued terminal Logout disconnects, which locks that mutex again.
FlushWrites ==
    /\ s.phase = "idle" /\ ~batch /\ s.congested
    /\ Becomes(IF s.killQueued
               THEN [Fresh EXCEPT !.connected = FALSE, !.phase = "hung"]
               ELSE [Fresh EXCEPT !.congested = FALSE])
    /\ UNCHANGED <<batch, life, edits, starts>>

----
(* Update thread: sessions without a connection.  It does not wait for the    *)
(* reader thread, which may still be handling the messages of its last read.  *)

TickDisconnected ==
    /\ ~s.connected /\ s.enabled
    /\ \/ Becomes(UpdateDisconnected(Fresh))
       \/ /\ s.cfg.initiator /\ s.phase # "hung" /\ Room
          /\ Becomes(Connect(UpdateDisconnected(Fresh)))
    /\ UNCHANGED <<batch, life, edits, starts>>

----
(* Application and operator *)

AppSend ==
    /\ Room /\ life = "running"
    /\ s.phase # "hung" /\ (Env.sendInReplay \/ s.phase # "replay")
    /\ Becomes(Send(Fresh, App(1)))
    /\ UNCHANGED <<batch, life, edits, starts>>

Congest ==
    /\ Env.mayCongest /\ s.connected /\ ~s.congested
    /\ Becomes([Fresh EXCEPT !.congested = TRUE])
    /\ UNCHANGED <<batch, life, edits, starts>>

\* The admin website: sequence numbers, enable, disable, disconnect.
AdminEdits ==
    {SetSender(Fresh, n) : n \in 1..Env.maxSeq} \cup {SetTarget(Fresh, n) : n \in 1..Env.maxSeq}
    \cup {[Fresh EXCEPT !.enabled = e] : e \in BOOLEAN} \cup {Disconnect(Fresh)}

Admin ==
    /\ edits < Env.maxEdits /\ life = "running"
    /\ \E t \in AdminEdits : Becomes(t)
    /\ edits' = edits + 1
    /\ UNCHANGED <<batch, life, starts>>

\* Session::stop in two stages, between which the reader thread still works.
StopFlush ==
    /\ life = "running" /\ starts < Env.maxStarts
    /\ Becomes(FlushSeqNums([Fresh EXCEPT !.enabled = FALSE]))
    /\ life' = "flushed"
    /\ UNCHANGED <<batch, edits, starts>>

StopNetwork ==
    /\ life = "flushed"
    /\ Becomes(Disconnect(Fresh))
    /\ life' = "stopped"
    /\ UNCHANGED <<batch, edits, starts>>

----
(* Writer thread: what a flush leaves behind is queued until it comes by.  A    *)
(* round of it is one step here; Persistence has the steps of it.                *)

WriterRound ==
    /\ s.resetting \/ s.disk # s.stored
    /\ Becomes(WriteOut(Fresh))
    /\ UNCHANGED <<batch, life, edits, starts>>

\* A new process loads the file.  An orderly stop ends with a last round of the writer.
Restart ==
    /\ starts < Env.maxStarts
    /\ \/ Env.mayCrash
       \/ /\ life = "stopped" /\ s.phase = "idle" /\ ~batch
          /\ ~s.resetting /\ s.disk = s.stored
    /\ s' = NewSession(s.cfg, s.disk)
    /\ batch' = FALSE /\ life' = "running" /\ starts' = starts + 1
    /\ UNCHANGED <<env, edits, lastDlv>>

Reader ==
    \/ \E m \in Env.inbound : Receive(m) \/ ReceiveFirst(m)
    \/ EndBatch \/ ReplayNext \/ ReplayDone \/ Drain \/ DrainDone
    \/ \E due \in SUBSET Timers : Tick(due)
    \/ PeerCloses \/ FlushWrites

Next ==
    \/ Reader
    \/ TickDisconnected \/ WriterRound \/ AppSend \/ Congest \/ Admin
    \/ StopFlush \/ StopNetwork \/ Restart

Spec == Init /\ [][Next]_vars

\* The reader's and the update thread's loops keep turning, and intervals run
\* out; nothing is promised about the peer, the application or the operator.
\* A read holds finitely many messages, and every round of the epoll loop ends
\* with an update however much the peer sends: hence SF for EndBatch and Tick.
Fairness ==
    /\ SF_vars(EndBatch) /\ WF_vars(ReplayNext) /\ WF_vars(ReplayDone)
    /\ WF_vars(Drain) /\ WF_vars(DrainDone)
    /\ SF_vars(Tick({"testRequest", "logout"}))
    /\ SF_vars(TickDisconnected)

FairSpec == Spec /\ Fairness

-----------------------------------------------------------------------------
(* Properties *)

\* Every part of the session record holds the values its handlers give it.
TypeOK ==
    /\ env \in DOMAIN Scenarios
    /\ s \in SessionRecord
    /\ batch \in BOOLEAN
    /\ life \in {"running", "flushed", "stopped"}
    /\ edits \in Nat /\ starts \in Nat /\ lastDlv \in Nat

Seqs(msgs) == {c.seq : c \in msgs}
Complete(msgs, sender) ==
    /\ Seqs(msgs) = {n \in 0..sender : n < sender /\ (n = 0 => 0 \in Seqs(msgs))}
    /\ \A c, d \in msgs : c.seq = d.seq => c = d

\* What memory has and the store will not is pending, and the numbers there are
\* current or will be.
Caught(t) ==
    /\ Seqs(t.msgs) = Seqs(t.stored.msgs) \cup t.pending
    /\ ~t.dirty => Complete(t.msgs, t.stored.sender)

Whole(t) ==
    /\ ~t.lacks => Complete(t.msgs, t.sender)
    /\ ~t.disk.lacks => Complete(t.disk.msgs, t.disk.sender)
    /\ ~t.stored.lacks => /\ ~t.lacks
                          /\ Complete(t.stored.msgs, t.stored.sender)
                          /\ t.cfg.persist => Caught(t)

\* runMessageRecovery answers from MemoryCache::m_messages alone, so every number
\* ever used must be there, once, in memory, in the file that a crash leaves to the
\* next process and in what an orderly stop makes of it (the numbers start at 1, or
\* at 0 after a reset), unless the operator renumbered the session.  A flush that
\* finds the numbers unchanged writes messages only, so they must match the numbers
\* already stored.  One thing is excepted, where it happened and in what is loaded
\* from there ("lacks"): the writer deletes what is flushed behind a reset before it
\* has seen that reset (FileUtils.cpp:69, ResetDurable), and it stays lacking until
\* the next reset.
CacheComplete == edits = 0 => Whole(s)

\* What the inbound queue is for: a message that waits there is processed once
\* the gap before it is filled, so the next expected message is never in it.
NextNeverStranded == s.phase = "idle" => \A q \in s.queue : q.seq # s.target

\* No message of the peer moves the next expected number back: only an operator,
\* a restart or a reset does.
TargetNeverFalls ==
    [][s'.target < s.target => edits' # edits \/ starts' # starts \/ s.cfg.resetOnLogon]_vars

\* processMessage gives the application each number at most once and in
\* ascending order, whatever is queued, drained, resent or renumbered.
InOrderOnce ==
    [][s'.dlv # <<>> /\ edits = 0 /\ starts = 1 /\ ~s.cfg.resetOnLogon
       => s'.dlv[1].seq > lastDlv]_vars

\* The application gets messages only while the session is logged on, although
\* those after a disconnect in the same read are still processed.  (The inbound-queue
\* loop does not look at the state.  It may find a message for a session being killed
\* if a handler that threw left it there, Throws, or if an operator's edit between
\* two rounds makes it the next one.)
Throws == \E m \in Env.inbound : m.flaw = "noField"
DeliverLoggedOn == [][s'.dlv # <<>> /\ edits = 0 => LoggedOn(s) \/ Throws]_vars

Hides(m, c) ==
    /\ m.type = "SequenceReset" /\ c.type \notin SessionMsgs
    /\ m.seq <= c.seq /\ c.seq < m.new

\* The message this replay has resent last.
JustResent(c) == s.replay.ptr # s.replay.begin /\ c.seq = s.replay.ptr - 1

\* A gap fill tells the peer that nothing is to be had from its MsgSeqNum up to, but
\* not including, NewSeqNo: no application message or Reject the session has sent may
\* have one of these numbers.  Excepted are the message this replay has resent
\* last, whose number the final gap fill takes (Session.cpp:355; NobodyKilled shows
\* what the peer makes of that), and one sent from another thread during the replay.
GapFillsHideNothing ==
    [][\A i \in DOMAIN s'.out : \A c \in s'.msgs :
          Hides(s'.out[i], c) => Env.sendInReplay \/ JustResent(c)]_vars

\* A session that is logging out, being killed or probing its peer gets out of
\* it: it is READY again, or back at LOGON for a new connection.
NoLimbo ==
    s.state \in {"KILLING", "LOGOUT", "TEST_REQUEST"} /\ s.cfg.initiator /\ ~Env.mayCongest
        ~> \/ s.state \in {"LOGON", "READY"} \/ ~s.enabled

=============================================================================
