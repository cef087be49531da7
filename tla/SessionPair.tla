------------------------------ MODULE SessionPair ------------------------------
(***************************************************************************)
(* Two sessions of SessionCore, an acceptor and an initiator, over a TCP    *)
(* connection that may break.  "wire[p]" is what waits in p's socket;       *)
(* "read[p]" what p's reader thread has read and not yet handled.  The      *)
(* processes do not restart here: see Session for the store.                *)
(***************************************************************************)
EXTENDS SessionCore, FiniteSetsExt

\* "patient": intervals are longer than any exchange of messages takes.
\* "settled": a connection is made only when both sessions have handled the loss
\*    of the last one; nothing in the code waits for that.
\* "polite": the applications send only while their session is logged on.
\* "quiet": they do not send while a replay is under way.
Assumptions == {"patient", "settled", "polite", "quiet"}

Sides == {"acceptor", "initiator"}
Peer(p) == IF p = "acceptor" THEN "initiator" ELSE "acceptor"

\* The Max... fields are bounds.
Environment ==
    [cfg: [Sides -> Settings],      \* settings of each side
     maxApps: Nat,                  \* application messages of each side
     maxCuts: Nat,                  \* connections that break by themselves
     maxSeq: Nat,                   \* no new work once a sender number is above it
     maxProbes: Nat,                \* test requests of each side
     intervals: SUBSET Timers,      \* the timer intervals that may run out
     assume: SUBSET Assumptions,    \* what is assumed of timing and applications
     live: BOOLEAN]                 \* bounds leave room to get there: is it reached?

CONSTANT Scenarios                  \* a function from names to environments

ASSUME SessionPairAssumption ==
    \A name \in DOMAIN Scenarios :
        /\ Scenarios[name] \in Environment
        /\ \A p \in Sides : /\ Scenarios[name].cfg[p].initiator = (p = "initiator")
                            /\ ~Scenarios[name].cfg[p].persist

VARIABLES
    env,        \* the scenario of this behaviour
    ses,        \* the two session records
    link,       \* the initiator's connection: "none", "fresh" (not yet assigned
                \* to the acceptor's session) or "joined"
    wire, read,
    cuts,       \* connections broken so far
    sent, got   \* history: payloads sent and delivered, as in OrderedDelivery

vars == <<env, ses, link, wire, read, cuts, sent, got>>

Env == Scenarios[env]

Init ==
    /\ env \in DOMAIN Scenarios
    /\ ses = [p \in Sides |-> NewSession(Env.cfg[p], EmptyStore)]
    /\ link = "none"
    /\ wire = [p \in Sides |-> <<>>] /\ read = [p \in Sides |-> <<>>]
    /\ cuts = 0
    /\ sent = [p \in Sides |-> <<>>] /\ got = [p \in Sides |-> <<>>]

-----------------------------------------------------------------------------

Ids(ms) == [i \in DOMAIN ms |-> ms[i].id]

\* The session of p becomes t: what it sent goes on the wire, as far as p holds
\* the current connection (a write on a broken one is lost), and what it
\* delivered to the application.  A disconnect closes the connection.
Becomes(p, t, onLink) ==
    /\ ses' = [ses EXCEPT ![p] = [t EXCEPT !.out = <<>>, !.dlv = <<>>]]
    /\ wire' = [wire EXCEPT ![Peer(p)] = IF onLink THEN @ \o t.out ELSE @,
                            ![p] = IF t.connected \/ (~onLink /\ link # "none") THEN @ ELSE <<>>]
    /\ link' = IF onLink /\ ~t.connected THEN "none" ELSE link
    /\ got' = [got EXCEPT ![p] = @ \o Ids(t.dlv)]
    /\ UNCHANGED env

\* p is connected by the current connection.
OnLink(p) == ses[p].connected /\ link \in (IF p = "initiator" THEN {"fresh", "joined"} ELSE {"joined"})

Handle(p, t) == Becomes(p, t, OnLink(p))

Room == \A p \in Sides : ses[p].sender <= Env.maxSeq

\* Nothing is under way, not even the news that a connection is gone.
Quiet == \A p \in Sides :
            /\ wire[p] = <<>> /\ read[p] = <<>> /\ ses[p].phase = "idle"
            /\ ses[p].connected => OnLink(p)

Settled == \A p \in Sides :
              /\ read[p] = <<>> /\ ses[p].phase = "idle"
              /\ ~ses[p].connected /\ ses[p].state = "LOGON"

----
(* Reader threads *)

\* One recv: some of the messages that are there.
Read(p) ==
    /\ ses[p].phase = "idle" /\ ses[p].connected /\ read[p] = <<>>
    /\ OnLink(p) \/ link = "none"
    /\ \E n \in 1..Len(wire[p]) :
          /\ read' = [read EXCEPT ![p] = SubSeq(wire[p], 1, n)]
          /\ wire' = [wire EXCEPT ![p] = SubSeq(@, n + 1, Len(@))]
    /\ UNCHANGED <<env, ses, link, cuts, sent, got>>

\* The messages of a read are all handled, also after a disconnect.
Receive(p) ==
    /\ ses[p].phase = "idle" /\ read[p] # <<>>
    /\ Handle(p, OnNetworkMessage(ses[p], Head(read[p])))
    /\ read' = [read EXCEPT ![p] = Tail(@)]
    /\ UNCHANGED <<cuts, sent>>

\* First data of an unknown connection: it is assigned to the acceptor's session
\* and its messages are handled, or it is closed if that session has another.
Join ==
    LET a == "acceptor"
    IN  /\ link = "fresh" /\ wire[a] # <<>>
        /\ ses[a].phase = "idle" /\ read[a] = <<>>
        /\ IF ses[a].connected
           THEN /\ link' = "none" /\ wire' = [wire EXCEPT ![a] = <<>>]
                /\ UNCHANGED <<ses, read>>
           ELSE /\ link' = "joined"
                /\ ses' = [ses EXCEPT ![a] = Connect(@)]
                /\ read' = [read EXCEPT ![a] = wire[a]]
                /\ wire' = [wire EXCEPT ![a] = <<>>]
        /\ UNCHANGED <<env, cuts, sent, got>>

ReplayNext(p) ==
    /\ ses[p].phase = "replay"
    /\ \E c \in NextToReplay(ses[p]) : Handle(p, ReplayOne(ses[p], c))
    /\ UNCHANGED <<read, cuts, sent>>

ReplayDone(p) ==
    /\ ses[p].phase = "replay" /\ ses[p].replay.todo = {}
    /\ Handle(p, ReplayEnd(ses[p]))
    /\ UNCHANGED <<read, cuts, sent>>

Drain(p) ==
    /\ ses[p].phase = "drain"
    /\ \/ \E q \in NextToDrain(ses[p]) : Handle(p, DrainOne(ses[p], q))
       \/ NextToDrain(ses[p]) = {} /\ Handle(p, DrainEnd(ses[p]))
    /\ UNCHANGED <<read, cuts, sent>>

\* EPOLLRDHUP: handled before the data of the same event, which is lost.
Hangup(p) ==
    /\ ses[p].phase = "idle" /\ read[p] = <<>> /\ ses[p].connected /\ ~OnLink(p)
    /\ Handle(p, Disconnect(ses[p]))
    /\ UNCHANGED <<read, cuts, sent>>

\* A connected session is updated between two reads.
Tick(p, due) ==
    /\ ses[p].phase = "idle" /\ read[p] = <<>> /\ ses[p].connected
    /\ due # {} => Room /\ ("patient" \in Env.assume => Quiet)
    /\ "receive" \in due => ses[p].testReqId < Env.maxProbes
    /\ Handle(p, UpdateConnected(ses[p], due))
    /\ UNCHANGED <<read, cuts, sent>>

----
(* Update threads: a session without a connection; the initiator connects. *)

TickDisconnected(p) ==
    /\ ~ses[p].connected
    /\ Handle(p, UpdateDisconnected(ses[p]))
    /\ UNCHANGED <<read, cuts, sent>>

Reconnect ==
    LET i == "initiator"
    IN  /\ ~ses[i].connected /\ Room
        /\ "settled" \in Env.assume => Settled
        /\ ses' = [ses EXCEPT ![i] = Connect(UpdateDisconnected(@))]
        /\ link' = "fresh"
        /\ wire' = [p \in Sides |-> <<>>]
        /\ UNCHANGED <<env, read, cuts, sent, got>>

----
(* Applications and the network *)

AppSend(p) ==
    /\ Len(sent[p]) < Env.maxApps
    /\ "quiet" \in Env.assume => ses[p].phase # "replay"
    /\ "polite" \in Env.assume => LoggedOn(ses[p])
    /\ LET id == Len(sent[p]) + 1
       IN  /\ Handle(p, Send(ses[p], App(id)))
           /\ sent' = [sent EXCEPT ![p] = Append(@, id)]
    /\ UNCHANGED <<read, cuts>>

Cut ==
    /\ link # "none" /\ cuts < Env.maxCuts
    /\ link' = "none" /\ cuts' = cuts + 1
    /\ UNCHANGED <<env, ses, wire, read, sent, got>>

ReaderStep(p) ==
    Read(p) \/ Receive(p) \/ ReplayNext(p) \/ ReplayDone(p) \/ Drain(p) \/ Hangup(p)

Next ==
    \/ \E p \in Sides :
          \/ ReaderStep(p) \/ TickDisconnected(p) \/ AppSend(p)
          \/ \E due \in SUBSET Env.intervals : Tick(p, due)
    \/ Join \/ Reconnect \/ Cut

Spec == Init /\ [][Next]_vars

\* In live scenarios both processes keep running, the initiator keeps trying to
\* connect and to log on, and intervals run out.
Fairness ==
    /\ \A p \in Sides :
          /\ WF_vars(Env.live /\ ReaderStep(p))
          /\ WF_vars(Env.live /\ TickDisconnected(p))
          /\ WF_vars(Env.live /\ Tick(p, Env.intervals \ {"heartbeat", "receive"}))
    /\ WF_vars(Env.live /\ Join) /\ WF_vars(Env.live /\ Reconnect)

FairSpec == Spec /\ Fairness

-----------------------------------------------------------------------------
(* Properties *)

\* The sessions stay what SessionCore makes them, and so do wires and reads.
TypeOK ==
    /\ env \in DOMAIN Scenarios
    /\ ses \in [Sides -> SessionRecord]
    /\ link \in {"none", "fresh", "joined"}
    /\ wire \in [Sides -> Seq(Message)] /\ read \in [Sides -> Seq(Message)]
    /\ cuts \in Nat
    /\ sent \in [Sides -> Seq(Nat)] /\ got \in [Sides -> Seq(Nat)]

\* Recovery by resend, gap fill and re-logon is ordered delivery, each once.
Payloads == 1..Max({Scenarios[name].maxApps : name \in DOMAIN Scenarios})
Abstract == INSTANCE OrderedDelivery
DeliversInOrder == Abstract!Spec

\* No session expects a number its peer has not used yet: numbers are never
\* consumed for messages that do not exist.
NeverAhead ==
    \A p \in Sides : ses[p].target <= ses[Peer(p)].sender

\* Two openfix sessions give each other no cause for a terminal Logout.
NobodyKilled == \A p \in Sides : ses[p].state # "KILLING"
                                  /\ \A i \in DOMAIN wire[p] : wire[p][i].type # "Logout"

\* The sessions find each other: in the end both stay logged on.
LoggedOnForGood == <>[](Env.live => \A p \in Sides : ses[p].state \in {"READY", "TEST_REQUEST"})

\* Whatever an application sends, the other side's gets.
AllDelivered == <>[](Env.live => \A p \in Sides : got[p] = sent[Peer(p)])
=============================================================================
