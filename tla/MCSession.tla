------------------------------- MODULE MCSession -------------------------------
(* Instances of Session for TLC. *)
EXTENDS Session

Acceptor == [initiator |-> FALSE, resetOnLogon |-> FALSE, sendNext |-> FALSE,
             test |-> FALSE, persist |-> FALSE]
Initiator == [Acceptor EXCEPT !.initiator = TRUE]
NextExpected(cfg) == [cfg EXCEPT !.sendNext = TRUE]
Resetting(cfg) == [cfg EXCEPT !.resetOnLogon = TRUE]
Persisting(cfg) == [cfg EXCEPT !.persist = TRUE]

At(seqs, m) == {[m EXCEPT !.seq = n] : n \in seqs}
Twice(ms) == ms \cup {[m EXCEPT !.dup = TRUE] : m \in ms}

Logons(seqs) == At(seqs, Plain("Logon"))
LogonsNext(seqs, nexts) ==
    UNION {At(seqs, [Plain("Logon") EXCEPT !.next = n]) : n \in nexts}
Apps(seqs) == At(seqs, App(1))
Resends(seqs, begins, ends) ==
    UNION {At(seqs, [Plain("ResendRequest") EXCEPT !.begin = b, !.end = e])
             : b \in begins, e \in ends}
GapFills(seqs, news) ==
    UNION {At(seqs, [Plain("SequenceReset") EXCEPT !.new = n, !.gap = TRUE, !.dup = TRUE])
             : n \in news}
Resets(seqs, news) == UNION {At(seqs, [Plain("SequenceReset") EXCEPT !.new = n]) : n \in news}

-----------------------------------------------------------------------------
(* Inbound traffic, by the question a run asks *)

\* Gaps, duplicates, gap fills and resets around a queue of a few messages.
Gaps == Logons({1, 2}) \cup Apps(1..4) \cup GapFills(1..3, 2..4) \cup Resets({1, 3}, {2, 4})
        \cup At(2..3, Plain("Logout"))

\* A gap that is filled past a queued message, and another one after it.
Skips == Logons({1}) \cup Apps({3, 4, 5}) \cup GapFills({2}, {4})

\* Requests for replay, by ResendRequest and by tag 789.
Replays == LogonsNext({1, 2}, {Absent, 1, 2}) \cup Resends({1, 2, 3}, {0, 1, 2}, {0, 3})

\* Everything validateMessage and the handlers refuse.
Malformed ==
    Logons({1}) \cup Apps({2})
    \cup {[Plain("App") EXCEPT !.seq = 2, !.flaw = f, !.dup = TRUE]
             : f \in Flaws \ {"none", "noField"}}
    \cup {[m EXCEPT !.flaw = "noField"] : m \in At({2, 3}, Plain("TestRequest"))
             \cup At({2}, Plain("ResendRequest")) \cup At({2}, Plain("SequenceReset"))
             \cup At({1}, Plain("Logon"))}
    \cup {[m EXCEPT !.test = TRUE] : m \in Logons({1})}
    \cup {[m EXCEPT !.reset = TRUE] : m \in Logons({0, 1})}
    \cup {[m EXCEPT !.reqId = 1] : m \in At({2, 3}, Plain("Heartbeat"))}
    \cup At({2}, Plain("TestRequest")) \cup At({2, 3}, Plain("Logout"))
    \cup At({2}, Plain("Reject")) \cup GapFills({2}, {1})

Few == Logons({1}) \cup Apps({2})

\* What makes a session act on numbers an operator changed.
Edited ==
    Few \cup Logons({2}) \cup Apps({3}) \cup Resends({2}, {1}, {0}) \cup GapFills({2, 3}, {1, 3})
    \cup Resets({2}, {1, 3}) \cup At({2}, Plain("Logout")) \cup At({2, 3}, Plain("TestRequest"))

-----------------------------------------------------------------------------
(* Scenarios *)

Calm(inbound, cfgs, maxSeq) ==
    [inbound |-> inbound, cfgs |-> cfgs, maxSeq |-> maxSeq, maxEdits |-> 0, maxStarts |-> 1,
     sendInReplay |-> FALSE, mayCongest |-> FALSE, mayCrash |-> FALSE]

BothRoles == {Acceptor, Initiator}
WithReplay == {Acceptor, NextExpected(Acceptor), NextExpected(Initiator)}
WithStore == {Persisting(Acceptor), Persisting(Resetting(Initiator))}

Safety ==
    [gaps |-> Calm(Gaps, BothRoles, 3),
     replay |-> Calm(Replays, WithReplay, 3),
     busy |-> [Calm(Replays, {Acceptor}, 3) EXCEPT !.sendInReplay = TRUE],
     errors |-> [Calm(Malformed, {Initiator, Resetting(Acceptor)}, 2) EXCEPT !.mayCongest = TRUE],
     operator |-> [Calm(Edited, {Initiator, Resetting(Acceptor)}, 2)
                      EXCEPT !.maxEdits = 1, !.mayCongest = TRUE],
     store |-> [Calm(Few, WithStore, 2) EXCEPT !.maxStarts = 2, !.mayCrash = TRUE],
     timeouts |-> Calm(Malformed, {Initiator, NextExpected(Initiator)}, 3)]

Skipped == [skipped |-> Calm(Skips, {Acceptor}, 5)]
=============================================================================
