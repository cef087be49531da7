----------------------------- MODULE MCSessionPair -----------------------------
(* Instances of SessionPair for TLC. *)
EXTENDS SessionPair, TLC

Plainly ==
    [p \in Sides |-> [initiator |-> p = "initiator", resetOnLogon |-> FALSE,
                      sendNext |-> FALSE, test |-> FALSE, persist |-> FALSE]]
NextExpected == [p \in Sides |-> [Plainly[p] EXCEPT !.sendNext = TRUE]]

Calm(maxApps, maxCuts, maxSeq) ==
    [cfg |-> Plainly, maxApps |-> maxApps, maxCuts |-> maxCuts, maxSeq |-> maxSeq,
     maxProbes |-> 0, intervals |-> {"logon"}, assume |-> Assumptions, live |-> FALSE]

\* A connection breaks under traffic; timers that run out at any moment.
Safety ==
    [recovery |-> Calm(2, 1, 5),
     probes |-> [Calm(1, 0, 3) EXCEPT !.maxProbes = 1, !.intervals = Timers,
                                      !.assume = @ \ {"patient"}]]

\* Room for as many logons as it takes.
Reunion == [reunion |-> [Calm(1, 1, 20) EXCEPT !.intervals = {"logon", "logout", "testRequest"},
                                               !.live = TRUE]]

Recoveries == Safety @@ Reunion

\* One message each, one broken connection.
OneCut == [cut |-> Calm(1, 1, 4)]

\* The default settings.
Defaults == [defaults |-> [Calm(0, 0, 6) EXCEPT !.cfg = NextExpected, !.live = TRUE]]
=============================================================================
