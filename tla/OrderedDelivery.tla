---------------------------- MODULE OrderedDelivery ----------------------------
(***************************************************************************)
(* What a pair of FIX sessions promises its two applications, whatever      *)
(* happens to the connection: each gets the other's messages in the order   *)
(* they were sent, each once.  Nothing here says by what messages.          *)
(***************************************************************************)
EXTENDS Naturals, Sequences

CONSTANTS Sides, Payloads

VARIABLES
    sent,       \* sent[p]: what p's application has sent
    got         \* got[p]: what p's application has been given

dvars == <<sent, got>>

TypeOK ==
    /\ sent \in [Sides -> Seq(Payloads)]
    /\ got \in [Sides -> Seq(Payloads)]

Init ==
    /\ sent = [p \in Sides |-> <<>>]
    /\ got = [p \in Sides |-> <<>>]

Send(p, x) ==
    /\ sent' = [sent EXCEPT ![p] = Append(@, x)]
    /\ UNCHANGED got

\* p is given the next message of its peer q.
Deliver(p, q) ==
    /\ p # q
    /\ Len(got[p]) < Len(sent[q])
    /\ got' = [got EXCEPT ![p] = Append(@, sent[q][Len(@) + 1])]
    /\ UNCHANGED sent

Next ==
    \/ \E p \in Sides, x \in Payloads : Send(p, x)
    \/ \E p, q \in Sides : Deliver(p, q)

Spec == Init /\ [][Next]_dvars
=============================================================================
