------------------------------- MODULE RecordLog -------------------------------
(***************************************************************************)
(* What a store file promises the session that writes to it: the records   *)
(* are kept in the order they were written, each once.  A crash loses a     *)
(* suffix of them, a reset all of them.                                     *)
(***************************************************************************)
EXTENDS Naturals, Sequences

CONSTANT Records

VARIABLE log

TypeOK == log \in Seq(Records)

Init == log = <<>>

Write(r) == log' = Append(log, r)

Wipe == log' = <<>>

Lose == \E n \in 0..Len(log) : log' = SubSeq(log, 1, n)

Next == (\E r \in Records : Write(r)) \/ Wipe \/ Lose

Spec == Init /\ [][Next]_log
=============================================================================
