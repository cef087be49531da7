---------------------------- MODULE MCPersistence ----------------------------
(* Instances of Persistence for TLC. *)
EXTENDS Persistence

Bounds(maxSeq, maxStarts, maxResets, faults) ==
    [maxSeq |-> maxSeq, maxStarts |-> maxStarts, maxResets |-> maxResets, faults |-> faults]

Safety ==
    [crashes |-> Bounds(2, 2, 0, {"crash"}),
     twice |-> Bounds(1, 3, 0, {"crash"}),
     faults |-> Bounds(1, 1, 0, {"open", "write"}),
     reset |-> Bounds(1, 1, 1, {"write"})]

ResetAndStop == [resetAndStop |-> Bounds(2, 2, 1, {})]
=============================================================================
