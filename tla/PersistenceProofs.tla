--------------------------- MODULE PersistenceProofs ---------------------------
(***************************************************************************)
(* What holds of Persistence for every set of scenarios: the types; that   *)
(* queue, buffer, swap and write together keep the records of the session  *)
(* in the order of its calls, each once (WriterKeepsOrder); and what a     *)
(* process finds in the file it starts from: a message for every number    *)
(* (LoadedComplete), what the process before it had at its stop            *)
(* (StopDurable), and nothing from before a reset (ResetForgets).          *)
(***************************************************************************)
EXTENDS Persistence, FiniteSetTheorems, SequenceTheorems, TLAPS

-----------------------------------------------------------------------------
(* The largest of finitely many numbers *)

\* Stepping through a store file, load keeps the last record of a kind: a finite
\* set of positions has a last one.
LEMMA HasMax ==
    ASSUME NEW S \in SUBSET Int, IsFiniteSet(S), S # {}
    PROVE  Max(S) \in S /\ \A y \in S : Max(S) >= y
<1> DEFINE Above(x) == {y \in S : y > x}
           T == {Above(x) : x \in S}
<1>1. T \subseteq FiniteSubsetsOf(S)
  BY FS_FiniteSubsetsOfFinite
<1>2. T # {}
  OBVIOUS
<1>3. PICK U \in T : \A V \in T : ~ (<<V, U>> \in StrictSubsetOrdering(S))
  <2> HIDE DEF T
  <2>1. QED
    BY <1>1, <1>2, WFMin, FS_StrictSubsetOrderingWellFounded
<1>4. PICK x \in S : U = Above(x)
  OBVIOUS
<1>5. ASSUME NEW y \in S, y > x PROVE FALSE
  <2>1. \A z \in S : z > y => z > x
    BY <1>5
  <2>2. ~ (y > y)
    OBVIOUS
  <2>3. Above(y) \subseteq Above(x) /\ y \in Above(x) /\ y \notin Above(y)
    BY <1>5, <2>1, <2>2
  <2>4. <<Above(y), Above(x)>> \in StrictSubsetOrdering(S)
    BY <2>3 DEF StrictSubsetOrdering
  <2>5. QED
    BY <2>4, <1>3, <1>4
<1>6. \A y \in S : x >= y
  BY <1>5
<1>7. QED
  BY <1>6 DEF Max

-----------------------------------------------------------------------------
(* Types *)

FileRecords == Records \cup {Torn}

\* The bounds keep the numbers of records and messages in their sets.
LEMMA NumberSets ==
    ASSUME NEW name \in DOMAIN Scenarios
    PROVE  /\ SeqNums \subseteq Nat /\ Runs \subseteq Nat
           /\ 0 \in SeqNums /\ 1 \in SeqNums /\ 0 \in Runs
           /\ \A n \in SeqNums : n <= Scenarios[name].maxSeq => n + 1 \in SeqNums
           /\ \A n \in Nat : n <= Scenarios[name].maxStarts + Scenarios[name].maxResets => n \in Runs
<1>1. \A other \in DOMAIN Scenarios :
         /\ Scenarios[other].maxSeq \in Nat \ {0}
         /\ Scenarios[other].maxStarts \in Nat
         /\ Scenarios[other].maxResets \in Nat
  BY PersistenceAssumption DEF Environment
<1>2. \A n : n \in SeqNums <=> \E other \in DOMAIN Scenarios : n \in 0..Scenarios[other].maxSeq + 1
  BY DEF SeqNums
<1>3. \A n : n \in Runs <=> \E other \in DOMAIN Scenarios :
                              n \in 0..Scenarios[other].maxStarts + Scenarios[other].maxResets
  BY DEF Runs
<1>4. SeqNums \subseteq Nat /\ Runs \subseteq Nat
  BY <1>1, <1>2, <1>3
<1>5. 0 \in 0..Scenarios[name].maxSeq + 1 /\ 1 \in 0..Scenarios[name].maxSeq + 1
  BY <1>1
<1>6. 0 \in 0..Scenarios[name].maxStarts + Scenarios[name].maxResets
  BY <1>1
<1>7. ASSUME NEW n \in SeqNums, n <= Scenarios[name].maxSeq PROVE n + 1 \in SeqNums
  BY <1>1, <1>2, <1>4, <1>7
<1>8. ASSUME NEW n \in Nat, n <= Scenarios[name].maxStarts + Scenarios[name].maxResets
      PROVE  n \in Runs
  BY <1>1, <1>3, <1>8
<1>9. QED
  BY <1>2, <1>3, <1>4, <1>5, <1>6, <1>7, <1>8

\* The positions of some records in a file have a first and a last.
LEMMA FirstAndLast ==
    ASSUME NEW S, NEW recs \in Seq(S), NEW at \in SUBSET (DOMAIN recs), at # {}
    PROVE  /\ Max(at) \in at /\ Min(at) \in at
           /\ \A i \in at : Min(at) <= i /\ i <= Max(at)
<1>1. DOMAIN recs = 1..Len(recs) /\ Len(recs) \in Nat
  OBVIOUS
<1>2. IsFiniteSet(at) /\ at \in SUBSET Int
  <2>1. IsFiniteSet(1..Len(recs))
    BY <1>1, FS_Interval
  <2>2. QED
    BY <1>1, <2>1, FS_Subset
<1>3. Max(at) \in at /\ \A y \in at : Max(at) >= y
  BY <1>2, HasMax
<1> DEFINE opp == {0 - i : i \in at}
<1>4. IsFiniteSet(opp) /\ opp \in SUBSET Int /\ opp # {}
  <2>1. IsFiniteSet((0 - Len(recs))..0)
    BY <1>1, FS_Interval
  <2>2. \A i \in 1..Len(recs) : 0 - i \in (0 - Len(recs))..0
    BY <1>1
  <2>3. opp \in SUBSET ((0 - Len(recs))..0)
    BY <1>1, <2>2
  <2>4. IsFiniteSet(opp)
    BY <2>1, <2>3, FS_Subset
  <2>5. QED
    BY <1>2, <2>4
<1>5. Max(opp) \in opp /\ \A y \in opp : Max(opp) >= y
  <2> HIDE DEF opp
  <2>1. QED
    BY <1>4, HasMax
<1>6. PICK i \in at : Max(opp) = 0 - i
  BY <1>5
<1>7. \A j \in at : i <= j
  <2>1. ASSUME NEW j \in at PROVE i <= j
    <3>1. 0 - i >= 0 - j
      BY <1>5, <1>6
    <3>2. QED
      BY <1>2, <3>1
  <2>2. QED
    BY <2>1
<1>8. Min(at) \in at /\ \A j \in at : Min(at) <= j
  BY <1>7 DEF Min
<1>9. QED
  BY <1>1, <1>3, <1>8

\* A position that load finds: the last record of a kind there is.
LEMMA LastAt ==
    ASSUME NEW S, NEW recs \in Seq(S), NEW kind,
           \E i \in DOMAIN recs : recs[i].kind = kind
    PROVE  \E i \in DOMAIN recs :
             /\ recs[i].kind = kind /\ Last(recs, kind) = recs[i].n
             /\ \A j \in DOMAIN recs : recs[j].kind = kind => j <= i
<1> DEFINE at == {i \in DOMAIN recs : recs[i].kind = kind}
<1>1. at \in SUBSET (DOMAIN recs) /\ at # {}
  OBVIOUS
<1>2. Max(at) \in at /\ \A i \in at : i <= Max(at)
  <2> HIDE DEF at
  <2>1. QED
    BY <1>1, FirstAndLast
<1>3. Last(recs, kind) = recs[Max(at)].n
  BY <1>1 DEF Last
<1>4. QED
  BY <1>2, <1>3

\* Without a record of a kind the number is 1.
LEMMA LastNone ==
    ASSUME NEW recs, NEW kind, \A i \in DOMAIN recs : recs[i].kind # kind
    PROVE  Last(recs, kind) = 1
BY DEF Last

\* Numbers and messages read from a file are numbers and messages.
LEMMA ContentsType ==
    ASSUME NEW recs \in Seq(FileRecords), 1 \in SeqNums, 0 \in SeqNums, 0 \in Runs
    PROVE  Contents(recs) \in Data
<1>1. \A i \in DOMAIN recs : recs[i] \in FileRecords
  OBVIOUS
<1>2. \A r \in FileRecords : r.n \in SeqNums /\ r.run \in Runs
  BY DEF FileRecords, Records, Torn
<1>3. ASSUME NEW kind PROVE Last(recs, kind) \in SeqNums
  BY <1>1, <1>2, LastAt, LastNone
<1>4. Messages(recs) \in SUBSET Sent
  BY <1>1, <1>2 DEF Messages, Sent
<1>5. QED
  BY <1>3, <1>4 DEF Contents, Data

\* What is cut out of a file, and what is put together, are records again.
LEMMA SubSeqType ==
    ASSUME NEW S, NEW recs \in Seq(S), NEW m \in 1..Len(recs) + 1, NEW n \in 0..Len(recs)
    PROVE  SubSeq(recs, m, n) \in Seq(S)
<1>1. \A i \in m..n : recs[i] \in S
  OBVIOUS
<1>2. QED
  BY <1>1, SubSeqProperties

\* So is all that a load may give, of a torn file too.
LEMMA LoadsType ==
    ASSUME NEW recs \in Seq(FileRecords), 1 \in SeqNums, 0 \in SeqNums, 0 \in Runs
    PROVE  Loads(recs) \subseteq Data
<1> DEFINE torn == {i \in DOMAIN recs : recs[i] = Torn}
           head == SubSeq(recs, 1, Min(torn) - 1)
           from(j) == SubSeq(recs, j, Len(recs))
<1>1. NoData \in Data
  BY DEF NoData, Data
<1>2. CASE torn = {}
  BY <1>2, ContentsType DEF Loads
<1>3. CASE torn # {}
  <2>1. /\ Min(torn) \in 1..Len(recs) /\ Max(torn) \in 1..Len(recs) /\ Len(recs) \in Nat
    <3>1. DOMAIN recs = 1..Len(recs) /\ Len(recs) \in Nat
      OBVIOUS
    <3>2. torn \in SUBSET (DOMAIN recs)
      OBVIOUS
    <3> HIDE DEF torn
    <3>3. QED
      BY <1>3, <3>1, <3>2, FirstAndLast
  <2>2. ASSUME NEW j \in Max(torn) + 1 .. Len(recs) + 1
        PROVE  Contents(head \o from(j)) \in Data
    <3>1. head \in Seq(FileRecords) /\ from(j) \in Seq(FileRecords)
      <4> HIDE DEF torn
      <4>1. QED
        BY <2>1, <2>2, SubSeqType
    <3>2. head \o from(j) \in Seq(FileRecords)
      BY <3>1, ConcatProperties
    <3>3. QED
      BY <3>2, ContentsType
  <2>3. Loads(recs) \subseteq
          {NoData} \cup {Contents(head \o from(j)) : j \in Max(torn) + 1 .. Len(recs) + 1}
    BY <1>3 DEF Loads
  <2>4. QED
    BY <1>1, <2>2, <2>3
<1>4. QED
  BY <1>2, <1>3

\* Whatever part of the buffer is in the file, it holds records.
LEMMA CutsType ==
    ASSUME TypeOK
    PROVE  Cuts \subseteq Seq(FileRecords)
<1>1. file \in Seq(FileRecords) /\ buffer \in Seq(FileRecords) /\ <<Torn>> \in Seq(FileRecords)
  BY SeqMonotonic DEF TypeOK, FileRecords
<1>2. ASSUME NEW n \in 0..Len(buffer)
      PROVE  /\ file \o SubSeq(buffer, 1, n) \in Seq(FileRecords)
             /\ file \o SubSeq(buffer, 1, n) \o <<Torn>> \in Seq(FileRecords)
  <2>1. SubSeq(buffer, 1, n) \in Seq(FileRecords)
    BY <1>1, SubSeqType
  <2>2. file \o SubSeq(buffer, 1, n) \in Seq(FileRecords)
    BY <1>1, <2>1, ConcatProperties
  <2>3. QED
    BY <1>1, <2>2, ConcatProperties
<1>3. \A n \in 0..Len(buffer) - 1 : n \in 0..Len(buffer)
  BY <1>1
<1>4. QED
  BY <1>2, <1>3 DEF Cuts

\* The bounds on the process's starts and the cache's resets.
Counted ==
    /\ starts >= 1 /\ (starts = 1 \/ starts <= Env.maxStarts)
    /\ resets <= Env.maxResets

TypeInv == TypeOK /\ Counted

\* What the current scenario gives.
LEMMA CurrentEnvironment ==
    ASSUME TypeOK
    PROVE  /\ Env.maxSeq \in Nat \ {0} /\ Env.maxStarts \in Nat /\ Env.maxResets \in Nat
           /\ SeqNums \subseteq Nat /\ Runs \subseteq Nat
           /\ 0 \in SeqNums /\ 1 \in SeqNums /\ 0 \in Runs
           /\ \A n \in SeqNums : n <= Env.maxSeq => n + 1 \in SeqNums
           /\ \A n \in Nat : n <= Env.maxStarts + Env.maxResets => n \in Runs
BY NumberSets, PersistenceAssumption DEF TypeOK, Env, Environment

\* The number a message takes is within the bounds.
LEMMA SendType ==
    ASSUME TypeInv, Send
    PROVE  TypeInv'
<1> DEFINE new == [seq |-> mem.sender, run |-> starts + resets - 1]
<1>1. mem.sender \in SeqNums /\ mem.sender + 1 \in SeqNums
  BY CurrentEnvironment DEF TypeInv, TypeOK, Data, Send
<1>2. new \in Sent
  <2>1. starts + resets - 1 \in Nat /\ starts + resets - 1 <= Env.maxStarts + Env.maxResets
    BY CurrentEnvironment DEF TypeInv, TypeOK, Counted
  <2>2. QED
    BY <1>1, <2>1, CurrentEnvironment DEF TypeInv, Sent
<1>3. {m \in mem.msgs : m.seq # new.seq} \cup {new} \in SUBSET Sent
  BY <1>2 DEF TypeInv, TypeOK, Data
<1>4. mem' = [mem EXCEPT !.msgs = {m \in @ : m.seq # new.seq} \cup {new}, !.sender = @ + 1]
  BY DEF Send
<1> HIDE DEF new
<1>5. mem' \in Data
  BY <1>1, <1>3, <1>4 DEF TypeInv, TypeOK, Data
<1>6. pending' \in Seq(SeqNums)
  BY <1>1 DEF TypeInv, TypeOK, Send
<1>7. QED
  BY <1>5, <1>6
     DEF TypeInv, TypeOK, Counted, Env, Send, instanceVars, diskVars, lifeVars

\* WriterInstance::write queues records.
LEMMA EnqueueType ==
    ASSUME TypeOK, NEW r \in Records, Enqueue(r)
    PROVE  queue' \in Seq(Records) /\ marked' \in BOOLEAN
BY DEF TypeOK, Enqueue

\* A new process has records in its file and numbers from it.
LEMMA StartType ==
    ASSUME TypeInv, NEW recs \in Seq(FileRecords), StartFrom(recs), starts < Env.maxStarts
    PROVE  TypeInv'
<1>1. mem' \in Data
  BY CurrentEnvironment, LoadsType DEF TypeInv, StartFrom
<1>2. <<>> \in Seq(SeqNums) /\ <<>> \in Seq(Records)
  BY EmptySeq
<1>3. starts' \in Nat /\ starts' >= 1 /\ starts' <= Env.maxStarts
  BY CurrentEnvironment DEF TypeInv, TypeOK, Counted, StartFrom
<1>4. QED
  BY <1>1, <1>2, <1>3 DEF TypeInv, TypeOK, Counted, Env, StartFrom, Calls, FileRecords

\* No call of the cache breaks a type ...
LEMMA SessionThreadType ==
    ASSUME TypeInv, SessionThread
    PROVE  TypeInv'
<1> USE DEF TypeInv, TypeOK, Counted, Env, cacheVars, instanceVars, diskVars, lifeVars, Calls
<1>1. CASE Send
  BY <1>1, SendType
<1>2. CASE Receive
  <2>1. mem.target + 1 \in SeqNums
    BY <1>2, CurrentEnvironment DEF Receive, Data
  <2>2. QED
    BY <1>2, <2>1 DEF Receive, Data
<1>3. CASE Reset
  <2>1. mem' \in Data
    BY <1>3, CurrentEnvironment DEF Reset, Data
  <2>2. resets' \in Nat /\ resets' <= Env.maxResets
    BY <1>3, CurrentEnvironment DEF Reset
  <2>3. QED
    BY <1>3, <2>1, <2>2, EmptySeq DEF Reset
<1>4. CASE ResetMark
  BY <1>4 DEF ResetMark
<1>5. CASE Flush
  BY <1>5 DEF Flush
<1>6. CASE StoreMessage
  <2>1. PICK m \in mem.msgs : m.seq = Head(pending) /\ Enqueue(Msg(m))
    BY <1>6 DEF StoreMessage
  <2>2. Msg(m) \in Records
    BY DEF Msg, Records, Data, Sent
  <2>3. queue' \in Seq(Records) /\ marked' \in BOOLEAN
    BY <2>1, <2>2, EnqueueType
  <2>4. pending' \in Seq(SeqNums)
    BY <1>6 DEF StoreMessage
  <2>5. QED
    BY <1>6, <2>3, <2>4 DEF StoreMessage
<1>7. CASE MessagesStored
  BY <1>7 DEF MessagesStored
<1>8. CASE StoreSender
  <2>1. Number("SENDER", mem.sender) \in Records
    BY DEF Number, Records, Data
  <2>2. QED
    BY <1>8, <2>1, EnqueueType DEF StoreSender
<1>9. CASE StoreTarget
  <2>1. Number("TARGET", mem.target) \in Records
    BY DEF Number, Records, Data
  <2>2. QED
    BY <1>9, <2>1, EnqueueType DEF StoreTarget
<1>10. QED
  BY <1>1, <1>2, <1>3, <1>4, <1>5, <1>6, <1>7, <1>8, <1>9 DEF SessionThread

\* ... and neither does the writer's loop.
LEMMA WriterThreadType ==
    ASSUME TypeInv, WriterThread
    PROVE  TypeInv'
<1> USE DEF TypeInv, TypeOK, Counted, Env, cacheVars, instanceVars, diskVars, lifeVars
<1>1. CASE Scan
  BY <1>1 DEF Scan
<1>2. CASE Wipe
  <2>1. file' \in Seq(Records \cup {Torn})
    BY <1>2, EmptySeq DEF Wipe
  <2>2. QED
    BY <1>2, <2>1, EmptySeq DEF Wipe
<1>3. CASE Swap
  BY <1>3 DEF Swap
<1>4. CASE AppendBuffer
  <2>1. file \o buffer \in Seq(Records \cup {Torn})
    BY SeqMonotonic, ConcatProperties
  <2>2. QED
    BY <1>4, <2>1, EmptySeq DEF AppendBuffer
<1>5. CASE OpenFails
  BY <1>5 DEF OpenFails
<1>6. CASE WriteFails
  <2>1. file' \in Seq(FileRecords)
    BY <1>6, CutsType DEF WriteFails
  <2>2. QED
    BY <1>6, <2>1, EmptySeq DEF WriteFails, FileRecords
<1>7. QED
  BY <1>1, <1>2, <1>3, <1>4, <1>5, <1>6 DEF WriterThread

\* The type invariant with the bounds it needs is inductive.
LEMMA TypeInvariant == Spec => []TypeInv
<1>1. Init => TypeInv
  <2> SUFFICES ASSUME Init PROVE TypeInv
    OBVIOUS
  <2>1. env \in DOMAIN Scenarios
    BY DEF Init
  <2>2. mem \in Data
    BY <2>1, NumberSets DEF Init, NoData, Data
  <2>3. Env.maxResets \in Nat
    BY <2>1, PersistenceAssumption DEF Env, Environment
  <2>4. TypeOK
    BY <2>1, <2>2, EmptySeq DEF Init, TypeOK, Calls
  <2>5. Counted
    BY <2>3 DEF Init, Counted
  <2>6. QED
    BY <2>4, <2>5 DEF TypeInv
<1>2. TypeInv /\ [Next]_vars => TypeInv'
  <2> SUFFICES ASSUME TypeInv, [Next]_vars PROVE TypeInv'
    OBVIOUS
  <2> USE DEF TypeInv, TypeOK, Counted, Env, cacheVars, instanceVars, diskVars, lifeVars, Calls
  <2>1. CASE SessionThread
    BY <2>1, SessionThreadType
  <2>2. CASE WriterThread
    BY <2>2, WriterThreadType
  <2>3. CASE Stop
    BY <2>3 DEF Stop
  <2>4. CASE StopWriter
    BY <2>4 DEF StopWriter
  <2>5. CASE LastFlush
    BY <2>5 DEF LastFlush
  <2>6. CASE Close
    BY <2>6 DEF Close
  <2>7. CASE Restart
    BY <2>7, StartType DEF Restart, FileRecords
  <2>8. CASE Crash
    <3>1. PICK recs \in (IF writer = "write" THEN Cuts ELSE {file}) : StartFrom(recs)
      BY <2>8 DEF Crash
    <3>2. recs \in Seq(FileRecords)
      BY <3>1, CutsType DEF FileRecords
    <3>3. QED
      BY <2>8, <3>1, <3>2, StartType DEF Crash
  <2>9. CASE UNCHANGED vars
    BY <2>9 DEF vars
  <2>10. QED
    BY <2>1, <2>2, <2>3, <2>4, <2>5, <2>6, <2>7, <2>8, <2>9 DEF Next
<1>3. QED
  BY <1>1, <1>2, PTL DEF Spec

\* Cache, instance, writer and file stay of their types, whatever the scenario.
THEOREM TypeCorrect == Spec => []TypeOK
<1>1. TypeInv => TypeOK
  BY DEF TypeInv
<1>2. QED
  BY <1>1, TypeInvariant, PTL

-----------------------------------------------------------------------------
(* The order of the records *)

\* What the writer's loop leaves between its steps when no write fails: the buffer
\* is empty except while it is written, and a queue that is not is marked.
Kept ==
    Reliable =>
        /\ file \in Seq(Records)
        /\ writer # "write" => buffer = <<>>
        /\ queue # <<>> => marked

\* The log is a sequence of records; of a reliable file, of whole ones.
LEMMA WrittenType ==
    ASSUME TypeOK
    PROVE  /\ Written \in Seq(FileRecords) /\ Len(file) \in 0..Len(Written)
           /\ file \in Seq(FileRecords) /\ buffer \in Seq(FileRecords) /\ queue \in Seq(FileRecords)
           /\ Reliable /\ Kept => Written \in Seq(Records)
<1>1. file \in Seq(FileRecords) /\ buffer \in Seq(FileRecords) /\ queue \in Seq(FileRecords)
  BY SeqMonotonic DEF TypeOK, FileRecords
<1>2. Written \in Seq(FileRecords) /\ Len(Written) = Len(file) + Len(buffer) + Len(queue)
  <2>1. file \o buffer \in Seq(FileRecords) /\ Len(file \o buffer) = Len(file) + Len(buffer)
    BY <1>1, ConcatProperties
  <2>2. QED
    BY <1>1, <2>1, ConcatProperties DEF Written
<1>3. ASSUME Reliable, Kept PROVE Written \in Seq(Records)
  <2>1. file \o buffer \in Seq(Records)
    BY <1>3, ConcatProperties DEF Kept, TypeOK
  <2>2. QED
    BY <2>1, ConcatProperties DEF TypeOK, Written
<1>4. QED
  BY <1>1, <1>2, <1>3

\* A record that is put in the queue comes after all that were written before.
LEMMA EnqueueWritten ==
    ASSUME TypeOK, NEW r \in Records, Enqueue(r), UNCHANGED <<file, buffer>>
    PROVE  Written' = Append(Written, r)
<1>1. Written' = (file \o buffer) \o Append(queue, r)
  BY DEF Written, Enqueue
<1>2. r \in FileRecords
  BY DEF FileRecords
<1>3. Append(queue, r) = queue \o <<r>> /\ <<r>> \in Seq(FileRecords)
  BY <1>2, WrittenType, AppendIsConcat
<1>4. file \o buffer \in Seq(FileRecords)
  BY WrittenType, ConcatProperties
<1>5. (file \o buffer) \o (queue \o <<r>>) = Written \o <<r>>
  <2> DEFINE done == file \o buffer
  <2>1. done \in Seq(FileRecords) /\ queue \in Seq(FileRecords) /\ Written = done \o queue
    BY <1>4, WrittenType DEF Written
  <2> HIDE DEF done
  <2>2. (done \o queue) \o <<r>> = done \o (queue \o <<r>>)
    BY <1>3, <2>1, ConcatAssociative
  <2>3. QED
    BY <2>1, <2>2 DEF done
<1>6. QED
  BY <1>1, <1>2, <1>3, <1>5, WrittenType, AppendIsConcat

\* The swap of queue and buffer changes no order when the buffer was empty ...
LEMMA SwapWritten ==
    ASSUME TypeOK, Kept, Reliable, Swap
    PROVE  Written' = Written
<1>1. buffer = <<>>
  BY DEF Swap, Kept
<1>2. CASE queue = <<>>
  BY <1>2 DEF Swap, Written
<1>3. CASE queue # <<>>
  <2>1. Written' = (file \o queue) \o <<>> /\ Written = (file \o <<>>) \o queue
    BY <1>1, <1>3 DEF Swap, Written
  <2>2. file \o queue \in Seq(FileRecords)
    BY WrittenType, ConcatProperties
  <2>3. QED
    BY <2>1, <2>2, WrittenType, ConcatEmptySeq
<1>4. QED
  BY <1>2, <1>3

\* ... and neither does the write.
LEMMA AppendBufferWritten ==
    ASSUME TypeOK, AppendBuffer
    PROVE  Written' = Written
<1>1. Written' = ((file \o buffer) \o <<>>) \o queue
  BY DEF AppendBuffer, Written
<1>2. file \o buffer \in Seq(FileRecords)
  BY WrittenType, ConcatProperties
<1>3. QED
  BY <1>1, <1>2, ConcatEmptySeq DEF Written

\* A new process has written what its file holds.
LEMMA StartWritten ==
    ASSUME NEW recs \in Seq(FileRecords), StartFrom(recs)
    PROVE  Written' = recs
<1>1. Written' = (recs \o <<>>) \o <<>>
  BY DEF StartFrom, Written
<1>2. QED
  BY <1>1, ConcatEmptySeq

\* Part of what was appended is a prefix of the whole.
LEMMA PrefixOfConcat ==
    ASSUME NEW S, NEW s \in Seq(S), NEW t \in Seq(S), NEW n \in 0..Len(t)
    PROVE  /\ s \o SubSeq(t, 1, n) = SubSeq(s \o t, 1, Len(s) + n)
           /\ Len(s) + n \in 0..Len(s \o t)
<1>1. s \o t \in Seq(S) /\ Len(s \o t) = Len(s) + Len(t)
  BY ConcatProperties
<1>2. SubSeq(t, 1, n) \in Seq(S) /\ Len(SubSeq(t, 1, n)) = n
  OBVIOUS
<1>3. s \o SubSeq(t, 1, n) \in Seq(S) /\ Len(s \o SubSeq(t, 1, n)) = Len(s) + n
  BY <1>2, ConcatProperties
<1>4. SubSeq(s \o t, 1, Len(s) + n) \in Seq(S) /\ Len(SubSeq(s \o t, 1, Len(s) + n)) = Len(s) + n
  BY <1>1
<1>5. ASSUME NEW i \in 1..Len(s) + n
      PROVE  (s \o SubSeq(t, 1, n))[i] = SubSeq(s \o t, 1, Len(s) + n)[i]
  BY <1>1, <1>2, <1>3, <1>4, ConcatProperties
<1>6. s \o SubSeq(t, 1, n) = SubSeq(s \o t, 1, Len(s) + n)
  BY <1>3, <1>4, <1>5, SeqEqual
<1>7. QED
  BY <1>1, <1>6

\* A crash of a reliable file loses a suffix of what was written.
LEMMA CrashLoses ==
    ASSUME TypeOK, Reliable,
           NEW recs \in (IF writer = "write" THEN Cuts ELSE {file})
    PROVE  \E n \in 0..Len(Written) : recs = SubSeq(Written, 1, n)
<1>1. file \o buffer \in Seq(FileRecords)
  BY WrittenType, ConcatProperties
<1>2. ASSUME NEW k \in 0..Len(file \o buffer)
      PROVE  /\ SubSeq(Written, 1, k) = SubSeq(file \o buffer, 1, k)
             /\ k \in 0..Len(Written)
  <2>1. SubSeq(file \o buffer, 1, k) = SubSeq((file \o buffer) \o queue, 1, k)
    <3>1. CASE k = 0
      BY <3>1, SubSeqEmpty
    <3>2. CASE k # 0
      BY <1>1, <3>2, WrittenType, SubSeqOfConcat1
    <3>3. QED
      BY <3>1, <3>2
  <2>2. Len(Written) = Len(file \o buffer) + Len(queue)
    BY <1>1, WrittenType, ConcatProperties DEF Written
  <2>3. QED
    BY <1>1, <2>1, <2>2, WrittenType DEF Written
<1>3. CASE recs = file
  <2>1. file = SubSeq(file, 1, Len(file)) /\ Len(file) \in Nat
    BY WrittenType, SubSeqFull
  <2>2. SubSeq(file, 1, Len(file)) = SubSeq(file \o buffer, 1, Len(file))
    BY WrittenType, PrefixOfConcat, SubSeqEmpty, ConcatEmptySeq
  <2>3. Len(file) \in 0..Len(file \o buffer)
    BY WrittenType, ConcatProperties
  <2>4. QED
    BY <1>2, <1>3, <2>1, <2>2, <2>3
<1>4. CASE recs # file
  <2>1. "tear" \notin Env.faults
    BY DEF Reliable
  <2>2. PICK n \in 0..Len(buffer) : recs = file \o SubSeq(buffer, 1, n)
    BY <1>4, <2>1 DEF Cuts
  <2>3. recs = SubSeq(file \o buffer, 1, Len(file) + n) /\ Len(file) + n \in 0..Len(file \o buffer)
    BY <2>2, WrittenType, PrefixOfConcat
  <2>4. QED
    BY <1>2, <2>3
<1>5. QED
  BY <1>3, <1>4

\* A reliable file holds whole records only.
LEMMA ReliableRecords ==
    ASSUME TypeOK, Kept, Reliable,
           NEW recs \in (IF writer = "write" THEN Cuts ELSE {file})
    PROVE  recs \in Seq(Records)
<1>1. PICK n \in 0..Len(Written) : recs = SubSeq(Written, 1, n)
  BY CrashLoses
<1>2. Written \in Seq(Records)
  BY WrittenType
<1>3. QED
  BY <1>1, <1>2, SubSeqType

\* No step changes the scenario, and no step takes a reset back.
LEMMA ScenarioStays ==
    ASSUME TypeOK, [Next]_vars
    PROVE  /\ env' = env /\ Env' = Env /\ (Reliable' <=> Reliable)
           /\ resets' = resets \/ Reset
           /\ resets' = 0 => resets = 0
<1> USE DEF cacheVars, instanceVars, diskVars, lifeVars
<1>1. env' = env /\ (resets' = resets \/ (Reset /\ resets' = resets + 1))
  BY DEF Next, SessionThread, Send, Receive, Reset, ResetMark, Flush, StoreMessage,
         MessagesStored, StoreSender, StoreTarget, WriterThread, Scan, Wipe, Swap,
         AppendBuffer, OpenFails, WriteFails, Stop, StopWriter, LastFlush, Close,
         Restart, Crash, StartFrom, vars
<1>2. Env' = Env
  BY <1>1 DEF Env
<1>3. QED
  BY <1>1, <1>2 DEF TypeOK, Reliable

\* Only a failing write would leave a buffer behind.
LEMMA KeptStep ==
    ASSUME TypeInv, Kept, [Next]_vars
    PROVE  Kept'
<1> SUFFICES ASSUME Reliable'
             PROVE  /\ (file \in Seq(Records))'
                    /\ (writer # "write" => buffer = <<>>)'
                    /\ (queue # <<>> => marked)'
  BY DEF Kept
<1> USE DEF cacheVars, instanceVars, diskVars, lifeVars
<1>1. Reliable
  BY ScenarioStays DEF TypeInv
<1>2. /\ file \in Seq(Records)
      /\ writer # "write" => buffer = <<>>
      /\ queue # <<>> => marked
  BY <1>1 DEF Kept
<1>3. CASE SessionThread
  BY <1>2, <1>3 DEF SessionThread, Send, Receive, Reset, ResetMark, Flush, StoreMessage,
                    MessagesStored, StoreSender, StoreTarget, Enqueue
<1>4. CASE WriterThread
  <2>1. CASE Scan
    BY <1>2, <2>1 DEF Scan
  <2>2. CASE Wipe
    BY <1>2, <2>2, EmptySeq DEF Wipe
  <2>3. CASE Swap
    BY <1>2, <2>3 DEF Swap
  <2>4. CASE AppendBuffer
    <3>1. file \o buffer \in Seq(Records)
      BY <1>2, ConcatProperties DEF TypeInv, TypeOK
    <3>2. QED
      BY <1>2, <2>4, <3>1 DEF AppendBuffer
  <2>5. CASE OpenFails
    BY <1>1, <2>5 DEF OpenFails, Reliable
  <2>6. CASE WriteFails
    BY <1>1, <2>6 DEF WriteFails, Reliable
  <2>7. QED
    BY <1>4, <2>1, <2>2, <2>3, <2>4, <2>5, <2>6 DEF WriterThread
<1>5. CASE Stop \/ StopWriter \/ LastFlush \/ Close
  BY <1>2, <1>5 DEF Stop, StopWriter, LastFlush, Close
<1>6. CASE Restart
  BY <1>2, <1>6 DEF Restart, StartFrom
<1>7. CASE Crash
  <2>1. PICK recs \in (IF writer = "write" THEN Cuts ELSE {file}) : StartFrom(recs)
    BY <1>7 DEF Crash
  <2>2. recs \in Seq(Records)
    BY <1>1, ReliableRecords DEF TypeInv
  <2>3. QED
    BY <2>1, <2>2 DEF StartFrom
<1>8. CASE UNCHANGED vars
  BY <1>2, <1>8 DEF vars
<1>9. QED
  BY <1>3, <1>4, <1>5, <1>6, <1>7, <1>8 DEF Next

\* So it is in every reachable state.
LEMMA KeptInvariant == Spec => []Kept
<1>1. Init => Kept
  BY EmptySeq DEF Init, Kept
<1>2. TypeInv /\ Kept /\ [Next]_vars => Kept'
  BY KeptStep
<1>3. QED
  BY <1>1, <1>2, TypeInvariant, PTL DEF Spec

\* The steps of a reliable file, as steps of the log: one record more, a prefix, or
\* nothing at all.
LEMMA LogStep ==
    ASSUME TypeInv, Kept, Reliable, [Next]_vars
    PROVE  \/ \E r \in Records : Written' = Append(Written, r)
           \/ Written' = <<>>
           \/ \E n \in 0..Len(Written) : Written' = SubSeq(Written, 1, n)
           \/ Written' = Written
<1> USE DEF TypeInv, cacheVars, instanceVars, diskVars, lifeVars
<1>1. CASE SessionThread
  <2>1. CASE StoreMessage
    <3>1. PICK m \in mem.msgs : m.seq = Head(pending) /\ Enqueue(Msg(m))
      BY <2>1 DEF StoreMessage
    <3>2. Msg(m) \in Records
      BY DEF TypeOK, Msg, Records, Data, Sent
    <3>3. QED
      BY <2>1, <3>1, <3>2, EnqueueWritten DEF StoreMessage
  <2>2. CASE StoreSender
    <3>1. Number("SENDER", mem.sender) \in Records
      BY DEF TypeOK, Number, Records, Data
    <3>2. QED
      BY <2>2, <3>1, EnqueueWritten DEF StoreSender
  <2>3. CASE StoreTarget
    <3>1. Number("TARGET", mem.target) \in Records
      BY DEF TypeOK, Number, Records, Data
    <3>2. QED
      BY <2>3, <3>1, EnqueueWritten DEF StoreTarget
  <2>4. CASE Send \/ Receive \/ Reset \/ ResetMark \/ Flush \/ MessagesStored
    BY <2>4 DEF Send, Receive, Reset, ResetMark, Flush, MessagesStored, Written
  <2>5. QED
    BY <1>1, <2>1, <2>2, <2>3, <2>4 DEF SessionThread
<1>2. CASE WriterThread
  <2>1. CASE Scan
    BY <2>1 DEF Scan, Written
  <2>2. CASE Wipe
    <3>1. Written' = (file' \o <<>>) \o <<>> /\ (file' = <<>> \/ file' = file)
      BY <2>2 DEF Wipe, Written
    <3>2. Written' = <<>> \/ Written' = file
      BY <3>1, EmptySeq, WrittenType, ConcatEmptySeq
    <3>3. file \in (IF writer = "write" THEN Cuts ELSE {file})
      BY <2>2 DEF Wipe
    <3>4. QED
      BY <3>2, <3>3, CrashLoses
  <2>3. CASE Swap
    BY <2>3, SwapWritten
  <2>4. CASE AppendBuffer
    BY <2>4, AppendBufferWritten
  <2>5. CASE OpenFails \/ WriteFails
    BY <2>5 DEF OpenFails, WriteFails, Reliable
  <2>6. QED
    BY <1>2, <2>1, <2>2, <2>3, <2>4, <2>5 DEF WriterThread
<1>3. CASE Stop \/ StopWriter \/ LastFlush \/ Close
  BY <1>3 DEF Stop, StopWriter, LastFlush, Close, Written
<1>4. CASE Restart \/ Crash
  <2>1. PICK recs \in Seq(FileRecords) : StartFrom(recs) /\
               \E n \in 0..Len(Written) : recs = SubSeq(Written, 1, n)
    <3>1. CASE Restart
      <4>1. file \in (IF writer = "write" THEN Cuts ELSE {file})
        <5>1. file = file \o SubSeq(buffer, 1, 0) /\ 0 \in 0..Len(buffer)
          BY WrittenType, SubSeqEmpty, ConcatEmptySeq
        <5>2. QED
          BY <5>1 DEF Cuts
      <4>2. QED
        BY <3>1, <4>1, WrittenType, CrashLoses DEF Restart
    <3>2. CASE Crash
      BY <3>2, WrittenType, CutsType, CrashLoses DEF Crash
    <3>3. QED
      BY <1>4, <3>1, <3>2
  <2>2. QED
    BY <2>1, StartWritten
<1>5. CASE UNCHANGED vars
  BY <1>5 DEF vars, Written
<1>6. QED
  BY <1>1, <1>2, <1>3, <1>4, <1>5 DEF Next

\* The instance's queue and buffer, the swap under its lock and the write outside it
\* implement the log: records in the order of the calls, each once, and only a suffix
\* is ever lost, as long as files open and writes succeed.
THEOREM ImplementsLog == Spec => WriterKeepsOrder
<1>1. Init => Log!Init
  BY EmptySeq, ConcatEmptySeq DEF Init, Log!Init, Written
<1>2. TypeInv /\ Kept /\ [Next]_vars => [Reliable => Log!Next]_Written
  BY LogStep DEF Log!Next, Log!Write, Log!Wipe, Log!Lose
<1>3. QED
  BY <1>1, <1>2, TypeInvariant, KeptInvariant, PTL DEF Spec, WriterKeepsOrder

-----------------------------------------------------------------------------
(* What load finds *)

\* Some record has the message of number n.
Stored(recs, n) == \E i \in DOMAIN recs : recs[i].kind = "MSG" /\ recs[i].n = n

\* Before every sender number there are the messages of all numbers below it.
Covered(recs) ==
    \A i \in DOMAIN recs : recs[i].kind = "SENDER" =>
        \A n \in 1..recs[i].n - 1 : \E j \in 1..i : recs[j].kind = "MSG" /\ recs[j].n = n

\* Without torn records load gives what the records say.
LEMMA LoadsWhole ==
    ASSUME NEW recs \in Seq(Records)
    PROVE  Loads(recs) = {Contents(recs)}
<1>1. Torn \notin Records
  BY DEF Torn, Records
<1>2. \A i \in DOMAIN recs : recs[i] # Torn
  BY <1>1
<1>3. QED
  BY <1>2 DEF Loads

\* One more record stores one more message at most.
LEMMA StoredAppend ==
    ASSUME NEW recs \in Seq(FileRecords), NEW r \in FileRecords, NEW n
    PROVE  Stored(Append(recs, r), n) <=> Stored(recs, n) \/ (r.kind = "MSG" /\ r.n = n)
<1>1. /\ DOMAIN recs = 1..Len(recs) /\ DOMAIN Append(recs, r) = 1..Len(recs) + 1
      /\ Len(recs) \in Nat
      /\ \A i \in 1..Len(recs) : Append(recs, r)[i] = recs[i]
      /\ Append(recs, r)[Len(recs) + 1] = r
  OBVIOUS
<1>2. \A i : i \in 1..Len(recs) + 1 <=> i \in 1..Len(recs) \/ i = Len(recs) + 1
  BY <1>1
<1>3. QED
  BY <1>1, <1>2 DEF Stored

\* Writing a number after the messages below it keeps the order ...
LEMMA CoveredAppend ==
    ASSUME NEW recs \in Seq(FileRecords), NEW r \in FileRecords, Covered(recs),
           r.kind = "SENDER" => \A n \in 1..r.n - 1 : Stored(recs, n)
    PROVE  Covered(Append(recs, r))
<1> DEFINE more == Append(recs, r)
<1>1. /\ DOMAIN recs = 1..Len(recs) /\ DOMAIN more = 1..Len(recs) + 1 /\ Len(recs) \in Nat
      /\ \A i \in 1..Len(recs) : more[i] = recs[i]
      /\ more[Len(recs) + 1] = r
  OBVIOUS
<1> HIDE DEF more
<1> SUFFICES ASSUME NEW i \in 1..Len(recs) + 1, more[i].kind = "SENDER",
                    NEW n \in 1..more[i].n - 1
             PROVE  \E j \in 1..i : more[j].kind = "MSG" /\ more[j].n = n
  BY <1>1 DEF Covered, more
<1>2. CASE i \in 1..Len(recs)
  <2>1. PICK j \in 1..i : recs[j].kind = "MSG" /\ recs[j].n = n
    BY <1>1, <1>2 DEF Covered
  <2>2. j \in 1..Len(recs)
    BY <1>1, <1>2
  <2>3. QED
    BY <1>1, <2>1, <2>2
<1>3. CASE i = Len(recs) + 1
  <2>1. PICK j \in 1..Len(recs) : recs[j].kind = "MSG" /\ recs[j].n = n
    BY <1>1, <1>3 DEF Stored
  <2>2. j \in 1..i
    BY <1>1, <1>3
  <2>3. QED
    BY <1>1, <2>1, <2>2
<1>4. QED
  BY <1>1, <1>2, <1>3

\* ... and so does losing a suffix.
LEMMA CoveredPrefix ==
    ASSUME NEW recs \in Seq(FileRecords), NEW k \in 0..Len(recs), Covered(recs)
    PROVE  Covered(SubSeq(recs, 1, k))
<1> DEFINE part == SubSeq(recs, 1, k)
<1>1. DOMAIN part = 1..k /\ \A i \in 1..k : part[i] = recs[i]
  OBVIOUS
<1>2. DOMAIN recs = 1..Len(recs) /\ \A i \in 1..k : i \in 1..Len(recs) /\ 1..i \subseteq 1..k
  OBVIOUS
<1> HIDE DEF part
<1>3. Covered(part)
  BY <1>1, <1>2 DEF Covered
<1>4. QED
  BY <1>3 DEF part

\* Of a number that is stored, load finds a message, and only of those.
LEMMA MessagesOf ==
    ASSUME NEW S, NEW recs \in Seq(S), NEW n
    PROVE  Stored(recs, n) <=> \E m \in Messages(recs) : m.seq = n
<1>1. ASSUME Stored(recs, n) PROVE \E m \in Messages(recs) : m.seq = n
  <2> DEFINE at == {i \in DOMAIN recs : recs[i].kind = "MSG" /\ recs[i].n = n}
  <2>1. at \in SUBSET (DOMAIN recs) /\ at # {}
    BY <1>1 DEF Stored
  <2>2. Max(at) \in at /\ \A k \in at : k <= Max(at)
    <3> HIDE DEF at
    <3>1. QED
      BY <2>1, FirstAndLast
  <2>3. ASSUME NEW k \in DOMAIN recs, k > Max(at)
        PROVE  recs[k].kind # "MSG" \/ recs[k].n # recs[Max(at)].n
    <3>1. k \in Nat /\ Max(at) \in Nat
      BY <2>1, <2>2
    <3>2. k \notin at
      <4> HIDE DEF at
      <4>1. QED
        BY <2>2, <2>3, <3>1
    <3>3. QED
      BY <2>2, <3>2
  <2>4. [seq |-> recs[Max(at)].n, run |-> recs[Max(at)].run] \in Messages(recs)
    BY <2>2, <2>3 DEF Messages
  <2>5. QED
    BY <2>2, <2>4
<1>2. ASSUME NEW m \in Messages(recs), m.seq = n PROVE Stored(recs, n)
  BY <1>2 DEF Messages, Stored
<1>3. QED
  BY <1>1, <1>2

\* Numbers are loaded with the messages they need.
LEMMA CoveredContents ==
    ASSUME NEW recs \in Seq(Records), Covered(recs),
           NEW n \in 1..Contents(recs).sender - 1
    PROVE  Stored(recs, n) /\ \E m \in Contents(recs).msgs : m.seq = n
<1>1. n \in 1..Last(recs, "SENDER") - 1
  BY DEF Contents
<1>2. \E i \in DOMAIN recs : recs[i].kind = "SENDER"
  BY <1>1, LastNone
<1>3. PICK i \in DOMAIN recs : recs[i].kind = "SENDER" /\ Last(recs, "SENDER") = recs[i].n
  BY <1>2, LastAt
<1>4. PICK j \in 1..i : recs[j].kind = "MSG" /\ recs[j].n = n
  BY <1>1, <1>3 DEF Covered
<1>5. Stored(recs, n)
  BY <1>3, <1>4 DEF Stored
<1>6. QED
  BY <1>5, MessagesOf DEF Contents

-----------------------------------------------------------------------------
(* The stages of a stop *)

\* Where the session's thread, the writer and the flags can be while the process
\* stops: Session::stop flushes, then FileWriter::stop joins and flushes.
Stages ==
    /\ call = "reset" => life = "running"
    /\ life # "running" /\ call # "messages" => pending = <<>> /\ ~changed
    /\ life \in {"joining", "closing", "stopped"} => call = "none"
    /\ call \in {"sender", "target"} => pending = <<>>
    /\ life \in {"closing", "stopped"} /\ writer # "lock" => ~marked
    /\ life = "stopped" => writer = "scan"
    /\ shouldReset => marked \/ call = "reset"

\* Every step keeps the stages.
LEMMA StagesStep ==
    ASSUME TypeOK, Stages, [Next]_vars
    PROVE  Stages'
<1> USE DEF TypeOK, Calls, Stages, cacheVars, instanceVars, diskVars, lifeVars
<1>1. CASE Send \/ Receive
  BY <1>1 DEF Send, Receive, Idle
<1>2. CASE Reset
  BY <1>2 DEF Reset, Idle
<1>3. CASE ResetMark
  BY <1>3 DEF ResetMark
<1>4. CASE Flush
  BY <1>4 DEF Flush, Idle
<1>5. CASE StoreMessage
  BY <1>5 DEF StoreMessage, Enqueue
<1>6. CASE MessagesStored
  BY <1>6 DEF MessagesStored
<1>7. CASE StoreSender \/ StoreTarget
  BY <1>7 DEF StoreSender, StoreTarget, Enqueue
<1>8. CASE Scan
  BY <1>8 DEF Scan
<1>9. CASE Wipe
  BY <1>9 DEF Wipe
<1>10. CASE Swap
  BY <1>10 DEF Swap
<1>11. CASE AppendBuffer
  BY <1>11 DEF AppendBuffer
<1>12. CASE OpenFails \/ WriteFails
  BY <1>12 DEF OpenFails, WriteFails
<1>13. CASE Stop \/ StopWriter
  BY <1>13 DEF Stop, StopWriter, Idle
<1>14. CASE LastFlush \/ Close
  BY <1>14 DEF LastFlush, Close
<1>15. CASE Restart \/ Crash
  BY <1>15 DEF Restart, Crash, StartFrom
<1>16. CASE UNCHANGED vars
  BY <1>16 DEF vars
<1>17. QED
  BY <1>1, <1>2, <1>3, <1>4, <1>5, <1>6, <1>7, <1>8, <1>9, <1>10, <1>11, <1>12, <1>13,
     <1>14, <1>15, <1>16 DEF Next, SessionThread, WriterThread

\* They hold in every reachable state.
LEMMA StagesInvariant == Spec => []Stages
<1>1. Init => Stages
  BY DEF Init, Stages
<1>2. TypeInv /\ Stages /\ [Next]_vars => Stages'
  BY StagesStep DEF TypeInv
<1>3. QED
  BY <1>1, <1>2, TypeInvariant, PTL DEF Spec

-----------------------------------------------------------------------------
(* Every number has its message *)

\* Nothing was lost: no write failed and nothing was reset.
Undisturbed == Reliable /\ resets = 0

Waits(n) == \E i \in DOMAIN pending : pending[i] = n

\* A number below the cache's own is in the log or waits to be stored; in the log the
\* messages come before the numbers.
CompleteInv ==
    /\ Undisturbed \/ starts = 1 => LoadedComplete
    /\ Undisturbed =>
         /\ ~shouldReset
         /\ Covered(Written)
         /\ \A n \in 1..mem.sender - 1 : Waits(n) \/ Stored(Written, n)

\* A sent message waits to be stored, after those that wait already.
LEMMA WaitsAppend ==
    ASSUME NEW n, NEW k \in SeqNums, pending \in Seq(SeqNums), pending' = Append(pending, k)
    PROVE  Waits(n)' <=> Waits(n) \/ n = k
<1>1. /\ DOMAIN pending = 1..Len(pending) /\ DOMAIN pending' = 1..Len(pending) + 1
      /\ Len(pending) \in Nat
      /\ \A i \in 1..Len(pending) : pending'[i] = pending[i]
      /\ pending'[Len(pending) + 1] = k
  OBVIOUS
<1>2. \A i : i \in 1..Len(pending) + 1 <=> i \in 1..Len(pending) \/ i = Len(pending) + 1
  BY <1>1
<1>3. QED
  BY <1>1, <1>2 DEF Waits

\* The first one stops waiting.
LEMMA WaitsTail ==
    ASSUME NEW n, pending \in Seq(SeqNums), pending # <<>>, pending' = Tail(pending)
    PROVE  Waits(n) <=> Waits(n)' \/ n = Head(pending)
<1>1. /\ DOMAIN pending = 1..Len(pending) /\ DOMAIN pending' = 1..Len(pending) - 1
      /\ Len(pending) \in Nat \ {0}
      /\ \A i \in 1..Len(pending) - 1 : pending'[i] = pending[i + 1]
      /\ Head(pending) = pending[1]
  OBVIOUS
<1>2. ASSUME Waits(n) PROVE Waits(n)' \/ n = Head(pending)
  <2>1. PICK i \in 1..Len(pending) : pending[i] = n
    BY <1>1, <1>2 DEF Waits
  <2>2. CASE i = 1
    BY <1>1, <2>1, <2>2
  <2>3. CASE i # 1
    <3>1. i - 1 \in 1..Len(pending) - 1 /\ (i - 1) + 1 = i
      BY <1>1, <2>3
    <3>2. pending'[i - 1] = n
      BY <1>1, <2>1, <3>1
    <3>3. QED
      BY <1>1, <3>1, <3>2 DEF Waits
  <2>4. QED
    BY <2>2, <2>3
<1>3. ASSUME Waits(n)' \/ n = Head(pending) PROVE Waits(n)
  <2>1. CASE n = Head(pending)
    BY <1>1, <2>1 DEF Waits
  <2>2. CASE Waits(n)'
    <3>1. PICK i \in 1..Len(pending) - 1 : pending'[i] = n
      BY <1>1, <2>2 DEF Waits
    <3>2. i + 1 \in 1..Len(pending) /\ pending[i + 1] = n
      BY <1>1, <3>1
    <3>3. QED
      BY <1>1, <3>2 DEF Waits
  <2>3. QED
    BY <1>3, <2>1, <2>2
<1>4. QED
  BY <1>2, <1>3

\* Session::send caches a message for the number it uses up.
LEMMA CompleteSend ==
    ASSUME TypeInv, CompleteInv, Send
    PROVE  CompleteInv'
<1> DEFINE new == [seq |-> mem.sender, run |-> starts + resets - 1]
<1>1. /\ mem.sender \in SeqNums /\ mem.sender \in Nat
      /\ mem'.sender = mem.sender + 1
      /\ mem'.msgs = {m \in mem.msgs : m.seq # mem.sender} \cup {new}
  BY CurrentEnvironment DEF TypeInv, TypeOK, Data, Send
<1>2. UNCHANGED <<call, shouldReset, starts, resets, file, buffer, queue>> /\ Env' = Env
  BY DEF Send, instanceVars, diskVars, lifeVars, Env
<1>3. (Undisturbed' <=> Undisturbed) /\ Written' = Written
  BY <1>2 DEF Undisturbed, Reliable, Written
<1>4. ASSUME LoadedComplete PROVE LoadedComplete'
  <2> SUFFICES ASSUME NEW n \in 1..mem.sender PROVE \E m \in mem'.msgs : m.seq = n
    BY <1>1 DEF LoadedComplete
  <2>1. CASE n = mem.sender
    <3>1. new \in mem'.msgs /\ new.seq = mem.sender
      BY <1>1
    <3> HIDE DEF new
    <3>2. QED
      BY <2>1, <3>1
  <2>2. CASE n # mem.sender
    <3>1. n \in 1..mem.sender - 1
      BY <1>1, <2>2
    <3>2. PICK m \in mem.msgs : m.seq = n
      BY <1>4, <3>1 DEF LoadedComplete
    <3>3. QED
      BY <1>1, <2>2, <3>2
  <2>3. QED
    BY <2>1, <2>2
<1>5. ASSUME Undisturbed, NEW n \in 1..mem'.sender - 1 PROVE Waits(n)' \/ Stored(Written', n)
  <2>1. Waits(n)' <=> Waits(n) \/ n = mem.sender
    BY <1>1, WaitsAppend DEF Send, TypeInv, TypeOK
  <2>2. n = mem.sender \/ n \in 1..mem.sender - 1
    BY <1>1
  <2>3. QED
    BY <1>3, <1>5, <2>1, <2>2 DEF CompleteInv
<1>6. QED
  BY <1>2, <1>3, <1>4, <1>5 DEF CompleteInv

\* A step of the cache's flush: one more record, which the invariant allows.
LEMMA CompleteStore ==
    ASSUME TypeInv, CompleteInv, NEW r \in Records, Enqueue(r),
           UNCHANGED <<mem, shouldReset, env, file, buffer, starts, resets>>,
           Undisturbed /\ r.kind = "SENDER" => \A n \in 1..r.n - 1 : Stored(Written, n),
           \A n : Waits(n) => Waits(n)' \/ (r.kind = "MSG" /\ r.n = n)
    PROVE  CompleteInv'
<1>1. (Undisturbed' <=> Undisturbed) /\ (LoadedComplete' <=> LoadedComplete)
  BY DEF Undisturbed, Reliable, Env, LoadedComplete
<1>2. /\ Written' = Append(Written, r) /\ Written \in Seq(FileRecords) /\ r \in FileRecords
  BY EnqueueWritten, WrittenType DEF TypeInv, FileRecords
<1>3. ASSUME Undisturbed PROVE Covered(Written')
  BY <1>2, <1>3, CoveredAppend DEF CompleteInv
<1>4. ASSUME Undisturbed, NEW n \in 1..mem.sender - 1 PROVE Waits(n)' \/ Stored(Written', n)
  BY <1>2, <1>4, StoredAppend DEF CompleteInv
<1>5. QED
  BY <1>1, <1>3, <1>4 DEF CompleteInv

\* A step that leaves cache and log as they are.
LEMMA CompleteSame ==
    ASSUME CompleteInv,
           UNCHANGED <<mem, pending, shouldReset, env, starts, resets>>, Reliable => Written' = Written
    PROVE  CompleteInv'
<1>1. (Undisturbed' <=> Undisturbed) /\ (LoadedComplete' <=> LoadedComplete)
  BY DEF Undisturbed, Reliable, Env, LoadedComplete
<1>2. ASSUME NEW n PROVE Waits(n)' <=> Waits(n)
  BY DEF Waits
<1>3. Undisturbed => Reliable
  BY DEF Undisturbed
<1>4. QED
  BY <1>1, <1>2, <1>3 DEF CompleteInv

\* A new process finds in a prefix of the log every message its numbers need.
LEMMA CompleteStart ==
    ASSUME TypeInv, Kept, CompleteInv,
           NEW recs \in (IF writer = "write" THEN Cuts ELSE {file}), StartFrom(recs)
    PROVE  CompleteInv'
<1>1. (Undisturbed' <=> Undisturbed) /\ starts' # 1 /\ ~shouldReset'
  BY DEF TypeInv, TypeOK, Counted, StartFrom, Undisturbed, Reliable, Env
<1> SUFFICES ASSUME Undisturbed
             PROVE  /\ LoadedComplete'
                    /\ Covered(Written')
                    /\ \A n \in 1..mem'.sender - 1 : Stored(Written', n)
  BY <1>1 DEF CompleteInv
<1>2. recs \in Seq(Records)
  BY ReliableRecords DEF TypeInv, Undisturbed
<1>3. PICK k \in 0..Len(Written) : recs = SubSeq(Written, 1, k)
  BY CrashLoses DEF TypeInv, Undisturbed
<1>4. Covered(recs)
  BY <1>3, WrittenType, CoveredPrefix DEF TypeInv, CompleteInv
<1>5. mem' = Contents(recs)
  BY <1>2, LoadsWhole DEF StartFrom
<1>6. recs \in Seq(FileRecords)
  BY <1>2, SeqMonotonic DEF FileRecords
<1>7. Written' = recs
  BY <1>6, StartWritten
<1>8. QED
  BY <1>2, <1>4, <1>5, <1>7, CoveredContents DEF LoadedComplete

\* Every step keeps the numbers covered.
LEMMA CompleteStep ==
    ASSUME TypeInv, Kept, Stages, CompleteInv, [Next]_vars
    PROVE  CompleteInv'
<1> USE DEF cacheVars, instanceVars, diskVars, lifeVars
<1>1. CASE Send
  BY <1>1, CompleteSend
<1>2. CASE Receive
  <2>1. /\ mem'.sender = mem.sender /\ mem'.msgs = mem.msgs
        /\ UNCHANGED <<pending, shouldReset, env, starts, resets, file, buffer, queue>>
    BY <1>2 DEF Receive, TypeInv, TypeOK, Data
  <2>2. (Undisturbed' <=> Undisturbed) /\ (LoadedComplete' <=> LoadedComplete) /\ Written' = Written
    BY <2>1 DEF Undisturbed, Reliable, Env, LoadedComplete, Written
  <2>3. ASSUME NEW n PROVE Waits(n)' <=> Waits(n)
    BY <2>1 DEF Waits
  <2>4. QED
    BY <2>1, <2>2, <2>3 DEF CompleteInv
<1>3. CASE Reset
  <2>1. LoadedComplete'
    BY <1>3 DEF Reset, LoadedComplete
  <2>2. ~Undisturbed'
    BY <1>3 DEF Reset, Undisturbed, TypeInv, TypeOK
  <2>3. QED
    BY <2>1, <2>2 DEF CompleteInv
<1>4. CASE StoreMessage
  <2>1. PICK m \in mem.msgs : m.seq = Head(pending) /\ Enqueue(Msg(m))
    BY <1>4 DEF StoreMessage
  <2>2. Msg(m) \in Records /\ Msg(m).kind = "MSG" /\ Msg(m).n = Head(pending)
    BY <2>1 DEF TypeInv, TypeOK, Msg, Records, Data, Sent
  <2>3. ASSUME NEW n PROVE Waits(n) => Waits(n)' \/ n = Head(pending)
    BY <1>4, WaitsTail DEF StoreMessage, TypeInv, TypeOK
  <2>4. QED
    BY <1>4, <2>1, <2>2, <2>3, CompleteStore DEF StoreMessage
<1>5. CASE StoreSender
  <2>1. /\ Number("SENDER", mem.sender) \in Records
        /\ Number("SENDER", mem.sender).n = mem.sender
    BY DEF TypeInv, TypeOK, Number, Records, Data
  <2>2. pending = <<>>
    BY <1>5 DEF StoreSender, Stages
  <2>3. ASSUME NEW n PROVE ~Waits(n)
    BY <2>2 DEF Waits
  <2>4. Undisturbed => \A n \in 1..mem.sender - 1 : Stored(Written, n)
    BY <2>3 DEF CompleteInv
  <2>5. QED
    BY <1>5, <2>1, <2>3, <2>4, CompleteStore DEF StoreSender
<1>6. CASE StoreTarget
  <2>1. /\ Number("TARGET", mem.target) \in Records
        /\ Number("TARGET", mem.target).kind # "SENDER"
    BY DEF TypeInv, TypeOK, Number, Records, Data
  <2>2. pending' = pending
    BY <1>6 DEF StoreTarget
  <2>3. ASSUME NEW n PROVE Waits(n)' <=> Waits(n)
    BY <2>2 DEF Waits
  <2>4. QED
    BY <1>6, <2>1, <2>3, CompleteStore DEF StoreTarget
<1>7. CASE ResetMark \/ Flush \/ MessagesStored
  BY <1>7, CompleteSame DEF ResetMark, Flush, MessagesStored, Written
<1>8. CASE Scan
  BY <1>8, CompleteSame DEF Scan, Written
<1>9. CASE Wipe
  <2>1. shouldReset /\ UNCHANGED <<mem, env, starts, resets>>
    BY <1>9 DEF Wipe
  <2>2. ~Undisturbed /\ ~Undisturbed'
    BY <2>1 DEF CompleteInv, Undisturbed, Reliable, Env
  <2>3. LoadedComplete' <=> LoadedComplete
    BY <2>1 DEF LoadedComplete
  <2>4. QED
    BY <2>1, <2>2, <2>3 DEF CompleteInv
<1>10. CASE Swap
  <2>1. Reliable => Written' = Written
    BY <1>10, SwapWritten DEF TypeInv
  <2>2. QED
    BY <1>10, <2>1, CompleteSame DEF Swap
<1>11. CASE AppendBuffer
  <2>1. Written' = Written
    BY <1>11, AppendBufferWritten DEF TypeInv
  <2>2. QED
    BY <1>11, <2>1, CompleteSame DEF AppendBuffer
<1>12. CASE OpenFails \/ WriteFails
  BY <1>12, CompleteSame DEF OpenFails, WriteFails, Reliable
<1>13. CASE Stop \/ StopWriter \/ LastFlush \/ Close
  BY <1>13, CompleteSame DEF Stop, StopWriter, LastFlush, Close, Written
<1>14. CASE Restart
  <2>1. writer # "write"
    BY <1>14 DEF Restart, Stages
  <2>2. QED
    BY <1>14, <2>1, CompleteStart DEF Restart
<1>15. CASE Crash
  BY <1>15, CompleteStart DEF Crash
<1>16. CASE UNCHANGED vars
  BY <1>16, CompleteSame DEF vars, Written
<1>17. QED
  BY <1>1, <1>2, <1>3, <1>4, <1>5, <1>6, <1>7, <1>8, <1>9, <1>10, <1>11, <1>12, <1>13,
     <1>14, <1>15, <1>16 DEF Next, SessionThread, WriterThread

\* They are in every reachable state.
LEMMA CompleteInvariant == Spec => []CompleteInv
<1>1. Init => CompleteInv
  <2> SUFFICES ASSUME Init PROVE CompleteInv
    OBVIOUS
  <2>1. mem.sender = 1 /\ ~shouldReset
    BY DEF Init, NoData
  <2>2. Written = <<>>
    BY EmptySeq, ConcatEmptySeq DEF Init, Written
  <2>3. Covered(<<>>)
    BY DEF Covered
  <2>4. QED
    BY <2>1, <2>2, <2>3 DEF CompleteInv, LoadedComplete
<1>2. TypeInv /\ Kept /\ Stages /\ CompleteInv /\ [Next]_vars => CompleteInv'
  BY CompleteStep
<1>3. QED
  BY <1>1, <1>2, TypeInvariant, KeptInvariant, StagesInvariant, PTL DEF Spec

\* A process can always answer for every number it has used: in its first life
\* whatever fails, and after any number of crashes and stops as long as no write
\* failed and nothing was reset, flushSeqNums having written messages before numbers.
THEOREM LoadsComplete == Spec => [](Undisturbed \/ starts = 1 => LoadedComplete)
<1>1. CompleteInv => (Undisturbed \/ starts = 1 => LoadedComplete)
  BY DEF CompleteInv
<1>2. QED
  BY <1>1, CompleteInvariant, PTL

-----------------------------------------------------------------------------
(* A stop keeps everything *)

\* What is found last after one more record.
LEMMA LastAppend ==
    ASSUME NEW recs \in Seq(FileRecords), NEW r \in FileRecords, NEW kind
    PROVE  Last(Append(recs, r), kind) = IF r.kind = kind THEN r.n ELSE Last(recs, kind)
<1> DEFINE more == Append(recs, r)
<1>1. /\ DOMAIN recs = 1..Len(recs) /\ DOMAIN more = 1..Len(recs) + 1 /\ Len(recs) \in Nat
      /\ \A i \in 1..Len(recs) : more[i] = recs[i]
      /\ more[Len(recs) + 1] = r
      /\ more \in Seq(FileRecords)
  OBVIOUS
<1> HIDE DEF more
<1>2. CASE r.kind = kind
  <2>1. PICK i \in 1..Len(recs) + 1 :
               /\ Last(more, kind) = more[i].n
               /\ \A j \in 1..Len(recs) + 1 : more[j].kind = kind => j <= i
    BY <1>1, <1>2, LastAt
  <2>2. i = Len(recs) + 1
    BY <1>1, <1>2, <2>1
  <2>3. QED
    BY <1>1, <1>2, <2>1, <2>2 DEF more
<1>3. CASE r.kind # kind /\ \E i \in DOMAIN recs : recs[i].kind = kind
  <2>1. PICK i \in 1..Len(recs) :
               /\ recs[i].kind = kind /\ Last(recs, kind) = recs[i].n
               /\ \A j \in 1..Len(recs) : recs[j].kind = kind => j <= i
    BY <1>1, <1>3, LastAt
  <2>2. PICK k \in 1..Len(recs) + 1 :
               /\ more[k].kind = kind /\ Last(more, kind) = more[k].n
               /\ \A j \in 1..Len(recs) + 1 : more[j].kind = kind => j <= k
    <3>1. \E j \in DOMAIN more : more[j].kind = kind
      BY <1>1, <2>1
    <3>2. QED
      BY <1>1, <3>1, LastAt
  <2>3. k \in 1..Len(recs) /\ recs[k].kind = kind
    BY <1>1, <1>3, <2>2
  <2>4. i <= k
    BY <1>1, <2>1, <2>2
  <2>5. k <= i
    BY <2>1, <2>3
  <2>6. k = i
    BY <1>1, <2>4, <2>5
  <2>7. QED
    BY <1>1, <1>3, <2>1, <2>2, <2>3, <2>6 DEF more
<1>4. CASE r.kind # kind /\ ~\E i \in DOMAIN recs : recs[i].kind = kind
  <2>1. \A i \in DOMAIN more : more[i].kind # kind
    BY <1>1, <1>4
  <2>2. QED
    BY <1>4, <2>1, LastNone DEF more
<1>5. QED
  BY <1>2, <1>3, <1>4

\* The record that stands for a message.
LEMMA InMessages ==
    ASSUME NEW recs, NEW m \in Sent
    PROVE  m \in Messages(recs) <=>
             \E i \in DOMAIN recs :
               /\ recs[i].kind = "MSG" /\ recs[i].n = m.seq /\ recs[i].run = m.run
               /\ \A k \in DOMAIN recs : k > i => recs[k].kind # "MSG" \/ recs[k].n # m.seq
BY DEF Messages, Sent

\* One more record replaces the message of its own number only.
LEMMA MessagesAppend ==
    ASSUME NEW recs \in Seq(FileRecords), NEW r \in FileRecords, NEW m \in Sent
    PROVE  m \in Messages(Append(recs, r)) <=>
             IF r.kind = "MSG" /\ r.n = m.seq THEN r.run = m.run ELSE m \in Messages(recs)
<1> DEFINE more == Append(recs, r)
           stands(s, i) == /\ s[i].kind = "MSG" /\ s[i].n = m.seq /\ s[i].run = m.run
                           /\ \A k \in DOMAIN s : k > i => s[k].kind # "MSG" \/ s[k].n # m.seq
<1>1. /\ DOMAIN recs = 1..Len(recs) /\ DOMAIN more = 1..Len(recs) + 1 /\ Len(recs) \in Nat
      /\ \A i \in 1..Len(recs) : more[i] = recs[i]
      /\ more[Len(recs) + 1] = r
  OBVIOUS
<1> HIDE DEF more
<1>2. \A i \in 1..Len(recs) : i \in 1..Len(recs) + 1 /\ Len(recs) + 1 > i
  BY <1>1
<1>3. \A i \in 1..Len(recs) + 1 : i \in 1..Len(recs) \/ i = Len(recs) + 1
  BY <1>1
<1>4. (m \in Messages(recs) <=> \E i \in 1..Len(recs) : stands(recs, i))
      /\ (m \in Messages(more) <=> \E i \in 1..Len(recs) + 1 : stands(more, i))
  BY <1>1, InMessages
<1>5. CASE r.kind = "MSG" /\ r.n = m.seq
  <2>1. \A i \in 1..Len(recs) : ~stands(more, i)
    BY <1>1, <1>2, <1>5
  <2>2. stands(more, Len(recs) + 1) <=> r.run = m.run
    <3>1. \A k \in 1..Len(recs) + 1 : ~(k > Len(recs) + 1)
      BY <1>1
    <3>2. QED
      BY <1>1, <1>5, <3>1
  <2>3. Len(recs) + 1 \in 1..Len(recs) + 1
    BY <1>1
  <2> HIDE DEF stands
  <2>4. QED
    BY <1>3, <1>4, <1>5, <2>1, <2>2, <2>3 DEF more
<1>6. CASE ~(r.kind = "MSG" /\ r.n = m.seq)
  <2>1. ~stands(more, Len(recs) + 1)
    BY <1>1, <1>6
  <2>2. ASSUME NEW i \in 1..Len(recs) PROVE stands(more, i) <=> stands(recs, i)
    BY <1>1, <1>2, <1>3, <1>6
  <2> HIDE DEF stands
  <2>3. QED
    BY <1>2, <1>3, <1>4, <1>6, <2>1, <2>2 DEF more
<1>7. QED
  BY <1>5, <1>6

\* Load finds one message for a number.
LEMMA MessagesUnique ==
    ASSUME NEW recs \in Seq(FileRecords), NEW m1 \in Messages(recs), NEW m2 \in Messages(recs),
           m1.seq = m2.seq
    PROVE  m1 = m2
<1> DEFINE lastOf(i) == /\ recs[i].kind = "MSG"
                        /\ \A k \in DOMAIN recs :
                             k > i => recs[k].kind # "MSG" \/ recs[k].n # recs[i].n
           msg(i) == [seq |-> recs[i].n, run |-> recs[i].run]
<1>1. PICK i \in DOMAIN recs : lastOf(i) /\ m1 = msg(i)
  BY DEF Messages
<1>2. PICK j \in DOMAIN recs : lastOf(j) /\ m2 = msg(j)
  BY DEF Messages
<1>3. i \in Nat /\ j \in Nat
  OBVIOUS
<1>4. recs[i].n = recs[j].n
  BY <1>1, <1>2
<1>5. ~(i > j) /\ ~(j > i)
  BY <1>1, <1>2, <1>4
<1>6. i = j
  BY <1>3, <1>5
<1>7. QED
  BY <1>1, <1>2, <1>6

\* Cache and log agree but for what is still to be stored.
DurableInv ==
    Undisturbed =>
      /\ \A m1, m2 \in mem.msgs : m1.seq = m2.seq => m1 = m2
      /\ changed \/ call = "sender" \/ Last(Written, "SENDER") = mem.sender
      /\ changed \/ call \in {"sender", "target"} \/ Last(Written, "TARGET") = mem.target
      /\ \A m \in Sent : Waits(m.seq) \/ (m \in mem.msgs <=> m \in Messages(Written))

\* A sent message waits, the others agree as before.
LEMMA DurableSend ==
    ASSUME TypeInv, DurableInv, Send
    PROVE  DurableInv'
<1> DEFINE new == [seq |-> mem.sender, run |-> starts + resets - 1]
<1>1. /\ mem.sender \in SeqNums
      /\ mem'.msgs = {m \in mem.msgs : m.seq # mem.sender} \cup {new}
      /\ changed' = TRUE
  BY DEF TypeInv, TypeOK, Data, Send
<1>2. UNCHANGED <<starts, resets, file, buffer, queue>> /\ Env' = Env
  BY DEF Send, instanceVars, diskVars, lifeVars, Env
<1>3. (Undisturbed' <=> Undisturbed) /\ Written' = Written
  BY <1>2 DEF Undisturbed, Reliable, Written
<1> SUFFICES ASSUME Undisturbed
             PROVE  /\ \A m1, m2 \in mem'.msgs : m1.seq = m2.seq => m1 = m2
                    /\ \A m \in Sent : Waits(m.seq)' \/ (m \in mem'.msgs <=> m \in Messages(Written))
  BY <1>1, <1>3 DEF DurableInv
<1>4. new.seq = mem.sender
  OBVIOUS
<1> HIDE DEF new
<1>5. \A m1, m2 \in mem'.msgs : m1.seq = m2.seq => m1 = m2
  BY <1>1, <1>4 DEF DurableInv
<1>6. ASSUME NEW m \in Sent PROVE Waits(m.seq)' \/ (m \in mem'.msgs <=> m \in Messages(Written))
  <2>1. Waits(m.seq)' <=> Waits(m.seq) \/ m.seq = mem.sender
    BY <1>1, WaitsAppend DEF Send, TypeInv, TypeOK
  <2>2. m.seq # mem.sender => (m \in mem'.msgs <=> m \in mem.msgs)
    BY <1>1, <1>4
  <2>3. QED
    BY <2>1, <2>2 DEF DurableInv
<1>7. QED
  BY <1>5, <1>6

\* The first message that waits is stored as it is in the cache.
LEMMA DurableStoreMessage ==
    ASSUME TypeInv, DurableInv, StoreMessage
    PROVE  DurableInv'
<1>1. PICK m \in mem.msgs : m.seq = Head(pending) /\ Enqueue(Msg(m))
  BY DEF StoreMessage
<1>2. /\ m \in Sent /\ Msg(m) \in Records /\ Msg(m) \in FileRecords
      /\ Msg(m).kind = "MSG" /\ Msg(m).n = m.seq /\ Msg(m).run = m.run
  BY DEF TypeInv, TypeOK, Msg, Records, Data, Sent, FileRecords
<1>3. Written' = Append(Written, Msg(m)) /\ Written \in Seq(FileRecords)
  BY <1>1, <1>2, EnqueueWritten, WrittenType DEF StoreMessage, TypeInv, diskVars
<1>4. UNCHANGED <<mem, changed, call>> /\ (Undisturbed' <=> Undisturbed)
  BY DEF StoreMessage, lifeVars, Undisturbed, Reliable, Env
<1> SUFFICES ASSUME Undisturbed
             PROVE  /\ Last(Written', "SENDER") = Last(Written, "SENDER")
                    /\ Last(Written', "TARGET") = Last(Written, "TARGET")
                    /\ \A x \in Sent : Waits(x.seq)' \/ (x \in mem.msgs <=> x \in Messages(Written'))
  BY <1>4 DEF DurableInv
<1>5. Last(Written', "SENDER") = Last(Written, "SENDER")
      /\ Last(Written', "TARGET") = Last(Written, "TARGET")
  BY <1>2, <1>3, LastAppend
<1>6. ASSUME NEW x \in Sent PROVE Waits(x.seq)' \/ (x \in mem.msgs <=> x \in Messages(Written'))
  <2>1. x \in Messages(Written') <=>
          IF m.seq = x.seq THEN m.run = x.run ELSE x \in Messages(Written)
    BY <1>2, <1>3, MessagesAppend
  <2>2. Waits(x.seq) => Waits(x.seq)' \/ x.seq = m.seq
    BY <1>1, WaitsTail DEF StoreMessage, TypeInv, TypeOK
  <2>3. CASE x.seq = m.seq
    <3>1. x \in mem.msgs <=> x = m
      BY <2>3 DEF DurableInv
    <3>2. x = m <=> m.run = x.run
      BY <1>2, <2>3 DEF Sent
    <3>3. QED
      BY <2>1, <2>3, <3>1, <3>2
  <2>4. CASE x.seq # m.seq
    BY <2>1, <2>2, <2>4 DEF DurableInv
  <2>5. QED
    BY <2>3, <2>4
<1>7. QED
  BY <1>5, <1>6

\* The numbers are stored as they are in the cache.
LEMMA DurableStoreNumber ==
    ASSUME TypeInv, DurableInv, NEW kind \in {"SENDER", "TARGET"}, NEW n \in SeqNums,
           Enqueue(Number(kind, n)),
           UNCHANGED <<mem, changed, pending, env, file, buffer, starts, resets>>
    PROVE  /\ (Undisturbed' <=> Undisturbed)
           /\ Undisturbed =>
                /\ \A m1, m2 \in mem'.msgs : m1.seq = m2.seq => m1 = m2
                /\ \A x \in Sent : Waits(x.seq)' \/ (x \in mem'.msgs <=> x \in Messages(Written'))
           /\ \A other : Last(Written', other) = IF kind = other THEN n ELSE Last(Written, other)
<1> DEFINE r == Number(kind, n)
<1>1. r \in Records /\ r \in FileRecords /\ r.kind = kind /\ r.n = n /\ r.kind # "MSG"
  BY CurrentEnvironment DEF TypeInv, Number, Records, FileRecords
<1> HIDE DEF r
<1>2. Written' = Append(Written, r) /\ Written \in Seq(FileRecords)
  BY <1>1, EnqueueWritten, WrittenType DEF TypeInv, r
<1>3. Undisturbed' <=> Undisturbed
  BY DEF Undisturbed, Reliable, Env
<1>4. \A x \in Sent : x \in Messages(Written') <=> x \in Messages(Written)
  BY <1>1, <1>2, MessagesAppend
<1>5. ASSUME NEW x PROVE Waits(x)' <=> Waits(x)
  BY DEF Waits
<1>6. \A other : Last(Written', other) = IF kind = other THEN n ELSE Last(Written, other)
  BY <1>1, <1>2, LastAppend
<1>7. QED
  BY <1>3, <1>4, <1>5, <1>6 DEF DurableInv

\* A new process has what its file has.
LEMMA DurableStart ==
    ASSUME TypeInv, Kept, DurableInv,
           NEW recs \in (IF writer = "write" THEN Cuts ELSE {file}), StartFrom(recs)
    PROVE  DurableInv'
<1>1. Undisturbed' <=> Undisturbed
  BY DEF StartFrom, Undisturbed, Reliable, Env
<1> SUFFICES ASSUME Undisturbed PROVE DurableInv'
  BY <1>1 DEF DurableInv
<1>2. recs \in Seq(Records) /\ recs \in Seq(FileRecords)
  BY ReliableRecords, SeqMonotonic DEF TypeInv, Undisturbed, FileRecords
<1>3. mem' = Contents(recs)
  BY <1>2, LoadsWhole DEF StartFrom
<1>4. Written' = recs
  BY <1>2, StartWritten
<1>5. \A m1, m2 \in Messages(recs) : m1.seq = m2.seq => m1 = m2
  BY <1>2, MessagesUnique
<1>6. QED
  BY <1>3, <1>4, <1>5 DEF DurableInv, Contents

\* Every step keeps cache and log in agreement.
LEMMA DurableStep ==
    ASSUME TypeInv, Kept, Stages, CompleteInv, DurableInv, [Next]_vars
    PROVE  DurableInv'
<1> USE DEF cacheVars, instanceVars, diskVars, lifeVars
<1>1. CASE Send
  BY <1>1, DurableSend
<1>2. CASE Receive
  <2>1. /\ mem'.msgs = mem.msgs /\ mem'.sender = mem.sender /\ changed' = TRUE
        /\ UNCHANGED <<pending, env, starts, resets, file, buffer, queue>>
    BY <1>2 DEF Receive, TypeInv, TypeOK, Data
  <2>2. (Undisturbed' <=> Undisturbed) /\ Written' = Written
    BY <2>1 DEF Undisturbed, Reliable, Env, Written
  <2>3. ASSUME NEW n PROVE Waits(n)' <=> Waits(n)
    BY <2>1 DEF Waits
  <2>4. QED
    BY <2>1, <2>2, <2>3 DEF DurableInv
<1>3. CASE Reset
  BY <1>3 DEF Reset, Undisturbed, DurableInv, TypeInv, TypeOK
<1>4. CASE StoreMessage
  BY <1>4, DurableStoreMessage
<1>5. CASE StoreSender
  <2>1. mem.sender \in SeqNums
    BY DEF TypeInv, TypeOK, Data
  <2>2. QED
    BY <1>5, <2>1, DurableStoreNumber DEF StoreSender, DurableInv
<1>6. CASE StoreTarget
  <2>1. mem.target \in SeqNums
    BY DEF TypeInv, TypeOK, Data
  <2>2. QED
    BY <1>6, <2>1, DurableStoreNumber DEF StoreTarget, DurableInv
<1>7. CASE MessagesStored
  <2>1. UNCHANGED <<mem, pending, env, starts, resets, file, buffer, queue>>
        /\ changed' = FALSE /\ call' = (IF changed THEN "sender" ELSE "none")
        /\ call = "messages"
    BY <1>7 DEF MessagesStored
  <2>2. (Undisturbed' <=> Undisturbed) /\ Written' = Written
    BY <2>1 DEF Undisturbed, Reliable, Env, Written
  <2>3. ASSUME NEW n PROVE Waits(n)' <=> Waits(n)
    BY <2>1 DEF Waits
  <2>4. QED
    BY <2>1, <2>2, <2>3 DEF DurableInv
<1>8. CASE UNCHANGED <<mem, pending, changed, env, starts, resets>>
           /\ (Reliable => Written' = Written)
           /\ (call' = call \/ call \in {"none", "reset"})
  <2>1. Undisturbed' <=> Undisturbed
    BY <1>8 DEF Undisturbed, Reliable, Env
  <2>2. ASSUME NEW n PROVE Waits(n)' <=> Waits(n)
    BY <1>8 DEF Waits
  <2>3. Undisturbed => Reliable
    BY DEF Undisturbed
  <2>4. QED
    BY <1>8, <2>1, <2>2, <2>3 DEF DurableInv
<1>9. CASE ResetMark \/ Flush \/ Stop \/ StopWriter \/ LastFlush \/ Close \/ Scan
  BY <1>8, <1>9 DEF ResetMark, Flush, Stop, StopWriter, LastFlush, Close, Scan, Idle, Written
<1>10. CASE Wipe
  <2>1. shouldReset /\ UNCHANGED <<env, resets>>
    BY <1>10 DEF Wipe
  <2>2. ~Undisturbed'
    BY <2>1 DEF CompleteInv, Undisturbed, Reliable, Env
  <2>3. QED
    BY <2>2 DEF DurableInv
<1>11. CASE Swap
  <2>1. Reliable => Written' = Written
    BY <1>11, SwapWritten DEF TypeInv
  <2>2. QED
    BY <1>8, <1>11, <2>1 DEF Swap
<1>12. CASE AppendBuffer
  <2>1. Written' = Written
    BY <1>12, AppendBufferWritten DEF TypeInv
  <2>2. QED
    BY <1>8, <1>12, <2>1 DEF AppendBuffer
<1>13. CASE OpenFails \/ WriteFails
  BY <1>8, <1>13 DEF OpenFails, WriteFails, Reliable
<1>14. CASE Restart
  <2>1. writer # "write"
    BY <1>14 DEF Restart, Stages
  <2>2. QED
    BY <1>14, <2>1, DurableStart DEF Restart
<1>15. CASE Crash
  BY <1>15, DurableStart DEF Crash
<1>16. CASE UNCHANGED vars
  BY <1>8, <1>16 DEF vars, Written
<1>17. QED
  BY <1>1, <1>2, <1>3, <1>4, <1>5, <1>6, <1>7, <1>9, <1>10, <1>11, <1>12, <1>13,
     <1>14, <1>15, <1>16 DEF Next, SessionThread, WriterThread

\* They agree in every reachable state.
LEMMA DurableInvariant == Spec => []DurableInv
<1>1. Init => DurableInv
  <2> SUFFICES ASSUME Init PROVE DurableInv
    OBVIOUS
  <2>1. mem = NoData
    BY DEF Init
  <2>2. Written = <<>>
    BY EmptySeq, ConcatEmptySeq DEF Init, Written
  <2>3. Last(<<>>, "SENDER") = 1 /\ Last(<<>>, "TARGET") = 1
    BY LastNone
  <2>4. Messages(<<>>) = {}
    BY DEF Messages
  <2>5. QED
    BY <2>1, <2>2, <2>3, <2>4 DEF DurableInv, NoData
<1>2. TypeInv /\ Kept /\ Stages /\ CompleteInv /\ DurableInv /\ [Next]_vars => DurableInv'
  BY DurableStep
<1>3. QED
  BY <1>1, <1>2, TypeInvariant, KeptInvariant, StagesInvariant, CompleteInvariant, PTL DEF Spec

\* What Application::stop leaves in the file is what the cache held, for any number
\* of processes one after the other, crashed or stopped, as long as no write failed
\* and nothing was reset.
THEOREM StopsDurable == Spec => []StopDurable
<1>1. TypeInv /\ Kept /\ Stages /\ CompleteInv /\ DurableInv => StopDurable
  <2> SUFFICES ASSUME TypeInv, Kept, Stages, CompleteInv, DurableInv, Undisturbed, life = "stopped"
               PROVE  Contents(file) = mem
    BY DEF StopDurable, Durable, Undisturbed
  <2>1. pending = <<>> /\ ~changed /\ call = "none" /\ writer = "scan" /\ ~marked
    BY DEF Stages
  <2>2. buffer = <<>> /\ queue = <<>>
    BY <2>1 DEF Kept, Undisturbed
  <2>3. Written = file
    BY <2>2, WrittenType, ConcatEmptySeq DEF TypeInv, Written
  <2>4. Last(file, "SENDER") = mem.sender /\ Last(file, "TARGET") = mem.target
    BY <2>1, <2>3 DEF DurableInv
  <2>5. ASSUME NEW n PROVE ~Waits(n)
    BY <2>1 DEF Waits
  <2>6. \A m \in Sent : m \in mem.msgs <=> m \in Messages(file)
    BY <2>3, <2>5 DEF DurableInv
  <2>7. Contents(file) \in Data /\ mem \in Data
    BY ContentsType, CurrentEnvironment DEF TypeInv, TypeOK, FileRecords
  <2>8. Messages(file) = mem.msgs
    BY <2>6, <2>7 DEF Data, Contents
  <2>9. QED
    BY <2>4, <2>7, <2>8 DEF Contents, Data
<1>2. QED
  BY <1>1, TypeInvariant, KeptInvariant, StagesInvariant, CompleteInvariant, DurableInvariant, PTL

-----------------------------------------------------------------------------
(* A reset forgets *)

\* No message of these records is from before the last reset.
Fresh(recs) == \A i \in DOMAIN recs : recs[i].kind = "MSG" => recs[i].run >= resets

\* A reset can truncate the file, and no crash starts a process between the call of
\* reset and the writer's.
ResetsReach == "truncate" \notin Env.faults /\ (starts = 1 \/ "crash" \notin Env.faults)

ForgetInv ==
    ResetsReach =>
        /\ \A m \in mem.msgs : m.run >= resets
        /\ ~shouldReset => Fresh(file) /\ Fresh(buffer) /\ Fresh(queue)

\* Nothing old comes from putting fresh records together ...
LEMMA FreshConcat ==
    ASSUME NEW s \in Seq(FileRecords), NEW t \in Seq(FileRecords), Fresh(s), Fresh(t)
    PROVE  Fresh(s \o t) /\ s \o t \in Seq(FileRecords)
<1>1. /\ s \o t \in Seq(FileRecords) /\ Len(s \o t) = Len(s) + Len(t)
      /\ \A i \in 1..Len(s) + Len(t) :
           (s \o t)[i] = IF i <= Len(s) THEN s[i] ELSE t[i - Len(s)]
  BY ConcatProperties
<1>2. /\ DOMAIN s = 1..Len(s) /\ DOMAIN t = 1..Len(t) /\ DOMAIN (s \o t) = 1..Len(s) + Len(t)
      /\ Len(s) \in Nat /\ Len(t) \in Nat
  BY <1>1
<1>3. ASSUME NEW i \in 1..Len(s) + Len(t), (s \o t)[i].kind = "MSG" PROVE (s \o t)[i].run >= resets
  <2>1. CASE i <= Len(s)
    BY <1>1, <1>2, <1>3, <2>1 DEF Fresh
  <2>2. CASE ~(i <= Len(s))
    <3>1. i - Len(s) \in 1..Len(t) /\ (s \o t)[i] = t[i - Len(s)]
      BY <1>1, <1>2, <2>2
    <3>2. QED
      BY <1>2, <1>3, <3>1 DEF Fresh
  <2>3. QED
    BY <2>1, <2>2
<1>4. QED
  BY <1>1, <1>2, <1>3 DEF Fresh

\* ... or from cutting them.
LEMMA FreshPart ==
    ASSUME NEW recs \in Seq(FileRecords), Fresh(recs),
           NEW m \in 1..Len(recs) + 1, NEW n \in 0..Len(recs)
    PROVE  Fresh(SubSeq(recs, m, n)) /\ SubSeq(recs, m, n) \in Seq(FileRecords)
<1>1. SubSeq(recs, m, n) \in Seq(FileRecords)
  BY SubSeqType
<1>2. /\ DOMAIN recs = 1..Len(recs) /\ DOMAIN SubSeq(recs, m, n) = 1..(n - m + 1)
      /\ \A i \in 1..(n - m + 1) : SubSeq(recs, m, n)[i] = recs[m + i - 1]
  OBVIOUS
<1>3. \A i \in 1..(n - m + 1) : m + i - 1 \in 1..Len(recs)
  OBVIOUS
<1>4. QED
  BY <1>1, <1>2, <1>3 DEF Fresh

\* The messages of fresh records are fresh.
LEMMA FreshMessages ==
    ASSUME NEW recs, Fresh(recs), NEW m \in Messages(recs)
    PROVE  m.run >= resets
BY DEF Fresh, Messages

\* What is loaded from such a file, torn or not, is as fresh.
LEMMA FreshLoads ==
    ASSUME NEW recs \in Seq(FileRecords), Fresh(recs), NEW data \in Loads(recs), NEW m \in data.msgs
    PROVE  m.run >= resets
<1> DEFINE torn == {i \in DOMAIN recs : recs[i] = Torn}
           from(j) == SubSeq(recs, j, Len(recs))
           head == SubSeq(recs, 1, Min(torn) - 1)
<1>1. CASE torn = {}
  <2>1. data = Contents(recs)
    BY <1>1 DEF Loads
  <2>2. QED
    BY <2>1, FreshMessages DEF Contents
<1>2. CASE torn # {}
  <2>1. Min(torn) \in 1..Len(recs) /\ Max(torn) \in 1..Len(recs) /\ Len(recs) \in Nat
    <3>1. DOMAIN recs = 1..Len(recs) /\ Len(recs) \in Nat
      OBVIOUS
    <3>2. torn \in SUBSET (DOMAIN recs)
      OBVIOUS
    <3> HIDE DEF torn
    <3>3. QED
      BY <1>2, <3>1, <3>2, FirstAndLast
  <2>2. data = NoData \/ \E j \in Max(torn) + 1 .. Len(recs) + 1 : data = Contents(head \o from(j))
    BY <1>2 DEF Loads
  <2>3. data # NoData
    BY DEF NoData
  <2>4. PICK j \in Max(torn) + 1 .. Len(recs) + 1 : data = Contents(head \o from(j))
    BY <2>2, <2>3
  <2>5. Fresh(head \o from(j))
    <3> HIDE DEF torn
    <3>1. /\ Min(torn) - 1 \in 0..Len(recs) /\ 1 \in 1..Len(recs) + 1
          /\ j \in 1..Len(recs) + 1 /\ Len(recs) \in 0..Len(recs)
      BY <2>1
    <3>2. /\ Fresh(head) /\ head \in Seq(FileRecords)
          /\ Fresh(from(j)) /\ from(j) \in Seq(FileRecords)
      BY <3>1, FreshPart
    <3> HIDE DEF head, from
    <3>3. QED
      BY <3>2, FreshConcat
  <2>6. QED
    BY <2>4, <2>5, FreshMessages DEF Contents
<1>3. QED
  BY <1>1, <1>2

\* An interrupted write leaves nothing older in the file.
LEMMA FreshCuts ==
    ASSUME TypeOK, Fresh(file), Fresh(buffer), NEW recs \in Cuts
    PROVE  Fresh(recs)
<1>1. file \in Seq(FileRecords) /\ buffer \in Seq(FileRecords) /\ Len(buffer) \in Nat
  BY WrittenType
<1>2. <<Torn>> \in Seq(FileRecords) /\ Fresh(<<Torn>>)
  <2>1. Torn \in FileRecords /\ Torn.kind # "MSG"
    BY DEF FileRecords, Torn
  <2>2. DOMAIN <<Torn>> = 1..1 /\ <<Torn>>[1] = Torn
    OBVIOUS
  <2>3. QED
    BY <2>1, <2>2 DEF Fresh
<1>3. PICK n \in 0..Len(buffer) :
             \/ recs = file \o SubSeq(buffer, 1, n)
             \/ recs = file \o SubSeq(buffer, 1, n) \o <<Torn>>
  <2>1. \/ recs \in {file \o SubSeq(buffer, 1, n) : n \in 0..Len(buffer)}
        \/ recs \in {file \o SubSeq(buffer, 1, n) \o <<Torn>> : n \in 0..Len(buffer) - 1}
    BY DEF Cuts
  <2>2. \A n \in 0..Len(buffer) - 1 : n \in 0..Len(buffer)
    BY <1>1
  <2>3. QED
    BY <2>1, <2>2
<1>4. Fresh(SubSeq(buffer, 1, n)) /\ SubSeq(buffer, 1, n) \in Seq(FileRecords)
  BY <1>1, FreshPart
<1>5. Fresh(file \o SubSeq(buffer, 1, n)) /\ file \o SubSeq(buffer, 1, n) \in Seq(FileRecords)
  BY <1>1, <1>4, FreshConcat
<1>6. QED
  BY <1>2, <1>3, <1>5, FreshConcat

\* Every step keeps what a reset forgot forgotten.
LEMMA ForgetStep ==
    ASSUME TypeInv, Stages, ForgetInv, [Next]_vars
    PROVE  ForgetInv'
<1> USE DEF TypeInv, cacheVars, instanceVars, diskVars, lifeVars
<1>1. ResetsReach' => ResetsReach
  BY DEF TypeOK, Counted, Next, SessionThread, Send, Receive, Reset, ResetMark, Flush,
         StoreMessage, MessagesStored, StoreSender, StoreTarget, WriterThread, Scan, Wipe,
         Swap, AppendBuffer, OpenFails, WriteFails, Stop, StopWriter, LastFlush, Close,
         Restart, Crash, StartFrom, vars, ResetsReach, Env
<1> SUFFICES ASSUME ResetsReach, ResetsReach'
             PROVE  /\ \A m \in mem'.msgs : m.run >= resets'
                    /\ ~shouldReset' => Fresh(file)' /\ Fresh(buffer)' /\ Fresh(queue)'
  BY <1>1 DEF ForgetInv
<1>2. /\ \A m \in mem.msgs : m.run >= resets
      /\ ~shouldReset => Fresh(file) /\ Fresh(buffer) /\ Fresh(queue)
  BY DEF ForgetInv
<1>3. /\ file \in Seq(FileRecords) /\ buffer \in Seq(FileRecords) /\ queue \in Seq(FileRecords)
  BY WrittenType
<1>4. CASE UNCHANGED <<resets, shouldReset, file, buffer, queue>> /\ mem'.msgs = mem.msgs
  BY <1>2, <1>4 DEF Fresh
<1>5. CASE Send
  <2>1. mem'.msgs \subseteq mem.msgs \cup {[seq |-> mem.sender, run |-> starts + resets - 1]}
    BY <1>5 DEF Send, TypeOK, Data
  <2>2. starts + resets - 1 >= resets
    BY DEF TypeOK, Counted
  <2>3. \A m \in mem'.msgs : m.run >= resets
    BY <1>2, <2>1, <2>2
  <2>4. QED
    BY <1>2, <1>5, <2>3 DEF Send, Fresh
<1>6. CASE Receive
  BY <1>4, <1>6 DEF Receive, TypeOK, Data
<1>7. CASE Reset
  BY <1>7 DEF Reset
<1>8. CASE StoreMessage
  <2>1. PICK m \in mem.msgs : m.seq = Head(pending) /\ Enqueue(Msg(m))
    BY <1>8 DEF StoreMessage
  <2>2. Msg(m) \in FileRecords /\ Msg(m).run >= resets
    BY <1>2 DEF TypeOK, Msg, Records, Data, Sent, FileRecords
  <2>3. Fresh(queue) => Fresh(Append(queue, Msg(m)))
    BY <1>3, <2>2 DEF Fresh
  <2>4. QED
    BY <1>2, <1>8, <2>1, <2>3 DEF StoreMessage, Enqueue, Fresh
<1>9. CASE StoreSender \/ StoreTarget
  <2>1. PICK r \in FileRecords : r.kind # "MSG" /\ Enqueue(r)
    BY <1>9 DEF StoreSender, StoreTarget, TypeOK, Number, Records, Data, FileRecords
  <2>2. Fresh(queue) => Fresh(Append(queue, r))
    BY <1>3, <2>1 DEF Fresh
  <2>3. QED
    BY <1>2, <1>9, <2>1, <2>2 DEF StoreSender, StoreTarget, Enqueue, Fresh
<1>10. CASE ResetMark \/ Flush \/ MessagesStored \/ Scan \/ OpenFails
            \/ Stop \/ StopWriter \/ LastFlush \/ Close
  BY <1>4, <1>10 DEF ResetMark, Flush, MessagesStored, Scan, OpenFails, Stop, StopWriter,
                     LastFlush, Close
<1>11. CASE Wipe
  <2>1. file' = <<>> /\ buffer' = <<>> /\ queue' = <<>> /\ mem' = mem /\ resets' = resets
    BY <1>11 DEF Wipe, ResetsReach
  <2>2. QED
    BY <1>2, <2>1 DEF Fresh
<1>12. CASE Swap
  BY <1>2, <1>12 DEF Swap, Fresh
<1>13. CASE AppendBuffer
  <2>1. file' = file \o buffer /\ buffer' = <<>> /\ UNCHANGED <<queue, mem, resets, shouldReset>>
    BY <1>13 DEF AppendBuffer
  <2>2. ~shouldReset => Fresh(file \o buffer)
    BY <1>2, <1>3, FreshConcat
  <2>3. QED
    BY <1>2, <2>1, <2>2 DEF Fresh
<1>14. CASE WriteFails
  <2>1. file' \in Cuts /\ buffer' = <<>> /\ UNCHANGED <<queue, mem, resets, shouldReset>>
    BY <1>14 DEF WriteFails
  <2>2. ~shouldReset => Fresh(file')
    BY <1>2, <2>1, FreshCuts
  <2>3. QED
    BY <1>2, <2>1, <2>2 DEF Fresh
<1>15. CASE Restart
  <2>1. ~shouldReset
    BY <1>15 DEF Restart, Stages
  <2>2. /\ mem' \in Loads(file) /\ file' = file /\ buffer' = <<>> /\ queue' = <<>>
        /\ resets' = resets
    BY <1>15 DEF Restart, StartFrom
  <2>3. \A m \in mem'.msgs : m.run >= resets
    BY <1>2, <1>3, <2>1, <2>2, FreshLoads
  <2>4. QED
    BY <1>2, <2>1, <2>2, <2>3 DEF Fresh
<1>16. CASE Crash
  <2>1. starts' # 1 /\ "crash" \in Env.faults /\ Env' = Env
    BY <1>16 DEF Crash, StartFrom, TypeOK, Counted, Env
  <2>2. QED
    BY <2>1 DEF ResetsReach
<1>17. CASE UNCHANGED vars
  BY <1>4, <1>17 DEF vars
<1>18. QED
  BY <1>5, <1>6, <1>7, <1>8, <1>9, <1>10, <1>11, <1>12, <1>13, <1>14, <1>15, <1>16, <1>17
     DEF Next, SessionThread, WriterThread

\* It is in every reachable state.
LEMMA ForgetInvariant == Spec => []ForgetInv
<1>1. Init => ForgetInv
  BY DEF Init, ForgetInv, Fresh, NoData
<1>2. TypeInv /\ Stages /\ ForgetInv /\ [Next]_vars => ForgetInv'
  BY ForgetStep
<1>3. QED
  BY <1>1, <1>2, TypeInvariant, StagesInvariant, PTL DEF Spec

\* WriterInstance::reset stores its flags without the lock, at any point of the
\* writer's loop and with any failure of a write: once the flag is taken back, nothing
\* from before the reset is left to be loaded, unless the file could not be truncated
\* or a crash came in between.
THEOREM ResetsForget == Spec => [](ResetsReach => ResetForgets)
<1>1. TypeInv /\ ForgetInv => (ResetsReach => ResetForgets)
  <2> SUFFICES ASSUME TypeInv, ForgetInv, ResetsReach, ~shouldReset,
                      NEW m \in Messages(file \o buffer \o queue)
               PROVE  m.run >= resets
    BY DEF ResetForgets
  <2>1. /\ file \in Seq(FileRecords) /\ buffer \in Seq(FileRecords) /\ queue \in Seq(FileRecords)
        /\ Fresh(file) /\ Fresh(buffer) /\ Fresh(queue)
    BY WrittenType DEF TypeInv, ForgetInv
  <2>2. Fresh(file \o buffer) /\ file \o buffer \in Seq(FileRecords)
    BY <2>1, FreshConcat
  <2>3. Fresh(file \o buffer \o queue)
    BY <2>1, <2>2, FreshConcat
  <2>4. QED
    BY <2>3, FreshMessages
<1>2. QED
  BY <1>1, TypeInvariant, ForgetInvariant, PTL
================================================================================
