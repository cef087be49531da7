------------------------------ MODULE Persistence ------------------------------
(***************************************************************************)
(* How a session's numbers and sent messages reach its store file and come *)
(* back: MemoryCache, StoreHandle and the FileWriter thread.  The session's *)
(* thread calls the cache; its flush hands records to a WriterInstance, one *)
(* call at a time; the writer thread swaps the instance's queue for its     *)
(* buffer and appends the buffer to the file.  The process stops, crashes   *)
(* and starts again from the file.                                          *)
(*                                                                          *)
(* The module Session has the result of a flush at once in "disk": this one *)
(* shows what lies between.                                                 *)
(***************************************************************************)
EXTENDS Integers, Sequences, FiniteSetsExt

\* "crash": the process dies; "tear": a crash leaves part of a record in the file;
\* "open": the file cannot be opened for appending; "truncate": nor for a reset;
\* "write": a write ends in an error.
FaultKinds == {"crash", "tear", "open", "truncate", "write"}

\* The max... fields are bounds.
Environment ==
    [maxSeq: Nat \ {0},             \* no new number above it
     maxStarts: Nat,                \* process starts
     maxResets: Nat,                \* calls of MemoryCache::reset
     faults: SUBSET FaultKinds]     \* what may go wrong

CONSTANT Scenarios                  \* a function from names to environments

ASSUME PersistenceAssumption ==
    \A name \in DOMAIN Scenarios : Scenarios[name] \in Environment

VARIABLES
    env,            \* the scenario of this behaviour
    mem,            \* MemoryCache: the two numbers and m_messages
    changed,        \* m_seqNumsDirty
    pending,        \* m_pendingStoreSeqNums
    call,           \* what the session's thread is doing with the cache
    queue, buffer,  \* WriterInstance: m_queue, m_buffer
    marked,         \* WriterInstance: m_dirty
    shouldReset,    \* WriterInstance: m_shouldReset
    writer,         \* where the writer thread is: "scan", "lock" or "write"
    open,           \* the stream is open and good
    file,           \* the records in the file
    life,           \* "running", then the stages of Application::stop
    starts, resets

cacheVars == <<mem, changed, pending>>
instanceVars == <<queue, buffer, marked, shouldReset>>
diskVars == <<writer, open, file>>
lifeVars == <<env, life, starts, resets>>
vars == <<cacheVars, call, instanceVars, diskVars, lifeVars>>

Env == Scenarios[env]

-----------------------------------------------------------------------------
(* Records and loading *)

\* "run" tells a message from the one of the same number sent before a reset or
\* a restart.
Runs == UNION {0..Scenarios[name].maxStarts + Scenarios[name].maxResets : name \in DOMAIN Scenarios}
SeqNums == UNION {0..Scenarios[name].maxSeq + 1 : name \in DOMAIN Scenarios}
Sent == [seq: SeqNums, run: Runs]

Records ==
    [kind: {"MSG"}, n: SeqNums, run: Runs]
    \cup [kind: {"SENDER", "TARGET"}, n: SeqNums, run: {0}]

Msg(m) == [kind |-> "MSG", n |-> m.seq, run |-> m.run]
Number(kind, n) == [kind |-> kind, n |-> n, run |-> 0]

\* A record of which only the first bytes are there.
Torn == [kind |-> "TORN", n |-> 0, run |-> 0]

Data == [sender: SeqNums, target: SeqNums, msgs: SUBSET Sent]
NoData == [sender |-> 1, target |-> 1, msgs |-> {}]

Last(recs, kind) ==
    LET at == {i \in DOMAIN recs : recs[i].kind = kind}
    IN  IF at = {} THEN 1 ELSE recs[Max(at)].n

\* Of several records for a number the last one counts.
Messages(recs) ==
    {[seq |-> recs[i].n, run |-> recs[i].run] :
        i \in {j \in DOMAIN recs :
                 /\ recs[j].kind = "MSG"
                 /\ \A k \in DOMAIN recs : k > j => recs[k].kind # "MSG" \/ recs[k].n # recs[j].n}}

Contents(recs) ==
    [sender |-> Last(recs, "SENDER"), target |-> Last(recs, "TARGET"), msgs |-> Messages(recs)]

\* StoreHandle::load, and Session::load that ignores its exceptions.  A torn
\* record at the end throws, and the session starts with nothing; one with
\* records after it swallows some of them or throws.
Loads(recs) ==
    LET torn == {i \in DOMAIN recs : recs[i] = Torn}
        from(j) == SubSeq(recs, j, Len(recs))
    IN  IF torn = {} THEN {Contents(recs)}
        ELSE {NoData} \cup
             {Contents(SubSeq(recs, 1, Min(torn) - 1) \o from(j)) :
                 j \in {k \in Max(torn) + 1 .. Len(recs) + 1 : Max(torn) < Len(recs)}}

-----------------------------------------------------------------------------

Init ==
    /\ env \in DOMAIN Scenarios
    /\ mem = NoData /\ changed = FALSE /\ pending = <<>>
    /\ call = "none"
    /\ queue = <<>> /\ buffer = <<>> /\ marked = FALSE /\ shouldReset = FALSE
    /\ writer = "scan" /\ open = FALSE /\ file = <<>>
    /\ life = "running" /\ starts = 1 /\ resets = 0

----
(* The session's thread *)

Idle == call = "none" /\ life = "running"

\* cache and nextSenderSeqNum, of Session::send.
Send ==
    /\ Idle /\ mem.sender <= Env.maxSeq
    /\ LET new == [seq |-> mem.sender, run |-> starts + resets - 1]
       IN  mem' = [mem EXCEPT !.msgs = {m \in @ : m.seq # new.seq} \cup {new},
                              !.sender = @ + 1]
    /\ pending' = Append(pending, mem.sender)
    /\ changed' = TRUE
    /\ UNCHANGED <<call, instanceVars, diskVars, lifeVars>>

\* fetch_sub for fetch_add.
ReceiveBackwards ==
    /\ Idle /\ mem.target <= Env.maxSeq
    /\ mem' = [mem EXCEPT !.target = @ - 1]
    /\ changed' = TRUE
    /\ UNCHANGED <<pending, call, instanceVars, diskVars, lifeVars>>

\* nextTargetSeqNum.
Receive ==
    /\ Idle /\ mem.target <= Env.maxSeq
    /\ mem' = [mem EXCEPT !.target = @ + 1]
    /\ changed' = TRUE
    /\ UNCHANGED <<pending, call, instanceVars, diskVars, lifeVars>>

\* MemoryCache::reset, whose WriterInstance::reset is two atomic stores without
\* the instance's lock.
Reset ==
    /\ Idle /\ resets < Env.maxResets
    /\ mem' = [sender |-> 0, target |-> 0, msgs |-> {}]
    /\ changed' = FALSE /\ pending' = <<>>
    /\ shouldReset' = TRUE
    /\ call' = "reset"
    /\ resets' = resets + 1
    /\ UNCHANGED <<queue, buffer, marked, diskVars, env, life, starts>>

ResetMark ==
    /\ call = "reset"
    /\ marked' = TRUE
    /\ call' = "none"
    /\ UNCHANGED <<cacheVars, queue, buffer, shouldReset, diskVars, lifeVars>>

\* flushSeqNums, from the update of the session or from its stop.
Flush ==
    /\ Idle /\ (pending # <<>> \/ changed)
    /\ call' = "messages"
    /\ UNCHANGED <<cacheVars, instanceVars, diskVars, lifeVars>>

\* A write that leaves the instance unmarked.
EnqueueUnmarked(r) == queue' = Append(queue, r) /\ UNCHANGED marked
\* WriterInstance::write and writeRaw, under the instance's lock.
Enqueue(r) == queue' = Append(queue, r) /\ marked' = TRUE

StoreMessage ==
    /\ call = "messages" /\ pending # <<>>
    /\ \E m \in mem.msgs : m.seq = Head(pending) /\ Enqueue(Msg(m))
    /\ pending' = Tail(pending)
    /\ UNCHANGED <<mem, changed, call, buffer, shouldReset, diskVars, lifeVars>>

\* A flush that starts with the numbers.
NumbersFirst ==
    /\ call = "messages" /\ changed
    /\ changed' = FALSE
    /\ call' = "sender"
    /\ UNCHANGED <<mem, pending, instanceVars, diskVars, lifeVars>>

MessagesStored ==
    /\ call = "messages" /\ pending = <<>>
    /\ changed' = FALSE
    /\ call' = IF changed THEN "sender" ELSE "none"
    /\ UNCHANGED <<mem, pending, instanceVars, diskVars, lifeVars>>

StoreSender ==
    /\ call = "sender"
    /\ Enqueue(Number("SENDER", mem.sender))
    /\ call' = "target"
    /\ UNCHANGED <<cacheVars, buffer, shouldReset, diskVars, lifeVars>>

StoreTarget ==
    /\ call = "target"
    /\ Enqueue(Number("TARGET", mem.target))
    /\ call' = "none"
    /\ UNCHANGED <<cacheVars, buffer, shouldReset, diskVars, lifeVars>>

----
(* The writer thread *)

\* process finds an instance that is marked.
Scan ==
    /\ writer = "scan" /\ marked
    /\ life \in {"running", "stopping", "joining"}
    /\ writer' = "lock"
    /\ UNCHANGED <<cacheVars, call, instanceVars, open, file, lifeVars>>

\* A reset that leaves the file as it is.
WipeInstance ==
    /\ writer = "lock" /\ shouldReset
    /\ marked' = FALSE /\ shouldReset' = FALSE
    /\ queue' = <<>> /\ buffer' = <<>>
    /\ writer' = "scan"
    /\ UNCHANGED <<open, file>>
    /\ UNCHANGED <<cacheVars, call, lifeVars>>

\* flushInstances under the instance's lock: a reset also clears what was written
\* after it.
Wipe ==
    /\ writer = "lock" /\ shouldReset
    /\ marked' = FALSE /\ shouldReset' = FALSE
    /\ queue' = <<>> /\ buffer' = <<>>
    /\ open' = FALSE
    /\ file' \in IF "truncate" \in Env.faults THEN {<<>>, file} ELSE {<<>>}
    /\ writer' = "scan"
    /\ UNCHANGED <<cacheVars, call, lifeVars>>

\* A buffer that could not be written changes places with what was queued since.
Swap ==
    /\ writer = "lock" /\ ~shouldReset
    /\ marked' = FALSE
    /\ IF queue # <<>> THEN queue' = buffer /\ buffer' = queue
                       ELSE UNCHANGED <<queue, buffer>>
    /\ writer' = IF buffer' = <<>> THEN "scan" ELSE "write"
    /\ UNCHANGED <<cacheVars, call, shouldReset, open, file, lifeVars>>

\* What part of the buffer may be in the file if writing it was interrupted.
Cuts ==
    {file \o SubSeq(buffer, 1, n) : n \in 0..Len(buffer)}
    \cup IF "tear" \in Env.faults
         THEN {file \o SubSeq(buffer, 1, n) \o <<Torn>> : n \in 0..Len(buffer) - 1} ELSE {}

\* A write that forgets to clear the buffer.
AppendKeepsBuffer ==
    /\ writer = "write"
    /\ file' = file \o buffer
    /\ open' = TRUE
    /\ writer' = "scan"
    /\ UNCHANGED <<cacheVars, call, instanceVars, lifeVars>>

\* Outside the lock; the file is opened for appending if it is not open.
AppendBuffer ==
    /\ writer = "write"
    /\ file' = file \o buffer
    /\ buffer' = <<>>
    /\ open' = TRUE
    /\ writer' = "scan"
    /\ UNCHANGED <<cacheVars, call, queue, marked, shouldReset, lifeVars>>

OpenFails ==
    /\ writer = "write" /\ ~open /\ "open" \in Env.faults
    /\ writer' = "scan"
    /\ UNCHANGED <<cacheVars, call, instanceVars, open, file, lifeVars>>

WriteFails ==
    /\ writer = "write" /\ "write" \in Env.faults
    /\ file' \in Cuts
    /\ buffer' = <<>>
    /\ open' = FALSE
    /\ writer' = "scan"
    /\ UNCHANGED <<cacheVars, call, queue, marked, shouldReset, lifeVars>>

----
(* Stopping, crashing and starting *)

\* Session::stop, with its flush.
Stop ==
    /\ Idle /\ starts < Env.maxStarts
    /\ life' = "stopping"
    /\ call' = "messages"
    /\ UNCHANGED <<cacheVars, instanceVars, diskVars, env, starts, resets>>

\* FileStore::stop: FileWriter::stop joins the thread ...
StopWriter ==
    /\ life = "stopping" /\ call = "none"
    /\ life' = "joining"
    /\ UNCHANGED <<cacheVars, call, instanceVars, diskVars, env, starts, resets>>

\* A stop without the last flush.
NoLastFlush ==
    /\ life = "joining" /\ writer = "scan"
    /\ life' = "stopped"
    /\ UNCHANGED <<cacheVars, call, instanceVars, diskVars, env, starts, resets>>

\* ... and flushes once more.
LastFlush ==
    /\ life = "joining" /\ writer = "scan"
    /\ life' = "closing"
    /\ writer' = IF marked THEN "lock" ELSE "scan"
    /\ UNCHANGED <<cacheVars, call, instanceVars, open, file, env, starts, resets>>

Close ==
    /\ life = "closing" /\ writer = "scan"
    /\ life' = "stopped"
    /\ open' = FALSE
    /\ UNCHANGED <<cacheVars, call, instanceVars, writer, file, env, starts, resets>>

\* A new process: an empty instance, and the cache loaded from the file.
StartFrom(records) ==
    /\ mem' \in Loads(records)
    /\ file' = records
    /\ changed' = FALSE /\ pending' = <<>> /\ call' = "none"
    /\ queue' = <<>> /\ buffer' = <<>> /\ marked' = FALSE /\ shouldReset' = FALSE
    /\ writer' = "scan" /\ open' = FALSE
    /\ life' = "running" /\ starts' = starts + 1
    /\ UNCHANGED <<env, resets>>

Restart ==
    /\ life = "stopped" /\ starts < Env.maxStarts
    /\ StartFrom(file)

Crash ==
    /\ "crash" \in Env.faults /\ life # "stopped" /\ starts < Env.maxStarts
    /\ \E records \in (IF writer = "write" THEN Cuts ELSE {file}) : StartFrom(records)

SessionThread ==
    \/ Send \/ Receive \/ Reset \/ ResetMark
    \/ Flush \/ StoreMessage \/ MessagesStored \/ StoreSender \/ StoreTarget

WriterThread == Scan \/ Wipe \/ Swap \/ AppendBuffer \/ OpenFails \/ WriteFails

Next ==
    \/ SessionThread \/ WriterThread
    \/ Stop \/ StopWriter \/ LastFlush \/ Close
    \/ Restart \/ Crash

Spec == Init /\ [][Next]_vars

\* The writer's loop turns until it is stopped.
FairSpec == Spec /\ WF_vars(WriterThread)

-----------------------------------------------------------------------------
(* Properties *)

Calls == {"none", "reset", "messages", "sender", "target"}

\* Cache, instance, writer and file hold what their operations give them.
TypeOK ==
    /\ env \in DOMAIN Scenarios
    /\ mem \in Data /\ changed \in BOOLEAN /\ pending \in Seq(SeqNums)
    /\ call \in Calls
    /\ queue \in Seq(Records) /\ buffer \in Seq(Records)
    /\ marked \in BOOLEAN /\ shouldReset \in BOOLEAN
    /\ writer \in {"scan", "lock", "write"} /\ open \in BOOLEAN
    /\ file \in Seq(Records \cup {Torn})
    /\ life \in {"running", "stopping", "joining", "closing", "stopped"}
    /\ starts \in Nat /\ resets \in Nat

\* Files open and writes succeed; a crash leaves whole records.
Reliable == Env.faults \cap {"open", "write", "tear"} = {}

\* The two threads, the swap of queue and buffer and the write outside the lock
\* together are a log: records in the order of the calls, each once, as long as the
\* file is reliable.
Written == file \o buffer \o queue
Log == INSTANCE RecordLog WITH log <- Written
WriterKeepsOrder == Log!Init /\ [][Reliable => Log!Next]_Written

\* After Application::stop the file holds what the cache held: the next process
\* goes on with the same numbers and can resend the same messages.  (An untouched
\* reset is the exception: it leaves 0 and 0, which an empty file gives as 1 and 1.)
Durable == life = "stopped" /\ <<mem.sender, mem.target>> # <<0, 0>> => Contents(file) = mem

\* It does so as long as the file is reliable and nothing was reset ...
StopDurable == Reliable /\ resets = 0 => Durable

\* ... and should after a reset as well: the numbers of after it are stored like any
\* others.
ResetDurable == Reliable => Durable

\* Whatever a crash left of the file, every number below the loaded sender number
\* has its message: flushSeqNums writes the messages before the numbers, and a
\* resend request for any of them can be answered.
LoadedComplete == \A n \in 1..mem.sender - 1 : \E m \in mem.msgs : m.seq = n

\* The flag of WriterInstance::reset is set without the lock while the writer may
\* be writing: once it is taken back, no message from before the reset is left in
\* the instance or in the file.
ResetForgets ==
    ~shouldReset => \A m \in Messages(file \o buffer \o queue) : m.run >= resets

\* What is written to an instance is taken to the file, or the process ends, unless the
\* file cannot be opened.
EventuallyWritten == queue # <<>> /\ "open" \notin Env.faults ~> (queue = <<>> \/ life = "stopped")
=============================================================================
