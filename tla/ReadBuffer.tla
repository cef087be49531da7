------------------------------- MODULE ReadBuffer -------------------------------
(***************************************************************************)
(* From a connection's bytes to texts: ReadBuffer::read cuts what a reader   *)
(* thread reads, and processRead hands on what comes out.  A peer sends      *)
(* texts and other things; they arrive cut anywhere, and the connection ends *)
(* anywhere.                                                                *)
(*                                                                          *)
(* A read ends between two units: of a unit that is there in part, the code  *)
(* looks for a tag or a value that is not complete, and goes on as if the    *)
(* unit was not there.                                                      *)
(***************************************************************************)
EXTENDS TextUnits, SequencesExt

CONSTANT Scenarios
    \* names -> [sends: what a peer may send, maxSends: bound on a connection,
    \*           maxConns: bound on the connections, strangers: whether an acceptor gets
    \*           connections for which it has no session]

\* What an engine puts around a content: its length, and the first checksum behind it.
Framed(text) ==
    /\ Len(text) >= 3 /\ text[1].tag = BeginString
    /\ text[2].tag = BodyLength /\ text[2].val = Len(text) - 3
    /\ text[Len(text)].tag = CheckSum /\ text[Len(text)].val # NoValue

\* What a peer may send at once: "text" on the wire; "sealed" says that its length and
\* checksum are right.
ASSUME ReadBufferAssumption ==
    \A name \in DOMAIN Scenarios :
        /\ {"sends", "maxSends", "maxConns", "strangers"} \subseteq DOMAIN Scenarios[name]
        /\ \A x \in Scenarios[name].sends :
              x.text \in Seq(Units) /\ (x.sealed => Framed(x.text))

VARIABLES
    env,        \* the scenario of this behaviour
    sent,       \* history: what the peer sent on this connection
    wire,       \* everything it put on the wire
    pos,        \* how much of it was read
    buffer,     \* m_bufferMap of the descriptor
    got,        \* the texts processed
    link,       \* "none" without a session, "new" until the connection has it, "known",
                \* "ended" after an error, "closed"
    conns       \* connections so far, all with the same descriptor

connectionVars == <<env, sent, wire, pos, buffer, got, conns>>
readerVars == <<connectionVars, link>>

Env == Scenarios[env]

ReaderInit ==
    /\ env \in DOMAIN Scenarios
    /\ sent = <<>> /\ wire = <<>> /\ pos = 0 /\ buffer = <<>> /\ got = <<>>
    /\ link = "none" /\ conns = 1

-----------------------------------------------------------------------------
(* ReadBuffer::read *)

\* "8=" is looked for anywhere: the end of a tag will do.
Begins(unit) == unit.tag >= 0 /\ unit.tag % 10 = BeginString

\* From a unit on, without what stands before its "8=".
From(units, i) == <<[units[i] EXCEPT !.tag = BeginString]>> \o SubSeq(units, i + 1, Len(units))

\* Mutant: the checksum is looked for from the beginning.
NextUnitAnywhere(units, after, tag) == SelectInSeq(units, LAMBDA u : u.tag = tag)

NextUnit(units, after, tag) ==
    SelectInSubSeq(units, after + 1, Len(units), LAMBDA u : u.tag = tag)

\* Mutant: the whole buffer is erased.
GotAndErased(texts, rest) == [texts |-> texts, rest |-> <<>>]

Got(texts, rest) == [texts |-> texts, rest |-> rest]

\* One turn of the loop, behind the first k units: a text is complete with a beginning, a
\* length, and the first checksum behind that length; taken[k] is what the turns behind
\* the first k units take.
TakeFrom(units, taken, k) ==
    LET left == SubSeq(units, k + 1, Len(units))
        start == SelectInSeq(left, Begins)
        text == From(left, start)
        length == NextUnit(text, 1, BodyLength)
        end == NextUnit(text, length + text[length].val, CheckSum)
        more(i) == taken[k + start - 1 + i]
    IN  IF start = 0 THEN Got(<<>>, left)
        ELSE IF length = 0 THEN Got(<<>>, text)
        ELSE IF text[length].val = NoValue THEN Got(<<>>, text)
        ELSE IF text[length].val = NotANumber THEN more(length)
        ELSE IF end = 0 THEN Got(<<>>, text)
        ELSE IF text[end].val = NoValue THEN Got(<<>>, text)
        ELSE Got(<<SubSeq(text, 1, end)>> \o more(end).texts, more(end).rest)

\* Texts are taken from the front as long as one is complete.
Extract(units) ==
    LET taken[k \in 0..Len(units)] == TakeFrom(units, taken, k)
    IN  taken[0]

Open == link \in {"new", "known"}

\* processRead hands on the texts.  The first one says whose a new connection is; a
\* stranger's descriptor is closed, and its buffer is not cleared.
HandOn(texts, state) ==
    \/ got' = got \o texts /\ link' = state
    \/ /\ link = "new" /\ texts # <<>> /\ Env.strangers
       /\ link' = "closed" /\ UNCHANGED got

ReadUpTo(n) ==
    /\ Open /\ n > pos /\ n <= Len(wire)
    /\ LET read == Extract(buffer \o SubSeq(wire, pos + 1, n))
       IN  /\ buffer' = read.rest
           /\ HandOn(read.texts, IF read.texts = <<>> THEN link ELSE "known")
    /\ pos' = n
    /\ UNCHANGED <<env, sent, wire, conns>>

\* The read that meets the end throws, and the texts it found are not handed on.
ReadEnd ==
    /\ Open
    /\ buffer' = Extract(buffer \o SubSeq(wire, pos + 1, Len(wire))).rest
    /\ pos' = Len(wire)
    /\ link' = "ended"
    /\ UNCHANGED <<env, sent, wire, got, conns>>

\* One that meets an error clears the buffer and hands on what it found.
ReadError ==
    /\ Open
    /\ HandOn(Extract(buffer \o SubSeq(wire, pos + 1, Len(wire))).texts, "ended")
    /\ buffer' = <<>> /\ pos' = Len(wire)
    /\ UNCHANGED <<env, sent, wire, conns>>

\* ReaderThread::disconnect
Disconnect ==
    /\ link \notin {"none", "closed"}
    /\ buffer' = <<>>
    /\ link' = "closed"
    /\ UNCHANGED <<env, sent, wire, pos, got, conns>>

-----------------------------------------------------------------------------
(* The peer, and a session for it *)

Send ==
    /\ Open /\ Len(sent) < Env.maxSends
    /\ \E x \in Env.sends : sent' = Append(sent, x) /\ wire' = wire \o x.text
    /\ UNCHANGED <<env, pos, buffer, got, link, conns>>

\* A new connection gets the descriptor.
Dial ==
    /\ link = "closed" /\ conns < Env.maxConns
    /\ sent' = <<>> /\ wire' = <<>> /\ pos' = 0 /\ got' = <<>>
    /\ link' = "new" /\ conns' = conns + 1
    /\ UNCHANGED <<env, buffer>>

Connection ==
    \/ Send \/ Dial
    \/ \E n \in 1..Len(wire) : ReadUpTo(n)
    \/ ReadEnd \/ ReadError \/ Disconnect

\* There is a session that connects or accepts.
FirstConnection ==
    /\ link = "none" /\ link' = "new"
    /\ UNCHANGED connectionVars

ReaderNext == Connection \/ FirstConnection

ReaderSpec == ReaderInit /\ [][ReaderNext]_readerVars

-----------------------------------------------------------------------------
(* Properties *)

\* Wire, buffer and texts hold units.
ReaderTypeOK ==
    /\ env \in DOMAIN Scenarios
    /\ wire \in Seq(Units) /\ buffer \in Seq(Units) /\ pos \in 0..Len(wire)
    /\ got \in Seq(Seq(Units))
    /\ link \in {"none", "new", "known", "ended", "closed"} /\ conns \in Nat \ {0}

\* However the bytes are cut into reads, the texts are those of one read, and so is what
\* waits for its end.
CutAnywhere ==
    link = "known" =>
        LET whole == Extract(SubSeq(wire, 1, pos))
        IN  whole.rest = buffer /\ whole.texts = got

\* What a peer sends sealed comes out text by text, in order, each once, whatever its
\* DATA fields look like.
ArrivesWhole ==
    link = "known" /\ (\A i \in DOMAIN sent : sent[i].sealed) =>
        /\ \A i \in DOMAIN got : i \in DOMAIN sent /\ got[i] = sent[i].text
        /\ pos = Len(wire) => Len(got) = Len(sent)
=============================================================================
