--------------------------------- MODULE Framing ---------------------------------
(***************************************************************************)
(* From a connection's bytes to a session's messages: what comes out of the *)
(* read buffer is parsed with the dictionary of the session.                *)
(***************************************************************************)
EXTENDS FixMessage, DictionaryLoader, ReadBuffer

\* What a peer may send has "msg" besides, the message it is the text of, or NoMessage.
NoMessage == [fields |-> <<>>, groups |-> {}, none |-> TRUE]

\* And a scenario has cfg: the parser's settings, files: by path, dictionaries for
\* sessions, maxLoads: bound on the sessions.
ASSUME FramingAssumption ==
    \A name \in DOMAIN Scenarios : {"cfg", "files", "maxLoads"} \subseteq DOMAIN Scenarios[name]

VARIABLES
    results,    \* what the parser made of each text
    registry,   \* DictionaryRegistry::m_dictionaries
    asked       \* history: the sessions' paths and what load returned or threw

loaderVars == <<registry, asked>>
vars == <<readerVars, results, loaderVars>>

Init ==
    /\ ReaderInit
    /\ results = <<>> /\ registry = <<>> /\ asked = <<>>

\* A path is loaded once.
Known(path) == path \in DOMAIN registry

LoadDictionary(path) ==
    LET result == IF Known(path) THEN registry[path] ELSE Load(Env.files[path])
    IN  /\ registry' = IF result = Rejected THEN registry
                       ELSE (path :> result) @@ registry
        /\ asked' = Append(asked, [path |-> path, result |-> result])

\* There is no session if its dictionary is refused.
CreateSession(path) ==
    /\ Len(asked) < Env.maxLoads
    /\ LoadDictionary(path)
    /\ IF link = "none" /\ path \in DOMAIN registry' THEN FirstConnection
       ELSE UNCHANGED readerVars
    /\ UNCHANGED results

\* Each text is parsed as it is handed on.
Processed ==
    results' = [i \in DOMAIN got' |->
        IF i \in DOMAIN got THEN results[i] ELSE Parse(Env.cfg, got'[i])]

Next ==
    \/ Connection /\ Processed /\ UNCHANGED loaderVars
    \/ \E path \in DOMAIN Env.files : CreateSession(path)

Spec == Init /\ [][Next]_vars

-----------------------------------------------------------------------------
(* Properties *)

Results == {"refused", "undefined", "message"}

\* A FieldMap has a field once, and each field and each group is inside one that exists.
WellFormed(m) ==
    /\ \A i, j \in DOMAIN m.fields :
        i # j => <<m.fields[i].at, m.fields[i].tag>> # <<m.fields[j].at, m.fields[j].tag>>
    /\ \A at \in {f.at : f \in Range(m.fields)} \cup {Enclosing(g) : g \in m.groups} :
        at.path # <<>> => at \in m.groups

\* The buffer holds units, and every text that was processed has a result.
TypeOK ==
    /\ ReaderTypeOK
    /\ DOMAIN results = DOMAIN got
    /\ \A i \in DOMAIN results :
        /\ results[i].kind \in Results
        /\ results[i].kind = "message" => WellFormed(results[i].msg)
    /\ DOMAIN registry \subseteq DOMAIN Env.files
    /\ link # "none" => registry # <<>>

\* A dictionary is refused if it is faulty, and only then: names missing or used twice,
\* references to nothing, components inside themselves, a field or a group that a spec
\* would have twice.  Otherwise its specs have what the file says, through however many
\* components, built in whatever order ("this must be a completed component").
LoadIsClosure ==
    [][asked' # asked =>
         LET load == Last(asked')
             doc == Env.files[load.path]
         IN  IF load.result = Rejected THEN Faulty(doc)
             ELSE ~Faulty(doc) /\ Describes(load.result, doc)]_vars

\* A text that the parser accepts is one that an engine sealed: what was damaged on the
\* way, and what framing makes of it together with its neighbours, is refused.
AcceptedWasSealed ==
    ~Env.cfg.relaxed => \A i \in DOMAIN got :
        results[i].kind = "message" => \E x \in Env.sends : x.sealed /\ x.text = got[i]

\* Tags 8, 9 and 10 are written anew for every text.
Contents(m) ==
    [fields |-> SelectSeq(m.fields, LAMBDA f : f.tag \notin Ignored), groups |-> m.groups]

\* SimpleTest (MessageTest): a message that an application built and serialized is parsed
\* to the same fields in the same groups.
RoundTrip ==
    \A i \in DOMAIN got, j \in DOMAIN sent :
        got[i] = sent[j].text /\ sent[j].msg # NoMessage =>
            results[i].kind = "message" /\ Contents(results[i].msg) = Contents(sent[j].msg)

\* A FieldMap's specification.
SpecAt(m, at) ==
    FoldLeft(LAMBDA spec, step : spec.groups[step[1]], SpecOf(m, Top(at.part)), at.path)

\* Fields that the dictionary does not have where they stand.
Strays(m) ==
    {i \in DOMAIN m.fields :
        LET spec == SpecAt(m, m.fields[i].at)
        IN  m.fields[i].tag \notin DOMAIN spec.required \cup DOMAIN spec.groups}

Repeated(text, tag) == \E i, j \in DOMAIN text : i < j /\ text[i].tag = tag /\ text[j].tag = tag

\* SimpleTest (MessageTest), the other way: nothing of a text that is accepted is lost or
\* changes its place, whether the dictionary knows it or not; but of a field that the
\* dictionary does not have there and that comes twice the first is overwritten.
NothingLost ==
    ~Env.cfg.reorder /\ ~Env.cfg.relaxed => \A i \in DOMAIN got :
        LET text == got[i]
            m == results[i].msg
        IN  results[i].kind = "message" =>
                \/ Serialize(m) = text
                \/ \E k \in Strays(m) : Repeated(text, m.fields[k].tag)
=============================================================================
