------------------------------- MODULE FixMessage -------------------------------
(***************************************************************************)
(* Messages and their text: Message.cpp, Dictionary::parse, Checksum.h.     *)
(*                                                                          *)
(* The value of a DATA field may go on over further units, whatever they    *)
(* look like.                                                               *)
(*                                                                          *)
(* A message is kept flat: each of its fields knows the FieldMap it is in,  *)
(* which is one of the three parts or an instance of a group inside it.     *)
(***************************************************************************)
EXTENDS TextUnits, FiniteSetsExt, SequencesExt

\* What DictionaryLoader makes of a file.  A spec has the tags of its fields (and whether
\* they are required), its groups' specs, and the order of the tags if it is ordered;
\* bodies: per MsgType a spec; lengths, datas: the tags of these types.
CONSTANT Dictionary

MsgType == 35

ASSUME DictionaryAssumption ==
    /\ Dictionary.trailer.groups = <<>>
    /\ CheckSum \in DOMAIN Dictionary.trailer.required
    /\ BodyLength \in Dictionary.lengths

-----------------------------------------------------------------------------
(* Messages *)

EmptyMessage == [fields |-> <<>>, groups |-> {}]

Top(part) == [part |-> part, path |-> <<>>]
GroupInstance(at, tag, i) == [at EXCEPT !.path = Append(@, <<tag, i>>)]
Enclosing(at) == [at EXCEPT !.path = Front(@)]

Field(at, unit, raw) == [at |-> at, tag |-> unit.tag, val |-> unit.val, raw |-> raw]

\* The places of a FieldMap's fields in the message.
Places(m, at) == SetToSortSeq({i \in DOMAIN m.fields : m.fields[i].at = at}, <)
FieldsOf(m, at) == SelectSeq(m.fields, LAMBDA f : f.at = at)
Has(m, at, tag) == \E i \in DOMAIN m.fields : m.fields[i].at = at /\ m.fields[i].tag = tag
FieldValue(m, at, tag) ==
    m.fields[SelectInSeq(m.fields, LAMBDA f : f.at = at /\ f.tag = tag)].val

GroupCount(m, at, tag) ==
    Cardinality({i \in 1..Cardinality(m.groups) : GroupInstance(at, tag, i) \in m.groups})
\* Mutant: the instance takes the place of the last one.
AddGroupInPlace(m, at, tag) ==
    [m EXCEPT !.groups = @ \cup {GroupInstance(at, tag, GroupCount(m, at, tag))}]

AddGroup(m, at, tag) ==
    [m EXCEPT !.groups = @ \cup {GroupInstance(at, tag, GroupCount(m, at, tag) + 1)}]

\* m_fields[tag] = value
Assign(m, f) ==
    LET i == SelectInSeq(m.fields, LAMBDA g : g.at = f.at /\ g.tag = f.tag)
    IN  [m EXCEPT !.fields = IF i = 0 THEN Append(@, f) ELSE ReplaceAt(@, i, f)]

RemoveField(m, at, tag) ==
    [m EXCEPT !.fields = SelectSeq(@, LAMBDA f : f.at # at \/ f.tag # tag)]

\* insertFieldView with order: the pointer into the order moves on to the next tag that
\* is this field's or the new one's; a field that is not in the order takes it to the end.
InsertOrdered(m, f, order) ==
    LET places == Places(m, f.at)
        tag(k) == m.fields[places[k]].tag
        pointer[k \in 0..Len(places)] ==
            IF k = 0 THEN 1
            ELSE Min({j \in pointer[k - 1]..Len(order) : order[j] \in {f.tag, tag(k)}}
                     \cup {Len(order) + 1})
        stops == {k \in DOMAIN places : \/ tag(k) = f.tag
                                        \/ pointer[k] <= Len(order) /\ order[pointer[k]] = f.tag}
    IN  IF stops = {} THEN Assign(m, f)
        ELSE IF tag(Min(stops)) = f.tag THEN Assign(m, f)
        ELSE IF Has(m, f.at, f.tag) THEN m      \* LinkedHashMap::insert
        ELSE [m EXCEPT !.fields = InsertAt(@, places[Min(stops)], f)]

\* FieldMap::setField of a message made by Dictionary::create; only its parts have a spec.
SpecOf(m, at) ==
    IF at.part # "body" THEN Dictionary[at.part] ELSE Dictionary.bodies[FieldValue(m, Top("header"), MsgType)]

SetField(m, f) ==
    IF f.at.path = <<>> /\ SpecOf(m, f.at).ordered
    THEN InsertOrdered(m, f, SpecOf(m, f.at).order) ELSE Assign(m, f)

Create(type) == Assign(EmptyMessage, Field(Top("header"), Unit(MsgType, type), <<>>))

-----------------------------------------------------------------------------
(* Messages to text *)

Ignored == {BeginString, BodyLength, CheckSum}

\* Each field, and behind the field with the group's tag the group's instances.
RECURSIVE AppendGroup(_, _)
AppendGroup(m, at) ==
    LET fields == FieldsOf(m, at)
        instances(tag) ==
            FlattenSeq([i \in 1..GroupCount(m, at, tag) |-> AppendGroup(m, GroupInstance(at, tag, i))])
        text(f) == IF f.tag \in Ignored THEN <<>>
                   ELSE <<Unit(f.tag, f.val)>> \o f.raw \o instances(f.tag)
    IN  FlattenSeq([i \in DOMAIN fields |-> text(fields[i])])

\* computeChecksum: the sum of all bytes in eight bits.
Sum(text) == FoldLeft(LAMBDA sum, u : (sum + u.tag + u.val) % 256, 0, text)

\* What serializeTo puts around the content.
Seal(begin, content) ==
    LET text == begin \o <<Unit(BodyLength, Len(content))>> \o content
    IN  Append(text, Unit(CheckSum, Sum(text)))

Serialize(m) ==
    Seal(IF Has(m, Top("header"), BeginString)
         THEN <<Unit(BeginString, FieldValue(m, Top("header"), BeginString))>> ELSE <<>>,
         AppendGroup(m, Top("header")) \o AppendGroup(m, Top("body")) \o AppendGroup(m, Top("trailer")))

-----------------------------------------------------------------------------
(* Text to messages: Dictionary::parse *)

\* Mutant: a new level has no instance yet.
LevelUncounted(spec, at, tag, max) ==
    [spec |-> spec, at |-> at, tag |-> tag, count |-> 0, max |-> max]

\* A level of the group stack.
Level(spec, at, tag, max) == [spec |-> spec, at |-> at, tag |-> tag, count |-> 1, max |-> max]

\* The parser's state: "seen" are the fields that duplicates are looked for among, "data"
\* the length announced for the next DATA field, or -1, "skip" how much of it is left;
\* "start" is where BodyLength stood.  "bad" says that TRY_LOG_THROW was called, which
\* ends the parse unless it is relaxed, and "undefined" that a null spec is used.
NewParser(cfg) ==
    [cfg |-> cfg, msg |-> EmptyMessage, part |-> "header",
     stack |-> <<Level(Dictionary.header, Top("header"), 0, 0)>>, seen |-> {}, data |-> -1, skip |-> 0,
     start |-> 0, last |-> 0, bad |-> FALSE, undefined |-> FALSE]

Fails(p) == [p EXCEPT !.bad = TRUE]
Failed(p) == p.undefined \/ (p.bad /\ ~p.cfg.relaxed)

\* FieldMap::sortFields: in the spec's order, and what is not in it behind that by tag.
SortFields(m, at, order) ==
    LET places == Places(m, at)
        rank(f) == LET i == SelectInSeq(order, LAMBDA tag : tag = f.tag)
                   IN  IF i = 0 THEN Len(order) + f.tag ELSE i
        sorted == SortSeq(FieldsOf(m, at), LAMBDA f, g : rank(f) < rank(g))
    IN  [m EXCEPT !.fields = [i \in DOMAIN @ |->
            LET k == SelectInSeq(places, LAMBDA place : place = i)
            IN  IF k = 0 THEN @[i] ELSE sorted[k]]]

ValidateGroup(p, level) ==
    LET spec == level.spec
        m == IF p.cfg.reorder /\ spec.ordered THEN SortFields(p.msg, level.at, spec.order) ELSE p.msg
        missing == {tag \in DOMAIN spec.required : spec.required[tag] /\ ~Has(m, level.at, tag)}
    IN  [p EXCEPT !.msg = m, !.bad = @ \/ (p.cfg.required /\ missing # {})]

CloseLevel(p, level) ==
    ValidateGroup(IF level.tag > 0 /\ level.count < level.max THEN Fails(p) ELSE p, level)

\* overwriteStack: keep so many levels.
OverwriteStack(p, size) ==
    IF Len(p.stack) <= size THEN p
    ELSE [FoldLeft(CloseLevel, p, Reverse(SubSeq(p.stack, size + 1, Len(p.stack))))
             EXCEPT !.stack = SubSeq(@, 1, size)]

\* What a value says about the fields that follow.
NoteLength(p, unit) ==
    IF unit.tag \notin Dictionary.lengths \/ unit.val < 0 THEN p ELSE [p EXCEPT !.data = unit.val]
Note(p, unit, i) ==
    LET noted == NoteLength(IF unit.tag \in Dictionary.lengths /\ unit.val < 0 THEN Fails(p) ELSE p, unit)
    IN  IF unit.tag = BodyLength THEN [noted EXCEPT !.start = i] ELSE noted

\* setFieldViewOrDetectDup of a field that was not seen.
Insert(p, at, unit) ==
    [p EXCEPT !.msg.fields = Append(@, Field(at, unit, <<>>)), !.seen = @ \cup {<<at, unit.tag>>}]

Nowhere(p) == [level |-> 0, p |-> p]

\* handleRepeatingTag: a field that its group's instance has begins the next instance.
RepeatTag(p, j, unit) ==
    LET level == p.stack[j]
        closed == ValidateGroup(p, level)
        at == GroupInstance(Enclosing(level.at), level.tag,
                            GroupCount(p.msg, Enclosing(level.at), level.tag) + 1)
        added == [closed EXCEPT !.msg = AddGroup(@, Enclosing(level.at), level.tag),
                                !.stack[j] = [level EXCEPT !.at = at, !.count = @ + 1]]
    IN  IF level.tag = 0 \/ level.count = level.max THEN Nowhere(Fails(p))
        ELSE [level |-> j, p |-> NoteLength(Insert(added, at, unit), unit)]

\* A group begins: its level is pushed onto the top of the stack.
OpenGroup(p, j, unit, i) ==
    LET at == p.stack[j].at
        first == GroupInstance(at, unit.tag, 1)
        added == [p EXCEPT !.msg = Assign(AddGroup(@, at, unit.tag), Field(at, unit, <<>>)),
                           !.stack = Append(@, Level(p.stack[j].spec.groups[unit.tag], first,
                                                     unit.tag, unit.val))]
    IN  IF unit.val < 0 THEN Nowhere(Fails(p)) ELSE [level |-> j + 1, p |-> Note(added, unit, i)]

\* trySetField: the level the field is in, or 0.
TrySetField(p, j, unit, i) ==
    LET level == p.stack[j]
        isField == unit.tag \in DOMAIN level.spec.required
        isGroup == ~isField /\ unit.tag \in DOMAIN level.spec.groups
        again == \/ isField /\ <<level.at, unit.tag>> \in p.seen
                 \/ isGroup /\ GroupCount(p.msg, level.at, unit.tag) > 0
    IN  IF again THEN RepeatTag(p, j, unit)
        ELSE IF isField THEN [level |-> j, p |-> Note(Insert(p, level.at, unit), unit, i)]
        ELSE IF isGroup THEN OpenGroup(p, j, unit, i)
        ELSE Nowhere(p)

\* The levels are tried from the top; what they object to on the way counts.
TryLevels(p, unit, i) ==
    FoldLeft(LAMBDA try, j : IF try.level > 0 THEN try ELSE TrySetField(try.p, j, unit, i),
             Nowhere(p), Reverse([j \in 1..Len(p.stack) |-> j]))

\* Mutant: a field that the dictionary does not have is left out.
UnknownDropped(p, unit, i) == Note(p, unit, i)

Unknown(p, unit, i) ==
    Note([p EXCEPT !.msg = Assign(@, Field(Last(p.stack).at, unit, <<>>))], unit, i)

\* The first field of the trailer replaces the body's level.
IntoTrailer(try, body, unit, i) ==
    IF try.level = 0 THEN Unknown(body, unit, i)
    ELSE OverwriteStack(ValidateGroup([try.p EXCEPT !.part = "trailer", !.stack = @ \o Tail(body.stack)],
                                      body.stack[1]), 1)

ToTrailer(p, unit, i) ==
    IF p.part # "body" THEN Unknown(p, unit, i)
    ELSE IntoTrailer(TrySetField([p EXCEPT !.stack = <<Level(Dictionary.trailer, Top("trailer"), 0, 0)>>],
                                 1, unit, i), p, unit, i)

\* The first field that is not the header's begins the body.  A MsgType without a spec is
\* not refused: its null spec is used.
InBody(try, unit, i) == IF try.level > 0 THEN try.p ELSE ToTrailer(try.p, unit, i)

BeginBody(p, unit, i) ==
    LET type == FieldValue(p.msg, Top("header"), MsgType)
        body == [p EXCEPT !.part = "body",
                          !.stack = <<Level(Dictionary.bodies[type], Top("body"), 0, 0)>>]
    IN  IF Failed(p) THEN p
        ELSE IF ~Has(p.msg, Top("header"), MsgType) THEN [Fails(p) EXCEPT !.undefined = p.cfg.relaxed]
        ELSE IF type \notin DOMAIN Dictionary.bodies THEN [p EXCEPT !.undefined = TRUE]
        ELSE InBody(TrySetField(body, 1, unit, i), unit, i)

HasSpec(spec) == DOMAIN spec.required \cup DOMAIN spec.groups # {}

Dispatched(try, unit, i) ==
    IF try.level > 0 THEN OverwriteStack(try.p, try.level)
    ELSE IF Failed(try.p) THEN try.p
    ELSE IF try.p.part = "header" THEN BeginBody(OverwriteStack(try.p, 0), unit, i)
    ELSE ToTrailer(try.p, unit, i)

DispatchField(p, unit, i) ==
    Dispatched(IF HasSpec(Last(p.stack).spec) THEN TryLevels(p, unit, i) ELSE Nowhere(p), unit, i)

\* The value of a DATA field has its announced length, whatever units that covers.
SetData(p, text, i) ==
    LET end == i + p.data - 1
        whole == [p EXCEPT !.msg = Assign(@, Field(Last(p.stack).at, text[i], SubSeq(text, i + 1, end))),
                           !.skip = p.data - 1, !.data = -1]
    IN  IF end > Len(text) THEN [Fails(p) EXCEPT !.undefined = p.cfg.relaxed] ELSE whole

FirstTags == <<BeginString, BodyLength, MsgType>>

\* One turn of the loop over the text.
ParseUnit(p, text, i) ==
    LET unit == text[i]
        q == [p EXCEPT !.last = unit.tag, !.bad = @ \/ (i <= 3 /\ unit.tag # FirstTags[i])]
    IN  IF Failed(p) THEN p
        ELSE IF p.skip > 0 THEN [p EXCEPT !.skip = @ - 1]
        ELSE IF unit.tag < 0 THEN Fails([p EXCEPT !.last = unit.tag])
        ELSE IF Failed(q) THEN q
        ELSE IF p.data > 0 /\ unit.tag \in Dictionary.datas THEN SetData(q, text, i)
        ELSE DispatchField([q EXCEPT !.data = -1], unit, i)

\* Mutant: the sum is not computed.
VerifiedLengthOnly(p, text) ==
    /\ Has(p.msg, Top("header"), BodyLength)
    /\ FieldValue(p.msg, Top("header"), BodyLength) = Len(text) - p.start - 1
    /\ Has(p.msg, Top("trailer"), CheckSum) /\ p.last = CheckSum

\* BodyLength, CheckSum and the end of the text.
Verified(p, text) ==
    /\ Has(p.msg, Top("header"), BodyLength)
    /\ FieldValue(p.msg, Top("header"), BodyLength) = Len(text) - p.start - 1
    /\ Has(p.msg, Top("trailer"), CheckSum) /\ p.last = CheckSum
    /\ FieldValue(p.msg, Top("trailer"), CheckSum) = Sum(Front(text))

Refused == [kind |-> "refused"]
Undefined == [kind |-> "undefined"]

Outcome(p, text) ==
    IF p.undefined THEN Undefined
    ELSE IF ~p.cfg.relaxed /\ (p.bad \/ p.part # "trailer" \/ ~Verified(p, text)) THEN Refused
    ELSE [kind |-> "message", msg |-> RemoveField(p.msg, Top("trailer"), CheckSum)]

Parse(cfg, text) ==
    Outcome(OverwriteStack(FoldLeftDomain(LAMBDA p, i : ParseUnit(p, text, i), NewParser(cfg), text), 0),
            text)
=============================================================================
