------------------------------- MODULE MCFraming -------------------------------
(* Instances of Framing for TLC: a small dictionary, messages and texts. *)
EXTENDS Framing, TLC

Optional(name) == Node("field", name, <<>>)
Needed(name) == [Optional(name) EXCEPT !.required = TRUE]
GroupOf(name, items) == Node("group", name, items)
Uses(name) == Node("component", name, <<>>)
Component(name, items) == Node("component", name, items)
MessageOf(type, items) == [Missing EXCEPT !.kind = "message", !.type = type, !.items = items]
Ordered(node) == [node EXCEPT !.ordered = TRUE]

Declared(name, tag, type) == [name |-> name, tag |-> tag, type |-> type]

\* A group of symbols with legs, a group of parties, and a length with its data.
SmallFile ==
    [fields |->
        <<Declared("BeginString", 8, "STRING"), Declared("BodyLength", 9, "LENGTH"),
          Declared("CheckSum", 10, "STRING"), Declared("ClOrdID", 11, "STRING"),
          Declared("MsgSeqNum", 34, "STRING"), Declared("MsgType", 35, "STRING"),
          Declared("SenderCompID", 49, "STRING"), Declared("Symbol", 55, "STRING"),
          Declared("Text", 58, "STRING"), Declared("SymbolSfx", 65, "STRING"),
          Declared("Signature", 89, "DATA"), Declared("SignatureLength", 93, "LENGTH"),
          Declared("RawDataLength", 95, "LENGTH"), Declared("RawData", 96, "DATA"),
          Declared("TestReqID", 112, "STRING"), Declared("NoRelatedSym", 146, "STRING"),
          Declared("PartyID", 448, "STRING"), Declared("NoPartyIDs", 453, "STRING"),
          Declared("NoLegs", 555, "STRING"), Declared("LegSymbol", 600, "STRING")>>,
     components |->
        <<Component("Symbols", <<GroupOf("NoRelatedSym",
                                         <<Needed("Symbol"), Optional("SymbolSfx"), Uses("Legs")>>)>>),
          Component("Legs", <<GroupOf("NoLegs", <<Needed("LegSymbol")>>)>>),
          Component("Numbering", <<Optional("SenderCompID"), Optional("MsgSeqNum")>>)>>,
     header |-> Ordered(Node("header", NoName, <<Needed("BeginString"), Needed("BodyLength"),
                                                 Needed("MsgType"), Uses("Numbering")>>)),
     trailer |-> Ordered(Node("trailer", NoName, <<Optional("SignatureLength"), Optional("Signature"),
                                                   Needed("CheckSum")>>)),
     messages |->
        <<MessageOf(1, <<Optional("ClOrdID"), Optional("Text"), Optional("RawDataLength"),
                         Optional("RawData"), Uses("Symbols"),
                         GroupOf("NoPartyIDs", <<Needed("PartyID")>>)>>),
          MessageOf(2, <<Optional("TestReqID")>>)>>]

Specified(needed, optional, groups, order) ==
    [required |-> [tag \in needed \cup optional |-> tag \in needed],
     groups |-> groups, ordered |-> FALSE, order |-> order]

\* The same as a dictionary.
Small ==
    LET Legs == Specified({600}, {}, <<>>, <<600>>)
        WithLegs == Specified({55}, {65}, 555 :> Legs, <<55, 65, 555>>)
        Parties == Specified({448}, {}, <<>>, <<448>>)
    IN  [header |-> Ordered(Specified({8, 9, 35}, {49, 34}, <<>>, <<8, 9, 35, 49, 34>>)),
         trailer |-> Ordered(Specified({10}, {93, 89}, <<>>, <<93, 89, 10>>)),
         bodies |-> <<Specified({}, {11, 58, 95, 96}, 146 :> WithLegs @@ 453 :> Parties,
                            <<11, 58, 95, 96, 146, 453>>),
                      Specified({}, {112}, <<>>, <<112>>)>>,
         lengths |-> {9, 93, 95}, datas |-> {89, 96}]

ASSUME SmallIsSaid == Describes(Small, SmallFile)

Strict == [relaxed |-> FALSE, required |-> FALSE, reorder |-> FALSE]
Required == [Strict EXCEPT !.required = TRUE]
Relaxed == [Strict EXCEPT !.relaxed = TRUE]
Reordering == [Required EXCEPT !.reorder = TRUE]

-----------------------------------------------------------------------------
(* Messages that an application builds *)

Set(at, tag, val) == [at |-> at, tag |-> tag, val |-> val, raw |-> <<>>]
Data(at, tag, raw) == [Set(at, tag, 1) EXCEPT !.raw = raw]

\* Fields are set in the order given; an instance is made by its first field.
Call(m, f) ==
    LET made == f.at.path = <<>> \/ f.at \in m.groups
    IN  SetField(IF made THEN m ELSE AddGroup(m, Enclosing(f.at), Last(f.at.path)[1]), f)
Build(type, calls) == FoldLeft(Call, Create(type), calls)

H == Top("header")
B == Top("body")
T == Top("trailer")
Symbol(i) == GroupInstance(B, 146, i)
Leg(i, j) == GroupInstance(Symbol(i), 555, j)
Party(i) == GroupInstance(B, 453, i)

Headers ==
    {<<Set(H, 8, 4)>> \o h : h \in {<<Set(H, 49, 1), Set(H, 34, 2)>>, <<Set(H, 34, 2), Set(H, 49, 1)>>}}

\* A DATA field's value that looks like the end of the text and the beginning of one.
Looks == <<Unit(10, 3), Unit(8, 4), Unit(9, 1)>>

Symbols(n) == <<Set(B, 146, n)>> \o [i \in 1..n |-> Set(Symbol(i), 55, i)]
Nested ==
    <<Set(B, 146, 2), Set(Symbol(1), 55, 1), Set(Symbol(1), 555, 2), Set(Leg(1, 1), 600, 1),
      Set(Leg(1, 2), 600, 2), Set(Symbol(2), 55, 2), Set(Symbol(2), 65, 1), Set(Symbol(2), 555, 1),
      Set(Leg(2, 1), 600, 3)>>
Bodies ==
    {<<>>, <<Set(B, 11, 1)>>, <<Set(B, 58, 1), Set(B, 11, 2)>>, <<Set(B, 95, 4), Data(B, 96, Looks)>>,
     Symbols(1), Symbols(2) \o <<Set(B, 11, 1)>>, <<Set(B, 11, 1)>> \o Nested,
     Nested \o <<Set(B, 58, 2)>>}
Trailers == {<<>>, <<Set(T, 93, 2), Data(T, 89, <<Unit(10, 3)>>)>>}

Said(m) == [text |-> Serialize(m), msg |-> m, sealed |-> TRUE]
Built ==
    {Said(Build(1, h \o b \o t)) : h \in Headers, b \in Bodies, t \in Trailers}
    \cup {Said(Build(2, h \o <<Set(B, 112, 1)>>)) : h \in Headers}

\* Two groups of one message.
Siblings == {Said(Build(1, h \o Symbols(n) \o <<Set(B, 453, 1), Set(Party(1), 448, 1)>>))
                : h \in Headers, n \in {1, 2}}

-----------------------------------------------------------------------------
(* Texts of another engine, and what a wire makes of texts *)

Other(text, sealed) == [text |-> text, msg |-> NoMessage, sealed |-> sealed]

\* 7 is in no specification.
Pieces == {<<Unit(11, 1)>>, <<Unit(55, 1)>>, <<Unit(65, 1)>>, <<Unit(600, 1)>>,
           <<Unit(55, 2), Unit(555, 1), Unit(600, 1)>>, <<Unit(7, 1)>>}
Foreign(n) ==
    {Other(Seal(<<Unit(8, 4)>>, <<Unit(35, 1), Unit(49, 1)>> \o start \o FlattenSeq(body)), TRUE)
        : start \in {<<>>, <<Unit(146, 2)>>}, body \in BoundedSeq(Pieces, n)}

Damages(text) ==
    UNION {{RemoveAt(text, i), ReplaceAt(text, i, [text[i] EXCEPT !.val = @ + 1]),
            ReplaceAt(text, i, [text[i] EXCEPT !.val = NotANumber]),
            ReplaceAt(text, i, [text[i] EXCEPT !.tag = NotANumber]), InsertAt(text, i, text[i]),
            SubSeq(text, 1, i - 1)} : i \in DOMAIN text}
Damaged ==
    LET good == Said(Build(1, <<Set(H, 8, 4), Set(H, 49, 1)>> \o Symbols(1)))
    IN  {good} \cup {Other(t, FALSE) : t \in Damages(good.text)}

-----------------------------------------------------------------------------

(* Files *)

\* Components that refer to each other in all ways, and a message that refers to them;
\* "D" and "Y" are not defined.
Inside(items, n) == {<<>>} \cup {<<x>> : x \in items} \cup
                    {<<x, y>> : x \in items, y \in IF n = 2 THEN items ELSE {}}

Tangle(a, b, c, order) ==
    [SmallFile EXCEPT !.components = <<Component("A", a), Component("B", b), Component("C", c)>>,
                      !.header.items = <<Needed("BeginString"), Uses("C")>>,
                      !.messages = <<MessageOf(1, order)>>]

Tangles ==
    {Tangle(a, b, c, order) :
        a \in Inside({Optional("Text"), Uses("B"), Uses("C"), GroupOf("NoLegs", <<Uses("B")>>)}, 2),
        b \in Inside({Needed("Symbol"), Uses("A"), Uses("C")}, 1),
        c \in Inside({Optional("ClOrdID"), GroupOf("NoLegs", <<Uses("A"), Optional("Text")>>), Uses("D")}, 1),
        order \in {<<Uses("A")>>, <<Uses("B"), Uses("D"), Optional("Y")>>}}

Heartbeat == SmallFile.messages[2]
Spoilt ==
    {[SmallFile EXCEPT !.header = Missing], [SmallFile EXCEPT !.trailer = Missing],
     [SmallFile EXCEPT !.components = <<Component(NoName, <<>>)>>],
     [SmallFile EXCEPT !.components = @ \o <<Component("Legs", <<>>)>>],
     [SmallFile EXCEPT !.messages = <<Heartbeat, Heartbeat>>],
     [SmallFile EXCEPT !.messages = <<[Heartbeat EXCEPT !.type = NoType]>>],
     [SmallFile EXCEPT !.messages = <<[Heartbeat EXCEPT !.items = <<Optional("Y"), Optional(NoName)>>]>>]}
    \cup {[SmallFile EXCEPT !.fields = @ \o <<f>>] :
            f \in {Declared("Again", 8, "STRING"), Declared("Text", 1, "STRING"), Declared(NoName, 1, "STRING"),
                   Declared("Odd", 1, "ODD"), Declared("Odd", NoTag, "STRING")}}

Unusual == [doc \in Tangles \cup Spoilt |-> doc]
Usual == <<SmallFile>>
GoodAndBad == <<SmallFile, [SmallFile EXCEPT !.trailer = Missing]>>

Files(name) ==
    CASE name = "files" -> Unusual
      [] name = "again" -> GoodAndBad
      [] OTHER -> Usual

-----------------------------------------------------------------------------

Few == {Said(Build(2, <<Set(H, 8, 4), Set(B, 112, 1)>>)),
        Said(Build(1, <<Set(H, 8, 4), Set(B, 95, 4), Data(B, 96, Looks)>>))}

Sends ==
    [built |-> Built, reordered |-> Built, foreign |-> Foreign(3), damaged |-> Damaged, files |-> {},
     relaxed |-> Damaged, refused |-> Few, again |-> Few, groups |-> Siblings]

Settings(name) ==
    CASE name = "built" -> Required
      [] name = "reordered" -> Reordering
      [] name = "relaxed" -> Relaxed
      [] OTHER -> Strict

Wires(names) ==
    [name \in names |->
        [sends |-> Sends[name], cfg |-> Settings(name), strangers |-> name = "refused",
         files |-> Files(name), maxLoads |-> IF name = "again" THEN 3 ELSE 1,
         maxSends |-> IF name \in {"damaged", "refused"} THEN 2 ELSE 1,
         maxConns |-> IF name = "again" THEN 2 ELSE 1]]

Traffic == Wires(DOMAIN Sends \ {"groups"})
Groups == Wires({"groups"})
=============================================================================
