---------------------------- MODULE DictionaryLoader ----------------------------
(***************************************************************************)
(* DictionaryRegistry::load: from the XML of a FIX dictionary to the specs  *)
(* of messages.  Fields are declared, components refer to each other, and   *)
(* header, trailer and messages to both; a component's fields become the    *)
(* fields of whatever refers to it.                                         *)
(*                                                                          *)
(* An attribute that is missing is NoName or NoTag; nodes that load does    *)
(* not know are left out.  The hash maps keep the order of insertion.       *)
(***************************************************************************)
EXTENDS Integers, FiniteSetsExt, SequencesExt

LOCAL R == INSTANCE Relation

NoName == ""
NoTag == -1
NoType == 0          \* message types are numbers
Missing == [kind |-> "missing", name |-> NoName, type |-> NoType, required |-> FALSE,
            ordered |-> FALSE, items |-> <<>>]

Node(kind, name, items) == [Missing EXCEPT !.kind = kind, !.name = name, !.items = items]

\* FieldTypes::LOOKUP, as far as it matters.
KnownTypes == {"STRING", "LENGTH", "DATA"}

\* What load throws for, or a dictionary.
Rejected == [rejected |-> TRUE]

-----------------------------------------------------------------------------
(* Fields *)

FieldsValid(fields) ==
    /\ \A i \in DOMAIN fields :
          fields[i].tag # NoTag /\ fields[i].name # NoName /\ fields[i].type \in KnownTypes
    /\ IsInjective([i \in DOMAIN fields |-> fields[i].tag])

\* fieldMap: of fields with one name the last.
FieldMapOf(fields) ==
    FoldLeft(LAMBDA map, f : (f.name :> f.tag) @@ map, <<>>, fields)

\* fieldMap[name] makes an entry with tag 0.
TagOf(tags, name) == IF name \in DOMAIN tags THEN tags[name] ELSE 0

TagsOfType(fields, type) == {f.tag : f \in {g \in Range(fields) : g.type = type}}

-----------------------------------------------------------------------------
(* Components *)

ComponentsNamed(components) ==
    /\ \A c \in Range(components) : c.name # NoName
    /\ IsInjective([i \in DOMAIN components |-> components[i].name])

\* validateGroup: what a component refers to, in its groups too, has to be there.
RECURSIVE ValidGroup(_, _, _)
ValidGroup(node, tags, names) ==
    \A item \in Range(node.items) :
        CASE item.kind = "component" -> item.name \in names
          [] item.kind = "group" -> item.name \in DOMAIN tags /\ ValidGroup(item, tags, names)
          [] item.kind = "field" -> item.name \in DOMAIN tags

\* componentGraph.
RECURSIVE Children(_)
Children(node) ==
    UNION {CASE item.kind = "component" -> {item.name}
             [] item.kind = "group" -> Children(item)
             [] OTHER -> {} : item \in Range(node.items)}

\* Without those that others refer to, the last of the working list comes next.
Toposort(graph) ==
    LET indegrees == [n \in DOMAIN graph |-> Cardinality({m \in DOMAIN graph : n \in graph[m]})]
        Start == [degrees |-> indegrees, sorted |-> <<>>,
                  working |-> SetToSeq({n \in DOMAIN graph : indegrees[n] = 0})]
        Turn(s) ==
            LET node == Last(s.working)
                degrees == [n \in DOMAIN graph |-> s.degrees[n] - (IF n \in graph[node] THEN 1 ELSE 0)]
            IN  [degrees |-> degrees, sorted |-> Append(s.sorted, node),
                 working |-> SetToSeq({n \in graph[node] : degrees[n] = 0}) \o Front(s.working)]
    IN  FoldLeft(LAMBDA s, n : IF s.working = <<>> THEN s ELSE Turn(s), Start,
                 SetToSeq(DOMAIN graph)).sorted

-----------------------------------------------------------------------------
(* Specs *)

\* A spec that is being built has its fields and groups in the order of insertion, and
\* one that is there twice is an error.
RECURSIVE Unambiguous(_)
Unambiguous(spec) ==
    /\ IsInjective([i \in DOMAIN spec.fields |-> spec.fields[i].tag])
    /\ IsInjective([i \in DOMAIN spec.groups |-> spec.groups[i].tag])
    /\ \A g \in Range(spec.groups) : Unambiguous(g.spec)

Tags(entries) == [i \in DOMAIN entries |-> entries[i].tag]

\* buildGroup; a component that is not built yet is an empty one.
RECURSIVE BuildGroup(_, _, _)
BuildGroup(node, tags, built) ==
    LET WithField(spec, item) ==
            LET tag == TagOf(tags, item.name)
            IN  [spec EXCEPT !.fields = Append(@, [tag |-> tag, required |-> item.required]),
                             !.order = Append(@, tag)]
        WithGroup(spec, item) ==
            LET tag == TagOf(tags, item.name)
            IN  [spec EXCEPT !.groups = Append(@, [tag |-> tag, spec |-> BuildGroup(item, tags, built)]),
                             !.order = Append(@, tag)]
        WithComponent(spec, c) ==
            [spec EXCEPT !.fields = @ \o c.fields, !.groups = @ \o c.groups,
                         !.order = @ \o Tags(c.fields) \o Tags(c.groups)]
        With(spec, item) ==
            CASE item.kind = "field" -> WithField(spec, item)
              [] item.kind = "group" -> WithGroup(spec, item)
              [] item.kind = "component" ->
                    IF item.name \in DOMAIN built THEN WithComponent(spec, built[item.name]) ELSE spec
    IN  FoldLeft(With, [fields |-> <<>>, groups |-> <<>>, order |-> <<>>, ordered |-> node.ordered],
                 node.items)

\* Components before those that they refer to.
BuildOrderForward(sorted) == sorted

\* Components behind those that they refer to.
BuildOrder(sorted) == Reverse(sorted)

BuildComponents(components, tags, sorted) ==
    LET NodeOf(name) == CHOOSE c \in Range(components) : c.name = name
    IN  FoldLeft(LAMBDA built, name : built @@ (name :> BuildGroup(NodeOf(name), tags, built)),
                 <<>>, BuildOrder(sorted))

-----------------------------------------------------------------------------
(* Dictionaries *)

\* A built spec as the parser looks it up.
RECURSIVE Finished(_)
Finished(spec) ==
    [required |-> FoldLeft(LAMBDA map, f : map @@ (f.tag :> f.required), <<>>, spec.fields),
     groups |-> FoldLeft(LAMBDA map, g : map @@ (g.tag :> Finished(g.spec)), <<>>, spec.groups),
     ordered |-> spec.ordered, order |-> spec.order]

Assemble(doc, tags, built) ==
    LET Spec(node) == BuildGroup(node, tags, built)
        specs == Range(built) \cup {Spec(n) : n \in {doc.header, doc.trailer} \cup Range(doc.messages)}
        types == [i \in DOMAIN doc.messages |-> doc.messages[i].type]
    IN  IF (\E spec \in specs : ~Unambiguous(spec)) \/ NoType \in Range(types) \/ ~IsInjective(types)
        THEN Rejected
        ELSE [header |-> Finished(Spec(doc.header)), trailer |-> Finished(Spec(doc.trailer)),
              bodies |-> FoldLeft(LAMBDA map, m : map @@ (m.type :> Finished(Spec(m))), <<>>, doc.messages),
              lengths |-> TagsOfType(doc.fields, "LENGTH"), datas |-> TagsOfType(doc.fields, "DATA")]

\* DictionaryRegistry::load of a file that it has not loaded.
Load(doc) ==
    LET tags == FieldMapOf(doc.fields)
        names == {c.name : c \in Range(doc.components)}
        graph == [n \in names |-> Children(CHOOSE c \in Range(doc.components) : c.name = n)]
        sorted == Toposort(graph)
    IN  IF \/ doc.header = Missing \/ doc.trailer = Missing
           \/ ~FieldsValid(doc.fields) \/ ~ComponentsNamed(doc.components)
           \/ \E c \in Range(doc.components) : ~ValidGroup(c, tags, names)
           \/ Len(sorted) # Cardinality(names)
        THEN Rejected
        ELSE Assemble(doc, tags, BuildComponents(doc.components, tags, sorted))

-----------------------------------------------------------------------------
(* What a dictionary says, without an order in which it is read *)

\* Its components contain no component that contains itself.
Circular(doc) ==
    LET names == {c.name : c \in Range(doc.components)}
        Uses == [a, b \in names |->
                    \E c \in Range(doc.components) : c.name = a /\ b \in Children(c)]
    IN  \E n \in names : R!TransitiveClosure(Uses, names)[n, n]

\* The fields and groups of a node, each with the way to it through components.
RECURSIVE Leaves(_, _)
Leaves(node, components) ==
    UNION {LET item == node.items[i]
               inner == UNION {Leaves(c, components) : c \in {d \in Range(components) : d.name = item.name}}
           IN  IF item.kind = "component" THEN {[way |-> <<i>> \o l.way, item |-> l.item] : l \in inner}
               ELSE {[way |-> <<i>>, item |-> item]}
           : i \in DOMAIN node.items}

LeavesOf(doc, node, kind) == {l \in Leaves(node, doc.components) : l.item.kind = kind}

\* A field or a group that a node has in two ways.
RECURSIVE Doubled(_, _)
Doubled(doc, node) ==
    LET tags == FieldMapOf(doc.fields)
    IN  \/ \E kind \in {"field", "group"} :
              \E a, b \in LeavesOf(doc, node, kind) :
                 a # b /\ TagOf(tags, a.item.name) = TagOf(tags, b.item.name)
        \/ \E l \in LeavesOf(doc, node, "group") : Doubled(doc, l.item)

\* A spec has what its node has, each in one way.
RECURSIVE Says(_, _, _)
Says(spec, doc, node) ==
    LET tags == FieldMapOf(doc.fields)
        Entries(kind) == {[tag |-> TagOf(tags, l.item.name), item |-> l.item] : l \in LeavesOf(doc, node, kind)}
    IN  /\ spec.ordered = node.ordered
        /\ DOMAIN spec.required = {e.tag : e \in Entries("field")}
        /\ \A e \in Entries("field") : spec.required[e.tag] = e.item.required
        /\ DOMAIN spec.groups = {e.tag : e \in Entries("group")}
        /\ \A e \in Entries("group") : Says(spec.groups[e.tag], doc, e.item)
        /\ Range(spec.order) = DOMAIN spec.required \cup DOMAIN spec.groups

\* load has to refuse it, for whatever reason.
Faulty(doc) ==
    LET names == {c.name : c \in Range(doc.components)}
        types == [i \in DOMAIN doc.messages |-> doc.messages[i].type]
    IN  \/ Missing \in {doc.header, doc.trailer} \/ ~FieldsValid(doc.fields)
        \/ ~ComponentsNamed(doc.components) \/ NoType \in Range(types) \/ ~IsInjective(types)
        \/ \E c \in Range(doc.components) : ~ValidGroup(c, FieldMapOf(doc.fields), names)
        \/ Circular(doc)
        \/ \E node \in Range(doc.components) \cup Range(doc.messages) \cup {doc.header, doc.trailer} :
              Doubled(doc, node)

Describes(dictionary, doc) ==
    /\ Says(dictionary.header, doc, doc.header) /\ Says(dictionary.trailer, doc, doc.trailer)
    /\ DOMAIN dictionary.bodies = {m.type : m \in Range(doc.messages)}
    /\ \A m \in Range(doc.messages) : Says(dictionary.bodies[m.type], doc, m)
=============================================================================
