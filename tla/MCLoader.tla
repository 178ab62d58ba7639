------------------------------ MODULE MCLoader ------------------------------
(***************************************************************************)
(* Images for Loader.tla: every combination of a few kinds of fields in a  *)
(* structure, a class and a derived class; overloads and overrides in both *)
(* orders; attributes with each kind of parameter; and images in which     *)
(* something is missing, out of order or without an end.                   *)
(***************************************************************************)
EXTENDS Loader, TLC

MCWidths == "System.Void" :> 0 @@ "System.Byte" :> 1 @@ "System.Int16" :> 2 @@
            "System.Int32" :> 4 @@ "System.Int64" :> 8

Type(id, super, is) == [kind |-> "type", id |-> id, super |-> super, is |-> is]
Field(id, owner, declared, is) ==
  [kind |-> "field", id |-> id, owner |-> owner, declared |-> declared, is |-> is]
Method(id, owner, name, parameters) ==
  [kind |-> "method", id |-> id, owner |-> owner, name |-> name, is |-> {name} \intersect {".cctor"},
   returns |-> "System.Void", parameters |-> parameters]
Code(owner, natives) ==
  [kind |-> "code", id |-> owner \o " code", owner |-> owner, variables |-> <<"System.Int32">>,
   code |-> natives]
Handler(id, owner, row, catch) ==
  [kind |-> "handler", id |-> id, owner |-> owner, row |-> row, catch |-> catch]
Attribute(id, owner, declared) ==
  [kind |-> "attribute", id |-> id, owner |-> owner, declared |-> declared,
   ctor |-> declared \o ".ctor"]
Argument(id, owner, declared, count, values) ==
  [kind |-> "argument", id |-> id, owner |-> owner, declared |-> declared,
   count |-> count, values |-> values]
Table(kind) == [kind |-> kind, id |-> kind]

Number(name) == Type(name, "", {"struct", "primitive", "sequential"})
Core == <<Table("header"), Table("strings"), Type("Object", "", {}),
          Number("System.Void"), Number("System.Byte"), Number("System.Int32"),
          Type("System.Int64", "", {"struct", "primitive"})>>

-----------------------------------------------------------------------------
Kinds == {"System.Byte", "System.Int32", "System.Int64", "Pair", "Box", "Object"}
FieldOf(id, owner, t) ==
  Field(id, owner, t, IF t = "Object" THEN {} ELSE {"struct"})

Layouts ==
  {Core \o
   <<Type("Pair", "", {"struct"} \union packed),
     Field("Pair.all", "Pair", "Object", {"static"}),
     FieldOf("Pair.a", "Pair", p), FieldOf("Pair.b", "Pair", q),
     Type("Box", "", {"struct"}), FieldOf("Box.a", "Box", "Pair"), FieldOf("Box.b", "Box", "System.Byte"),
     Type("Node", "Object", {}), FieldOf("Node.a", "Node", a), FieldOf("Node.b", "Node", b),
     Type("Leaf", "Node", {}), FieldOf("Leaf.a", "Leaf", c)>> :
     packed \in SUBSET {"sequential"},
     p \in {"System.Byte", "Object"}, q \in {"System.Int32", "System.Int64"},
     a \in Kinds, b \in {"System.Int32", "Pair"}, c \in Kinds \ {"Object"}}

-----------------------------------------------------------------------------
Visit(id, owner, more) == Method(id, owner, "Visit", <<owner>> \o more)
Two(a, b) == {<<a, b>>, <<b, a>>}

Overrides ==
  {Core \o <<Type("Node", "Object", {}), Type("Leaf", "Node", {}), Type("Bud", "Leaf", {})>>
     \o below \o above \o <<Visit("Bud.Visit", "Bud", last)>> :
     above \in Two(Visit("Node.Visit", "Node", <<>>), Visit("Node.Visit1", "Node", <<"Object">>)),
     below \in Two(Visit("Leaf.Visit", "Leaf", <<"Object">>), Method("Leaf.Stop", "Leaf", "Stop", <<"Leaf">>)),
     last \in {<<>>, <<"Object">>}}

-----------------------------------------------------------------------------
Startup(first, second, natives) ==
  Core \o
  <<Type("System.Int32[]", "Object", {}), Type("System.String", "Object", {}),
    Type("Kind", "", {"struct", "enum"}), Field("Kind.value", "Kind", "System.Int32", {"struct"}),
    Type("FarCallAttribute", "Object", {}),
    Method("FarCallAttribute.ctor", "FarCallAttribute", ".ctor",
           <<"FarCallAttribute", "System.String", "Kind">>),
    Code("FarCallAttribute.ctor", <<>>),
    Type("Note", "Object", {}),
    Method("Note.ctor", "Note", ".ctor", <<"Note", "System.Int32[]", "System.Int32">>),
    Code("Note.ctor", <<>>),
    Type("Clock", "Object", {}), Field("Clock.now", "Clock", "System.Int32", {"static", "struct"}),
    Method("Clock.Read", "Clock", "Read", <<>>),
    Method("Clock.cctor", "Clock", ".cctor", <<>>), Code("Clock.cctor", natives),
    Handler("Clock.row", "Clock.cctor", "catch", "Object"),
    Handler("Clock.end", "Clock.cctor", "finally", ""),
    Type(Initializer, "Object", {}),
    Method("Start", Initializer, "Initialize", <<Initializer>>), Code("Start", <<"Clock.Read">>),
    Method("Start.end", Initializer, "Finalize", <<Initializer>>)>>
  \o first \o second

FarCalled(id, owner, name, count) ==
  <<Attribute(id, owner, "FarCallAttribute"),
    Argument(id \o " name", id, "System.String", 1, <<name>>),
    Argument(id \o " kind", id, "Kind", count, <<"7">>)>>
Noted(id, owner) ==
  <<Attribute(id, owner, "Note"),
    Argument(id \o " words", id, "System.Int32[]", 2, <<"3", "4">>),
    Argument(id \o " word", id, "System.Int32", 1, <<"5">>)>>

Linked == FarCalled("import", "Clock.Read", "PalTimerClock", 1)

Attributed ==
  {Startup(Linked, second, natives) :
     second \in {Noted("note", "Clock"), Noted("note", "Clock.now"),
                 FarCalled("other", "Clock.Read", "Unknown", 1),
                 FarCalled("other", "Clock.Read", "PalLoggerPrint", 1)},
     natives \in {<<>>, <<"Clock.Read">>}}

(* Its full name has ".cctor" in the name of the type that it returns.     *)
Named(parameters) ==
  [Method("Clock.Name", "Clock", "Name", parameters) EXCEPT !.is = {".cctor"}]

Strange ==
  {Startup(first, <<>>, <<>>) :
     first \in {FarCalled("import", "Clock.Read", "Unknown", 1),
                FarCalled("import", "Clock.Read", "PalTimerClock", 2),
                FarCalled("import", "Clock.Read", "PalTimerClock", 0),
                <<Linked[1], Linked[2]>>, <<Linked[1], Linked[3], Linked[2]>>,
                <<Linked[1], Argument("none", "import", "System.String", 0, <<>>), Linked[3]>>,
                <<Attribute("import", "header", "FarCallAttribute")>>,
                <<Attribute("import", "strings", "FarCallAttribute")>>,
                <<Attribute("import", "Nobody", "FarCallAttribute")>>,
                <<Argument("lone", "Nobody", "System.Int32", 1, <<"1">>)>>,
                <<Linked[1], Argument("long", "import", "System.Int64", 1, <<"1">>)>>,
                <<Attribute("import", "Clock.Read", "Clock")>>,
                <<[Linked[1] EXCEPT !.declared = "Later"], Linked[2], Linked[3]>>,
                <<Named(<<>>), Code("Clock.Name", <<"Clock.Read">>)>> \o Linked,
                <<Named(<<"Object">>), Code("Clock.Name", <<>>)>>}}
  \union
  {Core \o wrong :
     wrong \in {<<Table("unknown")>>,
                <<Type("Leaf", "Node", {}), Type("Node", "Object", {})>>,
                <<Field("x", "Node", "Object", {}), Type("Node", "Object", {})>>,
                <<Method("x", "Node", "Visit", <<"Node">>), Type("Node", "Object", {})>>,
                <<Code("x", <<>>)>>, <<Handler("x", "Nobody", "catch", "Object")>>,
                <<Type("Node", "Object", {}), Field("x", "Node", "Later", {})>>,
                <<Type("Pair", "", {"struct"}),
                  Field("x", "Pair", "Pair", {"static", "struct"})>>,
                <<Type("None", "", {"struct"}), Type("Node", "", {}),
                  Field("x", "Node", "None", {"struct"})>>,
                <<Type("Node", "", {}), Type("Kind", "", {"struct", "enum"}),
                  Attribute("x", "Node", "Node"), Argument("y", "x", "System.Int32", 1, <<"1">>)>>}}
  \union {<<Table("header")>>, <<Number("System.Byte")>>}

MCImages == Layouts \union Overrides \union Attributed \union Strange
=============================================================================
