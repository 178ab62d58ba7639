------------------------------- MODULE Loader -------------------------------
(***************************************************************************)
(* How an image becomes a running domain: LdrLoadDomain reads its sections *)
(* in order, LdrCalculateTypeSizes lays the types out, the static          *)
(* constructors and then those of the attributes run, FarInitialize links  *)
(* the native methods to what their attributes name, and MxStart calls the *)
(* initializer (intermarx/ldr/ldr.c, intermarx/main.c, far/far.c).         *)
(*                                                                         *)
(* The index of a section is its id, and a reference to a section that has *)
(* not been read yet is NULL, as in the zeroed table "sections".  "domain" *)
(* is what TypeSystem.tla and Interpreter.tla work on, the code and the    *)
(* offsets in it left out: of a method's code only the native methods that *)
(* it calls matter here.  Every method that is run has code.               *)
(***************************************************************************)
EXTENDS TypeSystem, Integers

CONSTANTS
  Images,      \* sequences of sections, see the actions below
  Widths,      \* the size of each type that LdrCalculateFieldSize names
  PointerSize, \* sizeof(VOID*)
  Required,    \* the types that ExInitialize looks up
  Imports      \* the names in the table of FarInitialize

ASSUME SizesAssumption ==
  /\ PointerSize \in Nat \ {0}
  /\ \A t \in DOMAIN Widths : Widths[t] \in Nat

(* What the sections of an image hold.  Each has an id of its own, because *)
(* that is an index.                                                       *)
SectionKinds ==
  [kind : {"header", "strings", "unknown"}, id : STRING] \union
  [kind : {"type"}, id : STRING, super : STRING, is : SUBSET STRING] \union
  [kind : {"field"}, id : STRING, owner : STRING, declared : STRING, is : SUBSET STRING] \union
  [kind : {"method"}, id : STRING, owner : STRING, name : STRING, is : SUBSET STRING,
   returns : STRING, parameters : Seq(STRING)] \union
  [kind : {"code"}, id : STRING, owner : STRING, variables : Seq(STRING),
   code : Seq(STRING)] \union
  [kind : {"handler"}, id : STRING, owner : STRING, row : {"catch", "finally"},
   catch : STRING] \union
  [kind : {"attribute"}, id : STRING, owner : STRING, declared : STRING, ctor : STRING] \union
  [kind : {"argument"}, id : STRING, owner : STRING, declared : STRING, count : Nat,
   values : Seq(STRING)]

ASSUME ImagesAssumption ==
  \A im \in Images : /\ im \in Seq(SectionKinds)
                     /\ \A i \in DOMAIN im : im[i].id # NoType
                     /\ \A i, j \in DOMAIN im : im[i].id = im[j].id => i = j

VARIABLES
  image,      \* what the boot loader left in memory
  position,   \* the section that LdrLoadDomain reads next
  loaded,     \* the sections whose entry in the table is set
  order,      \* domain->types
  domain,     \* types, fields and methods
  roots,      \* HpGlobalRootFieldList
  attributes, \* the vector "attributes" of a type, field or method
  objects,    \* the attributes: declared, ctor, params and parametersList
  moved,      \* attributes that a collection has moved: the pointers in the
              \* vectors above and in "sections" still lead to the old heap
  layout,     \* sizes of types, offsets and dataSize of fields
  finalizers, \* types with hasFinalizer
  pending,    \* constructors that are still to run
  given,      \* what the constructor of each attribute was given
  raised,     \* constructors that ended with an exception
  linked,     \* farCall of the native methods
  phase

reading == <<image, position, loaded, order, roots, attributes, objects>>
vars == <<reading, domain, moved, layout, finalizers, pending, given, raised, linked, phase>>

With(f, x, v) == [y \in DOMAIN f \union {x} |-> IF y = x THEN v ELSE f[y]]
AttributesOf(e) == IF e \in DOMAIN attributes THEN attributes[e] ELSE <<>>

(* PalDebugbreak stops the machine; a NULL that is followed, or a pointer  *)
(* to an object that has moved, leads anywhere.                            *)
End(how) ==
  /\ phase' = how
  /\ UNCHANGED <<reading, domain, moved, layout, finalizers, pending, given, raised, linked>>

Halt == End("halted")
Astray == End("astray")

-----------------------------------------------------------------------------
(* LdrLoadDomain.                                                          *)
Loading == phase = "loading" /\ position <= Len(image)
Section == image[position]
Refer(id) == IF id \in loaded THEN id ELSE NoType
ReferAll(ids) == [i \in DOMAIN ids |-> Refer(ids[i])]

Loaded ==
  /\ position' = position + 1
  /\ loaded' = loaded \union (IF Section.kind = "header" THEN {} ELSE {Section.id})
  /\ UNCHANGED <<image, moved, layout, finalizers, pending, given, raised, linked, phase>>

(* The header does nothing, its entry stays NULL; the string table is      *)
(* where names come from.                                                  *)
LoadTable ==
  /\ Loading
  /\ Section.kind \in {"header", "strings"}
  /\ Loaded
  /\ UNCHANGED <<order, domain, roots, attributes, objects>>

LoadUnknown == Loading /\ Section.kind = "unknown" /\ Halt

LoadType ==
  /\ Loading
  /\ Section.kind = "type"
  /\ Loaded
  /\ order' = Append(order, Section.id)
  /\ domain' = [domain EXCEPT !.types = With(@, Section.id,
                  [super |-> Refer(Section.super), is |-> Section.is,
                   fields |-> <<>>, methods |-> <<>>])]
  /\ UNCHANGED <<roots, attributes, objects>>

LoadField ==
  /\ Loading
  /\ Section.kind = "field"
  /\ IF Refer(Section.owner) = NoType THEN Astray
     ELSE /\ Loaded
          /\ domain' = [domain EXCEPT
               !.types[Section.owner].fields = Append(@, Section.id),
               !.fields = With(@, Section.id,
                 [owner |-> Section.owner, declared |-> Refer(Section.declared),
                  is |-> Section.is, static |-> "static" \in Section.is])]
          /\ roots' = IF "static" \in Section.is THEN Append(roots, Section.id) ELSE roots
          /\ UNCHANGED <<order, attributes, objects>>

LoadMethod ==
  /\ Loading
  /\ Section.kind = "method"
  /\ IF NoType \in {Refer(Section.owner), Refer(Section.returns)} THEN Astray
     ELSE /\ Loaded
          /\ domain' = [domain EXCEPT
               !.types[Section.owner].methods = Append(@, Section.id),
               !.methods = With(@, Section.id,
                 [owner |-> Section.owner, name |-> Section.name, is |-> Section.is,
                  parameters |-> ReferAll(Section.parameters), variables |-> <<>>,
                  returns |-> Section.returns # "System.Void", handlers |-> <<>>,
                  code |-> <<>>])]
          /\ UNCHANGED <<order, roots, attributes, objects>>

(* The entry of a section with code is the method itself.                  *)
LoadExecutable ==
  /\ Loading
  /\ Section.kind = "code"
  /\ IF Refer(Section.owner) = NoMethod THEN Astray
     ELSE /\ Loaded
          /\ domain' = [domain EXCEPT
               !.methods[Section.owner].variables = ReferAll(Section.variables),
               !.methods[Section.owner].code = Section.code]
          /\ UNCHANGED <<order, roots, attributes, objects>>

(* The type that a catch row names is looked up, a finally row has none.   *)
LoadHandler ==
  /\ Loading
  /\ Section.kind = "handler"
  /\ IF Refer(Section.owner) = NoMethod THEN Astray
     ELSE /\ Loaded
          /\ domain' = [domain EXCEPT !.methods[Section.owner].handlers = Append(@,
               [kind |-> Section.row,
                catch |-> IF Section.row = "finally" THEN NoType ELSE Refer(Section.catch)])]
          /\ UNCHANGED <<order, roots, attributes, objects>>

(* An attribute is an object.  It enters the vector of what it belongs to, *)
(* which nobody corrects.                                                  *)
Owners == DOMAIN domain.types \union DOMAIN domain.fields \union DOMAIN domain.methods

LoadAttribute ==
  /\ Loading
  /\ Section.kind = "attribute"
  /\ IF Refer(Section.owner) = NoType THEN Astray
     ELSE IF Section.owner \notin Owners THEN Halt
     ELSE /\ Loaded
          /\ attributes' = With(attributes, Section.owner,
                                Append(AttributesOf(Section.owner), Section.id))
          /\ objects' = With(objects, Section.id,
               [declared |-> Refer(Section.declared), ctor |-> Refer(Section.ctor),
                params |-> <<>>, list |-> <<>>])
          /\ UNCHANGED <<order, domain, roots>>

(* LdrLoadArgument.  A number becomes an array of "count" words, the last  *)
(* of which it is; of strings there may be several for one parameter.  The *)
(* mutant loses the last word of an array.                                 *)
Int32 == "System.Int32"
Int32Array == "System.Int32[]"
String == "System.String"

IsNumber(t) ==
  \/ t = Int32
  \/ /\ t \notin {Int32Array, String}
     /\ "enum" \in domain.types[t].is
     /\ domain.types[t].fields # <<>>
     /\ domain.fields[domain.types[t].fields[1]].declared = Int32

EntriesShort(t) ==
  CASE t = String -> [i \in DOMAIN Section.values |->
                        [array |-> FALSE, words |-> <<Section.values[i]>>]]
    [] t = Int32Array -> << [array |-> TRUE, words |-> Front(Section.values)] >>
    [] OTHER -> << [array |-> TRUE, words |-> <<Section.values[1]>>] >>

Entries(t) ==
  CASE t = String -> [i \in DOMAIN Section.values |->
                        [array |-> FALSE, words |-> <<Section.values[i]>>]]
    [] t = Int32Array -> << [array |-> TRUE, words |-> Section.values] >>
    [] OTHER -> << [array |-> TRUE,
                    words |-> [i \in 1..Section.count |->
                                 IF i = Section.count THEN Section.values[1] ELSE "0"]] >>

LoadArgument ==
  /\ Loading
  /\ Section.kind = "argument"
  /\ LET owner == Refer(Section.owner)
         t == Refer(Section.declared)
     IN IF owner = NoType \/ t = NoType \/ owner \in moved THEN Astray
        ELSE IF ~(IsNumber(t) \/ t \in {Int32Array, String}) THEN Halt
        ELSE IF t # String /\ Int32Array \notin DOMAIN domain.types THEN Halt
        ELSE IF IsNumber(t) /\ Section.count = 0 THEN Astray   \* int32[-1]
        ELSE /\ Loaded
             /\ objects' = [objects EXCEPT ![owner].params = Append(@, t),
                                           ![owner].list = @ \o Entries(t)]
             /\ UNCHANGED <<order, domain, roots, attributes>>

-----------------------------------------------------------------------------
(* LdrCalculateTypeSizes, LdrFillTypeInfo and ExInitialize.                *)
LoadedTypes == DOMAIN domain.types
FieldIs(f, flag) == flag \in domain.fields[f].is
Inline(f) == domain.fields[f].declared \notin DOMAIN Widths /\ FieldIs(f, "struct")

(* The size of a type asks for those of its super and of the structures in *)
(* its fields, static ones too, each time anew: a structure with a static  *)
(* field of its own type asks for ever.                                    *)
Asks(t) ==
  ({domain.types[t].super} \ {NoType}) \union
  {domain.fields[f].declared : f \in {g \in Range(domain.types[t].fields) : Inline(g)}}

FieldSize(f, size) ==
  LET t == domain.fields[f].declared
  IN IF t \in DOMAIN Widths THEN Widths[t]
     ELSE IF Inline(f) THEN size[t] ELSE PointerSize

Aligned(at, n) == ((at + n - 1) \div n) * n

(* Fields of types with a sequential layout are not aligned, the others to *)
(* their own size; a size of 0 is a division by zero.                      *)
OffsetOf(f, at, size) ==
  LET width == FieldSize(f, size)
  IN IF Is(domain, domain.fields[f].declared, "sequential") \/ width = 0 THEN at
     ELSE Aligned(at, width)

Behind(f, at, size) == OffsetOf(f, at, size) + FieldSize(f, size)

(* Where the fields of t begin.  The mutant begins every type at 0.        *)
BaseAtZero(t, size) == 0
Base(t, size) == IF domain.types[t].super = NoType THEN 0 ELSE size[domain.types[t].super]

(* Where the first i fields of t end.  A static one takes no room.         *)
Ends(t, size) ==
  LET fields == domain.types[t].fields
      end[i \in 0..Len(fields)] ==
        IF i = 0 THEN Base(t, size)
        ELSE IF FieldIs(fields[i], "static") THEN end[i - 1]
        ELSE Behind(fields[i], end[i - 1], size)
  IN end

SizeOf(t, size) == Ends(t, size)[Len(domain.types[t].fields)]

(* Round by round, the types that have a size once those that they ask for *)
(* have one.                                                               *)
Sizes ==
  LET sized[n \in 0..Len(order)] ==
        IF n = 0 THEN <<>>
        ELSE LET known == sized[n - 1]
             IN [t \in {u \in LoadedTypes : Asks(u) \subseteq DOMAIN known} |-> SizeOf(t, known)]
  IN sized[Len(order)]

Settled == DOMAIN Sizes = LoadedTypes

Index(f) ==
  LET fields == domain.types[domain.fields[f].owner].fields
  IN CHOOSE i \in DOMAIN fields : fields[i] = f

Offset(f, size) ==
  IF FieldIs(f, "static") THEN 0
  ELSE OffsetOf(f, Ends(domain.fields[f].owner, size)[Index(f) - 1], size)

Layout(size) ==
  [size |-> size,
   width |-> [f \in DOMAIN domain.fields |-> FieldSize(f, size)],
   offset |-> [f \in DOMAIN domain.fields |-> Offset(f, size)]]

DividesByZero(size) ==
  \E f \in DOMAIN domain.fields :
    /\ ~FieldIs(f, "static")
    /\ ~Is(domain, domain.fields[f].declared, "sequential")
    /\ FieldSize(f, size) = 0

(* The domain in the order in which the start-up walks it.  It looks for   *)
(* ".cctor" anywhere in the full name of a method, which "is" records: a   *)
(* method that is called otherwise may have it in the name of a type.      *)
MethodsOf(t) == domain.types[t].methods
StaticConstructors ==
  SelectSeq(FlattenSeq([i \in DOMAIN order |-> MethodsOf(order[i])]),
            LAMBDA c : ".cctor" \in domain.methods[c].is)

LayOut ==
  /\ phase = "loading"
  /\ position > Len(image)
  /\ IF \E f \in DOMAIN domain.fields : domain.fields[f].declared = NoType THEN Astray
     ELSE IF ~Settled \/ DividesByZero(Sizes) THEN Astray
     ELSE IF ~(Required \subseteq LoadedTypes) THEN Halt
     ELSE /\ layout' = Layout(Sizes)
          /\ finalizers' = {t \in LoadedTypes :
                              \E m \in Range(MethodsOf(t)) : domain.methods[m].name = "Finalize"}
          /\ pending' = StaticConstructors
          /\ phase' = "statics"
          /\ UNCHANGED <<reading, domain, moved, given, raised, linked>>

-----------------------------------------------------------------------------
(* ExMethodPrologueArgs of a constructor; what it ends with is ignored.  A *)
(* method that calls a native one that is not linked raises an exception.  *)
Calls(m) == Range(domain.methods[m].code)
MustRaise(m) == ~(Calls(m) \subseteq DOMAIN linked)

Execute(m, id, raises) ==
  /\ pending' = Tail(pending)
  /\ MustRaise(m) => raises
  /\ raised' = IF raises THEN raised \union {id} ELSE raised
  /\ UNCHANGED <<reading, domain, moved, layout, finalizers, linked, phase>>

(* There is no frame to pop the arguments from.                            *)
RunStaticConstructor ==
  /\ phase = "statics"
  /\ pending # <<>>
  /\ LET c == Head(pending)
     IN IF domain.methods[c].parameters # <<>> THEN Astray
        ELSE /\ \E raises \in BOOLEAN : Execute(c, c, raises)
             /\ UNCHANGED given

(* LdrExecuteAttributesConstructors: type by type, its own attributes,     *)
(* those of its methods and those of its fields.                           *)
AttributesIn(t) ==
  AttributesOf(t)
    \o FlattenSeq([i \in DOMAIN MethodsOf(t) |-> AttributesOf(MethodsOf(t)[i])])
    \o FlattenSeq([i \in DOMAIN domain.types[t].fields |->
                     AttributesOf(domain.types[t].fields[i])])

StaticsAreDone ==
  /\ phase = "statics"
  /\ pending = <<>>
  /\ pending' = FlattenSeq([i \in DOMAIN order |-> AttributesIn(order[i])])
  /\ phase' = "attributes"
  /\ UNCHANGED <<reading, domain, moved, layout, finalizers, given, raised, linked>>

(* A parameter takes the entry of its own number: of a number, the first   *)
(* word of the array.                                                      *)
Entry(a, z) == objects[a].list[z]

Parameter(a, z) == IF IsNumber(objects[a].params[z]) THEN <<Entry(a, z).words[1]>>
                   ELSE Entry(a, z).words
Parameters(a) == [z \in DOMAIN objects[a].params |-> Parameter(a, z)]

Mistaken(a) == \E z \in DOMAIN objects[a].params :
                  Entry(a, z).array = (objects[a].params[z] = String)

RunAttributeConstructor ==
  /\ phase = "attributes"
  /\ pending # <<>>
  /\ LET a == Head(pending)
         ctor == objects[a].ctor
         arity == Len(objects[a].params)
     IN IF a \in moved \/ ctor = NoMethod THEN Astray
        ELSE IF arity + 1 # Len(domain.methods[ctor].parameters) THEN Astray
        ELSE IF Len(objects[a].list) < arity THEN Halt
        ELSE IF Mistaken(a) THEN Astray
        ELSE \E raises \in BOOLEAN :
               /\ Execute(ctor, a, raises)
               /\ given' = With(given, a, Parameters(a))

(* A collection while an attribute, an argument or a constructor           *)
(* allocates.  It corrects none of the pointers to attributes in native    *)
(* memory, takes the buffer of a static reference for an object, and       *)
(* between two constructors walks a frame that is gone.                    *)
Misread == phase # "loading" /\ \E f \in Range(roots) :
                                  IsReference(domain, domain.fields[f].declared)

Collect ==
  /\ DOMAIN objects # moved
  /\ \/ Loading /\ Section.kind \in {"attribute", "argument"}
     \/ phase \in {"statics", "attributes"} /\ pending # <<>>
  /\ \/ (phase = "attributes" \/ Misread) /\ Astray
     \/ /\ ~Misread
        /\ moved' = DOMAIN objects
        /\ UNCHANGED <<reading, domain, layout, finalizers, pending, given, raised, linked, phase>>

-----------------------------------------------------------------------------
(* FarInitialize asks each attribute of a method for its type.  The        *)
(* constructor of a FarCall attribute, which the class library has, keeps  *)
(* its parameters in the fields that FarInitialize reads; one that raised  *)
(* may not have.  The last attribute that names an import wins.            *)
FarCall == "FarCallAttribute"
FarCallsOf(m) ==
  {i \in DOMAIN AttributesOf(m) : objects[AttributesOf(m)[i]].declared = FarCall}
Asked == UNION {Range(AttributesOf(m)) : m \in DOMAIN domain.methods}
Unsure == {a \in Asked : objects[a].declared = FarCall /\ a \in raised}
Broken == {a \in Asked : objects[a].declared = NoType \/ a \in moved}

Link ==
  /\ phase = "attributes"
  /\ pending = <<>>
  /\ LET known(m) == {i \in FarCallsOf(m) : given[AttributesOf(m)[i]][1][1] \in Imports}
         native == {m \in DOMAIN domain.methods : known(m) # {}}
     IN \/ Unsure \union Broken # {} /\ Astray
        \/ /\ Broken = {}
           /\ linked' = [m \in native |-> given[AttributesOf(m)[Max(known(m))]]]
           /\ phase' = "linked"
           /\ UNCHANGED <<reading, domain, moved, layout, finalizers, pending, given, raised>>

(* The end of MxStart.  MxDumpStackTrace never returns.                    *)
Initializer == "Internationale.Runtime.Initializer"
RunInitializer ==
  /\ phase = "linked"
  /\ LET found == SelectSeq(MethodsOf(Initializer),
                            LAMBDA m : domain.methods[m].name = "Initialize")
     IN IF Initializer \notin LoadedTypes THEN Halt
        ELSE \/ End("dumped")
             \/ found # <<>> /\ ~MustRaise(found[1]) /\ End("started")

Init ==
  /\ image \in Images
  /\ position = 1
  /\ loaded = {}
  /\ order = <<>>
  /\ domain = [types |-> <<>>, fields |-> <<>>, methods |-> <<>>]
  /\ roots = <<>>
  /\ attributes = <<>>
  /\ objects = <<>>
  /\ moved = {}
  /\ layout = [size |-> <<>>, width |-> <<>>, offset |-> <<>>]
  /\ finalizers = {}
  /\ pending = <<>>
  /\ given = <<>>
  /\ raised = {}
  /\ linked = <<>>
  /\ phase = "loading"

Next == \/ LoadTable \/ LoadUnknown \/ LoadType \/ LoadField \/ LoadMethod
        \/ LoadExecutable \/ LoadHandler \/ LoadAttribute \/ LoadArgument
        \/ LayOut \/ RunStaticConstructor \/ StaticsAreDone
        \/ RunAttributeConstructor \/ Link \/ RunInitializer \/ Collect

Spec == Init /\ [][Next]_vars

-----------------------------------------------------------------------------
(* What an image may say: a section refers to earlier ones of the kind     *)
(* that it needs, a field has the struct flag just when its type has it,   *)
(* and a parameter of an attribute has one value.  The compiler that       *)
(* writes the images is not in the repository.                             *)
Sections(kind) == {s \in Range(image) : s.kind = kind}
Before(n, kinds) == {image[j].id : j \in {k \in 1..(n - 1) : image[k].kind \in kinds}}

RefersTo(s, types, methods, owners, attributed) ==
  /\ s.kind = "type" => s.super \in types \union {NoType}
  /\ s.kind = "field" => {s.owner, s.declared} \subseteq types
  /\ s.kind = "method" => {s.owner, s.returns} \union Range(s.parameters) \subseteq types
  /\ s.kind = "code" => s.owner \in methods /\ Range(s.variables) \subseteq types
  /\ s.kind = "handler" => s.owner \in methods /\ s.catch \in types \union {NoType}
  /\ s.kind = "attribute" => s.owner \in owners /\ s.declared \in types /\ s.ctor \in methods
  /\ s.kind = "argument" => s.owner \in attributed /\ s.declared \in types

Ordered ==
  \A i \in DOMAIN image :
    RefersTo(image[i], Before(i, {"type"}), Before(i, {"method"}),
             Before(i, {"type", "field", "method"}), Before(i, {"attribute"}))

TypeNamed(t) == CHOOSE s \in Sections("type") : s.id = t

Flagged == \A f \in Sections("field") :
             ("struct" \in f.is) = ("struct" \in TypeNamed(f.declared).is)

Single == \A s \in Sections("argument") :
            s.declared # Int32Array => s.count = 1 /\ Len(s.values) = 1

Ready == phase \in {"statics", "attributes", "linked", "started", "dumped"}

(* No two fields of an object or a structure share a byte, inherited ones  *)
(* among them, all lie within the size that OpNewObject allocates, and a   *)
(* field is as wide as what the opcodes copy in and out of it: a number by *)
(* its name, a structure by the size of its type, a reference as a pointer.*)
Copied(t) == IF t \in DOMAIN Widths THEN Widths[t]
             ELSE IF IsReference(domain, t) THEN PointerSize ELSE layout.size[t]

Instances(t) == {f \in Range(domain.types[t].fields) : ~FieldIs(f, "static")}

LayoutsAreSound ==
  Ready /\ Ordered /\ Flagged =>
    \A t \in LoadedTypes :
      LET line == Lineage(domain, t)
          all == UNION {Instances(line[i]) : i \in DOMAIN line}
          Past(f) == layout.offset[f] + layout.width[f]
      IN /\ \A f \in all : /\ layout.width[f] = Copied(domain.fields[f].declared)
                           /\ Past(f) <= layout.size[t]
         /\ \A f, g \in all : f # g => \/ Past(f) <= layout.offset[g]
                                        \/ Past(g) <= layout.offset[f]

(* A virtual call reaches the method of the type that is nearest to the    *)
(* object's, whatever the order of types, methods and overloads in the     *)
(* image, and there is one whenever the image declares one.  The first     *)
(* parameter is the object, which the comparison of signatures skips.      *)
Ancestors(t) ==
  LET above[n \in 0..Len(image)] ==
        IF n = 0 THEN {t}
        ELSE LET below == above[n - 1]
             IN below \union ({TypeNamed(u).super : u \in below} \ {NoType})
  IN above[Len(image)]

Agree(a, b) ==
  /\ a.name = b.name
  /\ Len(a.parameters) = Len(b.parameters)
  /\ Tail(a.parameters) = Tail(b.parameters)

Candidates(t, m) ==
  {c \in Sections("method") : c.owner \in Ancestors(t) /\ Agree(c, m)}

OverridesAreFound ==
  Ready /\ Ordered =>
    \A t \in LoadedTypes, m \in Sections("method") :
      m.parameters # <<>> /\ m.owner \in Ancestors(t) =>
        \E c \in Candidates(t, m) :
          /\ LocateVirtual(domain, t, m.id) = c.id
          /\ \A other \in Candidates(t, m) : other.owner \in Ancestors(c.owner)

(* When the initializer starts, the constructor of each attribute has been *)
(* given what the image writes for it, parameter by parameter, and each    *)
(* native method is linked to the last import that its attributes name:    *)
(* whatever was read, allocated, run and raised in between.                *)
ArgumentsBefore(a, n) ==
  LET own[i \in 0..n] ==
        IF i = 0 THEN <<>>
        ELSE IF image[i].kind = "argument" /\ image[i].owner = a
             THEN Append(own[i - 1], image[i].values) ELSE own[i - 1]
  IN own[n]

ArgumentsOf(a) == ArgumentsBefore(a, Len(image))

ImportsNamed(m) ==
  {i \in DOMAIN image : /\ image[i].kind = "attribute"
                        /\ image[i].owner = m
                        /\ image[i].declared = FarCall
                        /\ ArgumentsOf(image[i].id)[1][1] \in Imports}

AttributesAreAsWritten ==
  phase \in {"linked", "started", "dumped"} /\ Ordered /\ Single =>
    /\ \A a \in Sections("attribute") : given[a.id] = ArgumentsOf(a.id)
    /\ \A m \in Sections("method") :
         IF ImportsNamed(m.id) = {} THEN m.id \notin DOMAIN linked
         ELSE /\ m.id \in DOMAIN linked
              /\ linked[m.id] = ArgumentsOf(image[Max(ImportsNamed(m.id))].id)
=============================================================================
