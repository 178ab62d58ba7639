----------------------------- MODULE TypeSystem -----------------------------
(***************************************************************************)
(* What the execution engine reads out of a loaded domain: the super       *)
(* chain, ExLocateVirtualMethod, ExLocateFinally and ExMetadataIs          *)
(* (intermarx/ex/runtime.c, ex.c), ExIsInstance (ex/opcodes.c) and which   *)
(* references lie in a value of a type.  A domain d is a record of three   *)
(* functions, from names to the parts of RUNTIME_TYPE, RUNTIME_FIELD and   *)
(* RUNTIME_METHOD that matter:                                             *)
(*   d.types[t]   = [super, is, fields, methods]                           *)
(*   d.fields[f]  = [owner, declared, static]                              *)
(*   d.methods[m] = [owner, name, is, parameters, variables, returns,      *)
(*                   native, handlers, code]                               *)
(* where "is" is the set of metadata flags, the lists are in the order of  *)
(* their vectors, parameters begin with the receiver of an instance        *)
(* method, and native is what farCall.function of an extern method does.   *)
(***************************************************************************)
EXTENDS Naturals, Sequences, FiniteSets, SequencesExt

NoType == ""
NoMethod == ""

Is(d, t, flag) == flag \in d.types[t].is

(* A value of such a type is a block of memory that STRUCT blocks point    *)
(* to.  The types whose "inlined" is not BASE_OTHER are flagged primitive. *)
IsStructure(d, t) == Is(d, t, "struct") /\ ~Is(d, t, "primitive")

IsReference(d, t) == ~Is(d, t, "struct")

-----------------------------------------------------------------------------
(* The types from t to the one without a super.  The super of a type is    *)
(* another type of the domain and the chain has an end, as it has one in   *)
(* every image the compiler of the project writes.                         *)
Super(d, t) == d.types[t].super

Lineage(d, t) ==
  LET line[n \in 0..Cardinality(DOMAIN d.types)] ==
        IF n = 0 THEN <<t>>
        ELSE LET below == line[n - 1]
             IN IF Super(d, Last(below)) = NoType THEN below
                ELSE Append(below, Super(d, Last(below)))
  IN line[Cardinality(DOMAIN d.types)]

(* ExLocateVirtualMethod takes the first method, from the type of the      *)
(* receiver up, with the short name and the parameters after the receiver. *)
(* The mutant compares the names only.                                     *)
SameName(d, a, b) == d.methods[a].name = d.methods[b].name

SameSignature(d, a, b) ==
  /\ d.methods[a].name = d.methods[b].name
  /\ Len(d.methods[a].parameters) = Len(d.methods[b].parameters)
  /\ \A i \in 2..Len(d.methods[a].parameters) :
        d.methods[a].parameters[i] = d.methods[b].parameters[i]

Overriding(d, t, m) ==
  {i \in DOMAIN d.types[t].methods : SameSignature(d, d.types[t].methods[i], m)}

LocateVirtual(d, t, m) ==
  LET line == Lineage(d, t)
      levels == {i \in DOMAIN line : Overriding(d, line[i], m) # {}}
      nearest == line[Min(levels)]
  IN IF levels = {} THEN NoMethod
     ELSE d.types[nearest].methods[Min(Overriding(d, nearest, m))]

(* ExIsInstance.  That the interfaces or the declared type of an enum      *)
(* match is remembered in "casted", which nobody reads.                    *)
IsInstance(d, target, t) ==
  /\ ~Is(d, target, "enum")
  /\ \E i \in DOMAIN Lineage(d, t) : Lineage(d, t)[i] = target

(* ExLocateFinally: of the finally rows around the offset, the first one,  *)
(* unless a later one begins and ends before it.  0 if there is none.      *)
LocateFinally(d, m, offset) ==
  LET rows == d.methods[m].handlers
      Around(i) == /\ rows[i].kind = "finally"
                   /\ offset \in rows[i].tryStart..rows[i].tryEnd
      lower(low, i) ==
        IF ~Around(i) THEN low
        ELSE IF low = 0 THEN i
        ELSE IF /\ rows[low].tryStart > rows[i].tryStart
                /\ rows[low].tryEnd > rows[i].tryEnd
             THEN i ELSE low
      row == FoldLeft(lower, 0, [i \in DOMAIN rows |-> i])
  IN IF row = 0 THEN 0 ELSE rows[row].handlerStart

-----------------------------------------------------------------------------
(* Where the parts of a value lie: a path is the fields that lead to a     *)
(* number or a reference, <<>> when the value is itself one.               *)
InstanceFields(d, t) == {f \in DOMAIN d.fields : d.fields[f].owner = t /\ ~d.fields[f].static}

Paths(d, t) ==
  LET within[n \in 0..Cardinality(DOMAIN d.types), u \in DOMAIN d.types] ==
        IF IsStructure(d, u) /\ n > 0
        THEN UNION {{<<f>> \o p : p \in within[n - 1, d.fields[f].declared]} :
                      f \in InstanceFields(d, u)}
        ELSE {<<>>}
  IN within[Cardinality(DOMAIN d.types), t]

(* An instance of a class has the fields of its supers too.                *)
ObjectPaths(d, t) ==
  UNION {UNION {{<<f>> \o p : p \in Paths(d, d.fields[f].declared)} :
                  f \in InstanceFields(d, Lineage(d, t)[i])} : i \in DOMAIN Lineage(d, t)}

TypeAt(d, t, path) == IF path = <<>> THEN t ELSE d.fields[path[Len(path)]].declared
=============================================================================
