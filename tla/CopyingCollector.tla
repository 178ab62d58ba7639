-------------------------- MODULE CopyingCollector --------------------------
(***************************************************************************)
(* One collection of the managed heap, by a thread that has stopped all    *)
(* others: the body of HpGc with HppTransferObject, HppTraceObject,        *)
(* HppTraceField, HppTraceStruct and HppScanFrame (intermarx/hp/hp.c).     *)
(*                                                                         *)
(* What survives is copied from the managed heap to the next one.  A copy  *)
(* is grey until the references in its fields are forwarded, then black.   *)
(* References inside a struct, be it a field's value or a frame's, are     *)
(* walked over by HppTraceStruct and left as they are; a field that a      *)
(* super type declares is not in objectType->fields and is not looked at.  *)
(***************************************************************************)
EXTENDS Integers, Sequences

CONSTANTS
  Objects,       \* HpGlobalManagedHeap.objectCount; an object is its place there
  FieldKinds,    \* what an object's fields hold
  SlotKinds,     \* what the slots of the frames hold
  Statics,       \* HpGlobalRootFieldList.count
  Targets        \* bounds what the references refer to that are not followed

Kinds == {"object", "struct"}

ASSUME CollectorAssumption ==
  /\ Objects \in Nat
  /\ FieldKinds \in Seq(Kinds \union {"inherited"})
  /\ SlotKinds \in Seq(Kinds)
  /\ Statics \in Nat
  /\ Targets \subseteq 1..Objects

HeapObjects == 1..Objects
Fields == 1..Len(FieldKinds)
Slots == 1..Len(SlotKinds)

(* A pointer, into either heap.                                            *)
Null == <<"null", 0>>
Managed(o) == <<"managed", o>>
Copy(c) == <<"next", c>>
IsManaged(p) == p[1] = "managed"
IsCopy(p) == p[1] = "next"

VARIABLES
  fields,         \* the fields of the objects of the managed heap
  interop,        \* the objects whose header has interop = TRUE
  threadWrapper,  \* RUNTIME_THREAD.wrapper of each object with managedWrapper
  forward,        \* header->forward of the objects of the managed heap
  copies,         \* the objects of the next heap
  slots,          \* the operands, variables and arguments of the frames
  statics,        \* what the static fields hold
  phase,          \* where HpGc is
  i,              \* the loop variable of HpGc
  f,              \* the loop variable of HppTraceObject
  tryAgain        \* the tryAgain of HpGc

heapVars == <<fields, interop, statics>>
vars == <<fields, interop, threadWrapper, forward, copies, slots, statics, phase, i, f,
          tryAgain>>

Pointees(kind) ==
  IF kind = "object" THEN {Null} \union {Managed(o) : o \in HeapObjects}
                     ELSE {Managed(o) : o \in Targets}

(* PalManagedThreadCreate sets managedWrapper and interop together.        *)
Init ==
  /\ fields \in [HeapObjects -> {v \in [Fields -> Pointees("object") \union Pointees("struct")] :
                                   \A k \in Fields : v[k] \in Pointees(FieldKinds[k])}]
  /\ interop \in SUBSET HeapObjects
  /\ \E wrappers \in SUBSET interop :
       threadWrapper = [o \in wrappers |-> Managed(o)]
  /\ forward = [o \in HeapObjects |-> Null]
  /\ copies = <<>>
  /\ slots \in {v \in [Slots -> Pointees("object") \union Pointees("struct")] :
                  \A r \in Slots : v[r] \in Pointees(SlotKinds[r])}
  /\ statics \in [1..Statics -> Kinds]
  /\ phase = "statics"
  /\ i = 1
  /\ f = 1
  /\ tryAgain = FALSE

-----------------------------------------------------------------------------
(* HppTransferObject: a copy is made of an object without one; otherwise   *)
(* its forward is the answer.  A copy is its own forward.  Two mutants:    *)
(* the answer is the forward that was read before, or the space before.    *)
Fresh(p) == IsManaged(p) /\ forward[p[2]] = Null

Forward(p) == IF p = Null THEN Null
              ELSE IF IsManaged(p) THEN forward[p[2]] ELSE copies[p[2]].forward

TransferredBefore(p) == IF Fresh(p) THEN Copy(Len(copies)) ELSE Forward(p)
Transferred(p) == IF Fresh(p) THEN Copy(Len(copies) + 1) ELSE Forward(p)

(* The next heap after it.  In the mutant the object is not copied.        *)
CopyZeroed(o) == [origin |-> o, color |-> "grey", forward |-> Copy(Len(copies) + 1),
                  fields |-> [k \in Fields |-> Null]]
CopyOf(o) == [origin |-> o, color |-> "grey", forward |-> Copy(Len(copies) + 1),
              fields |-> fields[o]]

NextHeapWith(p) == IF Fresh(p) THEN Append(copies, CopyOf(p[2])) ELSE copies

(* header->forward and, for an object with managedWrapper, the pointer at  *)
(* fixUpAddress.  The mutants forget one or the other.                     *)
NewForward(p) == [o \in HeapObjects |->
                    IF Fresh(p) /\ p[2] = o THEN Transferred(p) ELSE forward[o]]
NewWrappers(p) == [o \in DOMAIN threadWrapper |->
                     IF Fresh(p) /\ p[2] = o THEN Transferred(p)
                                             ELSE threadWrapper[o]]

TransferUnforwarded(p) == UNCHANGED forward /\ threadWrapper' = NewWrappers(p)
TransferUnfixed(p) == forward' = NewForward(p) /\ UNCHANGED threadWrapper
Transfer(p) == forward' = NewForward(p) /\ threadWrapper' = NewWrappers(p)

-----------------------------------------------------------------------------
(* HppTraceField of the static fields.  staticValue is a native buffer, in *)
(* which OpStoreStaticField puts the reference, but HppTransferObject gets *)
(* the buffer itself for an object: what it reads as size and forward is   *)
(* the reference and the memory behind the buffer.  The behaviour ends.    *)
WalkStatic ==
  /\ phase = "statics"
  /\ i <= Statics
  /\ statics[i] = "struct"
  /\ i' = i + 1
  /\ UNCHANGED <<heapVars, threadWrapper, forward, copies, slots, phase, f, tryAgain>>

TransferStatic ==
  /\ phase = "statics"
  /\ i <= Statics
  /\ statics[i] = "object"
  /\ phase' = "wild"
  /\ UNCHANGED <<heapVars, threadWrapper, forward, copies, slots, i, f, tryAgain>>

StaticsTraced ==
  /\ phase = "statics"
  /\ i > Statics
  /\ phase' = "frames"
  /\ i' = 1
  /\ UNCHANGED <<heapVars, threadWrapper, forward, copies, slots, f, tryAgain>>

(* HppScanFrame of the frames.                                             *)
TraceSlot ==
  /\ phase = "frames"
  /\ i <= Len(SlotKinds)
  /\ IF SlotKinds[i] = "object"
     THEN /\ Transfer(slots[i])
          /\ copies' = NextHeapWith(slots[i])
          /\ slots' = [slots EXCEPT ![i] = Transferred(@)]
     ELSE UNCHANGED <<threadWrapper, forward, copies, slots>>
  /\ i' = i + 1
  /\ UNCHANGED <<heapVars, phase, f, tryAgain>>

SlotsTraced ==
  /\ phase = "frames"
  /\ i > Len(SlotKinds)
  /\ phase' = "interop"
  /\ i' = 1
  /\ UNCHANGED <<heapVars, threadWrapper, forward, copies, slots, f, tryAgain>>

(* The objects of the managed heap that native code refers to; the mutant  *)
(* forgets them.                                                           *)
InteropForgotten ==
  /\ phase = "interop"
  /\ i <= Objects
  /\ i' = i + 1
  /\ UNCHANGED <<heapVars, threadWrapper, forward, copies, slots, phase, f, tryAgain>>

TraceInterop ==
  /\ phase = "interop"
  /\ i <= Objects
  /\ IF i \in interop
     THEN Transfer(Managed(i)) /\ copies' = NextHeapWith(Managed(i))
     ELSE UNCHANGED <<threadWrapper, forward, copies>>
  /\ i' = i + 1
  /\ UNCHANGED <<heapVars, slots, phase, f, tryAgain>>

InteropTraced ==
  /\ phase = "interop"
  /\ i > Objects
  /\ phase' = "inspect"
  /\ i' = 1
  /\ UNCHANGED <<heapVars, threadWrapper, forward, copies, slots, f, tryAgain>>

(* GcInspect: every grey copy of the next heap is traced, the copies made  *)
(* on the way included, and the walk is repeated until it finds none.      *)
InspectGrey ==
  /\ phase = "inspect"
  /\ i <= Len(copies)
  /\ copies[i].color = "grey"
  /\ phase' = "trace"
  /\ f' = 1
  /\ tryAgain' = TRUE
  /\ UNCHANGED <<heapVars, threadWrapper, forward, copies, slots, i>>

InspectBlack ==
  /\ phase = "inspect"
  /\ i <= Len(copies)
  /\ copies[i].color # "grey"
  /\ i' = i + 1
  /\ UNCHANGED <<heapVars, threadWrapper, forward, copies, slots, phase, f, tryAgain>>

(* HppTraceObject of the i-th copy, field by field.                        *)
TraceField ==
  /\ phase = "trace"
  /\ f <= Len(FieldKinds)
  /\ IF FieldKinds[f] = "object"
     THEN LET p == copies[i].fields[f]
          IN /\ Transfer(p)
             /\ copies' = [NextHeapWith(p) EXCEPT ![i].fields[f] = Transferred(p)]
     ELSE UNCHANGED <<threadWrapper, forward, copies>>
  /\ f' = f + 1
  /\ UNCHANGED <<heapVars, slots, phase, i, tryAgain>>

(* Then it is black.  The mutants forget its last field, and its color.    *)
FieldsTracedShort ==
  /\ phase = "trace"
  /\ f >= Len(FieldKinds)
  /\ copies' = [copies EXCEPT ![i].color = "black"]
  /\ phase' = "inspect"
  /\ i' = i + 1
  /\ UNCHANGED <<heapVars, threadWrapper, forward, slots, f, tryAgain>>

FieldsStayGrey ==
  /\ phase = "trace"
  /\ f > Len(FieldKinds)
  /\ phase' = "inspect"
  /\ i' = i + 1
  /\ UNCHANGED <<heapVars, threadWrapper, forward, copies, slots, f, tryAgain>>

FieldsTraced ==
  /\ phase = "trace"
  /\ f > Len(FieldKinds)
  /\ copies' = [copies EXCEPT ![i].color = "black"]
  /\ phase' = "inspect"
  /\ i' = i + 1
  /\ UNCHANGED <<heapVars, threadWrapper, forward, slots, f, tryAgain>>

Inspected ==
  /\ phase = "inspect"
  /\ i > Len(copies)
  /\ IF tryAgain THEN i' = 1 /\ tryAgain' = FALSE /\ UNCHANGED phase
                 ELSE phase' = "finish" /\ UNCHANGED <<i, tryAgain>>
  /\ UNCHANGED <<heapVars, threadWrapper, forward, copies, slots, f>>

(* The copies turn white, the heaps change places, the old one is zeroed.  *)
Finish ==
  /\ phase = "finish"
  /\ copies' = [c \in 1..Len(copies) |->
                  [copies[c] EXCEPT !.color = "white", !.forward = Null]]
  /\ phase' = "done"
  /\ UNCHANGED <<heapVars, threadWrapper, forward, slots, i, f, tryAgain>>

Next == \/ WalkStatic \/ TransferStatic \/ StaticsTraced
        \/ TraceSlot \/ SlotsTraced \/ TraceInterop \/ InteropTraced
        \/ InspectGrey \/ InspectBlack \/ TraceField \/ FieldsTraced
        \/ Inspected \/ Finish

Spec == Init /\ [][Next]_vars

FairSpec == Spec /\ WF_vars(Next)

-----------------------------------------------------------------------------
Pointers == {Null} \union {Managed(o) : o \in HeapObjects}
              \union {Copy(c) : c \in 1..Len(copies)}

(* Every variable has its type, and every pointer points to something.     *)
TypeOK ==
  /\ fields \in [HeapObjects -> [Fields -> Pointers]]
  /\ interop \subseteq HeapObjects
  /\ threadWrapper \in [DOMAIN threadWrapper -> Pointers]
  /\ forward \in [HeapObjects -> Pointers]
  /\ copies \in Seq([origin : HeapObjects, color : {"grey", "black", "white"},
                     forward : Pointers, fields : [Fields -> Pointers]])
  /\ slots \in [Slots -> Pointers]
  /\ statics \in [1..Statics -> Kinds]
  /\ phase \in {"statics", "frames", "interop", "inspect", "trace", "finish", "done",
                "wild"}
  /\ i \in Nat \ {0}
  /\ f \in 1..(Len(FieldKinds) + 1)
  /\ tryAgain \in BOOLEAN

(* An object is copied at most once, and its forward is its copy.          *)
OneCopyEach ==
  \A o \in HeapObjects, c \in 1..Len(copies) :
    copies[c].origin = o <=> forward[o] = Copy(c)

(* A black copy refers to no object of the heap that will be zeroed.       *)
BlackIsForwarded ==
  \A c \in 1..Len(copies), k \in Fields :
    copies[c].color # "grey" /\ FieldKinds[k] = "object"
      => ~IsManaged(copies[c].fields[k])

(* The object of the managed heap that a pointer stands for, in whichever  *)
(* heap it now points.                                                     *)
Meaning(p) == IF IsCopy(p) THEN Managed(copies[p[2]].origin) ELSE p

(* A copy's fields refer to what the fields of the object refer to.        *)
CopiesAreFaithful ==
  \A c \in 1..Len(copies), k \in Fields :
    Meaning(copies[c].fields[k]) = fields[copies[c].origin][k]

(* No step makes a slot of a frame refer to another object than before     *)
(* (HppScanFrame).                                                         *)
SlotsKeepMeaning == [][\A r \in Slots : Meaning(slots[r])' = Meaning(slots[r])]_vars

(* What can be reached from the object references in frames and from the   *)
(* objects that native code refers to, by references that are followed:    *)
(* it is in every set that has the roots and what its members refer to.    *)
Roots == interop \union {o \in HeapObjects : \E r \in Slots :
                           SlotKinds[r] = "object" /\ Meaning(slots[r]) = Managed(o)}

Closed(S) == \A s \in S, k \in Fields, o \in HeapObjects :
               FieldKinds[k] = "object" /\ fields[s][k] = Managed(o) => o \in S

Reachable == {o \in HeapObjects :
                \A S \in SUBSET HeapObjects : Roots \subseteq S /\ Closed(S) => o \in S}

Survivors == {copies[c].origin : c \in 1..Len(copies)}

(* When HpGc returns, just the objects have been copied that can be        *)
(* reached through object references in frames and in an object's own      *)
(* fields, and no such reference in a frame points into the zeroed heap.   *)
SurvivorsAreReachable ==
  phase = "done" =>
    /\ Survivors = Reachable
    /\ \A r \in Slots : SlotKinds[r] = "object" => ~IsManaged(slots[r])

(* And the RUNTIME_THREAD of a managed thread refers to the copy of the    *)
(* thread's object.                                                        *)
WrappersFollow ==
  phase = "done" => \A o \in DOMAIN threadWrapper : threadWrapper[o] = forward[o]

(* The collection ends, unless it took a static field's buffer for an      *)
(* object: no object turns grey twice (the tryAgain of HpGc).              *)
CollectionTerminates == <>(phase \in {"done", "wild"})
=============================================================================
