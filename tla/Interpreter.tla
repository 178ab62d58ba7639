---------------------------- MODULE Interpreter -----------------------------
(***************************************************************************)
(* One thread in the execution engine: the frames that                     *)
(* ExMethodPrologueArgs, -Ctor, -Delegate and -Native build on the C stack *)
(* and link for the collector, and ExMethodExecute, one action per group   *)
(* of opcodes (intermarx/ex/runtime.c), with the native methods of         *)
(* FarNativeMethodExecute (intermarx/far/far.c) and the delegates of       *)
(* intermarx/pal/corelib.c.                                                *)
(*                                                                         *)
(* Code is a sequence of <<opcode, operand>>, pc an index of it.  Numbers  *)
(* have no value: what Arithmetic.tla says of them is not repeated, a      *)
(* conditional branch goes either way and an array has any small size.     *)
(* References do have: a collection moves every object, corrects the       *)
(* references that HppScanFrame and HppTraceObject reach, and makes the    *)
(* others Lost.  Where the code then follows one of those, or a pointer    *)
(* into memory that is no longer there, what happens is undefined and the  *)
(* status becomes "astray".  Nothing verifies the code of a method: where  *)
(* an opcode does not find what it takes for granted, it goes astray too.  *)
(***************************************************************************)
EXTENDS TypeSystem

CONSTANTS
  Domain,      \* the loaded types, fields and methods, see TypeSystem.tla
  MaxDepth,    \* the frames there is C stack for
  MaxObjects,  \* bound of the model: objects ever allocated
  MaxCells,    \* bound of the model: structures on the C stack at a time
  MaxElements, \* bound of the model: the size of an array
  MaxStarts    \* bound of the model: times the runtime calls a method itself

Types == DOMAIN Domain.types
Methods == DOMAIN Domain.methods
Method(m) == Domain.methods[m]

(* The parameters and the variables of a method are vectors of types.      *)
ASSUME MethodsAssumption ==
  \A m \in Methods : /\ Method(m).parameters \in Seq(Types)
                     /\ Method(m).variables \in Seq(Types)

StaticFields == {f \in DOMAIN Domain.fields : Domain.fields[f].static}
Declared(f) == Domain.fields[f].declared

VARIABLES
  frames,       \* struct RUNTIME_FRAME, 1 is the outermost, depth the innermost
  depth,
  calls,        \* the C variables of the prologue of each, see Call below
  next,         \* frame->next of each: an index, 0 for NULL
  firstFrame,   \* thread->firstFrame, thread->currentFrame: an index, 0 for NULL
  currentFrame,
  heap,         \* the managed objects: [type, contents, sites]
  memory,       \* the structures on the C stack: [type, contents]
  statics,      \* the contents of the staticValue buffers
  exception,    \* thread->state.exception
  trace,        \* thread->state.stackTrace
  status,       \* "idle", "running", "raising", and where all ends: "astray",
                \* "caught" by a handler that was never filled in
  starts

links == <<depth, calls, next, firstFrame, currentFrame>>
data == <<heap, memory, statics>>
state == <<exception, trace>>
vars == <<frames, links, data, state, status, starts>>

-----------------------------------------------------------------------------
(* What a word refers to: <<kind, index, path>>.                           *)
Nothing == <<"nothing", 0, <<>>>>           \* a number
Null == <<"null", 0, <<>>>>
Lost == <<"lost", 0, <<>>>>                 \* where an object was
Garbage == <<"garbage", 0, <<>>>>           \* memory nobody has set
Misplaced == <<"misplaced", 0, <<>>>>       \* an address beside the field
Object(o) == <<"object", o, <<>>>>
Cell(c, path) == <<"cell", c, path>>        \* a part of a structure
Variable(d) == <<"variable", d, <<>>>>      \* a number in frame d
Descriptor(m) == <<"method", 0, <<m>>>>

(* struct RUNTIME_FRAME_BLOCK.  INT32 stands for the three number types.   *)
Block(type, at) == [type |-> type, at |-> at, link |-> NoType]
Number == Block("INT32", Nothing)
Unknown == Block("UNKNOWN", Nothing)
Reference(at) == Block("OBJECT", at)
Struct(c) == Block("STRUCT", Cell(c, <<>>))
Pointer(at, t) == [type |-> "MANAGED_POINTER", at |-> at, link |-> t]

(* A word of type t read into a block.                                     *)
Loaded(t, at) == IF IsReference(Domain, t) THEN Reference(at)
                 ELSE IF Is(Domain, t, "native") THEN Block("INTPTR", at) ELSE Number

(* ExNullCheck, which numbers and unset blocks fail as NULL does.          *)
IsNull(b) == b.type \in {"INT32", "UNKNOWN"} \/ b.at = Null

Zeroed(t, path) == IF IsReference(Domain, TypeAt(Domain, t, path)) THEN Null ELSE Nothing
Unset(t, path) == IF IsReference(Domain, TypeAt(Domain, t, path)) THEN Garbage ELSE Nothing

-----------------------------------------------------------------------------
Top == frames[depth]
Stack == Top.stack
Height == Len(Stack)
Instruction == IF Top.pc \in DOMAIN Method(Top.method).code
               THEN Method(Top.method).code[Top.pc] ELSE <<"end", 0>>
Op == Instruction[1]
Operand == Instruction[2]
Arity(m) == Len(Method(m).parameters)
Native == Method(Top.method).native
IsNative(f) == "extern" \in Method(f.method).is

(* The block that is k below the top, and the stack without its top k.     *)
Peek(k) == Stack[Height - k]
Pop(k) == SubSeq(Stack, 1, Height - k)

(* What the opcode of the caller does with its stack once the callee has   *)
(* ended: OpVirtualCall pops the delegate, the mutant does not.            *)
Entry == calls[depth]
CallerStackWithDelegate == frames[depth - 1].stack
CallerStack ==
  LET s == frames[depth - 1].stack
  IN IF Entry.entered = "delegate" THEN SubSeq(s, 1, Len(s) - 1) ELSE s

WithResult(stack, result) ==
  IF Entry.entered # "construct" /\ Method(Entry.called).returns
  THEN Append(stack, result) ELSE stack

-----------------------------------------------------------------------------
(* What code takes for granted.  No ExPeek, ExPop or ExPush compares sp    *)
(* with 0 or with maxStack, no index of an argument or a local is compared *)
(* with their number, and no object is looked at before it is taken for an *)
(* array, a delegate or an instance with fields.                           *)
Room(m) == Len(Method(m).variables) + Len(Method(m).parameters) + 20

Takes(op, operand) ==
  CASE op \in {"dup", "pop", "convert", "starg", "stloc", "ldflda", "ldptr", "initobj",
               "ldfld", "stsfld", "newarr", "ldlen", "isinst", "cast", "box", "unboxptr",
               "unbox", "branch1", "throw", "ldvirtftn"} -> 1
    [] op \in {"arith", "stptr", "stfld", "ldelem", "branch2"} -> 2
    [] op = "stelem" -> 3
    [] op = "virt" -> Arity(operand)
    [] op = "return" -> IF Method(Top.method).returns THEN 1 ELSE 0
    [] OTHER -> 0

Grows == {"dup", "imm", "null", "ldarg", "ldloc", "ldloca", "ldarga", "ldsfld", "string",
          "ldftn", "newobj"}

Names(op, operand) ==
  /\ op \in {"ldarg", "starg", "ldarga"} => operand \in DOMAIN Top.args
  /\ op \in {"ldloc", "stloc", "ldloca"} => operand \in DOMAIN Top.vars
  /\ op \in {"call", "virt", "newobj"} => operand \in Methods
  /\ op = "virt" => Arity(operand) > 0

IsObject(b, kind) ==
  b.at[1] = "object" /\ b.at[2] \in DOMAIN heap /\ heap[b.at[2]].kind = kind

Kinds(op, base) ==
  /\ op \in {"ldelem", "stelem"} => IsNull(base) \/ IsObject(base, "array")
  /\ op = "stfld" => IsNull(base) \/ base.type # "OBJECT" \/ IsObject(base, "plain")

(* The result of a call has room on the caller's stack.                    *)
ResultFits ==
  depth > 1 => Len(WithResult(CallerStack, Unknown)) <= Room(frames[depth - 1].method)

OpcodeFits(op, operand, height, takes) ==
  /\ op # "end"
  /\ Names(op, operand)
  /\ height >= takes
  /\ op \in Grows => height < Room(Top.method)
  /\ Kinds(op, Peek(takes - 1))
  /\ op = "return" => ResultFits

CodeFits == OpcodeFits(Op, Operand, Height, Takes(Op, Operand))

NativeFits(native, args) ==
  /\ ResultFits
  /\ native = "bind" => Len(args) = 3 /\ IsObject(args[1], "delegate")
  /\ native \in {"combine", "remove"} =>
       /\ Len(args) = 2
       /\ \A i \in 1..2 : args[i].at = Null \/ IsObject(args[i], "delegate")

(* ExMethodExecute is about to read an opcode, or a native method is about *)
(* to be called.                                                           *)
Executing == status = "running" /\ ~IsNative(Top) /\ Top.local = <<>> /\ CodeFits
Executes(ops) == Executing /\ Op \in ops
InNative == status = "running" /\ IsNative(Top) /\ NativeFits(Native, Top.args)

(* How an opcode ends: with the next one, with another value of the        *)
(* frame, with an exception, or nobody can tell how.                       *)
Advance(stack) == [Top EXCEPT !.stack = stack, !.pc = @ + 1]

Rewrite(frame) ==
  /\ frames' = [frames EXCEPT ![depth] = frame]
  /\ UNCHANGED <<links, state, status, starts>>

Proceed(stack) == Rewrite(Advance(stack)) /\ UNCHANGED data

Throw(e) ==
  /\ exception' = e
  /\ status' = "raising"
  /\ UNCHANGED <<frames, links, data, trace, starts>>

Astray ==
  /\ status' = "astray"
  /\ UNCHANGED <<frames, links, data, state, starts>>

Stray ==
  /\ status = "running"
  /\ Top.local = <<>>
  /\ ~Executing
  /\ ~InNative
  /\ Astray

(* PalStackAllocate of a structure with these contents, pushed.            *)
PushStruct(stack, t, contents) ==
  /\ Len(memory) < MaxCells
  /\ memory' = Append(memory, [type |-> t, contents |-> contents])
  /\ Rewrite(Advance(Append(stack, Struct(Len(memory) + 1))))
  /\ UNCHANGED <<heap, statics>>

(* A value of type t, read from where it lies.  A reference that no longer *)
(* leads to its object, or that was never set, is as good as followed.     *)
PushValue(stack, t, contents) ==
  IF IsStructure(Domain, t) THEN PushStruct(stack, t, contents)
  ELSE IF contents[<<>>] \in {Lost, Garbage} THEN Astray
  ELSE Proceed(Append(stack, Loaded(t, contents[<<>>])))

(* An address leads to a value of type t that still exists.                *)
Leads(at, t) ==
  \/ /\ at[1] = "cell"
     /\ at[2] \in DOMAIN memory
     /\ \A p \in Paths(Domain, t) : at[3] \o p \in DOMAIN memory[at[2]].contents
  \/ at[1] = "variable" /\ at[2] <= depth /\ Is(Domain, t, "primitive")
  \/ at = Nothing /\ Is(Domain, t, "primitive")   \* memory of native code

ValueAt(at, t) ==
  [p \in Paths(Domain, t) |-> IF at[1] = "cell" THEN memory[at[2]].contents[at[3] \o p]
                                                ELSE Nothing]

(* Contents with the value v of type t at a path.                          *)
Overlay(contents, path, t, v) ==
  [p \in DOMAIN contents |->
     IF \E q \in Paths(Domain, t) : p = path \o q
     THEN v[CHOOSE q \in Paths(Domain, t) : p = path \o q] ELSE contents[p]]

MemoryWith(at, t, v) ==
  IF at[1] = "cell" THEN [memory EXCEPT ![at[2]].contents = Overlay(@, at[3], t, v)]
                    ELSE memory

(* What is copied out of a block into a place of type t.                   *)
IsStorable(b, t) == IsStructure(Domain, t) => b.type = "STRUCT" /\ Leads(b.at, t)
Stored(b, t) == IF IsStructure(Domain, t) THEN ValueAt(b.at, t) ELSE [p \in {<<>>} |-> b.at]

-----------------------------------------------------------------------------
(* The frame of a method.  Its structures come off the C stack unset, the  *)
(* other locals are zeroed blocks without a type; "floor" is what of the C *)
(* stack is the caller's, "built" what is there when the prologue is done. *)
Structures(m) == SelectSeq(Method(m).variables, LAMBDA t : IsStructure(Domain, t))

StructuresBefore(m, i) ==
  Cardinality({j \in 1..i : IsStructure(Domain, Method(m).variables[j])})

Locals(m, cells) ==
  [i \in DOMAIN Method(m).variables |->
     IF IsStructure(Domain, Method(m).variables[i])
     THEN Struct(Len(cells) + StructuresBefore(m, i)) ELSE Unknown]

WithStructures(m, cells) ==
  cells \o [i \in DOMAIN Structures(m) |->
              [type |-> Structures(m)[i],
               contents |-> [p \in Paths(Domain, Structures(m)[i]) |->
                               Unset(Structures(m)[i], p)]]]

NewFrame(m, args, cells) ==
  [method |-> m, pc |-> 1, stack |-> <<>>, args |-> args, local |-> <<>>,
   vars |-> Locals(m, cells), floor |-> Len(cells),
   built |-> Len(cells) + Len(Structures(m))]

(* The prologue that built a frame, the method that the opcode names, and  *)
(* where ExMethodPrologueDelegate is in its loop and finds the delegate.   *)
Call(entered, called, site, receiver) ==
  [entered |-> entered, called |-> called, site |-> site, receiver |-> receiver]

(* previous->next, frame.next and thread->currentFrame at a call.          *)
LinkTo(d) ==
  /\ next' = [e \in 1..d |-> IF e = d THEN 0 ELSE IF e = d - 1 THEN d ELSE next[e]]
  /\ currentFrame' = d
  /\ UNCHANGED firstFrame

Enter(m, args, call, caller, cells) ==
  /\ depth < MaxDepth
  /\ Len(WithStructures(m, cells)) <= MaxCells
  /\ frames' = [d \in 1..(depth + 1) |->
                  CASE d = depth + 1 -> NewFrame(m, args, cells)
                    [] d = depth -> caller
                    [] OTHER -> frames[d]]
  /\ calls' = [d \in 1..(depth + 1) |-> IF d = depth + 1 THEN call ELSE calls[d]]
  /\ memory' = WithStructures(m, cells)
  /\ depth' = depth + 1
  /\ LinkTo(depth + 1)
  /\ UNCHANGED <<statics, state, status, starts>>

(* The runtime calls a method itself, without a previous frame, as         *)
(* LdrExecuteStaticConstructors and MxStart do: ExMethodPrologueArgs makes *)
(* it the first of the thread.                                             *)
Start(m) ==
  /\ status = "idle"
  /\ starts < MaxStarts
  /\ Method(m).parameters = <<>>
  /\ "extern" \notin Method(m).is
  /\ frames' = <<NewFrame(m, <<>>, <<>>)>>
  /\ calls' = [d \in 1..1 |-> Call("base", m, 1, 0)]
  /\ depth' = 1
  /\ next' = [d \in 1..1 |-> 0]
  /\ firstFrame' = 1
  /\ currentFrame' = 1
  /\ memory' = WithStructures(m, <<>>)
  /\ status' = "running"
  /\ starts' = starts + 1
  /\ UNCHANGED <<heap, statics, state>>

-----------------------------------------------------------------------------
(* A collection, by this thread where it polls or allocates or by another  *)
(* thread that it waits for there.  HpGc walks the frames from firstFrame  *)
(* along next; what it reaches in them is corrected, and the structures on *)
(* the C stack and the C variables of the interpreter are not: HppTrace-   *)
(* Struct reads the references and drops them.  The mutant of HppScanFrame *)
(* forgets the arguments.                                                  *)
Polls == {"nop", "newobj", "branch", "call", "virt", "box"}
Allocates == {"newobj", "box", "string", "newarr"}

Walked ==
  LET walk[n \in 0..depth] ==
        IF n = 0 THEN firstFrame
        ELSE IF walk[n - 1] \in 1..depth THEN next[walk[n - 1]] ELSE 0
  IN {walk[n] : n \in 0..depth} \ {0}

Miss(at) == IF at[1] = "object" THEN Lost ELSE at
MissBlocks(s) == [i \in DOMAIN s |-> IF s[i].type = "OBJECT"
                                    THEN [s[i] EXCEPT !.at = Miss(@)] ELSE s[i]]
MissFrame(f) == [f EXCEPT !.stack = MissBlocks(@), !.vars = MissBlocks(@),
                          !.args = MissBlocks(@), !.local = MissBlocks(@)]

ScanFrameWithoutArguments(f) == [f EXCEPT !.args = MissBlocks(@), !.local = MissBlocks(@)]
ScanFrame(f) == [f EXCEPT !.local = MissBlocks(@)]

(* HppTraceObject reads the fields that the object's own type declares,    *)
(* the elements of an array of references, the receivers of a delegate.    *)
Traced(o, k) ==
  heap[o].kind = "plain" => Len(k) = 1 /\ Domain.fields[k[1]].owner = heap[o].type

TraceObject(o) ==
  [heap[o] EXCEPT !.contents = [k \in DOMAIN @ |-> IF Traced(o, k) THEN @[k] ELSE Miss(@[k])]]

MissContents(contents) == [p \in DOMAIN contents |-> Miss(contents[p])]

(* Two kinds of places are taken for references and are none: the buffers  *)
(* of static references, and the contents of a boxed structure.            *)
MisreadStatic == \E f \in StaticFields : IsReference(Domain, Declared(f))
MisreadBox ==
  \E o \in DOMAIN heap : \E k \in DOMAIN heap[o].contents :
     Traced(o, k) /\ heap[o].contents[k] = Garbage

Collect ==
  /\ status = "running"
  /\ ~IsNative(Top)
  /\ Op \in Polls \union Allocates
  /\ \/ /\ MisreadStatic \/ MisreadBox
        /\ Astray
     \/ /\ ~MisreadStatic
        /\ frames' = [d \in 1..depth |-> IF d \in Walked THEN ScanFrame(frames[d])
                                                       ELSE MissFrame(frames[d])]
        /\ heap' = [o \in DOMAIN heap |-> TraceObject(o)]
        /\ memory' = [c \in DOMAIN memory |-> [memory[c] EXCEPT !.contents = MissContents(@)]]
        /\ statics' = [f \in StaticFields |-> MissContents(statics[f])]
        /\ UNCHANGED <<links, state, status, starts>>

(* Between the methods it starts the runtime allocates too, the strings of *)
(* LdrExecuteAttributesConstructors: firstFrame still is the frame of the  *)
(* last one, which has returned.                                           *)
HostCollects == status = "idle" /\ firstFrame # 0 /\ Astray

-----------------------------------------------------------------------------
(* Opcodes on the operands alone.                                          *)
NoOperation == Executes({"nop", "endfinally"}) /\ Proceed(Stack)

Duplicate == Executes({"dup"}) /\ Proceed(Append(Stack, Peek(0)))

Discard == Executes({"pop"}) /\ Proceed(Pop(1))

Immediate == Executes({"imm"}) /\ Proceed(Append(Stack, Number))

(* OpAdd to OpNegate, OpNot, the conversions and the comparisons: one or   *)
(* two numbers become one.                                                 *)
Compute == \/ Executes({"convert"}) /\ Proceed(Append(Pop(1), Number))
           \/ Executes({"arith"}) /\ Proceed(Append(Pop(2), Number))

LoadNull == Executes({"null"}) /\ Proceed(Append(Stack, Reference(Null)))

(* OpBreakpoint and the bytes that are no opcode.                          *)
Invalid == Executes({"break", "bad"}) /\ Throw("engine")

(* The arguments, and the locals that are no structures, are blocks.       *)
LoadArgument == Executes({"ldarg"}) /\ Proceed(Append(Stack, Top.args[Operand]))

StoreArgument ==
  /\ Executes({"starg"})
  /\ Rewrite([Advance(Pop(1)) EXCEPT !.args[Operand] = Peek(0)])
  /\ UNCHANGED data

(* A structure is cloned at every load of its local, onto the C stack,     *)
(* where it stays until the method returns.                                *)
LoadLocal ==
  /\ Executes({"ldloc"})
  /\ LET block == Top.vars[Operand]
         t == Method(Top.method).variables[Operand]
     IN IF block.type # "STRUCT" THEN Proceed(Append(Stack, block))
        ELSE PushStruct(Stack, t, ValueAt(block.at, t))

StoreLocal ==
  /\ Executes({"stloc"})
  /\ LET target == Top.vars[Operand].at
         t == Method(Top.method).variables[Operand]
     IN IF Peek(0).type # "STRUCT"
        THEN /\ Rewrite([Advance(Pop(1)) EXCEPT !.vars[Operand] = Peek(0)])
             /\ UNCHANGED data
        ELSE IF ~Leads(Peek(0).at, t) THEN Astray
        ELSE /\ memory' = MemoryWith(target, t, ValueAt(Peek(0).at, t))
             /\ Rewrite(Advance(Pop(1)))
             /\ UNCHANGED <<heap, statics>>

(* The address of a number is one within its block, that of a structure    *)
(* the structure's; a block with a reference, or without a type because    *)
(* nothing has been stored in the local yet, has no address.               *)
LoadAddress ==
  \E place \in {"vars", "args"} :
    /\ Executes({IF place = "vars" THEN "ldloca" ELSE "ldarga"})
    /\ LET block == Top[place][Operand]
           t == IF place = "vars" THEN Method(Top.method).variables[Operand]
                                  ELSE Method(Top.method).parameters[Operand]
       IN IF block.type = "STRUCT" THEN Proceed(Append(Stack, Pointer(block.at, t)))
          ELSE IF block.type \in {"INT32", "INTPTR"}
          THEN Proceed(Append(Stack, Pointer(Variable(depth), t)))
          ELSE Throw("engine")

(* OpLoadValueFieldAddress does not add the header of an object.           *)
LoadValueFieldAddress ==
  /\ Executes({"ldflda"})
  /\ LET base == Peek(0)
         at == IF base.at[1] = "cell" THEN Cell(base.at[2], Append(base.at[3], Operand))
               ELSE IF base.type = "OBJECT" THEN Misplaced ELSE base.at
     IN IF IsNull(base) THEN Throw("null")
        ELSE IF base.type = "STRUCT" THEN Throw("engine")
        ELSE Proceed(Append(Pop(1), Pointer(at, Declared(Operand))))

(* OpLoadValueFromPointer takes the address of a reference for it.         *)
LoadValueFromPointer ==
  /\ Executes({"ldptr"})
  /\ IF Peek(0).type \notin {"MANAGED_POINTER", "INTPTR"} THEN Throw("engine")
     ELSE IF IsReference(Domain, Operand) \/ ~Leads(Peek(0).at, Operand) THEN Astray
     ELSE PushValue(Pop(1), Operand, ValueAt(Peek(0).at, Operand))

(* OpStoreValueToPointer copies a word of the block: of a structure it is  *)
(* the pointer to its type, after which the target counts as unset.        *)
StoreValueToPointer ==
  /\ Executes({"stptr"})
  /\ LET value == IF IsStructure(Domain, Operand)
                  THEN [p \in Paths(Domain, Operand) |-> Unset(Operand, p)]
                  ELSE Stored(Peek(0), Operand)
     IN IF Peek(1).type \notin {"MANAGED_POINTER", "INTPTR"} THEN Throw("engine")
        ELSE IF ~Leads(Peek(1).at, Operand) THEN Astray
        ELSE /\ memory' = MemoryWith(Peek(1).at, Operand, value)
             /\ Rewrite(Advance(Pop(2)))
             /\ UNCHANGED <<heap, statics>>

(* OpInitializeObject leaves the address where it is.                      *)
InitializeObject ==
  /\ Executes({"initobj"})
  /\ IF Peek(0).type \notin {"MANAGED_POINTER", "INTPTR"} THEN Throw("engine")
     ELSE IF ~Leads(Peek(0).at, Operand) THEN Astray
     ELSE /\ memory' = MemoryWith(Peek(0).at, Operand,
                          [p \in Paths(Domain, Operand) |-> Zeroed(Operand, p)])
          /\ Rewrite(Advance(Stack))
          /\ UNCHANGED <<heap, statics>>

-----------------------------------------------------------------------------
(* Fields.  What of a structure or an object a field is:                   *)
FieldOf(contents, f) == [p \in Paths(Domain, Declared(f)) |-> contents[<<f>> \o p]]

(* A number goes into an enum and comes out of it as a number, although    *)
(* the enum is a structure.                                                *)
LoadField(stack, f, contents) ==
  IF Is(Domain, Declared(f), "enum") THEN Proceed(Append(stack, Number))
  ELSE PushValue(stack, Declared(f), contents)

LoadValueField ==
  /\ Executes({"ldfld"})
  /\ LET base == Peek(0)
         t == Declared(Operand)
         at == IF base.at[1] = "cell" THEN Cell(base.at[2], Append(base.at[3], Operand))
               ELSE base.at
     IN IF IsNull(base) THEN Throw("null")
        ELSE IF base.type = "OBJECT"
        THEN LoadField(Pop(1), Operand, FieldOf(heap[base.at[2]].contents, Operand))
        ELSE IF ~Leads(at, t) THEN Astray
        ELSE LoadField(Pop(1), Operand, ValueAt(at, t))

(* OpStoreValueField; a structure that is not in a local is refused.       *)
StoreValueField ==
  /\ Executes({"stfld"})
  /\ LET base == Peek(1)
         t == Declared(Operand)
         at == IF base.at[1] = "cell" THEN Cell(base.at[2], Append(base.at[3], Operand))
               ELSE base.at
         enum == Is(Domain, t, "enum")
     IN IF IsNull(base) \/ base.type \in {"STRUCT", "INTPTR"} THEN Throw("null")
        ELSE IF enum THEN IF Peek(0).type \in {"INT32", "INTPTR"} THEN Proceed(Pop(2))
                          ELSE Throw("null")
        ELSE IF ~IsStorable(Peek(0), t) THEN Astray
        ELSE IF base.type = "OBJECT"
        THEN /\ heap' = [heap EXCEPT ![base.at[2]].contents =
                            Overlay(@, <<Operand>>, t, Stored(Peek(0), t))]
             /\ Rewrite(Advance(Pop(2)))
             /\ UNCHANGED <<memory, statics>>
        ELSE IF ~Leads(at, t) THEN Astray
        ELSE /\ memory' = MemoryWith(at, t, Stored(Peek(0), t))
             /\ Rewrite(Advance(Pop(2)))
             /\ UNCHANGED <<heap, statics>>

LoadStaticField ==
  /\ Executes({"ldsfld"})
  /\ PushValue(Stack, Declared(Operand), statics[Operand])

(* OpStoreStaticField copies a structure as OpStoreValueToPointer does.    *)
StoreStaticField ==
  /\ Executes({"stsfld"})
  /\ LET t == Declared(Operand)
     IN statics' = [statics EXCEPT ![Operand] =
                      IF IsStructure(Domain, t) THEN [p \in Paths(Domain, t) |-> Unset(t, p)]
                      ELSE Stored(Peek(0), t)]
  /\ Rewrite(Advance(Pop(1)))
  /\ UNCHANGED <<heap, memory>>

-----------------------------------------------------------------------------
(* HpAllocateManaged gives zeroed memory.                                  *)
Allocated(type, kind, contents, sites) ==
  [type |-> type, kind |-> kind, contents |-> contents, sites |-> sites]

NewArrayOf(type, n, word) == Allocated(type, "array", [i \in 1..n |-> word], <<>>)

(* OpNewArray <<element type, array type>>; the elements are no structures.*)
NewArray ==
  /\ Executes({"newarr"})
  /\ Len(heap) < MaxObjects
  /\ \E n \in 0..MaxElements :
       heap' = Append(heap, NewArrayOf(Operand[2], n, Zeroed(Operand[1], <<>>)))
  /\ Rewrite(Advance(Append(Pop(1), Reference(Object(Len(heap) + 1)))))
  /\ UNCHANGED <<memory, statics>>

Elements(b) == heap[b.at[2]].contents

LoadArrayLength ==
  /\ Executes({"ldlen"})
  /\ IF IsNull(Peek(0)) THEN Throw("null") ELSE Proceed(Append(Pop(1), Number))

(* OpLoad...FromArray and OpStore...ToArray of the type Operand.           *)
LoadElement ==
  /\ Executes({"ldelem"})
  /\ IF IsNull(Peek(1)) THEN Throw("null")
     ELSE \E i \in 1..(MaxElements + 1) :
            IF i \notin DOMAIN Elements(Peek(1)) THEN Throw("bounds")
            ELSE Proceed(Append(Pop(2), Loaded(Operand, Elements(Peek(1))[i])))

StoreElement ==
  /\ Executes({"stelem"})
  /\ IF IsNull(Peek(2)) THEN Throw("null")
     ELSE \E i \in 1..(MaxElements + 1) :
            IF i \notin DOMAIN Elements(Peek(2)) THEN Throw("bounds")
            ELSE /\ heap' = [heap EXCEPT ![Peek(2).at[2]].contents[i] = Peek(0).at]
                 /\ Rewrite(Advance(Pop(3)))
                 /\ UNCHANGED <<memory, statics>>

(* OpLoadString allocates twice.  The string is pushed before the array    *)
(* for its characters is allocated, and read from the stack again after    *)
(* it; "string", the C variable, is not corrected.                         *)
StringType == "System.String"
Characters == <<"characters">>

AllocateString ==
  /\ Executes({"string"})
  /\ Len(heap) < MaxObjects
  /\ heap' = Append(heap, Allocated(StringType, "plain", [p \in {Characters} |-> Null], <<>>))
  /\ LET string == Reference(Object(Len(heap) + 1))
     IN Rewrite([Top EXCEPT !.stack = Append(@, string), !.local = <<string>>])
  /\ UNCHANGED <<memory, statics>>

AllocateCharacters ==
  /\ status = "running"
  /\ Top.local # <<>>
  /\ Len(heap) < MaxObjects
  /\ IF Peek(0).at = Lost THEN Astray
     ELSE /\ heap' = Append([heap EXCEPT ![Peek(0).at[2]].contents[Characters] =
                                Object(Len(heap) + 1)],
                            NewArrayOf("System.Char[]", 0, Nothing))
          /\ Rewrite([Top EXCEPT !.pc = @ + 1, !.local = <<>>])
          /\ UNCHANGED <<memory, statics>>

IsInstanceOf(b, t) == IsInstance(Domain, t, heap[b.at[2]].type)

IsInstanceOrNull ==
  /\ Executes({"isinst"})
  /\ IF Peek(0).at = Null \/ IsInstanceOf(Peek(0), Operand) THEN Proceed(Stack)
     ELSE Proceed(Append(Pop(1), Reference(Null)))

CastClass ==
  /\ Executes({"cast"})
  /\ IF Peek(0).at = Null \/ IsInstanceOf(Peek(0), Operand) THEN Proceed(Stack)
     ELSE Throw("engine")

(* OpBox copies a number, but of a structure the pointer to it and what is *)
(* behind the pointer in the interpreter's variable.                       *)
Box ==
  /\ Executes({"box"})
  /\ Len(heap) < MaxObjects
  /\ IF IsReference(Domain, Operand) THEN Throw("engine")
     ELSE /\ heap' = Append(heap, Allocated(Operand, "plain",
                         [p \in Paths(Domain, Operand) |-> Unset(Operand, p)], <<>>))
          /\ Rewrite(Advance(Append(Pop(1), Reference(Object(Len(heap) + 1)))))
          /\ UNCHANGED <<memory, statics>>

(* The unboxing opcodes look neither for NULL nor at the object's type;    *)
(* OpUnboxToPointer gives the address of a copy.                           *)
Unboxable == /\ Peek(0).at # Null
             /\ Paths(Domain, Operand) \subseteq DOMAIN heap[Peek(0).at[2]].contents

UnboxToPointer ==
  /\ Executes({"unboxptr"})
  /\ IF Peek(0).type # "OBJECT" \/ IsReference(Domain, Operand) THEN Throw("engine")
     ELSE IF ~Unboxable THEN Astray
     ELSE /\ Len(memory) < MaxCells
          /\ memory' = Append(memory, [type |-> Operand,
                                       contents |-> heap[Peek(0).at[2]].contents])
          /\ Rewrite(Advance(Append(Pop(1), Pointer(Cell(Len(memory) + 1, <<>>), Operand))))
          /\ UNCHANGED <<heap, statics>>

UnboxToValue ==
  /\ Executes({"unbox"})
  /\ IF ~Unboxable THEN Astray
     ELSE PushValue(Pop(1), Operand, heap[Peek(0).at[2]].contents)

-----------------------------------------------------------------------------
(* Control within a method.                                                *)
Jump(stack, to) == Rewrite([Top EXCEPT !.stack = stack, !.pc = to]) /\ UNCHANGED data

Branch == Executes({"branch"}) /\ Jump(Stack, Operand)

(* The conditional branches take one number or two, and do not poll.       *)
BranchIf ==
  \E n \in 1..2 :
    /\ Executes({IF n = 1 THEN "branch1" ELSE "branch2"})
    /\ Jump(Pop(n), Operand) \/ Proceed(Pop(n))

(* OpLeaveException does not read the offset that a compiler gives it.     *)
Leave ==
  /\ Executes({"leave"})
  /\ LET row == LocateFinally(Domain, Top.method, Top.pc + 1)
     IN IF row = 0 THEN Proceed(Stack) ELSE Jump(Stack, row)

(* OpThrowException and OpRethrowException.                                *)
ThrowOperand ==
  /\ Executes({"throw"})
  /\ IF IsNull(Peek(0)) THEN Throw("null") ELSE Throw("managed")

-----------------------------------------------------------------------------
(* Calls.  ExMethodPrologueArgs and ExMethodPrologueArgsNative pop the     *)
(* parameters, the receiver among them.                                    *)
(* The top n blocks, in the order in which they were pushed.               *)
Arguments(n) == [i \in 1..n |-> Stack[Height - n + i]]

(* The loops over the parameters that leave out the first.                 *)
Rest(m) == IF Arity(m) = 0 THEN 0 ELSE Arity(m) - 1

CallMethod(m, called) ==
  IF Height < Arity(m) THEN Astray
  ELSE /\ Enter(m, Arguments(Arity(m)), Call("call", called, 1, 0), Advance(Pop(Arity(m))),
                memory)
       /\ UNCHANGED heap

OrdinaryCall == Executes({"call"}) /\ CallMethod(Operand, Operand)

(* ExLocateVirtualMethod for a block.                                      *)
Dispatch(b, m) ==
  CASE b.type = "OBJECT" ->
         IF /\ Is(Domain, Method(m).owner, "struct")
            /\ "static" \notin Method(m).is
         THEN NoMethod ELSE LocateVirtual(Domain, heap[b.at[2]].type, m)
    [] b.type = "MANAGED_POINTER" -> LocateVirtual(Domain, b.link, m)
    [] OTHER -> NoMethod

(* ExMethodPrologueDelegate: the arguments are popped once, by the first   *)
(* method's signature, and the methods share them; each finds the receiver *)
(* of its own in the first.  The receiver of the call, the delegate, stays *)
(* on the caller's stack and is read again before each method.             *)
Delegate(b) == heap[b.at[2]]
Bytecode == {m \in Methods : "extern" \notin Method(m).is}

FirstSite(receiver) ==
  LET delegate == Delegate(Stack[receiver])
      m == delegate.sites[1]
      popped == Rest(m)
      args == [i \in 1..(popped + 1) |->
                 IF i = 1 THEN Reference(delegate.contents[1]) ELSE Arguments(popped)[i - 1]]
  IN IF ~IsObject(Stack[receiver], "delegate") \/ delegate.sites = <<>> THEN Astray
     ELSE IF m \notin Bytecode \/ Height <= popped THEN Astray
     ELSE /\ Enter(m, args, Call("delegate", Operand, 1, receiver),
                   Advance(Pop(popped)), memory)
          /\ UNCHANGED heap

VirtualCall ==
  /\ Executes({"virt"})
  /\ LET receiver == Height - Arity(Operand) + 1
         target == Dispatch(Stack[receiver], Operand)
     IN IF IsNull(Stack[receiver]) THEN Throw("null")
        ELSE IF target \notin Methods
        THEN IF Is(Domain, Method(Operand).owner, "delegate") THEN Astray ELSE Throw("engine")
        ELSE IF /\ Is(Domain, Method(target).owner, "delegate")
                /\ Method(target).name = "Invoke"
        THEN FirstSite(receiver)
        ELSE CallMethod(target, Operand)

LoadMethodDescriptor ==
  Executes({"ldftn"}) /\ Proceed(Append(Stack, Block("INTPTR", Descriptor(Operand))))

LoadVirtualMethodDescriptor ==
  /\ Executes({"ldvirtftn"})
  /\ LET target == Dispatch(Peek(0), Operand)
     IN IF IsNull(Peek(0)) THEN Throw("null")
        ELSE IF target = NoMethod THEN Throw("engine")
        ELSE Proceed(Append(Pop(1), Block("INTPTR", Descriptor(target))))

(* OpNewObject, with ExMethodPrologueCtor and -CtorNative: the instance is *)
(* pushed, the arguments below it are popped and it is pushed again.  The  *)
(* constructor finds it in its first argument.                             *)
NewObject ==
  /\ Executes({"newobj"})
  /\ LET owner == Method(Operand).owner
         n == Rest(Operand)
         structure == Is(Domain, owner, "struct")
         instance == IF structure THEN Struct(Len(memory) + 1)
                     ELSE Reference(Object(Len(heap) + 1))
         this == IF structure THEN Pointer(instance.at, owner) ELSE instance
         args == [i \in 1..(n + 1) |-> IF i = 1 THEN this ELSE Arguments(n)[i - 1]]
         cell == [type |-> owner, contents |-> [p \in Paths(Domain, owner) |-> Zeroed(owner, p)]]
         kind == IF Is(Domain, owner, "delegate") THEN "delegate" ELSE "plain"
         paths == IF kind = "delegate" THEN {} ELSE ObjectPaths(Domain, owner)
     IN IF Height < n THEN Astray
        ELSE /\ Enter(Operand, args, Call("construct", Operand, 1, 0),
                      Advance(Append(Pop(n), instance)),
                      IF structure THEN Append(memory, cell) ELSE memory)
             /\ IF structure THEN UNCHANGED heap
                ELSE /\ Len(heap) < MaxObjects
                     /\ heap' = Append(heap, Allocated(owner, kind,
                                   [p \in paths |-> Zeroed(owner, p)], <<>>))

-----------------------------------------------------------------------------
(* Returns.  ExMethodEpilogue makes the caller the last frame again; the   *)
(* mutant leaves its next as it was.                                       *)
EpilogueKeepsNext(d) == UNCHANGED <<next, firstFrame>> /\ currentFrame' = d
Epilogue(d) == /\ next' = [e \in 1..d |-> IF e = d THEN 0 ELSE next[e]]
               /\ currentFrame' = d
               /\ UNCHANGED firstFrame

(* The innermost frame is gone, and with it what it had on the C stack.    *)
Drop(stack) ==
  /\ frames' = [d \in 1..(depth - 1) |->
                  IF d = depth - 1 THEN [frames[d] EXCEPT !.stack = stack] ELSE frames[d]]
  /\ calls' = [d \in 1..(depth - 1) |-> calls[d]]
  /\ depth' = depth - 1
  /\ memory' = SubSeq(memory, 1, Top.floor)
  /\ Epilogue(depth - 1)
  /\ UNCHANGED <<statics, starts>>

(* The first frame of the thread has ended; firstFrame still points to it. *)
EndFirst ==
  /\ status' = "idle"
  /\ frames' = <<>>
  /\ calls' = <<>>
  /\ depth' = 0
  /\ memory' = <<>>
  /\ UNCHANGED <<next, firstFrame, currentFrame, statics, starts>>

(* The next method of a delegate gets the arguments as the last one left   *)
(* them, except its receiver.  What ExMethodExecute had on the C stack is  *)
(* gone, but the structures that the prologue gave to the methods so far   *)
(* stay there until it returns.                                            *)
Called == Delegate(frames[depth - 1].stack[Entry.receiver])
MoreSites == Entry.entered = "delegate" /\ Entry.site < Len(Called.sites)

NextSite ==
  LET t == Entry.site + 1
      m == Called.sites[t]
      kept == SubSeq(memory, 1, Top.built)
      args == [Top.args EXCEPT ![1] = Reference(Called.contents[t])]
      frame == [NewFrame(m, args, kept) EXCEPT !.floor = Top.floor]
      call == Call("delegate", Entry.called, t, Entry.receiver)
      receiver == frames[depth - 1].stack[Entry.receiver]
  IN IF ~IsObject(receiver, "delegate") \/ m \notin Bytecode THEN Astray
     ELSE /\ Len(WithStructures(m, kept)) <= MaxCells
          /\ frames' = [frames EXCEPT ![depth] = frame]
          /\ calls' = [d \in 1..depth |-> IF d = depth THEN call ELSE calls[d]]
          /\ memory' = WithStructures(m, kept)
          /\ LinkTo(depth)
          /\ UNCHANGED <<depth, heap, statics, state, status, starts>>

Finish(result) ==
  /\ IF Entry.entered = "base" THEN EndFirst
     ELSE Drop(WithResult(CallerStack, result)) /\ UNCHANGED status
  /\ UNCHANGED state

(* OpReturn.  What a method that returns nothing leaves in "ret" is what   *)
(* was on the C stack.                                                     *)
Return ==
  /\ Executes({"return"})
  /\ IF MoreSites THEN NextSite
     ELSE /\ Finish(IF Method(Top.method).returns THEN Peek(0) ELSE Unknown)
          /\ UNCHANGED heap

(* An exception.  ExLocateHandler compares with the row that it should     *)
(* fill in, which nobody has set, and follows the exception as if it were  *)
(* a type: with a catch row anything may happen, among it that no handler  *)
(* is found.  Without one none is, the method goes into the trace and the  *)
(* caller has its turn.  Nobody empties the trace before the next exception.  *)
Catches == \E i \in DOMAIN Method(Top.method).handlers :
              Method(Top.method).handlers[i].kind = "catch"

Unwind ==
  /\ status = "raising"
  /\ \/ /\ Catches
        /\ status' = "caught"
        /\ UNCHANGED <<frames, links, data, state, starts>>
     \/ /\ IF Entry.entered = "base" THEN EndFirst
           ELSE Drop(CallerStack) /\ UNCHANGED status
        /\ trace' = Append(trace, Top.method)
        /\ UNCHANGED <<heap, exception>>

-----------------------------------------------------------------------------
(* FarNativeMethodExecute.  A native method that has not been linked, or   *)
(* an argument without a type, fails the call, for which the caller raises *)
(* an engine error.                                                        *)
Refused == Native = "unlinked" \/ \E i \in DOMAIN Top.args : Top.args[i].type = "UNKNOWN"

Refuse ==
  /\ InNative
  /\ Refused
  /\ depth > 1              \* what the runtime starts is not native
  /\ Drop(CallerStack)
  /\ exception' = "engine"
  /\ status' = "raising"
  /\ UNCHANGED <<heap, trace>>

NativeReturns ==
  /\ InNative
  /\ ~Refused
  /\ \/ Native = "number" /\ Finish(Number)
     \/ Native = "void" /\ Finish(Unknown)
  /\ UNCHANGED heap

(* A string result: the string is pushed onto a stack that the frame of a  *)
(* native method does not have.                                            *)
NativeString ==
  /\ InNative
  /\ ~Refused
  /\ Native = "string"
  /\ \/ Astray
     \/ /\ Len(heap) + 1 < MaxObjects
        /\ heap' = heap \o <<Allocated(StringType, "plain",
                               [p \in {Characters} |-> Object(Len(heap) + 2)], <<>>),
                             NewArrayOf("System.Char[]", 0, Nothing)>>
        /\ Finish(Reference(Object(Len(heap) + 1)))

(* The constructor of a delegate, which the class library has: one method, *)
(* and its receiver.                                                       *)
BindDelegate ==
  /\ InNative
  /\ ~Refused
  /\ Native = "bind"
  /\ heap' = [heap EXCEPT ![Top.args[1].at[2]] =
                 [@ EXCEPT !.sites = <<Top.args[3].at[3][1]>>, !.contents = <<Top.args[2].at>>]]
  /\ Finish(Unknown)

(* PalManagedDelegateCombineImplNative and -RemoveImplNative work on C     *)
(* variables: a collection at one of their allocations leaves them behind. *)
(* Remove drops every site whose method is one of the other's.             *)
This == Delegate(Top.args[1])
Other == Delegate(Top.args[2])

Keeps(t) == \A i \in DOMAIN Other.sites : Other.sites[i] # This.sites[t]

JoinDelegates ==
  /\ InNative
  /\ ~Refused
  /\ Native \in {"combine", "remove"}
  /\ LET left[n \in 0..Len(This.sites)] ==
           IF n = 0 THEN <<>> ELSE IF Keeps(n) THEN Append(left[n - 1], n) ELSE left[n - 1]
         kept == left[Len(This.sites)]
         sites == IF Native = "combine" THEN This.sites \o Other.sites
                  ELSE [i \in DOMAIN kept |-> This.sites[kept[i]]]
         receivers == IF Native = "combine" THEN This.contents \o Other.contents
                      ELSE [i \in DOMAIN kept |-> This.contents[kept[i]]]
     IN IF Top.args[2].at = Null THEN Finish(Top.args[1]) /\ UNCHANGED heap
        ELSE IF Top.args[1].at = Null THEN Astray
        ELSE IF sites = <<>> THEN Finish(Reference(Null)) /\ UNCHANGED heap
        ELSE \/ Astray
             \/ /\ Len(heap) < MaxObjects
                /\ heap' = Append(heap, Allocated(This.type, "delegate", receivers, sites))
                /\ Finish(Reference(Object(Len(heap) + 1)))

-----------------------------------------------------------------------------
Init ==
  /\ frames = <<>>
  /\ depth = 0
  /\ calls = <<>>
  /\ next = <<>>
  /\ firstFrame = 0
  /\ currentFrame = 0
  /\ heap = <<>>
  /\ memory = <<>>
  /\ statics = [f \in StaticFields |->
                  [p \in Paths(Domain, Declared(f)) |-> Zeroed(Declared(f), p)]]
  /\ exception = "none"
  /\ trace = <<>>
  /\ status = "idle"
  /\ starts = 0

Operands == \/ NoOperation \/ Duplicate \/ Discard \/ Immediate \/ Compute \/ LoadNull
            \/ LoadArgument \/ StoreArgument \/ LoadLocal \/ StoreLocal \/ Invalid

Pointers == \/ LoadAddress \/ LoadValueFieldAddress \/ LoadValueFromPointer
            \/ StoreValueToPointer \/ InitializeObject

Objects == \/ LoadValueField \/ StoreValueField \/ LoadStaticField \/ StoreStaticField
           \/ NewArray \/ LoadArrayLength \/ LoadElement \/ StoreElement
           \/ AllocateString \/ AllocateCharacters \/ IsInstanceOrNull \/ CastClass
           \/ Box \/ UnboxToPointer \/ UnboxToValue

Control == \/ Branch \/ BranchIf \/ Leave \/ ThrowOperand
           \/ OrdinaryCall \/ VirtualCall \/ NewObject \/ Return \/ Unwind
           \/ LoadMethodDescriptor \/ LoadVirtualMethodDescriptor

Natives == \/ Refuse \/ NativeReturns \/ NativeString \/ BindDelegate \/ JoinDelegates

Next == \/ \E m \in Methods : Start(m)
        \/ HostCollects \/ Collect \/ Stray
        \/ Operands \/ Pointers \/ Objects \/ Control \/ Natives

Spec == Init /\ [][Next]_vars

-----------------------------------------------------------------------------
(* Whenever a thread is in managed or native code, firstFrame leads along  *)
(* next to each frame of the C stack and to no other, and currentFrame is  *)
(* the last: the collector scans the frames that are there, whichever      *)
(* prologue built them and however the calls in between have ended.        *)
Defined == status \notin {"astray", "caught"}

FramesAreLinked ==
  depth > 0 /\ Defined =>
    /\ firstFrame = 1
    /\ currentFrame = depth
    /\ next = [d \in 1..depth |-> IF d = depth THEN 0 ELSE d + 1]

(* No collection leaves a reference behind in the operands, the locals or  *)
(* the arguments of a frame, in whatever state of a call, of the           *)
(* construction of an object or of a delegate's loop it finds the thread;  *)
(* the references that it does leave behind are in structures, statics and *)
(* inherited fields.                                                       *)
HoldsNoLost(s) == \A i \in DOMAIN s : s[i].at # Lost

NothingIsLost ==
  Defined =>
    \A d \in 1..depth : /\ HoldsNoLost(frames[d].stack)
                       /\ HoldsNoLost(frames[d].vars)
                       /\ HoldsNoLost(frames[d].args)

(* Calls, returns and exceptions are those of CallStack.tla.  An object    *)
(* under construction, and the delegate whose methods are called, lie on   *)
(* the caller's stack but are not operands it has left.  A call takes what *)
(* the parameters of the method that runs say, without the object that a   *)
(* constructor finds in the first and with the delegate in its place, and  *)
(* gives what the method that the opcode names says.                       *)
Results(m) == IF Method(m).returns THEN 1 ELSE 0

Shapes(m) ==
  [takes : {Arity(m), Rest(m) + 1}, gives : {Results(called) : called \in Methods}]
    \union {[takes |-> Rest(m), gives |-> 1]}

Extra(d) == IF d < depth /\ calls[d + 1].entered \in {"construct", "delegate"}
            THEN 1 ELSE 0

Gives(call) == CASE call.entered = "base" -> 0
                 [] call.entered = "construct" -> 1
                 [] OTHER -> Results(call.called)

Activations ==
  [d \in 1..depth |-> [method |-> frames[d].method,
                       height |-> Len(frames[d].stack) - Extra(d),
                       gives |-> Gives(calls[d])]]

Calls == INSTANCE CallStack WITH
  Methods <- Methods,
  Signatures <- [m \in Methods |-> Shapes(m)],
  MaxHeight <- [m \in Methods |-> Room(m)],
  calls <- Activations,
  raising <- (status \in {"raising", "caught"}),
  trace <- trace

ImplementsCallStack == Calls!Spec
=============================================================================
