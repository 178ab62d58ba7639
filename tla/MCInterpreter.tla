--------------------------- MODULE MCInterpreter ----------------------------
(***************************************************************************)
(* Programs for Interpreter.tla: a class with a derived one, a structure   *)
(* that holds a reference, an enum, a delegate, and one method per         *)
(* situation, each of which the runtime may start.                         *)
(***************************************************************************)
EXTENDS Interpreter, TLC

Type(super, is, methods) == [super |-> super, is |-> is, methods |-> methods]
MCTypes ==
  "Object" :> Type("", {}, <<>>) @@
  "Int32" :> Type("", {"struct", "primitive"}, <<>>) @@
  "IntPtr" :> Type("", {"struct", "primitive", "native"}, <<>>) @@
  "System.String" :> Type("Object", {}, <<>>) @@
  "System.Char[]" :> Type("Object", {}, <<>>) @@
  "Object[]" :> Type("Object", {}, <<>>) @@
  "Color" :> Type("", {"struct", "enum"}, <<>>) @@
  "Pair" :> Type("", {"struct"}, <<"Pair.Touch">>) @@
  "Box" :> Type("", {"struct"}, <<>>) @@
  "Node" :> Type("Object", {}, <<"Node.Visit">>) @@
  "Leaf" :> Type("Node", {}, <<"Leaf.Visit">>) @@
  "Action" :> Type("Object", {"delegate"}, <<"Action.Invoke">>)

Field(owner, declared, static) == [owner |-> owner, declared |-> declared, static |-> static]
MCFields ==
  "characters" :> Field("System.String", "System.Char[]", FALSE) @@
  "value__" :> Field("Color", "Int32", FALSE) @@
  "ref" :> Field("Pair", "Object", FALSE) @@
  "num" :> Field("Pair", "Int32", FALSE) @@
  "pair" :> Field("Box", "Pair", FALSE) @@
  "link" :> Field("Node", "Object", FALSE) @@
  "color" :> Field("Node", "Color", FALSE) @@
  "own" :> Field("Leaf", "Object", FALSE) @@
  "count" :> Field("Leaf", "Int32", TRUE) @@
  "last" :> Field("Leaf", "Pair", TRUE)

Full(owner, name, is, params, vars_, returns, native, handlers, code) ==
  [owner |-> owner, name |-> name, is |-> is, parameters |-> params, variables |-> vars_,
   returns |-> returns, native |-> native, handlers |-> handlers, code |-> code]
Managed(owner, name, params, vars_, returns, code) ==
  Full(owner, name, {}, params, vars_, returns, "", <<>>, code)
Extern(owner, name, params, returns, native) ==
  Full(owner, name, {"extern"}, params, <<>>, returns, native, <<>>, <<>>)
Main(vars_, code) == Full("Object", "Main", {"static"}, <<>>, vars_, FALSE, "", <<>>, code)
Guarded(kind, code) ==
  Full("Object", "Main", {"static"}, <<>>, <<>>, FALSE, "",
       <<[kind |-> kind, tryStart |-> 1, tryEnd |-> 4, handlerStart |-> 4]>>, code)

I(op) == <<op, "">>
Ret == I("return")

Callees ==
  "Node.ctor" :> Managed("Node", "ctor", <<"Node", "Object">>, <<>>, FALSE,
     <<I("nop"), <<"ldarg", 1>>, <<"ldarg", 2>>, <<"stfld", "link">>, Ret>>) @@
  "Leaf.ctor" :> Managed("Leaf", "ctor", <<"Leaf", "Object">>, <<>>, FALSE,
     << <<"ldarg", 1>>, <<"ldarg", 2>>, <<"stfld", "own">>,
        <<"ldarg", 1>>, <<"ldarg", 2>>, <<"stfld", "link">>, Ret>>) @@
  "Node.Visit" :> Managed("Node", "Visit", <<"Node">>, <<>>, TRUE,
     << <<"ldarg", 1>>, <<"ldfld", "link">>, Ret>>) @@
  "Leaf.Visit" :> Managed("Leaf", "Visit", <<"Leaf">>, <<>>, TRUE,
     <<I("nop"), <<"ldarg", 1>>, <<"ldfld", "own">>, Ret>>) @@
  "Node.Notify" :> Managed("Node", "Notify", <<"Node", "Object">>, <<"Pair">>, FALSE,
     << <<"branch", 2>>, I("null"), <<"starg", 2>>, Ret>>) @@
  "Node.Fail" :> Managed("Node", "Fail", <<"Node", "Object">>, <<>>, FALSE,
     << <<"ldarg", 1>>, I("throw"), Ret>>) @@
  "Action.ctor" :> Extern("Action", "ctor", <<"Action", "Object", "IntPtr">>, FALSE, "bind") @@
  "Action.Invoke" :> Extern("Action", "Invoke", <<"Action", "Object">>, FALSE, "") @@
  "Combine" :> Extern("Object", "Combine", <<"Action", "Action">>, TRUE, "combine") @@
  "Remove" :> Extern("Object", "Remove", <<"Action", "Action">>, TRUE, "remove") @@
  "Clock" :> Extern("Object", "Clock", <<>>, TRUE, "number") @@
  "Log" :> Extern("Object", "Log", <<"Object">>, FALSE, "void") @@
  "Name" :> Extern("Object", "Name", <<"Object">>, TRUE, "string") @@
  "Missing" :> Extern("Object", "Missing", <<>>, FALSE, "unlinked") @@
  "Missing.ctor" :> Extern("Object", "ctor", <<"Object">>, FALSE, "unlinked") @@
  "Pair.ctor" :> Managed("Pair", "ctor", <<"Pair", "Int32">>, <<>>, FALSE,
     << <<"ldarg", 1>>, <<"ldarg", 2>>, <<"stfld", "num">>, Ret>>) @@
  "Pair.Touch" :> Managed("Pair", "Touch", <<"Pair">>, <<>>, FALSE,
     << <<"ldarg", 1>>, <<"ldflda", "num">>, I("imm"), <<"stptr", "Int32">>, Ret>>) @@
  "Pair.Make" :> Full("Pair", "Make", {"static"}, <<>>, <<"Pair">>, TRUE, "", <<>>,
     << <<"ldloc", 1>>, Ret>>)

Programs1 ==
  "Build" :> Main(<<"Node", "Node">>,
     <<I("string"), <<"newobj", "Node.ctor">>, <<"stloc", 1>>, <<"ldloc", 1>>,
       <<"newobj", "Leaf.ctor">>, <<"stloc", 2>>, <<"ldloc", 2>>, <<"virt", "Node.Visit">>,
       <<"ldfld", "link">>, <<"ldfld", "characters">>, I("pop"), I("nop"),
       <<"ldloc", 2>>, <<"ldfld", "link">>, I("pop"),
       <<"ldloc", 2>>, <<"isinst", "Node">>, <<"cast", "Leaf">>, <<"isinst", "Object[]">>,
       <<"virt", "Node.Visit">>, Ret>>) @@
  "Cast" :> Main(<<>>, << <<"null", "">>, <<"newobj", "Node.ctor">>, <<"cast", "Leaf">>, Ret>>) @@
  "Color" :> Main(<<"Node">>,
     <<I("null"), <<"newobj", "Node.ctor">>, I("dup"), <<"stloc", 1>>, I("imm"),
       <<"stfld", "color">>, <<"ldloc", 1>>, <<"ldfld", "color">>, I("convert"), I("pop"),
       <<"ldloc", 1>>, <<"ldflda", "color">>, <<"ldptr", "Int32">>, Ret>>) @@
  "Array" :> Main(<<"Object[]", "Object">>,
     <<I("imm"), <<"newarr", <<"Object", "Object[]">>>>, <<"stloc", 1>>,
       <<"ldloc", 1>>, I("imm"), <<"ldloc", 1>>, <<"stelem", "Object">>, I("nop"),
       <<"ldloc", 1>>, I("imm"), <<"ldelem", "Object">>, <<"ldlen", "">>, <<"branch1", 8>>,
       I("imm"), I("imm"), I("arith"), I("imm"), <<"branch2", 8>>,
       <<"ldloca", 2>>, Ret>>) @@
  "Delegate" :> Main(<<"Action">>,
     <<I("string"), <<"ldftn", "Node.Notify">>, <<"newobj", "Action.ctor">>, <<"stloc", 1>>,
       <<"ldloc", 1>>, I("string"), <<"ldftn", "Node.Notify">>, <<"newobj", "Action.ctor">>,
       <<"call", "Combine">>, I("dup"), I("null"), <<"virt", "Action.Invoke">>,
       <<"ldloc", 1>>, <<"call", "Remove">>, I("dup"), I("null"), <<"virt", "Action.Invoke">>,
       Ret>>) @@
  "Failing" :> Main(<<"Node">>,
     <<I("null"), <<"newobj", "Node.ctor">>, <<"ldftn", "Node.Fail">>,
       <<"newobj", "Action.ctor">>, I("null"), <<"virt", "Action.Invoke">>, Ret>>) @@
  "Natives" :> Main(<<>>,
     << <<"call", "Clock">>, I("convert"), I("pop"), I("null"), <<"call", "Log">>,
        I("null"), <<"call", "Name">>, <<"call", "Log">>,
        I("null"), I("dup"), <<"call", "Combine">>, I("pop"), <<"newobj", "Missing.ctor">>, Ret>>) @@
  "Unlinked" :> Main(<<"Object">>,
     << I("null"), <<"newobj", "Node.ctor">>, <<"ldvirtftn", "Node.Visit">>, I("pop"),
        <<"call", "Missing">>, Ret>>)

Programs2 ==
  "Pairs" :> Main(<<"Pair", "Pair", "Int32">>,
     << <<"ldloca", 1>>, <<"initobj", "Pair">>, I("string"), <<"stfld", "ref">>,
        <<"ldloca", 1>>, <<"virt", "Pair.Touch">>, I("imm"), <<"newobj", "Pair.ctor">>,
        <<"stloc", 2>>, <<"ldloc", 2>>, <<"ldfld", "num">>, <<"stloc", 3>>,
        <<"ldloca", 3>>, I("imm"), <<"stptr", "Int32">>, <<"ldloca", 1>>,
        <<"ldptr", "Pair">>, <<"ldfld", "ref">>, I("pop"), <<"call", "Pair.Make">>,
        <<"stloc", 1>>, Ret>>) @@
  "Uninitialized" :> Main(<<"Pair">>, << <<"ldloca", 1>>, <<"ldfld", "ref">>, Ret>>) @@
  "Unassigned" :> Main(<<"Int32">>, << <<"ldloca", 1>>, Ret>>) @@
  "Static" :> Main(<<"Pair">>,
     <<I("imm"), <<"stsfld", "count">>, <<"ldsfld", "count">>, I("pop"),
       <<"ldsfld", "last">>, <<"stloc", 1>>, <<"ldloc", 1>>, <<"stsfld", "last">>,
       <<"ldsfld", "last">>, <<"ldfld", "ref">>, Ret>>) @@
  "Boxes" :> Main(<<"Int32", "Object">>,
     <<I("imm"), <<"box", "Int32">>, <<"stloc", 2>>, <<"ldloc", 2>>, <<"unbox", "Int32">>,
       I("pop"), <<"ldloc", 2>>, <<"unboxptr", "Int32">>, <<"ldptr", "Int32">>, I("pop"),
       <<"ldloc", 2>>, <<"virt", "Node.Visit">>, Ret>>) @@
  "BoxedPair" :> Main(<<"Pair">>,
     << <<"ldloca", 1>>, <<"initobj", "Pair">>, <<"ldloc", 1>>, <<"box", "Pair">>,
        I("nop"), <<"unbox", "Pair">>, <<"ldfld", "ref">>, Ret>>) @@
  "Catching" :> Guarded("catch",
     <<I("null"), I("throw"), Ret, Ret>>) @@
  "Overrun" :> Main(<<>>, << I("imm"), <<"branch", 1>> >>) @@
  "Finally" :> Guarded("finally",
     <<I("nop"), I("leave"), Ret, I("endfinally"), I("bad")>>)

MCDomain == [types |-> MCTypes, fields |-> MCFields,
             methods |-> Callees @@ Programs1 @@ Programs2]
=============================================================================
