----------------------------- MODULE Allocator ------------------------------
(***************************************************************************)
(* What a memory allocator promises: it hands out memory that nobody else  *)
(* has, of the size that was asked for, and takes back what was handed     *)
(* out.  PoolMemory.tla is shown to implement this module.                 *)
(***************************************************************************)
EXTENDS Naturals

VARIABLES given   \* what the clients hold, as records [mem, bytes]

Apart(a, b) == a.mem + a.bytes <= b.mem \/ b.mem + b.bytes <= a.mem

Init == given = {}

Give(mem, bytes) == LET it == [mem |-> mem, bytes |-> bytes]
                    IN  /\ bytes > 0
                        /\ \A other \in given : Apart(it, other)
                        /\ given' = given \union {it}

TakeBack(it) == given' = given \ {it}

(* What is handed out next is read off the next state. *)
Next == \/ \E it \in given' \ given : Give(it.mem, it.bytes)
        \/ \E it \in given : TakeBack(it)

Spec == Init /\ [][Next]_given
=============================================================================
