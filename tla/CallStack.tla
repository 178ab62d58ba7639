----------------------------- MODULE CallStack ------------------------------
(***************************************************************************)
(* What calls of managed code promise each other: whatever a method does   *)
(* with its own operands, within the room it has for them, a call takes    *)
(* from the caller's operands what a signature of the method that runs     *)
(* says, leaves the callers below alone, and gives back at its return the  *)
(* results of the signature; an exception ends the activations from the    *)
(* innermost outwards, and the stack trace names each of them in that      *)
(* order.  Nothing is said of frames, of objects or of how a call is       *)
(* dispatched: Interpreter.tla is shown to implement this module.          *)
(***************************************************************************)
EXTENDS Naturals, Sequences

CONSTANTS Methods,    \* the methods
          Signatures, \* what a call of each may take and give: [takes, gives]
          MaxHeight   \* the operands that each has room for

VARIABLES calls,    \* the activations, outermost first: [method, height, gives]
          raising,  \* an exception is on its way
          trace     \* the methods that exceptions have ended

vars == <<calls, raising, trace>>

Heights == UNION {0..MaxHeight[m] : m \in Methods}
Last == Len(calls)
Activation(m, g) == [method |-> m, height |-> 0, gives |-> g]

Init == /\ calls = <<>>
        /\ raising = FALSE
        /\ trace = <<>>

(* The runtime calls a method of its own accord. *)
Begin(m) == /\ calls = <<>>
            /\ calls' = <<Activation(m, 0)>>
            /\ raising' = FALSE
            /\ UNCHANGED trace

(* The innermost activation works on its own operands. *)
Work(h) == /\ calls # <<>>
           /\ ~raising
           /\ h <= MaxHeight[calls[Last].method]
           /\ calls' = [calls EXCEPT ![Last].height = h]
           /\ UNCHANGED <<raising, trace>>

Call(m, s) == /\ calls # <<>>
              /\ ~raising
              /\ calls[Last].height >= s.takes
              /\ calls' = Append([calls EXCEPT ![Last].height = @ - s.takes],
                                 Activation(m, s.gives))
              /\ UNCHANGED <<raising, trace>>

(* A delegate has one method after the other called for one call. *)
Relay(m) == /\ Last > 1
            /\ ~raising
            /\ calls' = [calls EXCEPT ![Last] = Activation(m, @.gives)]
            /\ UNCHANGED <<raising, trace>>

(* The caller has room for the results. *)
Receives == calls[Last - 1].height + calls[Last].gives <= MaxHeight[calls[Last - 1].method]

Return == /\ calls # <<>>
          /\ ~raising
          /\ Last > 1 => Receives
          /\ calls' = IF Last = 1 THEN <<>>
                      ELSE [SubSeq(calls, 1, Last - 1) EXCEPT
                              ![Last - 1].height = @ + calls[Last].gives]
          /\ UNCHANGED <<raising, trace>>

Raise == /\ calls # <<>>
         /\ ~raising
         /\ raising' = TRUE
         /\ UNCHANGED <<calls, trace>>

(* The operands of an activation that is about to end matter no more. *)
Remains(h) == Last > 1 => h <= MaxHeight[calls[Last - 1].method]
Cut(h) == IF Last = 1 THEN <<>>
          ELSE [SubSeq(calls, 1, Last - 1) EXCEPT ![Last - 1].height = h]

Unwind(h) == /\ calls # <<>>
             /\ raising
             /\ Remains(h)
             /\ calls' = Cut(h)
             /\ raising' = (Last > 1)
             /\ trace' = Append(trace, calls[Last].method)

(* Native code may refuse a call: the caller, not the callee, raises. *)
Refuse(h) == /\ Last > 1
             /\ ~raising
             /\ Remains(h)
             /\ calls' = Cut(h)
             /\ raising' = TRUE
             /\ UNCHANGED trace

Next == \/ \E m \in Methods : Begin(m) \/ Relay(m)
        \/ \E m \in Methods : \E s \in Signatures[m] : Call(m, s)
        \/ \E h \in Heights : Work(h) \/ Unwind(h) \/ Refuse(h)
        \/ Return
        \/ Raise

Spec == Init /\ [][Next]_vars
=============================================================================
