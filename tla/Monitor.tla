------------------------------ MODULE Monitor ------------------------------
(***************************************************************************)
(* What a CRITICAL_SECTION promises its clients: a recursive lock that is  *)
(* handed directly to the thread that has waited longest, and from whose   *)
(* Enter a thread returns only as the holder.  Nothing is said of          *)
(* spinlocks, of lock counts or of the scheduler: CriticalSection.tla is   *)
(* shown to implement this module.                                         *)
(***************************************************************************)
EXTENDS Naturals, Sequences

CONSTANTS Threads,   \* the threads that may use the section
          NoThread   \* the holder of a free section

VARIABLES holder,    \* the thread the section belongs to
          count,     \* how many Exits the holder owes
          line,      \* the waiting threads, longest wait first
          inside     \* the threads that have returned from Enter and not left

vars == <<holder, count, line, inside>>

InLine(t) == \E i \in 1..Len(line) : line[i] = t

Init == /\ holder = NoThread
        /\ count = 0
        /\ line = <<>>
        /\ inside = {}

(* A free section is taken by the thread that finds it free. *)
Take(t) == /\ holder = NoThread
           /\ holder' = t
           /\ count' = 1
           /\ UNCHANGED <<line, inside>>

(* The holder enters once more, and later leaves once more. *)
Nest(t) == /\ holder = t
           /\ count' = count + 1
           /\ UNCHANGED <<holder, line, inside>>

Unnest(t) == /\ holder = t
             /\ count > 1
             /\ count' = count - 1
             /\ UNCHANGED <<holder, line, inside>>

(* Another thread's section: wait behind everyone who came before. *)
Wait(t) == /\ holder \notin {NoThread, t}
           /\ ~InLine(t)
           /\ line' = Append(line, t)
           /\ UNCHANGED <<holder, count, inside>>

(* Enter returns, to the holder only; the outermost Exit is called. *)
Proceed(t) == /\ holder = t
              /\ inside' = inside \union {t}
              /\ UNCHANGED <<holder, count, line>>

Leave(t) == /\ t \in inside
            /\ inside' = inside \ {t}
            /\ UNCHANGED <<holder, count, line>>

(* The outermost Exit frees the section or hands it to the first in line. *)
Free(t) == /\ holder = t
           /\ t \notin inside
           /\ line = <<>>
           /\ holder' = NoThread
           /\ count' = 0
           /\ UNCHANGED <<line, inside>>

HandOver(t) == /\ holder = t
               /\ t \notin inside
               /\ line # <<>>
               /\ holder' = Head(line)
               /\ line' = Tail(line)
               /\ count' = 1
               /\ UNCHANGED inside

Next == \E t \in Threads : \/ Take(t) \/ Nest(t) \/ Unnest(t) \/ Wait(t)
                           \/ Proceed(t) \/ Leave(t) \/ Free(t) \/ HandOver(t)

Spec == Init /\ [][Next]_vars
=============================================================================
