------------------------------ MODULE ItemQueue ------------------------------
(***************************************************************************)
(* What steque.h promises: a queue of items with two ends, seen without    *)
(* its nodes.  Taking or reading the front of an empty queue ends the      *)
(* process.  Steque.tla is shown to implement this module.                 *)
(***************************************************************************)
EXTENDS Integers, Sequences

CONSTANTS Items,     \* the void pointers callers store
          NoAnswer   \* the operation returns nothing

VARIABLES q,           \* the items, front first
          ans,         \* what the last operation returned
          destroying,  \* steque_destroy is running
          alive        \* the process has not exited

vars == <<q, ans, destroying, alive>>

Init == q = <<>> /\ ans = NoAnswer /\ destroying = FALSE /\ alive = TRUE

Enqueue(x) ==
    /\ q' = Append(q, x)
    /\ ans' = NoAnswer
    /\ UNCHANGED <<destroying, alive>>

Push(x) ==
    /\ q' = <<x>> \o q
    /\ ans' = NoAnswer
    /\ UNCHANGED <<destroying, alive>>

Pop ==
    /\ q # <<>>
    /\ ans' = Head(q)
    /\ q' = Tail(q)
    /\ UNCHANGED <<destroying, alive>>

Front ==
    /\ q # <<>>
    /\ ans' = Head(q)
    /\ UNCHANGED <<q, destroying, alive>>

Underflow ==
    /\ q = <<>>
    /\ alive' = FALSE
    /\ UNCHANGED <<q, ans, destroying>>

(* The front item goes to the back; an empty queue stays as it is.         *)
Cycle ==
    /\ q' = IF q = <<>> THEN q ELSE Append(Tail(q), Head(q))
    /\ ans' = NoAnswer
    /\ UNCHANGED <<destroying, alive>>

Size ==
    /\ ans' = Len(q)
    /\ UNCHANGED <<q, destroying, alive>>

IsEmpty ==
    /\ ans' = IF q = <<>> THEN 1 ELSE 0
    /\ UNCHANGED <<q, destroying, alive>>

(* Destroying empties the queue and never meets an empty one on the way.   *)
Destroy ==
    /\ destroying' = TRUE
    /\ ans' = NoAnswer
    /\ UNCHANGED <<q, alive>>

Drop ==
    /\ q # <<>>
    /\ q' = Tail(q)
    /\ UNCHANGED <<ans, destroying, alive>>

Destroyed ==
    /\ q = <<>>
    /\ destroying' = FALSE
    /\ UNCHANGED <<q, ans, alive>>

Call ==
    \/ \E x \in Items : Enqueue(x) \/ Push(x)
    \/ Pop \/ Front \/ Underflow \/ Cycle \/ Size \/ IsEmpty \/ Destroy

Next ==
    /\ alive
    /\ \/ ~ destroying /\ Call
       \/ destroying /\ (Drop \/ Destroyed)

SafeSpec == Init /\ [][Next]_vars
=============================================================================
