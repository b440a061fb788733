------------------------------- MODULE Steque -------------------------------
(***************************************************************************)
(* The linked list of pr1/mtgf/steque.c that holds the server's queue of   *)
(* items: nodes on the heap, a pointer to each end and a count.  Whoever   *)
(* calls it holds the mutex, so an operation is one step; the assignments  *)
(* inside it are composed in the order the code makes them.                *)
(***************************************************************************)
EXTENDS Integers, Sequences, FiniteSets, Functions

CONSTANTS Nodes,     \* the addresses malloc may return for a steque_node_t
          Items,     \* the void pointers callers store
          NULL,
          NoAnswer   \* the operation returns nothing

ASSUME NullAssumption == NULL \notin Nodes

VARIABLES
    front, back,   \* this->front, this->back
    N,             \* this->N
    item, next,    \* the fields of every node, allocated or not
    allocated,     \* nodes malloc has given out and free has not taken back
    ans,           \* what the last operation returned
    destroying,    \* steque_destroy's loop is running
    alive,         \* the process has not exited
    order          \* history: the nodes in the order the operations promise

vars == <<front, back, N, item, next, allocated, ans, destroying, alive, order>>

TypeOK ==
    /\ front \in Nodes \cup {NULL}
    /\ back \in Nodes \cup {NULL}
    /\ N \in Nat
    /\ item \in [Nodes -> Items]
    /\ next \in [Nodes -> Nodes \cup {NULL}]
    /\ allocated \subseteq Nodes
    /\ destroying \in BOOLEAN
    /\ alive \in BOOLEAN
    /\ order \in Seq(Nodes)

(* steque_init.  Memory malloc has not given out holds anything.           *)
Init ==
    /\ front = NULL
    /\ back = NULL
    /\ N = 0
    /\ item \in [Nodes -> Items]
    /\ next \in [Nodes -> Nodes \cup {NULL}]
    /\ allocated = {}
    /\ ans = NoAnswer
    /\ destroying = FALSE
    /\ alive = TRUE
    /\ order = <<>>

Enqueue(x, n) ==
    /\ n \notin allocated
    /\ allocated' = allocated \cup {n}
    /\ item' = [item EXCEPT ![n] = x]
    /\ IF back = NULL
       THEN /\ front' = n
            /\ next' = [next EXCEPT ![n] = NULL]
       ELSE /\ next' = [next EXCEPT ![n] = NULL, ![back] = n]
            /\ UNCHANGED front
    /\ back' = n
    /\ N' = N + 1
    /\ ans' = NoAnswer
    /\ order' = Append(order, n)
    /\ UNCHANGED <<destroying, alive>>

Push(x, n) ==
    /\ n \notin allocated
    /\ allocated' = allocated \cup {n}
    /\ item' = [item EXCEPT ![n] = x]
    /\ next' = [next EXCEPT ![n] = front]
    /\ back' = IF back = NULL THEN n ELSE back
    /\ front' = n
    /\ N' = N + 1
    /\ ans' = NoAnswer
    /\ order' = <<n>> \o order
    /\ UNCHANGED <<destroying, alive>>

(* Faulty variant: back is left pointing at the freed last node.           *)
UnlinkKeepsBack ==
    /\ allocated' = allocated \ {front}
    /\ front' = next[front]
    /\ N' = N - 1
    /\ order' = Tail(order)
    /\ UNCHANGED <<back, item, next>>

(* Faulty variant: the count is not kept.                                  *)
UnlinkUncounted ==
    /\ allocated' = allocated \ {front}
    /\ front' = next[front]
    /\ back' = IF next[front] = NULL THEN NULL ELSE back
    /\ order' = Tail(order)
    /\ UNCHANGED <<N, item, next>>

(* The list part of steque_pop: unlink the front node and free it.         *)
Unlink ==
    /\ allocated' = allocated \ {front}
    /\ front' = next[front]
    /\ back' = IF next[front] = NULL THEN NULL ELSE back
    /\ N' = N - 1
    /\ order' = Tail(order)
    /\ UNCHANGED <<item, next>>

Exit ==
    /\ alive' = FALSE
    /\ UNCHANGED <<front, back, N, item, next, allocated, ans, destroying, order>>

Pop ==
    /\ front # NULL
    /\ Unlink
    /\ ans' = item[front]
    /\ UNCHANGED <<destroying, alive>>

Front ==
    /\ front # NULL
    /\ ans' = item[front]
    /\ UNCHANGED <<front, back, N, item, next, allocated, destroying, alive, order>>

(* steque_pop and steque_front on an empty list end the process.           *)
Underflow ==
    /\ front = NULL
    /\ Exit

(* Faulty variant: back is moved before front->next is read.               *)
CycleWrongOrder ==
    /\ back # NULL
    /\ next' = [next EXCEPT ![back] = front, ![front] = NULL]
    /\ front' = next'[front]
    /\ back' = front
    /\ order' = Append(Tail(order), Head(order))
    /\ ans' = NoAnswer
    /\ UNCHANGED <<N, item, allocated, destroying, alive>>

(* Four assignments in a row; with one node the first makes it point at    *)
(* itself and the last undoes that.                                        *)
Cycle ==
    /\ ans' = NoAnswer
    /\ IF back = NULL
       THEN UNCHANGED <<front, back, next, order>>
       ELSE LET linked == [next EXCEPT ![back] = front]
            IN  /\ back' = front
                /\ front' = linked[front]
                /\ next' = [linked EXCEPT ![front] = NULL]
                /\ order' = Append(Tail(order), Head(order))
    /\ UNCHANGED <<N, item, allocated, destroying, alive>>

Size ==
    /\ ans' = N
    /\ UNCHANGED <<front, back, N, item, next, allocated, destroying, alive, order>>

IsEmpty ==
    /\ ans' = IF N = 0 THEN 1 ELSE 0
    /\ UNCHANGED <<front, back, N, item, next, allocated, destroying, alive, order>>

Destroy ==
    /\ destroying' = TRUE
    /\ ans' = NoAnswer
    /\ UNCHANGED <<front, back, N, item, next, allocated, alive, order>>

(* One round of steque_destroy's loop: it tests the count, and pops.       *)
DestroyRound ==
    IF N = 0
    THEN /\ destroying' = FALSE
         /\ UNCHANGED <<front, back, N, item, next, allocated, ans, alive, order>>
    ELSE IF front = NULL
         THEN Exit
         ELSE /\ Unlink
              /\ UNCHANGED <<ans, destroying, alive>>

Call ==
    \/ \E x \in Items, n \in Nodes : Enqueue(x, n) \/ Push(x, n)
    \/ Pop \/ Front \/ Underflow \/ Cycle \/ Size \/ IsEmpty \/ Destroy

Next ==
    /\ alive
    /\ \/ ~ destroying /\ Call
       \/ destroying /\ DestroyRound

SafeSpec == Init /\ [][Next]_vars

(* steque_destroy's loop keeps running; nothing is assumed of callers.     *)
Spec == SafeSpec /\ WF_vars(alive /\ destroying /\ DestroyRound)

-----------------------------------------------------------------------------
(* The pointers spell out the promised order: the ends, each node's        *)
(* successor, the null at the end, and the count agree; and exactly the    *)
(* listed nodes are allocated, so nothing is leaked and nothing freed is   *)
(* reachable.                                                              *)
Linked ==
    /\ IsInjective(order)
    /\ Range(order) = allocated
    /\ N = Len(order)
    /\ IF order = <<>>
       THEN front = NULL /\ back = NULL
       ELSE /\ front = order[1]
            /\ back = order[Len(order)]
            /\ next[back] = NULL
            /\ \A i \in 1 .. Len(order) - 1 : next[order[i]] = order[i + 1]

(* Seen through its nodes, the list is the queue of items: every answer,   *)
(* every exit and the outcome of destroy are those of ItemQueue.           *)
Queue == INSTANCE ItemQueue
           WITH q <- [i \in 1 .. Len(order) |-> item[order[i]]]

QueueSpec == Queue!SafeSpec

(* steque_destroy, which loops on the count while steque_pop tests the     *)
(* pointer, ends, with every node freed and the process alive.             *)
DestroyFreesAll == destroying ~> (~ destroying /\ allocated = {} /\ alive)
=============================================================================
