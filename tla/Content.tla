------------------------------- MODULE Content -------------------------------
(***************************************************************************)
(* The content store, content.c (in pr1/gflib, pr1/mtgf and, as            *)
(* simplecache.c, in pr3): the table content_init reads from a file, grows *)
(* and sorts, and the binary search of content_get.  Keys are numbers in   *)
(* the order of strcmp; a line of the file is its key and whether its path *)
(* can be opened.  Indices into the table begin at 0, as in the code.      *)
(***************************************************************************)
EXTENDS Integers, Sequences, Functions

CONSTANTS Keys,
          MaxLines,   \* bound: the file has at most this many lines
          CAPACITY    \* of the first allocation: 16 in the code

ASSUME KeysAssumption     == Keys \subseteq Int
ASSUME LinesAssumption    == MaxLines \in Nat
ASSUME CapacityAssumption == CAPACITY \in Nat \ {0}

VARIABLES phase,       \* "init", "ready", "search", "closed" or "exited"
          items,       \* the lines read; items[n] is the code's items[n - 1]
          capacity,
          key, lo, hi, \* content_get's argument and locals
          answer       \* what it returned last, a descriptor or -1

vars == <<phase, items, capacity, key, lo, hi, answer>>

nitems == Len(items)
NoKey  == -1

TypeOK ==
    /\ phase \in {"init", "ready", "search", "closed", "exited"}
    /\ items \in Seq([key : Keys, fildes : 1 .. MaxLines])
    /\ capacity \in Nat
    /\ key \in Keys \cup {NoKey}
    /\ lo \in 0 .. nitems
    /\ hi \in -1 .. nitems - 1
    /\ answer \in 1 .. MaxLines \cup {-1}
    /\ phase = "init" => nitems < capacity   \* a slot for the next line

Init ==
    /\ phase = "init"
    /\ items = <<>>
    /\ capacity = CAPACITY
    /\ key = NoKey /\ lo = 0 /\ hi = -1
    /\ answer = -1

-----------------------------------------------------------------------------
(* Faulty variant: the table grows when it is overfull.                    *)
FullLate == nitems + 1 > capacity

Full == nitems + 1 = capacity

(* fgets writes into items[nitems]; the path is opened; the table grows as *)
(* soon as it is full.                                                     *)
ReadLine(k) ==
    /\ phase = "init" /\ nitems < MaxLines
    /\ items' = Append(items, [key |-> k, fildes |-> nitems + 1])
    /\ capacity' = IF Full THEN capacity * 2 ELSE capacity
    /\ UNCHANGED <<phase, key, lo, hi, answer>>

(* A path that cannot be opened ends the process.                          *)
OpenFails ==
    /\ phase = "init" /\ nitems < MaxLines
    /\ phase' = "exited"
    /\ UNCHANGED <<items, capacity, key, lo, hi, answer>>

(* Faulty variant: any order will do.                                      *)
Unsorted(s) == TRUE

Sorted(s) == \A a, b \in 1 .. Len(s) : a < b => s[a].key <= s[b].key

(* qsort leaves the lines in some order in which no key decreases.         *)
Sort ==
    /\ phase = "init"
    /\ \E p \in Bijection(1 .. nitems, 1 .. nitems) :
          /\ items' = [n \in 1 .. nitems |-> items[p[n]]]
          /\ Sorted(items')
    /\ phase' = "ready"
    /\ UNCHANGED <<capacity, key, lo, hi, answer>>

-----------------------------------------------------------------------------
Get(k) ==
    /\ phase = "ready"
    /\ phase' = "search"
    /\ key' = k
    /\ lo' = 0
    /\ hi' = nitems - 1
    /\ UNCHANGED <<items, capacity, answer>>

mid == lo + (hi - lo) \div 2

(* Faulty variants: the middle stays in the range; one more is left out.   *)
BelowOrAt(m)  == m
FarBelow(m)   == m - 2

Below(m) == m - 1

(* One round of the loop.                                                  *)
Probe ==
    /\ phase = "search" /\ lo <= hi
    /\ LET k == items[mid + 1].key
       IN  \/ /\ key < k
              /\ hi' = Below(mid)
              /\ UNCHANGED <<phase, lo, answer>>
           \/ /\ key > k
              /\ lo' = mid + 1
              /\ UNCHANGED <<phase, hi, answer>>
           \/ /\ key = k
              /\ answer' = items[mid + 1].fildes
              /\ phase' = "ready"
              /\ UNCHANGED <<lo, hi>>
    /\ UNCHANGED <<items, capacity, key>>

NotThere ==
    /\ phase = "search" /\ lo > hi
    /\ answer' = -1
    /\ phase' = "ready"
    /\ UNCHANGED <<items, capacity, key, lo, hi>>

Destroy ==
    /\ phase = "ready"
    /\ phase' = "closed"
    /\ UNCHANGED <<items, capacity, key, lo, hi, answer>>

Next ==
    \/ \E k \in Keys : ReadLine(k) \/ Get(k)
    \/ OpenFails \/ Sort \/ Probe \/ NotThere \/ Destroy

SafeSpec == Init /\ [][Next]_vars

-----------------------------------------------------------------------------
(* content.c l. 68: "Key is in items[lo..hi] or not present."              *)
KeyInRange ==
    phase = "search" =>
        \A n \in 1 .. nitems : items[n].key = key => lo <= n - 1 /\ n - 1 <= hi

(* The first of equal keys need not be found, but one of them is: a search *)
(* returns the descriptor of a line with the key, and -1 only if there is  *)
(* none.                                                                   *)
SearchRight ==
    phase = "ready" /\ key # NoKey =>
        IF \E n \in 1 .. nitems : items[n].key = key
        THEN \E n \in 1 .. nitems : items[n].key = key /\ items[n].fildes = answer
        ELSE answer = -1

(* Each round of a search leaves at most half of the lines, so every       *)
(* search ends, after at most as many rounds as nitems has binary digits   *)
(* (content.c l. 67-77).                                                   *)
Remaining == hi - lo + 1
SearchHalves ==
    [][phase = "search" /\ phase' = "search" => 2 * Remaining' <= Remaining]_vars
=============================================================================
