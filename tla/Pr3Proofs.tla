----------------------------- MODULE Pr3Proofs ------------------------------
(***************************************************************************)
(* Proofs about the parts of pr3, for every value of the constants: its    *)
(* queue and its proxy, each with variables of its own.                    *)
(*                                                                         *)
(* Steque first, for every set of nodes and of items: the linked list      *)
(* keeps its shape under every sequence of calls.                          *)
(***************************************************************************)
EXTENDS Steque, QueueLemmas, FiniteSetTheorems

(* What Linked says, index by index: the form the steps below work with.   *)
DistinctNodes == \A i, j \in 1 .. Len(order) : order[i] = order[j] => i = j
ExactlyListed == \A n : n \in allocated <=> \E i \in 1 .. Len(order) : order[i] = n
Shape ==
    /\ order = <<>> => front = NULL /\ back = NULL
    /\ order # <<>> =>
         /\ front = order[1]
         /\ back = order[Len(order)]
         /\ next[back] = NULL
         /\ \A i \in 1 .. Len(order) - 1 : next[order[i]] = order[i + 1]

LEMMA LinkedByIndex ==
  ASSUME DOMAIN order = 1 .. Len(order)
  PROVE  Linked <=> DistinctNodes /\ ExactlyListed /\ N = Len(order) /\ Shape
<1>1. IsInjective(order) <=> DistinctNodes
  BY DEF IsInjective, DistinctNodes
<1>2. Range(order) = allocated <=> ExactlyListed
  <2>1. \A n : n \in Range(order) <=> \E i \in 1 .. Len(order) : order[i] = n
    BY DEF Range
  <2> QED
    BY <2>1 DEF ExactlyListed
<1> QED
  BY <1>1, <1>2 DEF Linked, Shape

(* The same after a step. *)
LEMMA LinkedByIndexNext ==
  ASSUME DOMAIN order' = 1 .. Len(order'),
         DistinctNodes', ExactlyListed', N' = Len(order'), Shape'
  PROVE  Linked'
<1>1. IsInjective(order)'
  BY DEF IsInjective, DistinctNodes
<1>2. Range(order)' = allocated'
  <2>1. \A n : n \in Range(order)' <=> \E i \in 1 .. Len(order') : order'[i] = n
    BY DEF Range
  <2> QED
    BY <2>1 DEF ExactlyListed
<1> QED
  BY <1>1, <1>2 DEF Linked, Shape

(* Facts every step needs about the list before the step. *)
LEMMA ListFacts ==
  ASSUME TypeOK, Linked
  PROVE  /\ order \in Seq(Nodes) /\ Len(order) \in Nat
         /\ DOMAIN order = 1 .. Len(order)
         /\ \A i \in 1 .. Len(order) : order[i] \in Nodes
         /\ order = <<>> <=> Len(order) = 0
         /\ order = <<>> <=> N = 0
         /\ order = <<>> <=> front = NULL
         /\ order = <<>> <=> back = NULL
<1>1. /\ order \in Seq(Nodes) /\ Len(order) \in Nat
      /\ DOMAIN order = 1 .. Len(order)
      /\ \A i \in 1 .. Len(order) : order[i] \in Nodes
  BY LenProperties, ElementOfSeq DEF TypeOK
<1>2. order = <<>> <=> Len(order) = 0
  BY <1>1, EmptySeq
<1>3. order # <<>> => order[1] \in Nodes /\ order[Len(order)] \in Nodes
  BY <1>1, <1>2
<1> QED
  BY <1>1, <1>2, <1>3, NullAssumption, LinkedByIndex DEF Shape

LEMMA EnqueueKeeps ==
  ASSUME TypeOK, Linked, NEW x \in Items, NEW n \in Nodes, Enqueue(x, n)
  PROVE  TypeOK' /\ Linked'
<1> DEFINE m == Len(order)
<1>1. /\ order \in Seq(Nodes) /\ m \in Nat
      /\ \A i \in 1 .. m : order[i] \in Nodes
      /\ order = <<>> <=> m = 0
      /\ order = <<>> <=> back = NULL
  BY ListFacts
<1>2. /\ \A i, j \in 1 .. m : order[i] = order[j] => i = j
      /\ \A k : k \in allocated <=> \E i \in 1 .. m : order[i] = k
      /\ N = m
      /\ m # 0 => /\ front = order[1] /\ back = order[m] /\ next[back] = NULL
                  /\ \A i \in 1 .. m - 1 : next[order[i]] = order[i + 1]
  BY LinkedByIndex, ListFacts DEF DistinctNodes, ExactlyListed, Shape
<1>3. /\ order' \in Seq(Nodes) /\ Len(order') = m + 1
      /\ \A i \in 1 .. m : order'[i] = order[i]
      /\ order'[m + 1] = n
  BY <1>1, AppendProperties DEF Enqueue
<1>4. TypeOK'
  BY <1>1, <1>2, <1>3 DEF TypeOK, Enqueue
<1>5. n \notin allocated /\ \A i \in 1 .. m : order[i] # n
  BY <1>2 DEF Enqueue
<1>6. m + 1 \in 1 .. (m + 1) /\ \A i \in 1 .. (m + 1) : i \in 1 .. m \/ i = m + 1
  BY <1>1
<1> HIDE DEF m
<1>7. \A i, j \in 1 .. (m + 1) : order'[i] = order'[j] => i = j
  BY <1>2, <1>3, <1>5, <1>6
<1>8. \A k : k \in allocated' <=> \E i \in 1 .. (m + 1) : order'[i] = k
  <2>1. \A i \in 1 .. m : i \in 1 .. (m + 1)
    BY <1>1
  <2>2. allocated' = allocated \cup {n}
    BY DEF Enqueue
  <2> QED
    BY <1>2, <1>3, <1>6, <2>1, <2>2
<1>9. order' # <<>> /\ N' = m + 1 /\ back' = order'[m + 1]
  BY <1>1, <1>2, <1>3, EmptySeq DEF Enqueue
<1>10. front' = order'[1]
  BY <1>1, <1>2, <1>3 DEF Enqueue, m
<1>11. next'[back'] = NULL
  <2>1. back' = n /\ back # n
    BY <1>1, <1>2, <1>5, NullAssumption DEF Enqueue
  <2> QED
    BY <2>1 DEF TypeOK, Enqueue
<1>12. \A i \in 1 .. m : next'[order'[i]] = order'[i + 1]
  <2>1. SUFFICES ASSUME NEW i \in 1 .. m PROVE next'[order'[i]] = order'[i + 1]
    OBVIOUS
  <2>2. m # 0 /\ back # NULL /\ back = order[m] /\ m \in 1 .. m
    BY <1>1, <1>2, <2>1
  <2>3. next' = [next EXCEPT ![n] = NULL, ![back] = n] /\ back \in Nodes
    BY <1>1, <2>2 DEF Enqueue
  <2>4. order'[i] = order[i] /\ order[i] # n /\ order[i] \in Nodes
    BY <1>1, <1>3, <1>5
  <2>5. CASE i = m
    <3>1. next'[order[i]] = n
      BY <2>2, <2>3, <2>4, <2>5 DEF TypeOK
    <3> QED
      BY <1>3, <2>4, <2>5, <3>1
  <2>6. CASE i # m
    <3>1. i \in 1 .. m - 1 /\ i + 1 \in 1 .. m
      BY <1>1, <2>6
    <3>2. order[i] # back
      BY <1>2, <2>2, <2>6
    <3>3. next'[order[i]] = next[order[i]]
      BY <2>3, <2>4, <3>2 DEF TypeOK
    <3> QED
      BY <1>2, <1>3, <2>2, <2>4, <3>1, <3>3
  <2> QED
    BY <2>5, <2>6
<1>13. (m + 1) - 1 = m
  BY <1>1
<1>14. DOMAIN order' = 1 .. Len(order')
  BY <1>3, LenProperties
<1>15. DistinctNodes' /\ ExactlyListed'
  BY <1>3, <1>7, <1>8 DEF DistinctNodes, ExactlyListed
<1>16. Shape' /\ N' = Len(order')
  BY <1>3, <1>9, <1>10, <1>11, <1>12, <1>13 DEF Shape
<1> QED
  BY <1>4, <1>14, <1>15, <1>16, LinkedByIndexNext

LEMMA PushKeeps ==
  ASSUME TypeOK, Linked, NEW x \in Items, NEW n \in Nodes, Push(x, n)
  PROVE  TypeOK' /\ Linked'
<1> DEFINE m == Len(order)
<1>1. /\ order \in Seq(Nodes) /\ m \in Nat
      /\ \A i \in 1 .. m : order[i] \in Nodes
      /\ order = <<>> <=> m = 0
      /\ order = <<>> <=> back = NULL
      /\ order = <<>> <=> front = NULL
  BY ListFacts
<1>2. /\ \A i, j \in 1 .. m : order[i] = order[j] => i = j
      /\ \A k : k \in allocated <=> \E i \in 1 .. m : order[i] = k
      /\ N = m
      /\ m # 0 => /\ front = order[1] /\ back = order[m] /\ next[back] = NULL
                  /\ \A i \in 1 .. m - 1 : next[order[i]] = order[i + 1]
  BY LinkedByIndex, ListFacts DEF DistinctNodes, ExactlyListed, Shape
<1>3. /\ order' \in Seq(Nodes) /\ Len(order') = m + 1
      /\ DOMAIN order' = 1 .. (m + 1)
      /\ order'[1] = n
      /\ \A i \in 1 .. m : order'[i + 1] = order[i]
  BY <1>1, ConsElements DEF Push
<1>4. TypeOK'
  BY <1>1, <1>2, <1>3 DEF TypeOK, Push
<1>5. n \notin allocated /\ \A i \in 1 .. m : order[i] # n
  BY <1>2 DEF Push
<1> HIDE DEF m
<1>6. \A i \in 1 .. (m + 1) :
         \/ i = 1 /\ order'[i] = n
         \/ i - 1 \in 1 .. m /\ order'[i] = order[i - 1]
  <2> TAKE i \in 1 .. (m + 1)
  <2>1. i # 1 => i - 1 \in 1 .. m /\ (i - 1) + 1 = i
    BY <1>1
  <2> QED
    BY <1>3, <2>1
<1>7. \A i, j \in 1 .. (m + 1) : order'[i] = order'[j] => i = j
  <2> TAKE i, j \in 1 .. (m + 1)
  <2>1. i - 1 = j - 1 => i = j
    OBVIOUS
  <2> QED
    BY <1>2, <1>5, <1>6, <2>1
<1>8. \A k : k \in allocated' <=> \E i \in 1 .. (m + 1) : order'[i] = k
  <2>1. \A i \in 1 .. m : i + 1 \in 1 .. (m + 1)
    BY <1>1
  <2>2. allocated' = allocated \cup {n} /\ 1 \in 1 .. (m + 1)
    BY <1>1 DEF Push
  <2> QED
    BY <1>2, <1>3, <1>6, <2>1, <2>2
<1>9. order' # <<>> /\ N' = m + 1 /\ front' = order'[1]
  BY <1>1, <1>2, <1>3, EmptySeq DEF Push
<1>10. back' = order'[m + 1]
  <2>1. CASE m = 0
    BY <1>1, <1>3, <2>1 DEF Push
  <2>2. CASE m # 0
    <3>1. m \in 1 .. m
      BY <1>1, <2>2
    <3> QED
      BY <1>1, <1>2, <1>3, <2>2, <3>1 DEF Push
  <2> QED
    BY <2>1, <2>2
<1>11. next' = [next EXCEPT ![n] = front] /\ next'[n] = front
  BY DEF TypeOK, Push
<1>12. \A i \in 1 .. m : next'[order[i]] = next[order[i]]
  BY <1>1, <1>5, <1>11 DEF TypeOK
<1>13. next'[back'] = NULL
  <2>1. CASE m = 0
    BY <1>1, <1>11, <2>1 DEF Push
  <2>2. CASE m # 0
    <3>1. m \in 1 .. m /\ back' = back
      BY <1>1, <2>2 DEF Push
    <3> QED
      BY <1>2, <1>12, <2>2, <3>1
  <2> QED
    BY <2>1, <2>2
<1>14. \A i \in 1 .. m : next'[order'[i]] = order'[i + 1]
  <2> TAKE i \in 1 .. m
  <2>1. CASE i = 1
    BY <1>2, <1>3, <1>11, <2>1
  <2>2. CASE i # 1
    <3>1. i - 1 \in 1 .. m - 1 /\ i - 1 \in 1 .. m /\ (i - 1) + 1 = i /\ m # 0
      BY <1>1, <2>2
    <3>2. order'[i] = order[i - 1]
      BY <1>3, <3>1
    <3> QED
      BY <1>2, <1>3, <1>12, <3>1, <3>2
  <2> QED
    BY <2>1, <2>2
<1>15. (m + 1) - 1 = m
  BY <1>1
<1>16. DistinctNodes' /\ ExactlyListed'
  BY <1>3, <1>7, <1>8 DEF DistinctNodes, ExactlyListed
<1>17. Shape' /\ N' = Len(order')
  BY <1>3, <1>9, <1>10, <1>13, <1>14, <1>15 DEF Shape
<1> QED
  BY <1>3, <1>4, <1>16, <1>17, LinkedByIndexNext

LEMMA UnlinkKeeps ==
  ASSUME TypeOK, Linked, front # NULL, Unlink, UNCHANGED <<destroying, alive>>
  PROVE  TypeOK' /\ Linked'
<1> DEFINE m == Len(order)
<1>1. /\ order \in Seq(Nodes) /\ m \in Nat \ {0} /\ order # <<>>
      /\ \A i \in 1 .. m : order[i] \in Nodes
  BY ListFacts
<1>2. /\ \A i, j \in 1 .. m : order[i] = order[j] => i = j
      /\ \A k : k \in allocated <=> \E i \in 1 .. m : order[i] = k
      /\ N = m
      /\ front = order[1] /\ back = order[m] /\ next[back] = NULL
      /\ \A i \in 1 .. m - 1 : next[order[i]] = order[i + 1]
  BY <1>1, LinkedByIndex, ListFacts DEF DistinctNodes, ExactlyListed, Shape
<1>3. /\ order' \in Seq(Nodes) /\ Len(order') = m - 1
      /\ \A i \in 1 .. m - 1 : order'[i] = order[i + 1]
  BY <1>1, HeadTailProperties DEF Unlink
<1>4. DOMAIN order' = 1 .. Len(order')
  BY <1>3, LenProperties
<1> HIDE DEF m
<1>5. 1 \in 1 .. m /\ m \in 1 .. m /\ front \in Nodes /\ back \in Nodes
  BY <1>1, <1>2
<1>6. TypeOK'
  BY <1>1, <1>2, <1>3, <1>5 DEF TypeOK, Unlink
<1>7. \A i \in 1 .. m - 1 : i + 1 \in 1 .. m /\ i + 1 # 1 /\ i \in 1 .. m
  BY <1>1
<1>8. DistinctNodes'
  <2>1. ASSUME NEW i \in 1 .. m - 1, NEW j \in 1 .. m - 1, order'[i] = order'[j]
        PROVE  i = j
    <3>1. i + 1 = j + 1
      BY <1>2, <1>3, <1>7, <2>1
    <3> QED
      BY <3>1
  <2> QED
    BY <1>3, <2>1 DEF DistinctNodes
<1>9. ExactlyListed'
  <2>1. ASSUME NEW k PROVE k \in allocated' <=> \E i \in 1 .. m - 1 : order'[i] = k
    <3>1. k \in allocated' <=> k \in allocated /\ k # order[1]
      BY <1>2 DEF Unlink
    <3>2. ASSUME NEW i \in 1 .. m - 1, order'[i] = k PROVE k \in allocated'
      BY <1>2, <1>3, <1>5, <1>7, <3>1, <3>2
    <3>3. ASSUME NEW i \in 1 .. m, order[i] = k, i # 1
          PROVE  \E j \in 1 .. m - 1 : order'[j] = k
      <4>1. i - 1 \in 1 .. m - 1 /\ (i - 1) + 1 = i
        BY <1>1, <3>3
      <4>2. order'[i - 1] = k
        BY <1>3, <3>3, <4>1
      <4> QED
        BY <4>1, <4>2
    <3> QED
      BY <1>2, <3>1, <3>2, <3>3
  <2> QED
    BY <1>3, <2>1 DEF ExactlyListed
<1>10. N' = Len(order')
  BY <1>2, <1>3 DEF Unlink
<1>11. Shape'
  <2>1. CASE m = 1
    <3>1. front' = NULL /\ back' = NULL
      BY <1>2, <2>1 DEF Unlink
    <3>2. order' = <<>>
      BY <1>3, <2>1, EmptySeq
    <3> QED
      BY <3>1, <3>2 DEF Shape
  <2>2. CASE m # 1
    <3>1. 1 \in 1 .. m - 1 /\ m - 1 \in 1 .. m - 1 /\ 1 + 1 = 2 /\ (m - 1) + 1 = m
      BY <1>1, <2>2
    <3>2. next[front] = order[2] /\ order[2] \in Nodes /\ order[2] # NULL
      BY <1>1, <1>2, <1>7, <3>1, NullAssumption
    <3>3. front' = order'[1] /\ back' = back /\ back = order'[m - 1] /\ next' = next
      BY <1>2, <1>3, <3>1, <3>2 DEF Unlink
    <3>4. ASSUME NEW i \in 1 .. (m - 1) - 1 PROVE next'[order'[i]] = order'[i + 1]
      <4>1. i \in 1 .. m - 1 /\ i + 1 \in 1 .. m - 1
        BY <1>1, <3>4
      <4> QED
        BY <1>2, <1>3, <3>3, <4>1
    <3>5. order' # <<>>
      BY <1>3, <3>1, EmptySeq
    <3> QED
      BY <1>2, <1>3, <3>3, <3>4, <3>5 DEF Shape
  <2> QED
    BY <2>1, <2>2
<1> QED
  BY <1>4, <1>6, <1>8, <1>9, <1>10, <1>11, LinkedByIndexNext

LEMMA CycleKeeps ==
  ASSUME TypeOK, Linked, Cycle
  PROVE  TypeOK' /\ Linked'
<1> DEFINE m == Len(order)
<1>1. CASE back = NULL
  <2>1. UNCHANGED <<front, back, N, next, item, allocated, destroying, alive, order>>
    BY <1>1 DEF Cycle
  <2> QED
    BY <2>1 DEF TypeOK, Linked
<1>2. CASE back # NULL
  <2>1. /\ order \in Seq(Nodes) /\ m \in Nat \ {0} /\ order # <<>>
        /\ \A i \in 1 .. m : order[i] \in Nodes
    BY <1>2, ListFacts
  <2>2. /\ \A i, j \in 1 .. m : order[i] = order[j] => i = j
        /\ \A k : k \in allocated <=> \E i \in 1 .. m : order[i] = k
        /\ N = m
        /\ front = order[1] /\ back = order[m] /\ next[back] = NULL
        /\ \A i \in 1 .. m - 1 : next[order[i]] = order[i + 1]
    BY <2>1, LinkedByIndex, ListFacts DEF DistinctNodes, ExactlyListed, Shape
  <2>3. /\ order' \in Seq(Nodes) /\ Len(order') = m /\ DOMAIN order' = 1 .. m
        /\ order'[m] = order[1]
        /\ \A i \in 1 .. m - 1 : order'[i] = order[i + 1]
    <3>1. order' = Append(Tail(order), Head(order))
      BY <1>2 DEF Cycle
    <3> QED
      BY <2>1, <3>1, RotateElements
  <2> HIDE DEF m
  <2>4. 1 \in 1 .. m /\ m \in 1 .. m /\ front \in Nodes /\ back \in Nodes
    BY <2>1, <2>2
  <2> DEFINE linked == [next EXCEPT ![back] = front]
  <2>5. /\ back' = front /\ front' = linked[front]
        /\ next' = [linked EXCEPT ![front] = NULL]
        /\ UNCHANGED <<N, item, allocated, destroying, alive>>
    BY <1>2 DEF Cycle
  <2>6. /\ linked \in [Nodes -> Nodes \cup {NULL}]
        /\ \A k \in Nodes : linked[k] = IF k = back THEN front ELSE next[k]
    BY <2>4 DEF TypeOK
  <2> HIDE DEF linked
  <2>7. /\ next' \in [Nodes -> Nodes \cup {NULL}]
        /\ \A k \in Nodes : next'[k] = IF k = front THEN NULL ELSE linked[k]
    BY <2>4, <2>5, <2>6
  <2>8. TypeOK'
    BY <2>3, <2>4, <2>5, <2>6, <2>7 DEF TypeOK
  <2>9. \A i \in 1 .. m : \/ i = m /\ order'[i] = order[1]
                          \/ /\ i \in 1 .. m - 1 /\ i + 1 \in 1 .. m /\ i + 1 # 1
                             /\ order'[i] = order[i + 1]
    BY <2>1, <2>3
  <2>10. DistinctNodes'
    <3>1. ASSUME NEW i \in 1 .. m, NEW j \in 1 .. m, order'[i] = order'[j]
          PROVE  i = j
      <4>1. i + 1 = j + 1 => i = j
        OBVIOUS
      <4> QED
        BY <2>2, <2>4, <2>9, <3>1, <4>1
    <3> QED
      BY <2>3, <3>1 DEF DistinctNodes
  <2>11. ExactlyListed'
    <3>1. ASSUME NEW k PROVE k \in allocated' <=> \E i \in 1 .. m : order'[i] = k
      <4>1. ASSUME NEW i \in 1 .. m, order[i] = k PROVE \E j \in 1 .. m : order'[j] = k
        <5>1. CASE i = 1
          BY <2>3, <2>4, <4>1, <5>1
        <5>2. CASE i # 1
          <6>1. i - 1 \in 1 .. m - 1 /\ i - 1 \in 1 .. m /\ (i - 1) + 1 = i
            BY <2>1, <5>2
          <6> QED
            BY <2>3, <4>1, <6>1
        <5> QED
          BY <5>1, <5>2
      <4>2. ASSUME NEW i \in 1 .. m, order'[i] = k PROVE \E j \in 1 .. m : order[j] = k
        BY <2>4, <2>9, <4>2
      <4> QED
        BY <2>2, <2>5, <4>1, <4>2
    <3> QED
      BY <2>3, <3>1 DEF ExactlyListed
  <2>12. front' = order'[1]
    <3>1. CASE m = 1
      BY <2>2, <2>3, <2>4, <2>5, <2>6, <3>1
    <3>2. CASE m # 1
      <4>1. 1 \in 1 .. m - 1 /\ 1 + 1 = 2
        BY <2>1, <3>2
      <4>2. front # back
        BY <2>2, <2>4, <3>2
      <4> QED
        BY <2>2, <2>3, <2>4, <2>5, <2>6, <4>1, <4>2
    <3> QED
      BY <3>1, <3>2
  <2>13. back' = order'[m] /\ next'[back'] = NULL
    BY <2>2, <2>3, <2>4, <2>5, <2>7
  <2>14. ASSUME NEW i \in 1 .. m - 1 PROVE next'[order'[i]] = order'[i + 1]
    <3>1. /\ i + 1 \in 1 .. m /\ i + 1 # 1 /\ order'[i] = order[i + 1]
          /\ order[i + 1] \in Nodes
      BY <2>1, <2>3
    <3>2. order[i + 1] # front
      BY <2>2, <2>4, <3>1
    <3>3. CASE i + 1 = m
      BY <2>2, <2>3, <2>6, <2>7, <3>1, <3>2, <3>3
    <3>4. CASE i + 1 # m
      <4>1. i + 1 \in 1 .. m - 1
        BY <2>1, <3>1, <3>4
      <4>2. order[i + 1] # back
        BY <2>2, <2>4, <3>1, <3>4
      <4>3. next'[order'[i]] = next[order[i + 1]]
        BY <2>6, <2>7, <3>1, <3>2, <4>2
      <4> QED
        BY <2>2, <2>3, <4>1, <4>3
    <3> QED
      BY <3>3, <3>4
  <2>15. order' # <<>> /\ N' = Len(order')
    BY <2>1, <2>2, <2>3, <2>5, EmptySeq
  <2>16. Shape'
    BY <2>3, <2>12, <2>13, <2>14, <2>15 DEF Shape
  <2> QED
    BY <2>3, <2>8, <2>10, <2>11, <2>15, <2>16, LinkedByIndexNext
<1> QED
  BY <1>1, <1>2

-----------------------------------------------------------------------------
IInv == TypeOK /\ Linked

LEMMA InitInv == Init => IInv
<1> SUFFICES ASSUME Init PROVE IInv
  OBVIOUS
<1>1. TypeOK
  BY EmptySeq DEF Init, TypeOK
<1>2. Linked
  BY EmptySeq DEF Init, Linked, IsInjective, Range
<1> QED
  BY <1>1, <1>2 DEF IInv

(* No round of steque_destroy's loop meets a count without nodes. *)
LEMMA RoundFindsNode == ASSUME IInv, N # 0 PROVE front # NULL
BY ListFacts DEF IInv

LEMMA InvStep == IInv /\ [Next]_vars => IInv'
<1> SUFFICES ASSUME TypeOK, Linked, [Next]_vars PROVE TypeOK' /\ Linked'
  BY DEF IInv
<1>1. CASE UNCHANGED <<front, back, N, item, next, allocated, order>>
           /\ destroying' \in BOOLEAN /\ alive' \in BOOLEAN
  BY <1>1 DEF TypeOK, Linked
<1>2. CASE Call
  <2>1. ASSUME NEW x \in Items, NEW n \in Nodes, Enqueue(x, n)
        PROVE  TypeOK' /\ Linked'
    BY <2>1, EnqueueKeeps
  <2>2. ASSUME NEW x \in Items, NEW n \in Nodes, Push(x, n)
        PROVE  TypeOK' /\ Linked'
    BY <2>2, PushKeeps
  <2>3. CASE Pop
    BY <2>3, UnlinkKeeps DEF Pop
  <2>4. CASE Cycle
    BY <2>4, CycleKeeps
  <2>5. CASE Front \/ Underflow \/ Size \/ IsEmpty \/ Destroy
    BY <1>1, <2>5 DEF Front, Underflow, Exit, Size, IsEmpty, Destroy, TypeOK
  <2> QED
    BY <1>2, <2>1, <2>2, <2>3, <2>4, <2>5 DEF Call
<1>3. CASE DestroyRound
  <2>1. CASE N = 0
    BY <1>1, <1>3, <2>1 DEF DestroyRound, TypeOK
  <2>2. CASE N # 0
    BY <1>3, <2>2, RoundFindsNode, UnlinkKeeps DEF DestroyRound, IInv
  <2> QED
    BY <2>1, <2>2
<1>4. CASE UNCHANGED vars
  BY <1>1, <1>4 DEF vars, TypeOK
<1> QED
  BY <1>2, <1>3, <1>4 DEF Next

(* The list keeps its shape and its types under every sequence of calls,   *)
(* for any number of nodes and items: no leak, no dangling pointer.        *)
THEOREM ListShape == SafeSpec => [](TypeOK /\ Linked)
<1>1. SafeSpec => []IInv
  BY InitInv, InvStep, PTL DEF SafeSpec
<1> QED
  BY <1>1, PTL DEF IInv

-----------------------------------------------------------------------------
(* The list implements the queue of items.                                 *)

View == [i \in 1 .. Len(order) |-> item[order[i]]]

LEMMA ViewFacts ==
  ASSUME TypeOK
  PROVE  /\ View \in Seq(Items) /\ Len(View) = Len(order)
         /\ Len(order) \in Nat
         /\ \A i \in 1 .. Len(order) : View[i] = item[order[i]]
         /\ View = <<>> <=> order = <<>>
<1>1. /\ order \in Seq(Nodes) /\ Len(order) \in Nat
      /\ \A i \in 1 .. Len(order) : order[i] \in Nodes
  BY LenProperties, ElementOfSeq DEF TypeOK
<1>2. View \in [1 .. Len(order) -> Items]
  BY <1>1 DEF View, TypeOK
<1>3. View \in Seq(Items)
  BY <1>1, <1>2, SeqDef
<1>4. Len(View) = Len(order)
  BY <1>1, <1>2, <1>3, LenProperties
<1>5. \A i \in 1 .. Len(order) : View[i] = item[order[i]]
  BY DEF View
<1>6. View = <<>> <=> order = <<>>
  BY <1>1, <1>3, <1>4, EmptySeq
<1> QED
  BY <1>1, <1>3, <1>4, <1>5, <1>6

LEMMA ViewFactsNext ==
  ASSUME TypeOK'
  PROVE  /\ View' \in Seq(Items) /\ Len(View') = Len(order')
         /\ Len(order') \in Nat
         /\ \A i \in 1 .. Len(order') : View'[i] = item'[order'[i]]
<1>1. /\ order' \in Seq(Nodes) /\ Len(order') \in Nat
      /\ \A i \in 1 .. Len(order') : order'[i] \in Nodes
  BY LenProperties, ElementOfSeq DEF TypeOK
<1>2. View' \in [1 .. Len(order') -> Items]
  BY <1>1 DEF View, TypeOK
<1>3. View' \in Seq(Items)
  BY <1>1, <1>2, SeqDef
<1>4. Len(View') = Len(order')
  BY <1>1, <1>2, <1>3, LenProperties
<1>5. \A i \in 1 .. Len(order') : View'[i] = item'[order'[i]]
  BY DEF View
<1> QED
  BY <1>1, <1>3, <1>4, <1>5

(* A new node does not show through the others. *)
LEMMA NewNode ==
  ASSUME TypeOK, Linked, NEW n \in Nodes, n \notin allocated, NEW x \in Items,
         item' = [item EXCEPT ![n] = x]
  PROVE  /\ item'[n] = x
         /\ \A i \in 1 .. Len(order) : item'[order[i]] = item[order[i]]
<1>1. \A i \in 1 .. Len(order) : order[i] \in allocated /\ order[i] \in Nodes
  BY LinkedByIndex, ListFacts DEF ExactlyListed
<1> QED
  BY <1>1 DEF TypeOK

LEMMA ViewEnqueue ==
  ASSUME IInv, IInv', NEW x \in Items, NEW n \in Nodes, Enqueue(x, n)
  PROVE  View' = Append(View, x)
<1>1. /\ item'[n] = x
      /\ \A i \in 1 .. Len(order) : item'[order[i]] = item[order[i]]
  BY NewNode DEF IInv, Enqueue
<1>2. /\ Len(order') = Len(order) + 1 /\ Len(order) \in Nat
      /\ \A i \in 1 .. Len(order) : order'[i] = order[i]
      /\ order'[Len(order) + 1] = n
  BY AppendProperties, ListFacts DEF Enqueue, IInv
<1>3. /\ View \in Seq(Items) /\ Len(View) = Len(order)
      /\ \A i \in 1 .. Len(order) : View[i] = item[order[i]]
      /\ View' \in Seq(Items) /\ Len(View') = Len(order')
      /\ \A i \in 1 .. Len(order') : View'[i] = item'[order'[i]]
  BY ViewFacts, ViewFactsNext DEF IInv
<1> DEFINE a == Append(View, x)
<1>4. /\ a \in Seq(Items) /\ Len(a) = Len(order) + 1
      /\ \A i \in 1 .. Len(order) : a[i] = View[i]
      /\ a[Len(order) + 1] = x
  BY <1>3, AppendProperties
<1> HIDE DEF a
<1>5. \A i \in 1 .. Len(View') : View'[i] = a[i]
  <2> TAKE i \in 1 .. Len(View')
  <2>1. i \in 1 .. Len(order) \/ i = Len(order) + 1
    BY <1>2, <1>3
  <2> QED
    BY <1>1, <1>2, <1>3, <1>4, <2>1
<1>6. View' = a
  BY <1>2, <1>3, <1>4, <1>5, SeqEqual
<1> QED
  BY <1>6 DEF a

LEMMA ViewPush ==
  ASSUME IInv, IInv', NEW x \in Items, NEW n \in Nodes, Push(x, n)
  PROVE  View' = <<x>> \o View
<1>1. /\ item'[n] = x
      /\ \A i \in 1 .. Len(order) : item'[order[i]] = item[order[i]]
  BY NewNode DEF IInv, Push
<1>2. /\ Len(order') = Len(order) + 1 /\ Len(order) \in Nat
      /\ order'[1] = n
      /\ \A i \in 1 .. Len(order) : order'[i + 1] = order[i]
  BY ConsElements, ListFacts DEF Push, IInv
<1>3. /\ View \in Seq(Items) /\ Len(View) = Len(order)
      /\ \A i \in 1 .. Len(order) : View[i] = item[order[i]]
      /\ View' \in Seq(Items) /\ Len(View') = Len(order')
      /\ \A i \in 1 .. Len(order') : View'[i] = item'[order'[i]]
  BY ViewFacts, ViewFactsNext DEF IInv
<1> DEFINE a == <<x>> \o View
<1>4. /\ a \in Seq(Items) /\ Len(a) = Len(order) + 1
      /\ a[1] = x
      /\ \A i \in 1 .. Len(order) : a[i + 1] = View[i]
  BY <1>3, ConsElements
<1> HIDE DEF a
<1>5. \A i \in 1 .. Len(View') : View'[i] = a[i]
  <2> TAKE i \in 1 .. Len(View')
  <2>1. i = 1 \/ (i - 1 \in 1 .. Len(order) /\ (i - 1) + 1 = i)
    BY <1>2, <1>3
  <2>2. CASE i = 1
    BY <1>1, <1>2, <1>3, <1>4, <2>2
  <2>3. ASSUME NEW j \in 1 .. Len(order), j + 1 = i PROVE View'[i] = a[i]
    BY <1>1, <1>2, <1>3, <1>4, <2>3
  <2> QED
    BY <2>1, <2>2, <2>3
<1>6. View' = a
  BY <1>2, <1>3, <1>4, <1>5, SeqEqual
<1> QED
  BY <1>6 DEF a

LEMMA ViewUnlink ==
  ASSUME IInv, IInv', front # NULL, Unlink
  PROVE  View # <<>> /\ Head(View) = item[front] /\ View' = Tail(View)
<1>1. /\ order \in Seq(Nodes) /\ order # <<>> /\ Len(order) \in Nat \ {0}
      /\ front = order[1]
  BY ListFacts, LinkedByIndex DEF IInv, Shape
<1>2. Len(order') = Len(order) - 1 /\ \A i \in 1 .. Len(order) - 1 : order'[i] = order[i + 1]
  BY <1>1, HeadTailProperties DEF Unlink
<1>3. /\ View \in Seq(Items) /\ Len(View) = Len(order) /\ View # <<>>
      /\ \A i \in 1 .. Len(order) : View[i] = item[order[i]]
      /\ View' \in Seq(Items) /\ Len(View') = Len(order')
      /\ \A i \in 1 .. Len(order') : View'[i] = item'[order'[i]]
  BY <1>1, ViewFacts, ViewFactsNext DEF IInv
<1>4. Head(View) = item[front]
  BY <1>1, <1>3
<1> DEFINE t == Tail(View)
<1>5. /\ t \in Seq(Items) /\ Len(t) = Len(order) - 1
      /\ \A i \in 1 .. Len(order) - 1 : t[i] = View[i + 1]
  BY <1>3, HeadTailProperties
<1> HIDE DEF t
<1>6. \A i \in 1 .. Len(View') : View'[i] = t[i]
  <2> TAKE i \in 1 .. Len(View')
  <2>1. i \in 1 .. Len(order) - 1 /\ i + 1 \in 1 .. Len(order)
    BY <1>1, <1>2, <1>3
  <2>2. item' = item
    BY DEF Unlink
  <2> QED
    BY <1>2, <1>3, <1>5, <2>1, <2>2
<1>7. View' = t
  BY <1>2, <1>3, <1>5, <1>6, SeqEqual
<1> QED
  BY <1>3, <1>4, <1>7 DEF t

LEMMA ViewCycle ==
  ASSUME IInv, IInv', Cycle
  PROVE  View' = IF View = <<>> THEN View ELSE Append(Tail(View), Head(View))
<1>1. CASE back = NULL
  <2>1. order = <<>> /\ UNCHANGED <<item, order>>
    BY <1>1, ListFacts DEF Cycle, IInv
  <2>2. View = <<>> /\ View' = View
    BY <2>1, ViewFacts DEF View, IInv
  <2> QED
    BY <2>2
<1>2. CASE back # NULL
  <2>1. /\ order \in Seq(Nodes) /\ order # <<>> /\ Len(order) \in Nat \ {0}
    BY <1>2, ListFacts DEF IInv
  <2>2. order' = Append(Tail(order), Head(order)) /\ item' = item
    BY <1>2 DEF Cycle
  <2>3. /\ Len(order') = Len(order)
        /\ order'[Len(order)] = order[1]
        /\ \A i \in 1 .. Len(order) - 1 : order'[i] = order[i + 1]
    BY <2>1, <2>2, RotateElements
  <2>4. /\ View \in Seq(Items) /\ Len(View) = Len(order) /\ View # <<>>
        /\ \A i \in 1 .. Len(order) : View[i] = item[order[i]]
        /\ View' \in Seq(Items) /\ Len(View') = Len(order')
        /\ \A i \in 1 .. Len(order') : View'[i] = item'[order'[i]]
    BY <2>1, ViewFacts, ViewFactsNext DEF IInv
  <2> DEFINE r == Append(Tail(View), Head(View))
  <2>5. /\ r \in Seq(Items) /\ Len(r) = Len(order)
        /\ r[Len(order)] = View[1]
        /\ \A i \in 1 .. Len(order) - 1 : r[i] = View[i + 1]
    BY <2>4, RotateElements
  <2> HIDE DEF r
  <2>6. \A i \in 1 .. Len(View') : View'[i] = r[i]
    <3> TAKE i \in 1 .. Len(View')
    <3>1. i = Len(order) \/ (i \in 1 .. Len(order) - 1 /\ i + 1 \in 1 .. Len(order))
      BY <2>1, <2>3, <2>4
    <3>2. 1 \in 1 .. Len(order)
      BY <2>1
    <3>3. View'[i] = item[order'[i]]
      BY <2>2, <2>3, <2>4
    <3>4. CASE i = Len(order)
      BY <2>3, <2>4, <2>5, <3>2, <3>3, <3>4
    <3>5. ASSUME i \in 1 .. Len(order) - 1, i + 1 \in 1 .. Len(order)
          PROVE  View'[i] = r[i]
      BY <2>3, <2>4, <2>5, <3>3, <3>5
    <3> QED
      BY <3>1, <3>4, <3>5
  <2>7. View' = r
    BY <2>3, <2>4, <2>5, <2>6, SeqEqual
  <2> QED
    BY <2>4, <2>7 DEF r
<1> QED
  BY <1>1, <1>2

LEMMA RefineInit == Init => Queue!Init
<1> SUFFICES ASSUME Init PROVE Queue!Init
  OBVIOUS
<1>1. IInv /\ order = <<>>
  BY InitInv DEF Init
<1>2. View = <<>>
  BY <1>1, ViewFacts DEF IInv
<1> QED
  BY <1>2 DEF Init, Queue!Init, View

LEMMA RefineStep == IInv /\ IInv' /\ [Next]_vars => [Queue!Next]_(Queue!vars)
<1> SUFFICES ASSUME IInv, IInv', [Next]_vars
             PROVE  Queue!Next \/ UNCHANGED Queue!vars
  OBVIOUS
<1> USE DEF View
<1>1. CASE UNCHANGED vars
  BY <1>1 DEF vars, Queue!vars
<1>2. ASSUME alive, ~ destroying, Call PROVE Queue!Next
  <2>0. SUFFICES Queue!Call
    BY <1>2 DEF Queue!Next
  <2>1. ASSUME NEW x \in Items, NEW n \in Nodes, Enqueue(x, n) PROVE Queue!Call
    <3>1. View' = Append(View, x)
      BY <2>1, ViewEnqueue
    <3>2. Queue!Enqueue(x)
      BY <2>1, <3>1 DEF Enqueue, Queue!Enqueue
    <3> QED
      BY <3>2 DEF Queue!Call
  <2>2. ASSUME NEW x \in Items, NEW n \in Nodes, Push(x, n) PROVE Queue!Call
    <3>1. View' = <<x>> \o View
      BY <2>2, ViewPush
    <3>2. Queue!Push(x)
      BY <2>2, <3>1 DEF Push, Queue!Push
    <3> QED
      BY <3>2 DEF Queue!Call
  <2>3. CASE Pop
    <3>1. View # <<>> /\ Head(View) = item[front] /\ View' = Tail(View)
      BY <2>3, ViewUnlink DEF Pop
    <3>2. Queue!Pop
      BY <2>3, <3>1 DEF Pop, Queue!Pop
    <3> QED
      BY <3>2 DEF Queue!Call
  <2>4. CASE Front
    <3>1. /\ order # <<>> /\ front = order[1] /\ Len(order) \in Nat \ {0}
      BY <2>4, ListFacts, LinkedByIndex DEF IInv, Shape, Front
    <3>2. View # <<>> /\ View[1] = item[front] /\ View \in Seq(Items)
      BY <3>1, ViewFacts DEF IInv
    <3>3. Head(View) = item[front] /\ View' = View
      BY <2>4, <3>2 DEF Front
    <3>4. Queue!Front
      BY <2>4, <3>2, <3>3 DEF Front, Queue!Front
    <3> QED
      BY <3>4 DEF Queue!Call
  <2>5. CASE Underflow
    <3>1. View = <<>> /\ View' = View
      BY <2>5, ListFacts, ViewFacts DEF Underflow, Exit, IInv
    <3>2. Queue!Underflow
      BY <2>5, <3>1 DEF Underflow, Exit, Queue!Underflow
    <3> QED
      BY <3>2 DEF Queue!Call
  <2>6. CASE Cycle
    <3>1. View' = IF View = <<>> THEN View ELSE Append(Tail(View), Head(View))
      BY <2>6, ViewCycle
    <3>2. Queue!Cycle
      BY <2>6, <3>1 DEF Cycle, Queue!Cycle
    <3> QED
      BY <3>2 DEF Queue!Call
  <2>7. CASE Size
    <3>1. N = Len(View) /\ View' = View
      BY <2>7, LinkedByIndex, ListFacts, ViewFacts DEF Size, IInv
    <3>2. Queue!Size
      BY <2>7, <3>1 DEF Size, Queue!Size
    <3> QED
      BY <3>2 DEF Queue!Call
  <2>8. CASE IsEmpty
    <3>1. (N = 0 <=> View = <<>>) /\ View' = View
      BY <2>8, ListFacts, ViewFacts DEF IsEmpty, IInv
    <3>2. Queue!IsEmpty
      BY <2>8, <3>1 DEF IsEmpty, Queue!IsEmpty
    <3> QED
      BY <3>2 DEF Queue!Call
  <2>9. CASE Destroy
    <3>1. View' = View
      BY <2>9 DEF Destroy
    <3>2. Queue!Destroy
      BY <2>9, <3>1 DEF Destroy, Queue!Destroy
    <3> QED
      BY <3>2 DEF Queue!Call
  <2> QED
    BY <1>2, <2>1, <2>2, <2>3, <2>4, <2>5, <2>6, <2>7, <2>8, <2>9 DEF Call
<1>3. ASSUME alive, destroying, DestroyRound PROVE Queue!Next
  <2>1. CASE N = 0
    <3>1. View = <<>> /\ View' = View
      BY <1>3, <2>1, ListFacts, ViewFacts DEF DestroyRound, IInv
    <3>2. Queue!Destroyed
      BY <1>3, <2>1, <3>1 DEF DestroyRound, Queue!Destroyed
    <3> QED
      BY <1>3, <3>2 DEF Queue!Next
  <2>2. CASE N # 0
    <3>1. front # NULL /\ Unlink /\ UNCHANGED <<ans, destroying, alive>>
      BY <1>3, <2>2, RoundFindsNode DEF DestroyRound
    <3>2. View # <<>> /\ View' = Tail(View)
      BY <3>1, ViewUnlink
    <3>3. Queue!Drop
      BY <3>1, <3>2 DEF Queue!Drop
    <3> QED
      BY <1>3, <3>3 DEF Queue!Next
  <2> QED
    BY <2>1, <2>2
<1> QED
  BY <1>1, <1>2, <1>3 DEF Next

(* For any number of nodes and items, every answer the list gives, every   *)
(* exit and every run of steque_destroy is one of the abstract queue.      *)
THEOREM ListImplementsQueue == SafeSpec => QueueSpec
<1>1. SafeSpec => []IInv
  BY InitInv, InvStep, PTL DEF SafeSpec
<1>2. SafeSpec => Queue!SafeSpec
  BY <1>1, RefineInit, RefineStep, PTL DEF SafeSpec, Queue!SafeSpec
<1> QED
  BY <1>2 DEF QueueSpec

-----------------------------------------------------------------------------
(* The proxy, with variables of its own.  An instance leaves Proxy's       *)
(* assumptions to its theorems, as hypotheses.                             *)
CONSTANTS nworkerthreads, Requests, MaxSize, BUFFER_SIZE, OPEN_MAX, NoRequest
VARIABLES worker_func, nargs, serving, size, conn, client, header, body, pc, req, len, pos,
    null, holds, owed, lost, why, running

Proxy == INSTANCE Proxy WITH alive <- running

Workers == 1 .. nworkerthreads
Absent  == -1
Early   == {"init", "connect", "fetch", "open", "header", "send"}
Late    == {"error", "close", "drain"}
Headers == [st : {"none", "OK", "FILE_NOT_FOUND", "ERROR"}, len : Nat]

ProxyConstants ==
    /\ nworkerthreads \in Nat /\ MaxSize \in Nat /\ BUFFER_SIZE \in Nat \ {0}
    /\ OPEN_MAX \in Nat /\ NoRequest \notin Requests

ProxyTypes ==
    /\ worker_func \in {"curl", "file", "cache"}
    /\ size \in [Requests -> {Absent} \cup (0 .. MaxSize)]
    /\ conn \in [Requests -> {"none", "queued", "busy", "closed"}]
    /\ client \in [Requests -> {"waiting", "done", "gone"}]
    /\ header \in [Requests -> Headers]
    /\ body \in [Requests -> Seq(Int)]
    /\ pc \in [Workers -> {"idle"} \cup Early \cup Late]
    /\ req \in [Workers -> Requests \cup {NoRequest}]
    /\ len \in [Workers -> Nat] /\ pos \in [Workers -> Nat] /\ owed \in [Workers -> Int]
    /\ null \in [Workers -> BOOLEAN] /\ holds \in [Workers -> BOOLEAN]
    /\ lost \in Nat
    /\ why \in [Requests -> SUBSET {"mute", "full", "denied", "fetch", "status", "grown", "quit"}]

(* A connection that is busy is in the hands of one worker.                *)
OwnerInv ==
    /\ \A w \in Workers : IF pc[w] = "idle"
                          THEN req[w] = NoRequest
                          ELSE req[w] \in Requests /\ conn[req[w]] = "busy"
    /\ \A v, w \in Workers : pc[v] # "idle" /\ req[v] = req[w] => v = w
    /\ \A r \in Requests : conn[r] = "busy" => \E w \in Workers : req[w] = r

Untouched(r) == header[r] = Proxy!NoHeader /\ body[r] = <<>>

(* The bytes are the first n of the file.                                  *)
FirstBytes(bytes, n) == Len(bytes) = n /\ \A b \in 1 .. n : bytes[b] = b

(* What the header may say of the file.                                    *)
RightLength(r, n) ==
    /\ size[r] # Absent
    /\ n = size[r] \/ (n < size[r] /\ worker_func = "curl" /\ "fetch" \in why[r])
NotServed(r) ==
    \/ size[r] = Absent
    \/ worker_func = "curl" /\ why[r] \cap {"full", "fetch", "status"} # {}
RightHeader(r) ==
    \/ header[r].st = "OK" /\ RightLength(r, header[r].len)
    \/ header[r].st = "FILE_NOT_FOUND" /\ header[r].len = 0 /\ NotServed(r)
    \/ header[r].st = "ERROR" /\ header[r].len = 0 /\ why[r] \cap {"full", "denied"} # {}

(* How many bytes may follow a header that announced n.                    *)
RightCount(r, n, m) == m = n \/ ("grown" \in why[r] /\ m \in n + 1 .. n + BUFFER_SIZE - 1)

(* ClientHasTheFile, for one client and byte by byte.                      *)
Told(r) ==
    /\ RightHeader(r)
    /\ "quit" \notin why[r] => /\ FirstBytes(body[r], Len(body[r]))
                               /\ RightCount(r, header[r].len, Len(body[r]))

(* What worker w has sent for r, and why, at each place of the handler.    *)
HandlerInv(w, r) ==
    /\ pc[w] \in {"init", "connect", "fetch", "open"} => why[r] = {}
    /\ pc[w] \in {"init", "connect", "fetch"} => worker_func = "curl"
    /\ pc[w] = "open" => worker_func # "curl"
    /\ pc[w] \in {"init", "connect", "fetch", "open", "header"} => Untouched(r) /\ pos[w] = 0
    /\ pc[w] \in {"init", "connect", "fetch", "open"} => ~ null[w]
    /\ pc[w] \in {"init", "connect"} => len[w] = 0
    /\ pc[w] = "fetch" => len[w] = 0 \/ len[w] <= size[r]
    /\ pc[w] \in {"header", "send"} =>
          why[r] \subseteq {"fetch", "grown"} /\ RightLength(r, len[w])
    /\ pc[w] = "send" =>
          /\ header[r] = [st |-> "OK", len |-> len[w]] /\ FirstBytes(body[r], pos[w])
          /\ pos[w] <= len[w] \/ RightCount(r, len[w], pos[w])
          /\ owed[w] = len[w] - pos[w]
          /\ worker_func = "curl" => pos[w] \in {0, len[w]}
    /\ pc[w] = "error" =>
          \/ client[r] = "gone"
          \/ "quit" \in why[r] /\ RightHeader(r)
          \/ Untouched(r) /\ why[r] \cap {"full", "denied"} # {}
    /\ pc[w] \in {"close", "drain"} =>
          client[r] = "gone" \/ header[r] = Proxy!NoHeader \/ Told(r)

(* Between two requests a worker owes nothing; it holds something just     *)
(* from the opening to the last byte.                                      *)
PlaceInv(w) ==
    /\ pc[w] \notin {"send", "error"} => owed[w] <= 0
    /\ holds[w] <=> pc[w] \in {"fetch", "header", "send"}

RequestInv(r) ==
    /\ conn[r] \in {"none", "queued"} =>
          Untouched(r) /\ why[r] = {} /\ client[r] = "waiting"
    /\ client[r] = "done" => header[r].st # "none" /\ Told(r)

(* The requests a descriptor may have been lost for: those past the last   *)
(* byte.  Each costs one with the file handlers, and one at most with curl. *)
Charged(r) == IF worker_func = "curl"
              THEN size[r] = Absent \/ why[r] # {}
              ELSE size[r] # Absent /\ why[r] \cap {"full", "denied"} = {}
Accepted == {r \in Requests : conn[r] # "none"}
Called == {r \in Requests : conn[r] \in {"busy", "closed"}}
Past(r) == \A w \in Workers : req[w] = r => pc[w] \in Late
Spent == {r \in Called : Charged(r) /\ Past(r)}

LostInv ==
    /\ IsFiniteSet(Accepted)
    /\ worker_func = "curl" => lost <= Cardinality(Spent)
    /\ worker_func # "curl" => lost = Cardinality(Spent)

ProxyInv ==
    /\ ProxyTypes /\ OwnerInv /\ LostInv
    /\ \A w \in Workers : PlaceInv(w) /\ (pc[w] # "idle" => HandlerInv(w, req[w]))
    /\ \A r \in Requests : RequestInv(r)


(* The shape of a step of worker w in its handler for request r.           *)
Within(w, r) ==
    /\ r = req[w] /\ pc[w] # "idle"
    /\ UNCHANGED <<worker_func, size, conn, client, req>>
    /\ \A v \in Workers \ {w} :
          /\ pc'[v] = pc[v] /\ len'[v] = len[v] /\ pos'[v] = pos[v]
          /\ null'[v] = null[v] /\ holds'[v] = holds[v] /\ owed'[v] = owed[v]
    /\ \A q \in Requests \ {r} : header'[q] = header[q] /\ body'[q] = body[q] /\ why'[q] = why[q]

(* A step that leaves alone what worker v and request q are told by keeps   *)
(* what is known of them; their client may leave.                          *)
LEMMA HandlerKept ==
  ASSUME NEW v \in Workers, NEW q \in Requests, HandlerInv(v, q),
         UNCHANGED <<worker_func, size>>,
         pc'[v] = pc[v], len'[v] = len[v], pos'[v] = pos[v], null'[v] = null[v],
         owed'[v] = owed[v], header'[q] = header[q], body'[q] = body[q], why'[q] = why[q],
         client[q] = "gone" => client'[q] = "gone"
  PROVE  HandlerInv(v, q)'
<1>1. Untouched(q)' <=> Untouched(q)
  BY DEF Untouched, Proxy!NoHeader
<1>2. Told(q)' <=> Told(q)
  BY DEF Told, RightHeader, RightLength, NotServed, RightCount, FirstBytes, Absent
<1>3. FirstBytes(body[q], pos[v])' <=> FirstBytes(body[q], pos[v])
  BY DEF FirstBytes
<1>4. /\ RightLength(q, len[v])' <=> RightLength(q, len[v])
      /\ RightHeader(q)' <=> RightHeader(q)
      /\ RightCount(q, len[v], pos[v])' <=> RightCount(q, len[v], pos[v])
  BY DEF RightHeader, RightLength, NotServed, RightCount, Absent
<1> QED
  BY <1>1, <1>2, <1>3, <1>4 DEF HandlerInv, Absent, Proxy!NoHeader

LEMMA RequestKept ==
  ASSUME NEW q \in Requests, RequestInv(q), UNCHANGED <<worker_func, size>>,
         header'[q] = header[q], body'[q] = body[q], why'[q] = why[q],
         client'[q] = client[q] \/ (client'[q] # "done" /\ conn'[q] = "busy"),
         conn'[q] \in {"none", "queued"} => conn[q] \in {"none", "queued"}
  PROVE  RequestInv(q)'
<1>1. Untouched(q)' <=> Untouched(q)
  BY DEF Untouched, Proxy!NoHeader
<1>2. Told(q)' <=> Told(q)
  BY DEF Told, RightHeader, RightLength, NotServed, RightCount, FirstBytes, Absent
<1> QED
  BY <1>1, <1>2 DEF RequestInv

(* A step of a handler does not disturb the others.                        *)
LEMMA OthersKept ==
  ASSUME ProxyInv, NEW w \in Workers, NEW r \in Requests, Within(w, r)
  PROVE  /\ \A v \in Workers \ {w} : PlaceInv(v)' /\ (pc'[v] # "idle" => HandlerInv(v, req[v])')
         /\ \A q \in Requests \ {r} : RequestInv(q)'
<1>1. ASSUME NEW v \in Workers \ {w} PROVE PlaceInv(v)'
  BY DEF Within, ProxyInv, PlaceInv
<1>2. ASSUME NEW v \in Workers \ {w}, pc'[v] # "idle" PROVE HandlerInv(v, req[v])'
  <2>1. pc[v] # "idle" /\ HandlerInv(v, req[v])
    BY <1>2 DEF Within, ProxyInv
  <2>2. PICK q \in Requests : q = req[v] /\ q # r
    BY <2>1 DEF Within, ProxyInv, OwnerInv
  <2>3. HandlerInv(v, q)'
    BY <2>1, <2>2, HandlerKept DEF Within
  <2> QED
    BY <2>2, <2>3 DEF Within
<1>3. ASSUME NEW q \in Requests \ {r} PROVE RequestInv(q)'
  BY RequestKept DEF Within, ProxyInv
<1> QED
  BY <1>1, <1>2, <1>3


(* What a step of w loses: nothing before and after the last byte; on its  *)
(* way there a descriptor just when the request is charged, with curl at   *)
(* most then.                                                              *)
Loses(w, r) ==
    \/ pc[w] \in Early /\ pc'[w] \in Early /\ lost' = lost
    \/ pc[w] \in Late /\ pc'[w] \in Late /\ lost' = lost /\ why' = why
    \/ /\ pc[w] \in Early /\ pc'[w] \in Late
       /\ \/ lost' = lost /\ (worker_func = "curl" \/ ~ Charged(r)')
          \/ lost' = lost + 1 /\ Charged(r)'

LEMMA LostKept ==
  ASSUME ProxyInv, NEW w \in Workers, NEW r \in Requests, Within(w, r), Loses(w, r)
  PROVE  LostInv'
<1>1. /\ r = req[w] /\ pc[w] # "idle" /\ UNCHANGED <<worker_func, size, conn, req>>
      /\ \A v \in Workers \ {w} : pc'[v] = pc[v]
      /\ \A q \in Requests \ {r} : why'[q] = why[q]
  BY DEF Within
<1>2. /\ conn[r] = "busy" /\ r \in Called /\ lost \in Nat /\ IsFiniteSet(Accepted)
      /\ \A v \in Workers : req[v] = r => v = w
  BY <1>1 DEF ProxyInv, ProxyTypes, OwnerInv, LostInv, Called
<1>3. Called' = Called /\ Accepted' = Accepted
  BY <1>1 DEF Called, Accepted
<1>4. \A q \in Requests \ {r} : (Charged(q)' <=> Charged(q)) /\ (Past(q)' <=> Past(q))
  <2> SUFFICES ASSUME NEW q \in Requests \ {r}
               PROVE  (Charged(q)' <=> Charged(q)) /\ (Past(q)' <=> Past(q))
    OBVIOUS
  <2>1. Charged(q)' <=> Charged(q)
    BY <1>1 DEF Charged, Absent
  <2>2. ASSUME NEW v \in Workers, req[v] = q PROVE pc'[v] = pc[v]
    BY <1>1, <2>2
  <2>3. Past(q)' <=> Past(q)
    BY <1>1, <2>2 DEF Past, Late
  <2> QED
    BY <2>1, <2>3
<1>5. (Past(r) <=> pc[w] \in Late) /\ (Past(r)' <=> pc'[w] \in Late)
  BY <1>1, <1>2 DEF Past, Late
<1>6. Early \cap Late = {}
  BY DEF Early, Late
<1>7. IsFiniteSet(Spent) /\ Cardinality(Spent) \in Nat
  <2>1. Spent \subseteq Accepted
    BY DEF Spent, Called, Accepted
  <2> QED
    BY <1>2, <2>1, FS_Subset, FS_CardinalityType
<1>8. Spent' = {q \in Called : Charged(q)' /\ Past(q)'}
  BY <1>3 DEF Spent
<1>9. CASE Spent' = Spent /\ lost' = lost
  BY <1>1, <1>2, <1>3, <1>9 DEF ProxyInv, LostInv
<1>10. CASE /\ r \notin Spent /\ Spent' = Spent \cup {r}
            /\ lost' = lost + 1 \/ (worker_func = "curl" /\ lost' = lost)
  <2>1. Cardinality(Spent') = Cardinality(Spent) + 1
    BY <1>7, <1>10, FS_AddElement
  <2>2. /\ worker_func = "curl" => lost <= Cardinality(Spent)
        /\ worker_func # "curl" => lost = Cardinality(Spent)
    BY DEF ProxyInv, LostInv
  <2>3. /\ worker_func' = "curl" => lost' <= Cardinality(Spent')
        /\ worker_func' # "curl" => lost' = Cardinality(Spent')
    BY <1>1, <1>2, <1>7, <1>10, <2>1, <2>2
  <2>4. IsFiniteSet(Accepted')
    BY <1>2, <1>3
  <2> QED
    BY <2>3, <2>4 DEF LostInv
<1>11. CASE pc[w] \in Early /\ pc'[w] \in Early /\ lost' = lost
  <2>1. ~ Past(r) /\ ~ Past(r)'
    BY <1>5, <1>6, <1>11
  <2>2. Spent' = Spent
    BY <1>4, <1>8, <2>1 DEF Spent, Called
  <2> QED
    BY <1>9, <1>11, <2>2
<1>12. CASE pc[w] \in Late /\ pc'[w] \in Late /\ lost' = lost /\ why' = why
  <2>1. (Charged(r)' <=> Charged(r)) /\ (Past(r)' <=> Past(r))
    BY <1>1, <1>5, <1>12 DEF Charged, Absent
  <2>2. Spent' = Spent
    BY <1>4, <1>8, <2>1 DEF Spent, Called
  <2> QED
    BY <1>9, <1>12, <2>2
<1>13. CASE pc[w] \in Early /\ pc'[w] \in Late
  <2>1. ~ Past(r) /\ Past(r)'
    BY <1>5, <1>6, <1>13
  <2>2. r \notin Spent
    BY <2>1 DEF Spent
  <2>3. Charged(r)' => Spent' = Spent \cup {r}
    BY <1>2, <1>4, <1>8, <2>1 DEF Spent, Called
  <2>4. ~ Charged(r)' => Spent' = Spent
    BY <1>4, <1>8, <2>1 DEF Spent, Called
  <2>5. \/ lost' = lost /\ (worker_func = "curl" \/ ~ Charged(r)')
        \/ lost' = lost + 1 /\ Charged(r)'
    BY <1>6, <1>13 DEF Loses
  <2> QED
    BY <1>9, <1>10, <2>2, <2>3, <2>4, <2>5
<1> QED
  BY <1>11, <1>12, <1>13 DEF Loses

(* So a step of a handler has to be looked at only where it takes place.   *)
LEMMA WithinKept ==
  ASSUME ProxyInv, NEW w \in Workers, NEW r \in Requests, Within(w, r), Loses(w, r),
         ProxyTypes', PlaceInv(w)', HandlerInv(w, r)',
         client[r] = "done" => header'[r].st # "none" /\ Told(r)'
  PROVE  ProxyInv'
<1>1. /\ r = req[w] /\ pc[w] # "idle" /\ pc'[w] # "idle"
      /\ UNCHANGED <<conn, client, req>>
      /\ \A v \in Workers \ {w} : pc'[v] = pc[v]
  BY DEF Within, Loses, Early, Late
<1>2. OwnerInv'
  BY <1>1 DEF ProxyInv, OwnerInv
<1>3. RequestInv(r)'
  <2>1. conn[r] = "busy"
    BY <1>1 DEF ProxyInv, OwnerInv
  <2> QED
    BY <1>1, <2>1 DEF RequestInv
<1>4. HandlerInv(w, req[w])'
  BY <1>1
<1> QED
  BY <1>2, <1>3, <1>4, LostKept, OthersKept DEF ProxyInv


-----------------------------------------------------------------------------
(* What the parts of a step do.                                            *)

Places  == {"idle"} \cup Early \cup Late
Reasons == {"mute", "full", "denied", "fetch", "status", "grown", "quit"}

LEMMA AtWork ==
  ASSUME ProxyInv, NEW w \in Workers, pc[w] # "idle"
  PROVE  /\ req[w] \in Requests /\ conn[req[w]] = "busy"
         /\ HandlerInv(w, req[w]) /\ PlaceInv(w) /\ RequestInv(req[w])
BY DEF ProxyInv, OwnerInv

LEMMA GotoStep ==
  ASSUME ProxyTypes, NEW w \in Workers, NEW place \in Places, Proxy!Goto(w, place)
  PROVE  /\ pc' \in [Workers -> Places] /\ pc'[w] = place
         /\ \A v \in Workers \ {w} : pc'[v] = pc[v]
BY DEF ProxyTypes, Proxy!Goto, Places

LEMMA BlameStep ==
  ASSUME ProxyTypes, NEW w \in Workers, NEW r \in Requests, r = req[w],
         NEW reason \in Reasons, Proxy!Blame(w, reason)
  PROVE  /\ why' \in [Requests -> SUBSET Reasons] /\ why'[r] = why[r] \cup {reason}
         /\ \A q \in Requests \ {r} : why'[q] = why[q]
BY DEF ProxyTypes, Proxy!Blame, Reasons

(* The first header of a reply.                                            *)
LEMMA HeaderStep ==
  ASSUME ProxyTypes, NEW w \in Workers, NEW r \in Requests, r = req[w], Untouched(r),
         NEW st \in {"none", "OK", "FILE_NOT_FOUND", "ERROR"}, NEW n \in Nat,
         Proxy!Header(w, st, n)
  PROVE  /\ header' \in [Requests -> Headers] /\ header'[r] = [st |-> st, len |-> n]
         /\ \A q \in Requests \ {r} : header'[q] = header[q]
         /\ body' = body
         /\ owed' \in [Workers -> Int] /\ owed'[w] = n
         /\ \A v \in Workers \ {w} : owed'[v] = owed[v]
<1>1. /\ header' = [header EXCEPT ![r] = [st |-> st, len |-> n]] /\ body' = body
      /\ owed' = [owed EXCEPT ![w] = n]
  BY DEF Proxy!Header, Untouched
<1>2. [st |-> st, len |-> n] \in Headers
  BY DEF Headers
<1> QED
  BY <1>1, <1>2 DEF ProxyTypes

LEMMA ReturnStep ==
  ASSUME ProxyTypes, NEW w \in Workers, NEW place \in Places, NEW leaves \in BOOLEAN,
         Proxy!Return(w, place, leaves)
  PROVE  /\ pc' \in [Workers -> Places] /\ pc'[w] = place
         /\ \A v \in Workers \ {w} : pc'[v] = pc[v]
         /\ holds' \in [Workers -> BOOLEAN] /\ ~ holds'[w]
         /\ \A v \in Workers \ {w} : holds'[v] = holds[v]
         /\ \/ lost' = lost + 1 /\ holds[w] /\ leaves
            \/ lost' = lost /\ ~ (holds[w] /\ leaves)
<1>1. /\ Proxy!Goto(w, place) /\ holds' = [holds EXCEPT ![w] = FALSE]
      /\ lost' = IF holds[w] /\ leaves THEN lost + 1 ELSE lost
  BY DEF Proxy!Return
<1>2. holds' \in [Workers -> BOOLEAN] /\ ~ holds'[w]
      /\ \A v \in Workers \ {w} : holds'[v] = holds[v]
  BY <1>1 DEF ProxyTypes
<1> QED
  BY <1>1, <1>2, GotoStep

-----------------------------------------------------------------------------
(* handle_with_curl up to the header.                                      *)

LEMMA CurlInitStep ==
  ASSUME ProxyConstants, ProxyInv, NEW w \in Workers, Proxy!CurlInit(w)
  PROVE  ProxyInv'
<1>1. PICK r \in Requests : r = req[w]
  BY AtWork DEF Proxy!CurlInit
<1>2. /\ ProxyTypes /\ pc[w] = "init" /\ HandlerInv(w, r) /\ PlaceInv(w) /\ RequestInv(r)
      /\ UNCHANGED <<worker_func, size, conn, client, header, body, owed, req, len, pos, null,
                     holds, lost>>
  BY <1>1, AtWork DEF ProxyInv, Proxy!CurlInit, Proxy!env, Proxy!main, Proxy!wire, Proxy!local,
     Proxy!desc
<1>3. PICK place \in Places :
         /\ Proxy!Goto(w, place)
         /\ \/ place = "connect" /\ why' = why
            \/ place = "close" /\ Proxy!Blame(w, "mute")
  BY DEF Proxy!CurlInit, Places, Early, Late
<1>4. /\ pc' \in [Workers -> Places] /\ pc'[w] = place
      /\ \A v \in Workers \ {w} : pc'[v] = pc[v]
  BY <1>2, <1>3, GotoStep
<1>5. /\ why' \in [Requests -> SUBSET Reasons]
      /\ \A q \in Requests \ {r} : why'[q] = why[q]
      /\ place = "connect" => why'[r] = why[r]
  <2>1. "mute" \in Reasons
    BY DEF Reasons
  <2>2. CASE why' = why
    BY <1>2, <2>2 DEF ProxyTypes, Reasons
  <2>3. CASE place = "close" /\ Proxy!Blame(w, "mute")
    BY <1>1, <1>2, <2>1, <2>3, BlameStep
  <2> QED
    BY <1>3, <2>2, <2>3
<1>6. ProxyTypes'
  BY <1>2, <1>4, <1>5 DEF ProxyTypes, Places, Reasons, Workers, Absent, Headers
<1>7. Within(w, r)
  BY <1>1, <1>2, <1>4, <1>5 DEF Within
<1>8. Loses(w, r)
  BY <1>2, <1>3, <1>4 DEF Loses, Early, Late, HandlerInv
<1>9. Untouched(r)' /\ Untouched(r)
  BY <1>2 DEF HandlerInv, Untouched, Proxy!NoHeader
<1>10. HandlerInv(w, r)' /\ PlaceInv(w)'
  BY <1>2, <1>3, <1>4, <1>5, <1>9 DEF HandlerInv, PlaceInv, Untouched
<1>11. client[r] # "done"
  BY <1>2, <1>9 DEF RequestInv, Untouched, Proxy!NoHeader
<1> QED
  BY <1>6, <1>7, <1>8, <1>10, <1>11, WithinKept


(* A header that announces nothing, with nothing behind it.                *)
LEMMA NothingSent ==
  ASSUME NEW r \in Requests, RightHeader(r)', Len(body'[r]) = 0, header'[r].len = 0
  PROVE  Told(r)'
<1>1. FirstBytes(body[r], Len(body[r]))'
  BY DEF FirstBytes
<1>2. RightCount(r, header[r].len, Len(body[r]))'
  BY DEF RightCount
<1> QED
  BY <1>1, <1>2 DEF Told

(* FILE_NOT_FOUND in place of a transfer.                                  *)
LEMMA NotOKStep ==
  ASSUME ProxyConstants, ProxyInv, NEW w \in Workers, Proxy!NotOK(w),
         pc[w] \in {"connect", "fetch"},
         \/ pc[w] = "fetch" /\ size[req[w]] = Absent /\ why' = why
         \/ \E reason \in {"full", "fetch", "status"} : Proxy!Blame(w, reason)
  PROVE  ProxyInv'
<1>1. PICK r \in Requests : r = req[w]
  BY AtWork
<1>2. /\ ProxyTypes /\ HandlerInv(w, r) /\ PlaceInv(w) /\ RequestInv(r)
      /\ UNCHANGED <<worker_func, size, conn, client, req, len, pos, null>>
      /\ Proxy!Header(w, "FILE_NOT_FOUND", 0)
  BY <1>1, AtWork DEF ProxyInv, Proxy!NotOK, Proxy!env, Proxy!main, Proxy!local
<1>3. PICK leaves \in BOOLEAN, place \in {"close", "error"} :
         Proxy!Return(w, place, leaves) /\ (place = "error" => client[r] = "gone")
  BY <1>1 DEF Proxy!NotOK, Proxy!NotFoundSent, Proxy!Gone
<1>4. Untouched(r) /\ client[r] # "done" /\ worker_func = "curl" /\ why[r] = {}
  <2>1. Untouched(r) /\ worker_func = "curl" /\ why[r] = {}
    BY <1>2 DEF HandlerInv
  <2> QED
    BY <1>2, <2>1 DEF RequestInv, Untouched, Proxy!NoHeader
<1>5. /\ header' \in [Requests -> Headers] /\ header'[r] = [st |-> "FILE_NOT_FOUND", len |-> 0]
      /\ \A q \in Requests \ {r} : header'[q] = header[q]
      /\ body' = body
      /\ owed' \in [Workers -> Int] /\ owed'[w] = 0
      /\ \A v \in Workers \ {w} : owed'[v] = owed[v]
  BY <1>1, <1>2, <1>4, HeaderStep
<1>6. /\ pc' \in [Workers -> Places] /\ pc'[w] = place
      /\ \A v \in Workers \ {w} : pc'[v] = pc[v]
      /\ holds' \in [Workers -> BOOLEAN] /\ ~ holds'[w]
      /\ \A v \in Workers \ {w} : holds'[v] = holds[v]
      /\ lost' = lost \/ (lost' = lost + 1 /\ holds[w])
  <2>1. place \in Places
    BY DEF Places, Late
  <2> QED
    BY <1>2, <1>3, <2>1, ReturnStep
<1>7. /\ why' \in [Requests -> SUBSET Reasons]
      /\ \A q \in Requests \ {r} : why'[q] = why[q]
      /\ size[r] = Absent \/ why'[r] \cap {"full", "fetch", "status"} # {}
  <2>1. CASE pc[w] = "fetch" /\ size[r] = Absent /\ why' = why
    BY <1>2, <2>1 DEF ProxyTypes, Reasons
  <2>2. CASE \E reason \in {"full", "fetch", "status"} : Proxy!Blame(w, reason)
    <3>1. PICK reason \in Reasons :
             Proxy!Blame(w, reason) /\ reason \in {"full", "fetch", "status"}
      BY <2>2 DEF Reasons
    <3>2. /\ why' \in [Requests -> SUBSET Reasons] /\ why'[r] = why[r] \cup {reason}
          /\ \A q \in Requests \ {r} : why'[q] = why[q]
      BY <1>1, <1>2, <3>1, BlameStep
    <3> QED
      BY <3>1, <3>2
  <2> QED
    BY <1>1, <2>1, <2>2
<1>8. ProxyTypes'
  <2>1. lost' \in Nat
    <3>1. lost \in Nat
      BY <1>2 DEF ProxyTypes
    <3>2. lost' = lost \/ lost' = lost + 1
      BY <1>6, Zenon
    <3> QED
      BY <3>1, <3>2
  <2> QED
    BY <1>2, <1>5, <1>6, <1>7, <2>1 DEF ProxyTypes, Places, Reasons, Workers, Absent, Headers
<1>9. Within(w, r)
  BY <1>1, <1>2, <1>5, <1>6, <1>7 DEF Within
<1>10. Loses(w, r)
  <2>1. Charged(r)'
    BY <1>2, <1>4, <1>7 DEF Charged, Absent
  <2> QED
    BY <1>4, <1>6, <2>1 DEF Loses, Early, Late
<1>11. Told(r)'
  <2>1. RightHeader(r)'
    BY <1>2, <1>4, <1>5, <1>7 DEF RightHeader, NotServed, Absent
  <2>2. Len(body'[r]) = 0 /\ header'[r].len = 0
    BY <1>4, <1>5, EmptySeq DEF Untouched
  <2> QED
    BY <2>1, <2>2, NothingSent
<1>12. HandlerInv(w, r)' /\ PlaceInv(w)'
  <2>1. PlaceInv(w)'
    BY <1>3, <1>5, <1>6 DEF PlaceInv
  <2>2. HandlerInv(w, r)'
    BY <1>2, <1>3, <1>6, <1>11 DEF HandlerInv
  <2> QED
    BY <2>1, <2>2
<1> QED
  BY <1>4, <1>8, <1>9, <1>10, <1>12, WithinKept

LEMMA ConnectFetchStep ==
  ASSUME ProxyConstants, ProxyInv, NEW w \in Workers, Proxy!Connect(w)
  PROVE  ProxyInv'
<1>1. PICK r \in Requests : r = req[w]
  BY AtWork DEF Proxy!Connect
<1>2. /\ ProxyTypes /\ pc[w] = "connect" /\ HandlerInv(w, r) /\ PlaceInv(w) /\ RequestInv(r)
      /\ UNCHANGED <<worker_func, size, conn, client, header, body, owed, req, len, pos, null,
                     lost, why>>
      /\ Proxy!Goto(w, "fetch") /\ holds' = [holds EXCEPT ![w] = TRUE]
  BY <1>1, AtWork DEF ProxyInv, Proxy!Connect, Proxy!env, Proxy!main, Proxy!wire, Proxy!local
<1>3. /\ pc' \in [Workers -> Places] /\ pc'[w] = "fetch"
      /\ \A v \in Workers \ {w} : pc'[v] = pc[v]
  <2>1. "fetch" \in Places
    BY DEF Places, Early
  <2> QED
    BY <1>2, <2>1, GotoStep
<1>4. /\ holds' \in [Workers -> BOOLEAN] /\ holds'[w]
      /\ \A v \in Workers \ {w} : holds'[v] = holds[v]
  BY <1>2 DEF ProxyTypes
<1>5. ProxyTypes'
  BY <1>2, <1>3, <1>4 DEF ProxyTypes, Places, Workers, Absent, Headers
<1>6. Within(w, r) /\ Loses(w, r)
  BY <1>1, <1>2, <1>3, <1>4 DEF Within, Loses, Early
<1>7. Untouched(r) /\ Untouched(r)'
  BY <1>2 DEF HandlerInv, Untouched, Proxy!NoHeader
<1>8. HandlerInv(w, r)' /\ PlaceInv(w)'
  BY <1>2, <1>3, <1>4, <1>7 DEF HandlerInv, PlaceInv
<1>9. client[r] # "done"
  BY <1>2, <1>7 DEF RequestInv, Untouched, Proxy!NoHeader
<1> QED
  BY <1>5, <1>6, <1>8, <1>9, WithinKept


LEMMA WriteMemoryStep ==
  ASSUME ProxyConstants, ProxyInv, NEW w \in Workers, Proxy!WriteMemory(w)
  PROVE  ProxyInv'
<1>1. PICK r \in Requests : r = req[w]
  BY AtWork DEF Proxy!WriteMemory
<1>2. /\ ProxyTypes /\ pc[w] = "fetch" /\ HandlerInv(w, r) /\ PlaceInv(w) /\ RequestInv(r)
      /\ UNCHANGED <<worker_func, size, conn, client, header, body, owed, req, pos, holds, lost>>
      /\ len[w] < size[r]
  BY <1>1, AtWork DEF ProxyInv, Proxy!WriteMemory, Proxy!env, Proxy!main, Proxy!wire, Proxy!desc
<1>3. /\ Untouched(r) /\ Untouched(r)' /\ client[r] # "done" /\ why[r] = {} /\ pos[w] = 0
      /\ worker_func = "curl" /\ ~ null[w]
  <2>1. Untouched(r) /\ why[r] = {} /\ worker_func = "curl" /\ ~ null[w] /\ pos[w] = 0
    BY <1>2 DEF HandlerInv
  <2> QED
    BY <1>2, <2>1 DEF RequestInv, Untouched, Proxy!NoHeader
<1>4. len[w] \in Nat /\ size[r] \in Nat
  <2>1. len[w] \in Nat /\ (size[r] = -1 \/ size[r] \in 0 .. MaxSize) /\ MaxSize \in Nat
    BY <1>2 DEF ProxyTypes, Absent, ProxyConstants
  <2>2. size[r] # -1
    BY <1>2, <2>1
  <2> QED
    BY <2>1, <2>2
<1>5. ASSUME NEW n \in 1 .. size[r] - len[w], len' = [len EXCEPT ![w] = @ + n],
             UNCHANGED <<null, pc, why>>
      PROVE  ProxyInv'
  <2>1. PICK m \in Nat : m = len[w] + n /\ m <= size[r]
    BY <1>4
  <2>2. /\ len' \in [Workers -> Nat] /\ len'[w] = m
        /\ \A v \in Workers \ {w} : len'[v] = len[v]
    BY <1>2, <1>5, <2>1 DEF ProxyTypes
  <2>3. ProxyTypes'
    BY <1>2, <1>5, <2>2 DEF ProxyTypes, Workers, Absent, Headers, Early, Late
  <2>4. Within(w, r) /\ Loses(w, r)
    BY <1>1, <1>2, <1>5, <2>2 DEF Within, Loses, Early
  <2>5. HandlerInv(w, r)' /\ PlaceInv(w)'
    BY <1>2, <1>3, <1>5, <2>1, <2>2 DEF HandlerInv, PlaceInv
  <2> QED
    BY <1>3, <2>3, <2>4, <2>5, WithinKept
<1>6. ASSUME null' = [null EXCEPT ![w] = TRUE], Proxy!Goto(w, "header"),
             Proxy!Blame(w, "fetch"), UNCHANGED len
      PROVE  ProxyInv'
  <2>1. /\ pc' \in [Workers -> Places] /\ pc'[w] = "header"
        /\ \A v \in Workers \ {w} : pc'[v] = pc[v]
    <3>1. "header" \in Places
      BY DEF Places, Early
    <3> QED
      BY <1>2, <1>6, <3>1, GotoStep
  <2>2. /\ why' \in [Requests -> SUBSET Reasons] /\ why'[r] = {"fetch"}
        /\ \A q \in Requests \ {r} : why'[q] = why[q]
    <3>1. "fetch" \in Reasons
      BY DEF Reasons
    <3>2. /\ why' \in [Requests -> SUBSET Reasons] /\ why'[r] = why[r] \cup {"fetch"}
          /\ \A q \in Requests \ {r} : why'[q] = why[q]
      BY <1>1, <1>2, <1>6, <3>1, BlameStep
    <3> QED
      BY <1>3, <3>2
  <2>3. /\ null' \in [Workers -> BOOLEAN]
        /\ \A v \in Workers \ {w} : null'[v] = null[v]
    BY <1>2, <1>6 DEF ProxyTypes
  <2>4. ProxyTypes'
    BY <1>2, <1>6, <2>1, <2>2, <2>3 DEF ProxyTypes, Workers, Absent, Headers, Places, Reasons
  <2>5. Within(w, r) /\ Loses(w, r)
    BY <1>1, <1>2, <1>6, <2>1, <2>2, <2>3 DEF Within, Loses, Early
  <2>6. HandlerInv(w, r)' /\ PlaceInv(w)'
    <3>1. RightLength(r, len[w])'
      BY <1>2, <1>3, <1>4, <1>6, <2>2 DEF RightLength, Absent
    <3> QED
      BY <1>2, <1>3, <1>6, <2>1, <2>2, <3>1 DEF HandlerInv, PlaceInv
  <2> QED
    BY <1>3, <2>4, <2>5, <2>6, WithinKept
<1> QED
  BY <1>1, <1>5, <1>6 DEF Proxy!WriteMemory

LEMMA PerformedStep ==
  ASSUME ProxyConstants, ProxyInv, NEW w \in Workers, Proxy!Performed(w)
  PROVE  ProxyInv'
<1>1. PICK r \in Requests : r = req[w]
  BY AtWork DEF Proxy!Performed
<1>2. /\ ProxyTypes /\ pc[w] = "fetch" /\ HandlerInv(w, r) /\ PlaceInv(w) /\ RequestInv(r)
  BY <1>1, AtWork DEF ProxyInv, Proxy!Performed
<1>3. CASE Proxy!NotOK(w) /\ IF size[r] = Absent THEN UNCHANGED why ELSE Proxy!Blame(w, "status")
  BY <1>1, <1>2, <1>3, NotOKStep
<1>4. CASE /\ size[r] # Absent
           /\ IF len[w] = size[r] THEN UNCHANGED why ELSE Proxy!Blame(w, "fetch")
           /\ Proxy!Goto(w, "header")
           /\ UNCHANGED <<Proxy!env, Proxy!wire, req, Proxy!local, Proxy!desc>>
  <2>1. UNCHANGED <<worker_func, size, conn, client, header, body, owed, req, len, pos, null,
                    holds, lost>>
    BY <1>4 DEF Proxy!env, Proxy!main, Proxy!wire, Proxy!local, Proxy!desc
  <2>2. /\ Untouched(r) /\ Untouched(r)' /\ client[r] # "done" /\ why[r] = {}
    <3>1. Untouched(r) /\ why[r] = {}
      BY <1>2 DEF HandlerInv
    <3> QED
      BY <1>2, <2>1, <3>1 DEF RequestInv, Untouched, Proxy!NoHeader
  <2>3. /\ pc' \in [Workers -> Places] /\ pc'[w] = "header"
        /\ \A v \in Workers \ {w} : pc'[v] = pc[v]
    <3>1. "header" \in Places
      BY DEF Places, Early
    <3> QED
      BY <1>2, <1>4, <3>1, GotoStep
  <2>4. /\ why' \in [Requests -> SUBSET Reasons] /\ why'[r] \subseteq {"fetch"}
        /\ len[w] = size[r] \/ "fetch" \in why'[r]
        /\ \A q \in Requests \ {r} : why'[q] = why[q]
    <3>1. CASE len[w] = size[r] /\ UNCHANGED why
      BY <1>2, <2>2, <3>1 DEF ProxyTypes, Reasons
    <3>2. CASE Proxy!Blame(w, "fetch")
      <4>1. "fetch" \in Reasons
        BY DEF Reasons
      <4>2. /\ why' \in [Requests -> SUBSET Reasons] /\ why'[r] = why[r] \cup {"fetch"}
            /\ \A q \in Requests \ {r} : why'[q] = why[q]
        BY <1>1, <1>2, <3>2, <4>1, BlameStep
      <4> QED
        BY <2>2, <4>2
    <3> QED
      BY <1>4, <3>1, <3>2
  <2>5. ProxyTypes'
    BY <1>2, <2>1, <2>3, <2>4 DEF ProxyTypes, Workers, Absent, Headers, Places, Reasons
  <2>6. Within(w, r) /\ Loses(w, r)
    BY <1>1, <1>2, <2>1, <2>3, <2>4 DEF Within, Loses, Early
  <2>7. RightLength(r, len[w])'
    <3>1. worker_func = "curl" /\ (len[w] = 0 \/ len[w] <= size[r])
      BY <1>2 DEF HandlerInv
    <3>2. len[w] \in Nat /\ size[r] \in Nat
      <4>1. len[w] \in Nat /\ (size[r] = -1 \/ size[r] \in 0 .. MaxSize) /\ MaxSize \in Nat
        BY <1>2 DEF ProxyTypes, Absent, ProxyConstants
      <4>2. size[r] # -1
        BY <1>4 DEF Absent
      <4> QED
        BY <4>1, <4>2
    <3>3. len[w] = size[r] \/ len[w] < size[r]
      BY <3>1, <3>2
    <3> QED
      BY <1>4, <2>1, <2>4, <3>1, <3>3 DEF RightLength, Absent
  <2>8. HandlerInv(w, r)' /\ PlaceInv(w)'
    BY <1>2, <1>4, <2>1, <2>2, <2>3, <2>4, <2>7 DEF HandlerInv, PlaceInv, Absent
  <2> QED
    BY <2>2, <2>5, <2>6, <2>8, WithinKept
<1> QED
  BY <1>1, <1>3, <1>4 DEF Proxy!Performed, Absent, Proxy!Absent


-----------------------------------------------------------------------------
(* The file handlers up to the header, and what all three have after it.   *)

(* Proxy has a Cardinality of its own.                                     *)
LEMMA SameCardinality ==
  ASSUME NEW S
  PROVE  Proxy!Cardinality(S) = Cardinality(S)
BY Zenon DEF Proxy!Cardinality, Cardinality

LEMMA OpenFileStep ==
  ASSUME ProxyConstants, ProxyInv, NEW w \in Workers, Proxy!OpenFile(w)
  PROVE  ProxyInv'
<1>1. PICK r \in Requests : r = req[w]
  BY AtWork DEF Proxy!OpenFile
<1>2. /\ ProxyTypes /\ pc[w] = "open" /\ HandlerInv(w, r) /\ PlaceInv(w) /\ RequestInv(r)
      /\ UNCHANGED <<worker_func, size, conn, client, req, pos, null, lost>>
  BY <1>1, AtWork DEF ProxyInv, Proxy!OpenFile, Proxy!env, Proxy!main
<1>3. /\ Untouched(r) /\ client[r] # "done" /\ why[r] = {} /\ worker_func # "curl" /\ pos[w] = 0
      /\ ~ null[w] /\ ~ holds[w] /\ owed[w] <= 0
  <2>1. Untouched(r) /\ why[r] = {} /\ worker_func # "curl" /\ ~ null[w] /\ pos[w] = 0
    BY <1>2 DEF HandlerInv
  <2>2. ~ holds[w] /\ owed[w] <= 0
    BY <1>2 DEF PlaceInv
  <2> QED
    BY <1>2, <2>1, <2>2 DEF RequestInv, Untouched, Proxy!NoHeader
<1>4. CASE /\ Proxy!Goto(w, "error") /\ \E reason \in {"full", "denied"} : Proxy!Blame(w, reason)
           /\ UNCHANGED <<header, body, owed, len, holds>>
  <2>1. /\ pc' \in [Workers -> Places] /\ pc'[w] = "error"
        /\ \A v \in Workers \ {w} : pc'[v] = pc[v]
    <3>1. "error" \in Places
      BY DEF Places, Late
    <3> QED
      BY <1>2, <1>4, <3>1, GotoStep
  <2>2. /\ why' \in [Requests -> SUBSET Reasons] /\ why'[r] \cap {"full", "denied"} # {}
        /\ \A q \in Requests \ {r} : why'[q] = why[q]
    <3>1. PICK reason \in Reasons : Proxy!Blame(w, reason) /\ reason \in {"full", "denied"}
      BY <1>4 DEF Reasons
    <3>2. /\ why' \in [Requests -> SUBSET Reasons] /\ why'[r] = why[r] \cup {reason}
          /\ \A q \in Requests \ {r} : why'[q] = why[q]
      BY <1>1, <1>2, <3>1, BlameStep
    <3> QED
      BY <3>1, <3>2
  <2>3. ProxyTypes'
    BY <1>2, <1>4, <2>1, <2>2 DEF ProxyTypes, Workers, Absent, Headers, Places, Reasons
  <2>4. Within(w, r)
    BY <1>1, <1>2, <1>4, <2>1, <2>2 DEF Within
  <2>5. Loses(w, r)
    <3>1. ~ Charged(r)'
      BY <1>2, <1>3, <2>2 DEF Charged
    <3> QED
      BY <1>2, <2>1, <3>1 DEF Loses, Early, Late
  <2>6. Untouched(r)'
    BY <1>3, <1>4 DEF Untouched, Proxy!NoHeader
  <2>7. HandlerInv(w, r)' /\ PlaceInv(w)'
    BY <1>3, <1>4, <2>1, <2>2, <2>6 DEF HandlerInv, PlaceInv
  <2> QED
    BY <1>3, <2>3, <2>4, <2>5, <2>7, WithinKept
<1>5. CASE /\ size[r] = Absent /\ Proxy!Header(w, "FILE_NOT_FOUND", 0)
           /\ \E place \in Proxy!NotFoundSent(w) : Proxy!Goto(w, place)
           /\ UNCHANGED <<len, holds, why>>
  <2>1. PICK place \in {"close", "error"} :
           Proxy!Goto(w, place) /\ (place = "error" => client[r] = "gone")
    BY <1>1, <1>5 DEF Proxy!NotFoundSent, Proxy!Gone
  <2>2. /\ pc' \in [Workers -> Places] /\ pc'[w] = place
        /\ \A v \in Workers \ {w} : pc'[v] = pc[v]
    <3>1. place \in Places
      BY DEF Places, Late
    <3> QED
      BY <1>2, <2>1, <3>1, GotoStep
  <2>3. /\ header' \in [Requests -> Headers]
        /\ header'[r] = [st |-> "FILE_NOT_FOUND", len |-> 0]
        /\ \A q \in Requests \ {r} : header'[q] = header[q]
        /\ body' = body
        /\ owed' \in [Workers -> Int] /\ owed'[w] = 0
        /\ \A v \in Workers \ {w} : owed'[v] = owed[v]
    BY <1>1, <1>2, <1>3, <1>5, HeaderStep
  <2>4. ProxyTypes'
    BY <1>2, <1>5, <2>2, <2>3 DEF ProxyTypes, Workers, Absent, Headers, Places
  <2>5. Within(w, r)
    BY <1>1, <1>2, <1>5, <2>2, <2>3 DEF Within
  <2>6. Loses(w, r)
    <3>1. ~ Charged(r)'
      BY <1>2, <1>3, <1>5 DEF Charged, Absent
    <3> QED
      BY <1>2, <2>2, <3>1 DEF Loses, Early, Late
  <2>7. Told(r)'
    <3>1. RightHeader(r)'
      BY <1>2, <1>5, <2>3 DEF RightHeader, NotServed, Absent
    <3>2. Len(body'[r]) = 0 /\ header'[r].len = 0
      BY <1>3, <2>3, EmptySeq DEF Untouched
    <3> QED
      BY <3>1, <3>2, NothingSent
  <2>8. HandlerInv(w, r)' /\ PlaceInv(w)'
    <3>1. PlaceInv(w)'
      BY <1>3, <1>5, <2>1, <2>2, <2>3 DEF PlaceInv
    <3>2. HandlerInv(w, r)'
      BY <1>2, <2>1, <2>2, <2>7 DEF HandlerInv
    <3> QED
      BY <3>1, <3>2
  <2> QED
    BY <1>3, <2>4, <2>5, <2>6, <2>8, WithinKept
<1>6. CASE /\ size[r] # Absent /\ len' = [len EXCEPT ![w] = size[r]]
           /\ holds' = [holds EXCEPT ![w] = TRUE] /\ Proxy!Goto(w, "header")
           /\ UNCHANGED <<header, body, owed, why>>
  <2>1. /\ pc' \in [Workers -> Places] /\ pc'[w] = "header"
        /\ \A v \in Workers \ {w} : pc'[v] = pc[v]
    <3>1. "header" \in Places
      BY DEF Places, Early
    <3> QED
      BY <1>2, <1>6, <3>1, GotoStep
  <2>2. size[r] \in Nat
    <3>1. (size[r] = -1 \/ size[r] \in 0 .. MaxSize) /\ MaxSize \in Nat
      BY <1>2 DEF ProxyTypes, Absent, ProxyConstants
    <3>2. size[r] # -1
      BY <1>6 DEF Absent
    <3> QED
      BY <3>1, <3>2
  <2>3. /\ len' \in [Workers -> Nat] /\ len'[w] = size[r]
        /\ \A v \in Workers \ {w} : len'[v] = len[v]
    BY <1>2, <1>6, <2>2 DEF ProxyTypes
  <2>4. /\ holds' \in [Workers -> BOOLEAN] /\ holds'[w]
        /\ \A v \in Workers \ {w} : holds'[v] = holds[v]
    BY <1>2, <1>6 DEF ProxyTypes
  <2>5. ProxyTypes'
    BY <1>2, <1>6, <2>1, <2>3, <2>4 DEF ProxyTypes, Workers, Absent, Headers, Places
  <2>6. Within(w, r) /\ Loses(w, r)
    BY <1>1, <1>2, <1>6, <2>1, <2>3, <2>4 DEF Within, Loses, Early
  <2>7. Untouched(r)'
    BY <1>3, <1>6 DEF Untouched, Proxy!NoHeader
  <2>8. HandlerInv(w, r)' /\ PlaceInv(w)'
    <3>1. RightLength(r, len[w])'
      BY <1>2, <1>6, <2>3 DEF RightLength, Absent
    <3> QED
      BY <1>2, <1>3, <1>6, <2>1, <2>3, <2>4, <2>7, <3>1 DEF HandlerInv, PlaceInv, Absent
  <2> QED
    BY <1>3, <2>5, <2>6, <2>8, WithinKept
<1> QED
  <2>1. \/ /\ Proxy!Goto(w, "error")
           /\ Proxy!Blame(w, "denied") \/ Proxy!Blame(w, "full")
           /\ UNCHANGED <<Proxy!wire, len, holds>>
        \/ /\ size[req[w]] = Proxy!Absent /\ Proxy!Header(w, "FILE_NOT_FOUND", 0)
           /\ \E place \in Proxy!NotFoundSent(w) : Proxy!Goto(w, place)
           /\ UNCHANGED <<len, holds, why>>
        \/ /\ size[req[w]] # Proxy!Absent
           /\ len' = [len EXCEPT ![w] = size[req[w]]]
           /\ holds' = [holds EXCEPT ![w] = TRUE]
           /\ Proxy!Goto(w, "header") /\ UNCHANGED <<Proxy!wire, why>>
    BY DEF Proxy!OpenFile
  <2> QED
    BY <1>1, <1>4, <1>5, <1>6, <2>1 DEF Proxy!wire, Absent, Proxy!Absent

LEMMA SendOKStep ==
  ASSUME ProxyConstants, ProxyInv, NEW w \in Workers, Proxy!SendOK(w)
  PROVE  ProxyInv'
<1>1. PICK r \in Requests : r = req[w]
  BY AtWork DEF Proxy!SendOK
<1>2. /\ ProxyTypes /\ pc[w] = "header" /\ HandlerInv(w, r) /\ PlaceInv(w) /\ RequestInv(r)
      /\ UNCHANGED <<worker_func, size, conn, client, req, len, pos, null, holds,
                     lost, why>>
      /\ Proxy!Header(w, "OK", len[w]) /\ Proxy!Goto(w, "send")
  BY <1>1, AtWork DEF ProxyInv, Proxy!SendOK, Proxy!env, Proxy!main, Proxy!local, Proxy!desc
<1>3. Untouched(r) /\ client[r] # "done" /\ pos[w] = 0 /\ len[w] \in Nat
  <2>1. Untouched(r) /\ pos[w] = 0
    BY <1>2 DEF HandlerInv
  <2>2. client[r] # "done"
    BY <1>2, <2>1 DEF RequestInv, Untouched, Proxy!NoHeader
  <2>3. len[w] \in Nat
    BY <1>2 DEF ProxyTypes
  <2> QED
    BY <2>1, <2>2, <2>3
<1>4. /\ pc' \in [Workers -> Places] /\ pc'[w] = "send"
      /\ \A v \in Workers \ {w} : pc'[v] = pc[v]
  <2>1. "send" \in Places
    BY DEF Places, Early
  <2> QED
    BY <1>2, <2>1, GotoStep
<1>5. /\ header' \in [Requests -> Headers] /\ header'[r] = [st |-> "OK", len |-> len[w]]
      /\ \A q \in Requests \ {r} : header'[q] = header[q]
      /\ body' = body
      /\ owed' \in [Workers -> Int] /\ owed'[w] = len[w]
      /\ \A v \in Workers \ {w} : owed'[v] = owed[v]
  BY <1>1, <1>2, <1>3, HeaderStep
<1>6. ProxyTypes'
  BY <1>2, <1>4, <1>5 DEF ProxyTypes, Workers, Absent, Headers, Places
<1>7. Within(w, r) /\ Loses(w, r)
  BY <1>1, <1>2, <1>4, <1>5 DEF Within, Loses, Early
<1>8. FirstBytes(body[r], pos[w])'
  <2>1. Len(body'[r]) = 0 /\ pos'[w] = 0
    BY <1>2, <1>3, <1>5, EmptySeq DEF Untouched
  <2> QED
    BY <2>1 DEF FirstBytes
<1>9. HandlerInv(w, r)' /\ PlaceInv(w)'
  <2>1. PlaceInv(w)'
    BY <1>2, <1>4 DEF PlaceInv
  <2>2. pos[w] <= len[w] /\ len[w] = len[w] - pos[w]
    BY <1>3
  <2>3. RightLength(r, len[w])'
    BY <1>2 DEF HandlerInv, RightLength, Absent
  <2>4. HandlerInv(w, r)'
    BY <1>2, <1>3, <1>4, <1>5, <1>8, <2>2, <2>3 DEF HandlerInv, Absent
  <2> QED
    BY <2>1, <2>4
<1> QED
  BY <1>3, <1>6, <1>7, <1>9, WithinKept

LEMMA GiveUpStep ==
  ASSUME ProxyConstants, ProxyInv, NEW w \in Workers, pc[w] = "send", Proxy!GiveUp(w),
         UNCHANGED <<worker_func, size, conn, client, req, len, null>>
  PROVE  ProxyInv'
<1>1. PICK r \in Requests : r = req[w]
  BY AtWork
<1>2. /\ ProxyTypes /\ HandlerInv(w, r) /\ PlaceInv(w) /\ RequestInv(r)
      /\ UNCHANGED <<header, body, owed, pos>> /\ Proxy!Blame(w, "quit")
  BY <1>1, AtWork DEF ProxyInv, Proxy!GiveUp, Proxy!wire
<1>3. PICK leaves \in BOOLEAN :
         Proxy!Return(w, "error", leaves) /\ (worker_func # "curl" => leaves)
  BY DEF Proxy!GiveUp
<1>4. /\ holds[w] /\ size[r] # Absent /\ why[r] \subseteq {"fetch", "grown"}
      /\ RightHeader(r)
  BY <1>2 DEF HandlerInv, PlaceInv, RightLength, RightHeader
<1>5. /\ why' \in [Requests -> SUBSET Reasons] /\ why'[r] = why[r] \cup {"quit"}
      /\ \A q \in Requests \ {r} : why'[q] = why[q]
  <2>1. "quit" \in Reasons
    BY DEF Reasons
  <2>2. r = req[w] /\ ProxyTypes /\ Proxy!Blame(w, "quit")
    BY <1>1, <1>2
  <2> QED
    BY <2>1, <2>2, BlameStep
<1>6. /\ pc' \in [Workers -> Places] /\ pc'[w] = "error"
      /\ \A v \in Workers \ {w} : pc'[v] = pc[v]
      /\ holds' \in [Workers -> BOOLEAN] /\ ~ holds'[w]
      /\ \A v \in Workers \ {w} : holds'[v] = holds[v]
      /\ \/ lost' = lost + 1
         \/ lost' = lost /\ worker_func = "curl"
  <2>1. "error" \in Places
    BY DEF Places, Late
  <2>2. /\ pc' \in [Workers -> Places] /\ pc'[w] = "error"
        /\ \A v \in Workers \ {w} : pc'[v] = pc[v]
        /\ holds' \in [Workers -> BOOLEAN] /\ ~ holds'[w]
        /\ \A v \in Workers \ {w} : holds'[v] = holds[v]
        /\ \/ lost' = lost + 1 /\ holds[w] /\ leaves
           \/ lost' = lost /\ ~ (holds[w] /\ leaves)
    BY <1>2, <1>3, <2>1, ReturnStep
  <2>3. lost' = lost + 1 \/ (lost' = lost /\ worker_func = "curl")
    BY <1>3, <1>4, <2>2, Zenon
  <2> QED
    BY <2>2, <2>3
<1>7. ProxyTypes'
  <2>1. lost \in Nat
    BY <1>2 DEF ProxyTypes
  <2>2. lost' = lost \/ lost' = lost + 1
    BY <1>6, Zenon
  <2>3. lost' \in Nat
    BY <2>1, <2>2
  <2> QED
    BY <1>2, <1>5, <1>6, <2>3 DEF ProxyTypes, Workers, Absent, Headers, Places, Reasons
<1>8. Within(w, r)
  BY <1>1, <1>2, <1>5, <1>6 DEF Within
<1>9. Loses(w, r)
  <2>1. Charged(r)'
    BY <1>4, <1>5 DEF Charged, Absent
  <2> QED
    BY <1>6, <2>1 DEF Loses, Early, Late
<1>10. RightHeader(r)'
  BY <1>2, <1>4, <1>5 DEF RightHeader, RightLength, NotServed, Absent
<1>11. HandlerInv(w, r)' /\ PlaceInv(w)'
  BY <1>5, <1>6, <1>10 DEF HandlerInv, PlaceInv
<1>12. client[r] = "done" => header'[r].st # "none" /\ Told(r)'
  BY <1>2, <1>5, <1>10 DEF RequestInv, Told
<1> QED
  BY <1>7, <1>8, <1>9, <1>11, <1>12, WithinKept

(* The bytes of one send.                                                  *)
LEMMA CountedSeq ==
  ASSUME NEW n \in Nat, NEW p \in Nat
  PROVE  /\ [i \in 1 .. n |-> p + i] \in Seq(Int)
         /\ Len([i \in 1 .. n |-> p + i]) = n
<1> DEFINE s == [i \in 1 .. n |-> p + i]
<1>1. s \in [1 .. n -> Int]
  OBVIOUS
<1>2. s \in Seq(Int)
  BY <1>1, SeqDef
<1>3. DOMAIN s = 1 .. n /\ DOMAIN s = 1 .. Len(s) /\ Len(s) \in Nat
  BY <1>2, LenProperties
<1>4. Len(s) = n
  BY <1>3
<1> QED
  BY <1>2, <1>4

LEMMA ChunkStep ==
  ASSUME ProxyConstants, ProxyInv, NEW w \in Workers, pc[w] = "send",
         pos[w] < len[w], NEW n \in 1 .. BUFFER_SIZE + len[w],
         worker_func = "curl" => n = len[w] - pos[w],
         worker_func # "curl" => n <= BUFFER_SIZE, Proxy!Chunk(w, n),
         IF pos[w] + n > len[w] THEN Proxy!Blame(w, "grown") ELSE UNCHANGED why,
         UNCHANGED <<worker_func, size, conn, client, req, len, null>>
  PROVE  ProxyInv'
<1>1. PICK r \in Requests : r = req[w]
  BY AtWork
<1>2. /\ ProxyTypes /\ HandlerInv(w, r) /\ PlaceInv(w) /\ RequestInv(r)
      /\ UNCHANGED <<header, pc, holds, lost>>
      /\ body' = [body EXCEPT ![r] = @ \o [i \in 1 .. n |-> pos[w] + i]]
      /\ owed' = [owed EXCEPT ![w] = @ - Len([i \in 1 .. n |-> pos[w] + i])]
      /\ pos' = [pos EXCEPT ![w] = @ + n]
  BY <1>1, AtWork DEF ProxyInv, Proxy!Chunk, Proxy!Data, Proxy!desc
<1>3. /\ header[r] = [st |-> "OK", len |-> len[w]] /\ FirstBytes(body[r], pos[w])
      /\ owed[w] = len[w] - pos[w] /\ why[r] \subseteq {"fetch", "grown"}
  BY <1>2 DEF HandlerInv
<1>4. len[w] \in Nat /\ pos[w] \in Nat /\ n \in Nat /\ body[r] \in Seq(Int)
  <2>1. len[w] \in Nat /\ pos[w] \in Nat /\ body[r] \in Seq(Int)
    BY <1>2 DEF ProxyTypes
  <2> QED
    BY <2>1
<1>5. PICK s \in Seq(Int) : s = [i \in 1 .. n |-> pos[w] + i] /\ Len(s) = n
  BY <1>4, CountedSeq
<1>6. /\ body' \in [Requests -> Seq(Int)] /\ body'[r] = body[r] \o s
      /\ \A q \in Requests \ {r} : body'[q] = body[q]
  <2>1. body[r] \o s \in Seq(Int)
    BY <1>4, JoinProperties
  <2> QED
    BY <1>2, <1>5, <2>1 DEF ProxyTypes
<1>7. /\ pos' \in [Workers -> Nat] /\ pos'[w] = pos[w] + n
      /\ \A v \in Workers \ {w} : pos'[v] = pos[v]
  <2>1. pos[w] + n \in Nat
    BY <1>4
  <2>2. pos \in [Workers -> Nat]
    BY <1>2 DEF ProxyTypes
  <2>3. pos' = [pos EXCEPT ![w] = pos[w] + n]
    BY <1>2
  <2> QED
    BY <2>1, <2>2, <2>3
<1>8. /\ owed' \in [Workers -> Int] /\ owed'[w] = len[w] - (pos[w] + n)
      /\ \A v \in Workers \ {w} : owed'[v] = owed[v]
  <2>1. owed[w] - n \in Int /\ owed[w] - n = len[w] - (pos[w] + n)
    BY <1>3, <1>4
  <2>2. owed' = [owed EXCEPT ![w] = @ - n]
    BY <1>2, <1>5
  <2> QED
    BY <1>2, <2>1, <2>2 DEF ProxyTypes
<1>9. FirstBytes(body[r], pos[w])'
  <2>1. /\ Len(body[r]) = pos[w] /\ Len(body[r] \o s) = pos[w] + n
        /\ \A b \in 1 .. pos[w] : (body[r] \o s)[b] = body[r][b]
        /\ \A b \in pos[w] + 1 .. pos[w] + n : (body[r] \o s)[b] = s[b - pos[w]]
    <3>1. Len(body[r]) = pos[w] /\ Len(s) = n /\ body[r] \in Seq(Int)
      BY <1>3, <1>4, <1>5, Zenon DEF FirstBytes
    <3>2. /\ Len(body[r] \o s) = Len(body[r]) + Len(s)
          /\ \A b \in 1 .. Len(body[r]) : (body[r] \o s)[b] = body[r][b]
          /\ \A b \in Len(body[r]) + 1 .. Len(body[r]) + Len(s) :
                (body[r] \o s)[b] = s[b - Len(body[r])]
      BY <3>1, JoinProperties, Zenon
    <3> QED
      BY <3>1, <3>2, Zenon
  <2>2. \A b \in 1 .. n : s[b] = pos[w] + b
    BY <1>5
  <2>3. ASSUME NEW b \in 1 .. pos[w] + n PROVE (body[r] \o s)[b] = b
    <3>1. CASE b \in 1 .. pos[w]
      <4>1. body[r][b] = b
        BY <1>3, <3>1 DEF FirstBytes
      <4> QED
        BY <2>1, <3>1, <4>1
    <3>2. CASE b \in pos[w] + 1 .. pos[w] + n
      <4>1. b - pos[w] \in 1 .. n /\ pos[w] + (b - pos[w]) = b
        BY <1>4, <3>2
      <4> QED
        BY <2>1, <2>2, <3>2, <4>1
    <3>3. b \in 1 .. pos[w] \/ b \in pos[w] + 1 .. pos[w] + n
      BY <1>4
    <3> QED
      BY <3>1, <3>2, <3>3
  <2> QED
    BY <1>6, <1>7, <2>1, <2>3 DEF FirstBytes
<1>10. /\ why' \in [Requests -> SUBSET Reasons] /\ why'[r] \subseteq {"fetch", "grown"}
       /\ why[r] \subseteq why'[r]
       /\ pos[w] + n <= len[w] \/ "grown" \in why'[r]
       /\ \A q \in Requests \ {r} : why'[q] = why[q]
  <2>1. CASE pos[w] + n > len[w]
    <3>1. "grown" \in Reasons /\ r = req[w] /\ ProxyTypes /\ Proxy!Blame(w, "grown")
      BY <1>1, <1>2, <2>1 DEF Reasons
    <3>2. /\ why' \in [Requests -> SUBSET Reasons] /\ why'[r] = why[r] \cup {"grown"}
          /\ \A q \in Requests \ {r} : why'[q] = why[q]
      BY <3>1 DEF ProxyTypes, Proxy!Blame, Reasons
    <3> QED
      BY <1>3, <3>2
  <2>2. CASE ~ (pos[w] + n > len[w])
    <3>1. why' = why
      BY <2>2
    <3>2. pos[w] + n <= len[w]
      BY <1>4, <2>2
    <3> QED
      BY <1>2, <1>3, <3>1, <3>2 DEF ProxyTypes, Reasons
  <2> QED
    BY <2>1, <2>2
<1>11. ProxyTypes'
  BY <1>2, <1>6, <1>7, <1>8, <1>10 DEF ProxyTypes, Workers, Absent, Headers, Early, Late, Reasons
<1>12. Within(w, r) /\ Loses(w, r)
  BY <1>1, <1>2, <1>6, <1>7, <1>8, <1>10 DEF Within, Loses, Early
<1>13. pos[w] + n <= len[w] \/ RightCount(r, len[w], pos[w])'
  <2>1. CASE pos[w] + n > len[w]
    <3>1. BUFFER_SIZE \in Nat \ {0}
      BY DEF ProxyConstants
    <3>2. pos[w] + n \in len[w] + 1 .. len[w] + BUFFER_SIZE - 1
      BY <1>4, <2>1, <3>1
    <3>3. "grown" \in why'[r]
      BY <1>4, <1>10, <2>1
    <3> QED
      BY <1>7, <3>2, <3>3 DEF RightCount
  <2> QED
    BY <1>4, <2>1
<1>14. HandlerInv(w, r)' /\ PlaceInv(w)'
  <2>1. PlaceInv(w)'
    BY <1>2 DEF PlaceInv
  <2>2. /\ owed'[w] = len[w] - pos'[w]
        /\ (worker_func = "curl" => pos'[w] = len[w])
        /\ pos'[w] <= len[w] \/ RightCount(r, len[w], pos[w])'
    BY <1>4, <1>7, <1>8, <1>13
  <2>3. RightLength(r, len[w])'
    BY <1>2, <1>10 DEF HandlerInv, RightLength, Absent
  <2>4. HandlerInv(w, r)'
    BY <1>2, <1>3, <1>9, <1>10, <2>2, <2>3 DEF HandlerInv, Absent
  <2> QED
    BY <2>1, <2>4
<1>15. client[r] # "done"
  <2>1. "quit" \notin why[r] /\ header[r].len = len[w]
    BY <1>3
  <2>2. Len(body[r]) = pos[w]
    BY <1>3 DEF FirstBytes
  <2>3. ~ RightCount(r, len[w], pos[w])
    BY <1>4 DEF RightCount
  <2> QED
    BY <1>2, <2>1, <2>2, <2>3 DEF RequestInv, Told
<1> QED
  BY <1>11, <1>12, <1>14, <1>15, WithinKept

LEMMA FinishStep ==
  ASSUME ProxyConstants, ProxyInv, NEW w \in Workers, Proxy!Finish(w)
  PROVE  ProxyInv'
<1>1. PICK r \in Requests : r = req[w]
  BY AtWork DEF Proxy!Finish
<1>2. /\ ProxyTypes /\ pc[w] = "send" /\ HandlerInv(w, r) /\ PlaceInv(w) /\ RequestInv(r)
      /\ UNCHANGED <<worker_func, size, conn, client, header, body, owed, req, len, pos, null,
                     why>>
      /\ pos[w] >= len[w] /\ Proxy!Return(w, "close", worker_func # "curl")
  BY <1>1, AtWork DEF ProxyInv, Proxy!Finish, Proxy!env, Proxy!main, Proxy!wire, Proxy!local
<1>3. /\ holds[w] /\ size[r] # Absent /\ why[r] \subseteq {"fetch", "grown"}
      /\ RightLength(r, len[w])
      /\ header[r] = [st |-> "OK", len |-> len[w]] /\ FirstBytes(body[r], pos[w])
      /\ pos[w] <= len[w] \/ RightCount(r, len[w], pos[w])
      /\ owed[w] = len[w] - pos[w]
  BY <1>2 DEF HandlerInv, PlaceInv, RightLength
<1>4. RightCount(r, len[w], pos[w]) /\ owed[w] <= 0
  <2>1. pos[w] \in Nat /\ len[w] \in Nat
    BY <1>2 DEF ProxyTypes
  <2>2. pos[w] <= len[w] => pos[w] = len[w]
    BY <1>2, <2>1
  <2>3. owed[w] <= 0
    BY <1>2, <1>3, <2>1
  <2> QED
    BY <1>3, <2>2, <2>3 DEF RightCount
<1>5. /\ pc' \in [Workers -> Places] /\ pc'[w] = "close"
      /\ \A v \in Workers \ {w} : pc'[v] = pc[v]
      /\ holds' \in [Workers -> BOOLEAN] /\ ~ holds'[w]
      /\ \A v \in Workers \ {w} : holds'[v] = holds[v]
      /\ \/ lost' = lost + 1 /\ worker_func # "curl"
         \/ lost' = lost /\ worker_func = "curl"
  <2>1. "close" \in Places /\ (worker_func # "curl") \in BOOLEAN
    BY DEF Places, Late
  <2>2. PICK leaves \in BOOLEAN : leaves <=> worker_func # "curl"
    OBVIOUS
  <2>3. Proxy!Return(w, "close", leaves)
    BY <1>2, <2>2 DEF Proxy!Return
  <2>4. /\ pc' \in [Workers -> Places] /\ pc'[w] = "close"
        /\ \A v \in Workers \ {w} : pc'[v] = pc[v]
        /\ holds' \in [Workers -> BOOLEAN] /\ ~ holds'[w]
        /\ \A v \in Workers \ {w} : holds'[v] = holds[v]
        /\ \/ lost' = lost + 1 /\ holds[w] /\ leaves
           \/ lost' = lost /\ ~ (holds[w] /\ leaves)
    BY <1>2, <2>1, <2>3, ReturnStep
  <2>5. \/ lost' = lost + 1 /\ worker_func # "curl"
        \/ lost' = lost /\ worker_func = "curl"
    BY <1>3, <2>2, <2>4, Zenon
  <2> QED
    BY <2>4, <2>5
<1>6. ProxyTypes'
  <2>1. lost \in Nat
    BY <1>2 DEF ProxyTypes
  <2>2. lost' = lost \/ lost' = lost + 1
    BY <1>5, Zenon
  <2>3. lost' \in Nat
    BY <2>1, <2>2
  <2> QED
    BY <1>2, <1>5, <2>3 DEF ProxyTypes, Workers, Absent, Headers, Places
<1>7. Within(w, r)
  BY <1>1, <1>2, <1>5 DEF Within
<1>8. Loses(w, r)
  <2>1. worker_func # "curl" => Charged(r)'
    BY <1>2, <1>3 DEF Charged, Absent
  <2> QED
    BY <1>2, <1>5, <2>1 DEF Loses, Early, Late
<1>9. Told(r)'
  <2>1. RightHeader(r)
    BY <1>3 DEF RightHeader
  <2>2. Len(body[r]) = pos[w] /\ FirstBytes(body[r], Len(body[r]))
    BY <1>3 DEF FirstBytes
  <2>3. RightCount(r, header[r].len, Len(body[r]))
    BY <1>3, <1>4, <2>2
  <2> QED
    BY <1>2, <2>1, <2>2, <2>3 DEF Told, RightHeader, RightLength, NotServed, RightCount, FirstBytes, Absent
<1>10. HandlerInv(w, r)' /\ PlaceInv(w)'
  <2>1. PlaceInv(w)'
    BY <1>2, <1>4, <1>5 DEF PlaceInv
  <2>2. HandlerInv(w, r)'
    BY <1>5, <1>9 DEF HandlerInv
  <2> QED
    BY <2>1, <2>2
<1>11. header'[r].st # "none"
  BY <1>2, <1>3
<1> QED
  BY <1>6, <1>7, <1>8, <1>9, <1>10, <1>11, WithinKept

-----------------------------------------------------------------------------
(* The library after the handler.                                          *)

LEMMA SendErrorStep ==
  ASSUME ProxyConstants, ProxyInv, NEW w \in Workers, Proxy!SendError(w)
  PROVE  ProxyInv'
<1>1. PICK r \in Requests : r = req[w]
  BY AtWork DEF Proxy!SendError
<1>2. /\ ProxyTypes /\ pc[w] = "error" /\ HandlerInv(w, r) /\ PlaceInv(w) /\ RequestInv(r)
      /\ UNCHANGED <<worker_func, size, conn, client, req, len, pos, null, holds,
                     lost, why>>
      /\ Proxy!Header(w, "ERROR", 0) /\ Proxy!Goto(w, "close")
  BY <1>1, AtWork DEF ProxyInv, Proxy!SendError, Proxy!env, Proxy!main, Proxy!local, Proxy!desc
<1>3. \/ client[r] = "gone"
      \/ "quit" \in why[r] /\ RightHeader(r)
      \/ Untouched(r) /\ why[r] \cap {"full", "denied"} # {}
  BY <1>2 DEF HandlerInv
<1>4. /\ pc' \in [Workers -> Places] /\ pc'[w] = "close"
      /\ \A v \in Workers \ {w} : pc'[v] = pc[v]
  <2>1. "close" \in Places
    BY DEF Places, Late
  <2> QED
    BY <1>2, <2>1, GotoStep
<1>5. /\ owed' \in [Workers -> Int] /\ owed'[w] = 0
      /\ \A v \in Workers \ {w} : owed'[v] = owed[v]
  BY <1>2 DEF Proxy!Header, ProxyTypes
<1>6. /\ header' \in [Requests -> Headers] /\ body' \in [Requests -> Seq(Int)]
      /\ \A q \in Requests \ {r} : header'[q] = header[q] /\ body'[q] = body[q]
      /\ header[r] = Proxy!NoHeader => header'[r] = [st |-> "ERROR", len |-> 0] /\ body' = body
      /\ header[r] # Proxy!NoHeader => header' = header
  <2>1. CASE header[r] = Proxy!NoHeader
    <3>1. header' = [header EXCEPT ![r] = [st |-> "ERROR", len |-> 0]] /\ body' = body
      BY <1>1, <1>2, <2>1 DEF Proxy!Header
    <3>2. [st |-> "ERROR", len |-> 0] \in Headers
      BY DEF Headers
    <3> QED
      BY <1>2, <2>1, <3>1, <3>2 DEF ProxyTypes
  <2>2. CASE header[r] # Proxy!NoHeader
    <3>1. body' = [body EXCEPT ![r] = Append(@, Proxy!ErrText)] /\ header' = header
      BY <1>1, <1>2, <2>2 DEF Proxy!Header
    <3>2. body[r] \in Seq(Int) /\ Proxy!ErrText \in Int
      BY <1>2 DEF ProxyTypes, Proxy!ErrText
    <3>3. Append(body[r], Proxy!ErrText) \in Seq(Int)
      BY <3>2, AppendProperties
    <3> QED
      BY <1>2, <2>2, <3>1, <3>3 DEF ProxyTypes
  <2> QED
    BY <2>1, <2>2
<1>7. ProxyTypes'
  BY <1>2, <1>4, <1>5, <1>6 DEF ProxyTypes, Workers, Absent, Headers, Places
<1>8. Within(w, r) /\ Loses(w, r)
  BY <1>1, <1>2, <1>4, <1>5, <1>6 DEF Within, Loses, Late
<1>9. client[r] = "gone" \/ Told(r)'
  <2>1. CASE "quit" \in why[r] /\ RightHeader(r)
    <3>1. header[r] # Proxy!NoHeader
      BY <2>1 DEF RightHeader, Proxy!NoHeader
    <3>2. RightHeader(r)'
      BY <1>2, <1>6, <2>1, <3>1 DEF RightHeader, RightLength, NotServed, Absent
    <3> QED
      BY <1>2, <2>1, <3>2 DEF Told
  <2>2. CASE Untouched(r) /\ why[r] \cap {"full", "denied"} # {}
    <3>1. Len(body'[r]) = 0 /\ header'[r].len = 0
      BY <1>6, <2>2, EmptySeq DEF Untouched
    <3>2. RightHeader(r)'
      BY <1>2, <1>6, <2>2 DEF Untouched, RightHeader
    <3> QED
      BY <3>1, <3>2, NothingSent
  <2> QED
    BY <1>3, <2>1, <2>2
<1>10. HandlerInv(w, r)' /\ PlaceInv(w)'
  <2>1. PlaceInv(w)'
    BY <1>2, <1>4, <1>5 DEF PlaceInv
  <2>2. HandlerInv(w, r)'
    BY <1>2, <1>4, <1>9 DEF HandlerInv
  <2> QED
    BY <2>1, <2>2
<1>11. client[r] = "done" => header'[r].st # "none" /\ Told(r)'
  <2>1. header'[r].st # "none" \/ client[r] # "done"
    BY <1>2, <1>6 DEF RequestInv
  <2> QED
    BY <1>9, <2>1
<1> QED
  BY <1>7, <1>8, <1>10, <1>11, WithinKept

(* The zeros that make up for an owed amount, of which there is none.      *)
LEMMA NoZeros ==
  ASSUME NEW n \in Int, n <= 0
  PROVE  [i \in 1 .. n |-> 0] \in Seq(Int) /\ Len([i \in 1 .. n |-> 0]) = 0
<1> DEFINE s == [i \in 1 .. n |-> 0]
<1>1. 1 .. n = 1 .. 0
  OBVIOUS
<1>2. s \in [1 .. 0 -> Int]
  BY <1>1
<1>3. s \in Seq(Int)
  BY <1>2, SeqDef
<1>4. DOMAIN s = 1 .. 0 /\ DOMAIN s = 1 .. Len(s) /\ Len(s) \in Nat
  BY <1>2, <1>3, LenProperties
<1>5. Len(s) = 0
  <2>1. PICK m \in Nat : m = Len(s)
    BY <1>4
  <2>2. 1 .. m = 1 .. 0
    BY <1>4, <2>1, Zenon
  <2>3. \A k \in Nat : k # 0 => 1 \in 1 .. k /\ 1 \notin 1 .. 0
    OBVIOUS
  <2> QED
    BY <2>1, <2>2, <2>3, Zenon
<1> QED
  BY <1>3, <1>5

LEMMA FillStep ==
  ASSUME ProxyConstants, ProxyInv, NEW w \in Workers, Proxy!Fill(w)
  PROVE  ProxyInv'
<1>1. PICK r \in Requests : r = req[w]
  BY AtWork DEF Proxy!Fill
<1>2. /\ ProxyTypes /\ pc[w] = "close" /\ HandlerInv(w, r) /\ PlaceInv(w) /\ RequestInv(r)
      /\ UNCHANGED <<worker_func, size, conn, client, header, req, len, pos, null, holds,
                     lost, why>>
      /\ body' = [body EXCEPT ![r] = @ \o [i \in 1 .. owed[w] |-> 0]]
      /\ owed' = [owed EXCEPT ![w] = @ - Len([i \in 1 .. owed[w] |-> 0])]
      /\ Proxy!Goto(w, "drain")
  BY <1>1, AtWork DEF ProxyInv, Proxy!Fill, Proxy!Data, Proxy!env, Proxy!main, Proxy!local,
     Proxy!desc
<1>3. /\ owed[w] \in Int /\ owed[w] <= 0
      /\ client[r] = "gone" \/ header[r] = Proxy!NoHeader \/ Told(r)
  BY <1>2 DEF HandlerInv, PlaceInv, ProxyTypes
<1>4. PICK s \in Seq(Int) : s = [i \in 1 .. owed[w] |-> 0] /\ Len(s) = 0
  <2>1. [i \in 1 .. owed[w] |-> 0] \in Seq(Int) /\ Len([i \in 1 .. owed[w] |-> 0]) = 0
    BY <1>3, NoZeros
  <2> QED
    BY <2>1
<1>5. /\ owed' \in [Workers -> Int] /\ owed'[w] = owed[w]
      /\ \A v \in Workers \ {w} : owed'[v] = owed[v]
  <2>1. owed' = [owed EXCEPT ![w] = owed[w] - Len(s)]
    BY <1>2, <1>4
  <2>2. owed[w] - Len(s) = owed[w]
    <3>1. owed[w] \in Int /\ Len(s) = 0
      BY <1>3, <1>4, Zenon
    <3> QED
      BY <3>1
  <2>3. owed' = [owed EXCEPT ![w] = owed[w]]
    BY <2>1, <2>2, Zenon
  <2>4. owed \in [Workers -> Int]
    BY <1>2 DEF ProxyTypes
  <2> QED
    BY <2>3, <2>4
<1>6. /\ pc' \in [Workers -> Places] /\ pc'[w] = "drain"
      /\ \A v \in Workers \ {w} : pc'[v] = pc[v]
  <2>1. "drain" \in Places
    BY DEF Places, Late
  <2> QED
    BY <1>2, <2>1, GotoStep
<1>7. body[r] \in Seq(Int)
  BY <1>2 DEF ProxyTypes
<1>8. /\ body' \in [Requests -> Seq(Int)] /\ body'[r] = body[r] \o s
      /\ \A q \in Requests \ {r} : body'[q] = body[q]
  <2>1. body[r] \o s \in Seq(Int)
    BY <1>7, JoinProperties
  <2> QED
    BY <1>2, <1>4, <2>1 DEF ProxyTypes
<1>9. ASSUME Told(r) PROVE Told(r)'
  <2>1. /\ Len(body[r]) \in Nat /\ Len(body[r] \o s) = Len(body[r])
        /\ \A b \in 1 .. Len(body[r]) : (body[r] \o s)[b] = body[r][b]
    <3>1. /\ Len(body[r]) \in Nat /\ Len(body[r] \o s) = Len(body[r]) + Len(s)
          /\ \A b \in 1 .. Len(body[r]) : (body[r] \o s)[b] = body[r][b]
      BY <1>7, JoinProperties
    <3>2. Len(s) = 0
      BY <1>4, Zenon
    <3> QED
      BY <3>1, <3>2
  <2>2. RightHeader(r)'
    BY <1>2, <1>9 DEF Told, RightHeader, RightLength, NotServed, Absent
  <2>3. ASSUME "quit" \notin why[r]
        PROVE  /\ FirstBytes(body[r], Len(body[r]))'
               /\ RightCount(r, header[r].len, Len(body[r]))'
    BY <1>2, <1>8, <1>9, <2>1, <2>3 DEF Told, FirstBytes, RightCount
  <2> QED
    BY <1>2, <2>2, <2>3 DEF Told
<1>10. ProxyTypes'
  BY <1>2, <1>5, <1>6, <1>8 DEF ProxyTypes, Workers, Absent, Headers, Places
<1>11. Within(w, r) /\ Loses(w, r)
  BY <1>1, <1>2, <1>5, <1>6, <1>8 DEF Within, Loses, Late
<1>12. HandlerInv(w, r)' /\ PlaceInv(w)'
  <2>1. PlaceInv(w)'
    BY <1>2, <1>3, <1>5, <1>6 DEF PlaceInv
  <2>2. HandlerInv(w, r)'
    BY <1>2, <1>3, <1>6, <1>9 DEF HandlerInv, Proxy!NoHeader
  <2> QED
    BY <2>1, <2>2
<1>13. client[r] = "done" => header'[r].st # "none" /\ Told(r)'
  BY <1>2, <1>9 DEF RequestInv
<1> QED
  BY <1>10, <1>11, <1>12, <1>13, WithinKept

-----------------------------------------------------------------------------
(* What takes up a connection or ends it, and what the clients do.         *)

LEMMA CallStep ==
  ASSUME ProxyConstants, ProxyInv, NEW w \in Workers, NEW r \in Requests, Proxy!Call(w, r)
  PROVE  ProxyInv'
<1>1. /\ ProxyTypes /\ pc[w] = "idle" /\ conn[r] = "queued" /\ PlaceInv(w) /\ RequestInv(r)
      /\ UNCHANGED <<worker_func, size, client, header, body, owed, holds, lost, why>>
      /\ conn' = [conn EXCEPT ![r] = "busy"] /\ req' = [req EXCEPT ![w] = r]
      /\ len' = [len EXCEPT ![w] = 0] /\ pos' = [pos EXCEPT ![w] = 0]
      /\ null' = [null EXCEPT ![w] = FALSE]
      /\ Proxy!Goto(w, IF worker_func = "curl" THEN "init" ELSE "open")
  BY DEF ProxyInv, Proxy!Call, Proxy!main, Proxy!wire, Proxy!desc
<1>2. req[w] = NoRequest /\ NoRequest \notin Requests
  BY <1>1 DEF ProxyInv, OwnerInv, ProxyConstants
<1>3. PICK place \in Places :
         Proxy!Goto(w, place) /\ place = IF worker_func = "curl" THEN "init" ELSE "open"
  BY <1>1 DEF Places, Early
<1>4. /\ pc' \in [Workers -> Places] /\ pc'[w] = place
      /\ \A v \in Workers \ {w} : pc'[v] = pc[v]
  BY <1>1, <1>3, GotoStep
<1>5. place \in Early \ {"idle"} /\ Early \cap Late = {}
  BY <1>3 DEF Early, Late
<1>6. /\ conn' \in [Requests -> {"none", "queued", "busy", "closed"}]
      /\ conn'[r] = "busy" /\ \A q \in Requests \ {r} : conn'[q] = conn[q]
  BY <1>1 DEF ProxyTypes
<1>7. /\ req' \in [Workers -> Requests \cup {NoRequest}]
      /\ req'[w] = r /\ \A v \in Workers \ {w} : req'[v] = req[v]
  BY <1>1 DEF ProxyTypes
<1>8. /\ len' \in [Workers -> Nat] /\ pos' \in [Workers -> Nat] /\ null' \in [Workers -> BOOLEAN]
      /\ len'[w] = 0 /\ pos'[w] = 0 /\ ~ null'[w]
      /\ \A v \in Workers \ {w} : len'[v] = len[v] /\ pos'[v] = pos[v] /\ null'[v] = null[v]
  BY <1>1 DEF ProxyTypes
<1>9. ProxyTypes'
  BY <1>1, <1>4, <1>6, <1>7, <1>8 DEF ProxyTypes, Workers, Absent, Headers, Places
<1>10. \A v \in Workers : req[v] # r
  BY <1>1, <1>2 DEF ProxyInv, OwnerInv
<1>11. OwnerInv'
  <2>1. ASSUME NEW v \in Workers
        PROVE  IF pc'[v] = "idle" THEN req'[v] = NoRequest
               ELSE req'[v] \in Requests /\ conn'[req'[v]] = "busy"
    <3>1. CASE v = w
      BY <1>4, <1>5, <1>6, <1>7, <3>1
    <3>2. CASE v # w
      BY <1>4, <1>6, <1>7, <3>2 DEF ProxyInv, OwnerInv
    <3> QED
      BY <3>1, <3>2
  <2>2. ASSUME NEW u \in Workers, NEW v \in Workers, pc'[u] # "idle", req'[u] = req'[v]
        PROVE  u = v
    <3>1. CASE u # w /\ v # w
      BY <1>4, <1>7, <2>2, <3>1 DEF ProxyInv, OwnerInv
    <3>2. CASE u = w \/ v = w
      BY <1>7, <1>10, <2>2, <3>2
    <3> QED
      BY <3>1, <3>2
  <2>3. ASSUME NEW q \in Requests, conn'[q] = "busy" PROVE \E v \in Workers : req'[v] = q
    <3>1. CASE q = r
      BY <1>7, <3>1
    <3>2. CASE q # r
      <4>1. PICK v \in Workers : req[v] = q
        BY <1>6, <2>3, <3>2 DEF ProxyInv, OwnerInv
      <4> QED
        BY <1>2, <1>7, <4>1
    <3> QED
      BY <3>1, <3>2
  <2> QED
    BY <2>1, <2>2, <2>3 DEF OwnerInv
<1>12. LostInv'
  <2>1. Accepted' = Accepted
    BY <1>1, <1>6 DEF Accepted
  <2>2. Called' = Called \cup {r} /\ r \notin Called
    BY <1>1, <1>6 DEF Called
  <2>3. ~ Past(r)'
    BY <1>4, <1>5, <1>7 DEF Past, Late
  <2>4. ASSUME NEW q \in Requests \ {r}
        PROVE  (Charged(q)' <=> Charged(q)) /\ (Past(q)' <=> Past(q))
    <3>1. Charged(q)' <=> Charged(q)
      BY <1>1 DEF Charged, Absent
    <3>2. \A v \in Workers : (req'[v] = q <=> req[v] = q) /\ (req[v] = q => pc'[v] = pc[v])
      BY <1>2, <1>4, <1>7
    <3>3. Past(q)' <=> Past(q)
      BY <3>2 DEF Past, Late
    <3> QED
      BY <3>1, <3>3
  <2>5. Spent' = Spent
    <3>1. Called \subseteq Requests
      BY DEF Called
    <3> QED
      BY <2>2, <2>3, <2>4, <3>1 DEF Spent
  <2> QED
    BY <1>1, <2>1, <2>5 DEF ProxyInv, LostInv
<1>13. ASSUME NEW v \in Workers
       PROVE  PlaceInv(v)' /\ (pc'[v] # "idle" => HandlerInv(v, req[v])')
  <2>1. CASE v = w
    <3>1. Untouched(r) /\ why[r] = {}
      BY <1>1 DEF RequestInv
    <3>2. Untouched(r)'
      BY <1>1, <3>1 DEF Untouched, Proxy!NoHeader
    <3>3. HandlerInv(w, r)'
      BY <1>1, <1>3, <1>4, <1>8, <3>1, <3>2 DEF HandlerInv
    <3>4. PlaceInv(w)'
      BY <1>1, <1>3, <1>4 DEF PlaceInv
    <3> QED
      BY <1>7, <2>1, <3>3, <3>4
  <2>2. CASE v # w
    <3>1. PlaceInv(v)'
      BY <1>1, <1>4, <2>2 DEF ProxyInv, PlaceInv
    <3>2. ASSUME pc'[v] # "idle" PROVE HandlerInv(v, req[v])'
      <4>1. PICK q \in Requests : q = req[v] /\ HandlerInv(v, q)
        BY <1>4, <2>2, <3>2 DEF ProxyInv, OwnerInv
      <4>2. HandlerInv(v, q)'
        BY <1>1, <1>4, <1>8, <2>2, <4>1, HandlerKept
      <4> QED
        BY <1>7, <2>2, <4>1, <4>2
    <3> QED
      BY <3>1, <3>2
  <2> QED
    BY <2>1, <2>2
<1>14. ASSUME NEW q \in Requests PROVE RequestInv(q)'
  BY <1>1, <1>6, RequestKept DEF ProxyInv
<1> QED
  BY <1>9, <1>11, <1>12, <1>13, <1>14 DEF ProxyInv

LEMMA CloseStep ==
  ASSUME ProxyConstants, ProxyInv, NEW w \in Workers, Proxy!Close(w)
  PROVE  ProxyInv'
<1>1. PICK r \in Requests : r = req[w]
  BY AtWork DEF Proxy!Close
<1>2. /\ ProxyTypes /\ pc[w] = "drain" /\ conn[r] = "busy" /\ PlaceInv(w) /\ RequestInv(r)
      /\ UNCHANGED <<worker_func, size, client, header, body, owed, len, pos, null, holds,
                     lost, why>>
      /\ conn' = [conn EXCEPT ![r] = "closed"] /\ req' = [req EXCEPT ![w] = NoRequest]
      /\ Proxy!Goto(w, "idle")
  BY <1>1, AtWork DEF ProxyInv, Proxy!Close, Proxy!main, Proxy!wire, Proxy!local, Proxy!desc
<1>3. /\ NoRequest \notin Requests
      /\ \A v \in Workers : req[v] = r => v = w
  BY <1>1, <1>2 DEF ProxyInv, OwnerInv, ProxyConstants
<1>4. /\ pc' \in [Workers -> Places] /\ pc'[w] = "idle"
      /\ \A v \in Workers \ {w} : pc'[v] = pc[v]
  <2>1. "idle" \in Places
    BY DEF Places
  <2> QED
    BY <1>2, <2>1, GotoStep
<1>5. /\ conn' \in [Requests -> {"none", "queued", "busy", "closed"}]
      /\ conn'[r] = "closed" /\ \A q \in Requests \ {r} : conn'[q] = conn[q]
  BY <1>2 DEF ProxyTypes
<1>6. /\ req' \in [Workers -> Requests \cup {NoRequest}]
      /\ req'[w] = NoRequest /\ \A v \in Workers \ {w} : req'[v] = req[v]
  BY <1>2 DEF ProxyTypes
<1>7. ProxyTypes'
  BY <1>2, <1>4, <1>5, <1>6 DEF ProxyTypes, Workers, Absent, Headers, Places
<1>8. OwnerInv'
  <2>1. ASSUME NEW v \in Workers
        PROVE  IF pc'[v] = "idle" THEN req'[v] = NoRequest
               ELSE req'[v] \in Requests /\ conn'[req'[v]] = "busy"
    <3>1. CASE v = w
      BY <1>4, <1>6, <3>1
    <3>2. CASE v # w
      BY <1>3, <1>4, <1>5, <1>6, <3>2 DEF ProxyInv, OwnerInv
    <3> QED
      BY <3>1, <3>2
  <2>2. ASSUME NEW u \in Workers, NEW v \in Workers, pc'[u] # "idle", req'[u] = req'[v]
        PROVE  u = v
    <3>1. u # w /\ pc[u] # "idle" /\ req[u] \in Requests /\ req'[u] = req[u]
      BY <1>4, <1>6, <2>2 DEF ProxyInv, OwnerInv
    <3>2. v # w
      BY <1>3, <1>6, <2>2, <3>1
    <3> QED
      BY <1>6, <2>2, <3>1, <3>2 DEF ProxyInv, OwnerInv
  <2>3. ASSUME NEW q \in Requests, conn'[q] = "busy" PROVE \E v \in Workers : req'[v] = q
    <3>1. q # r
      BY <1>5, <2>3
    <3>2. PICK v \in Workers : req[v] = q
      BY <1>5, <2>3, <3>1 DEF ProxyInv, OwnerInv
    <3> QED
      BY <1>1, <1>6, <3>1, <3>2
  <2> QED
    BY <2>1, <2>2, <2>3 DEF OwnerInv
<1>9. LostInv'
  <2>1. Accepted' = Accepted /\ Called' = Called
    BY <1>2, <1>5 DEF Accepted, Called
  <2>2. Past(r) /\ Past(r)'
    BY <1>2, <1>3, <1>6 DEF Past, Late
  <2>3. ASSUME NEW q \in Requests
        PROVE  (Charged(q)' <=> Charged(q)) /\ (Past(q)' <=> Past(q))
    <3>1. Charged(q)' <=> Charged(q)
      BY <1>2 DEF Charged, Absent
    <3>2. CASE q = r
      BY <2>2, <3>1, <3>2
    <3>3. CASE q # r
      <4>1. \A v \in Workers : (req'[v] = q <=> req[v] = q) /\ (req[v] = q => pc'[v] = pc[v])
        BY <1>1, <1>3, <1>4, <1>6, <3>3
      <4>2. Past(q)' <=> Past(q)
        BY <4>1 DEF Past, Late
      <4> QED
        BY <3>1, <4>2
    <3> QED
      BY <3>2, <3>3
  <2>4. Spent' = Spent
    <3>1. Called \subseteq Requests
      BY DEF Called
    <3> QED
      BY <2>1, <2>3, <3>1 DEF Spent
  <2> QED
    BY <1>2, <2>1, <2>4 DEF ProxyInv, LostInv
<1>10. ASSUME NEW v \in Workers
       PROVE  PlaceInv(v)' /\ (pc'[v] # "idle" => HandlerInv(v, req[v])')
  <2>1. CASE v = w
    BY <1>2, <1>4, <2>1 DEF PlaceInv
  <2>2. CASE v # w
    <3>1. PlaceInv(v)'
      BY <1>2, <1>4, <2>2 DEF ProxyInv, PlaceInv
    <3>2. ASSUME pc'[v] # "idle" PROVE HandlerInv(v, req[v])'
      <4>1. PICK q \in Requests : q = req[v] /\ HandlerInv(v, q)
        BY <1>4, <2>2, <3>2 DEF ProxyInv, OwnerInv
      <4>2. HandlerInv(v, q)'
        BY <1>2, <1>4, <2>2, <4>1, HandlerKept
      <4> QED
        BY <1>6, <2>2, <4>1, <4>2
    <3> QED
      BY <3>1, <3>2
  <2> QED
    BY <2>1, <2>2
<1>11. ASSUME NEW q \in Requests PROVE RequestInv(q)'
  BY <1>2, <1>5, RequestKept DEF ProxyInv
<1> QED
  BY <1>7, <1>8, <1>9, <1>10, <1>11 DEF ProxyInv

LEMMA AcceptStep ==
  ASSUME ProxyConstants, ProxyInv, NEW r \in Requests, Proxy!Accept(r)
  PROVE  ProxyInv'
<1>1. /\ ProxyTypes /\ conn[r] = "none" /\ conn' = [conn EXCEPT ![r] = "queued"]
      /\ UNCHANGED <<worker_func, size, client, header, body, owed, pc, req, len, pos, null,
                     holds, lost, why>>
  BY DEF ProxyInv, Proxy!Accept, Proxy!main, Proxy!wire, Proxy!local, Proxy!desc
<1>2. /\ conn' \in [Requests -> {"none", "queued", "busy", "closed"}]
      /\ conn'[r] = "queued" /\ \A q \in Requests \ {r} : conn'[q] = conn[q]
  BY <1>1 DEF ProxyTypes
<1>3. ProxyTypes'
  BY <1>1, <1>2 DEF ProxyTypes, Workers, Absent, Headers, Early, Late
<1>4. OwnerInv'
  BY <1>1, <1>2 DEF ProxyInv, OwnerInv
<1>5. LostInv'
  <2>1. Accepted' = Accepted \cup {r} /\ Called' = Called
    BY <1>1, <1>2 DEF Accepted, Called
  <2>2. IsFiniteSet(Accepted')
    BY <2>1, FS_AddElement DEF ProxyInv, LostInv
  <2>3. Spent' = Spent
    BY <1>1, <2>1 DEF Spent, Charged, Past, Late, Absent
  <2> QED
    BY <1>1, <2>2, <2>3 DEF ProxyInv, LostInv
<1>6. ASSUME NEW v \in Workers
      PROVE  PlaceInv(v)' /\ (pc'[v] # "idle" => HandlerInv(v, req[v])')
  <2>1. PlaceInv(v)'
    BY <1>1 DEF ProxyInv, PlaceInv
  <2>2. ASSUME pc'[v] # "idle" PROVE HandlerInv(v, req[v])'
    <3>1. PICK q \in Requests : q = req[v] /\ HandlerInv(v, q)
      BY <1>1, <2>2 DEF ProxyInv, OwnerInv
    <3>2. HandlerInv(v, q)'
      BY <1>1, <3>1, HandlerKept
    <3> QED
      BY <1>1, <3>1, <3>2
  <2> QED
    BY <2>1, <2>2
<1>7. ASSUME NEW q \in Requests PROVE RequestInv(q)'
  BY <1>1, <1>2, RequestKept DEF ProxyInv
<1> QED
  BY <1>3, <1>4, <1>5, <1>6, <1>7 DEF ProxyInv

(* A client closes its end only when it was told the truth.                *)
LEMMA AllReceived ==
  ASSUME ProxyConstants, ProxyInv, NEW r \in Requests, conn[r] = "busy", client[r] = "waiting",
         Proxy!HasAll(r)
  PROVE  header[r].st # "none" /\ Told(r)
<1>1. PICK w \in Workers : req[w] = r
  BY DEF ProxyInv, OwnerInv
<1>2. pc[w] # "idle"
  BY <1>1 DEF ProxyInv, OwnerInv, ProxyConstants
<1>3. /\ header[r].st # "none" /\ HandlerInv(w, r)
      /\ header[r].st = "OK" => Len(body[r]) >= header[r].len
  BY <1>1, <1>2 DEF ProxyInv, Proxy!HasAll
<1>4. ~ Untouched(r) /\ header[r] # Proxy!NoHeader
  BY <1>3 DEF Untouched, Proxy!NoHeader
<1>5. CASE pc[w] = "send"
  <2>1. /\ header[r] = [st |-> "OK", len |-> len[w]] /\ FirstBytes(body[r], pos[w])
        /\ pos[w] <= len[w] \/ RightCount(r, len[w], pos[w])
        /\ RightLength(r, len[w])
    BY <1>3, <1>5 DEF HandlerInv
  <2>2. Len(body[r]) = pos[w] /\ Len(body[r]) >= len[w]
    BY <1>3, <2>1 DEF FirstBytes
  <2>3. RightCount(r, len[w], pos[w])
    <3>1. pos[w] \in Nat /\ len[w] \in Nat
      BY DEF ProxyInv, ProxyTypes
    <3>2. pos[w] <= len[w] => pos[w] = len[w]
      BY <2>2, <3>1
    <3> QED
      BY <2>1, <3>2 DEF RightCount
  <2>4. RightHeader(r)
    BY <2>1 DEF RightHeader
  <2> QED
    BY <1>3, <2>1, <2>2, <2>3, <2>4 DEF Told
<1>6. CASE pc[w] = "error"
  BY <1>3, <1>4, <1>6 DEF HandlerInv, Told
<1>7. CASE pc[w] \in {"close", "drain"}
  BY <1>3, <1>4, <1>7 DEF HandlerInv
<1>8. CASE pc[w] \in {"init", "connect", "fetch", "open", "header"}
  BY <1>3, <1>4, <1>8 DEF HandlerInv
<1> QED
  <2>1. pc[w] \in {"idle"} \cup Early \cup Late
    BY DEF ProxyInv, ProxyTypes
  <2> QED
    BY <1>2, <1>5, <1>6, <1>7, <1>8, <2>1 DEF Early, Late

LEMMA ClientStep ==
  ASSUME ProxyConstants, ProxyInv, NEW r \in Requests,
         Proxy!ClientCloses(r) \/ Proxy!Leave(r)
  PROVE  ProxyInv'
<1>1. /\ ProxyTypes /\ conn[r] = "busy" /\ client[r] = "waiting"
      /\ UNCHANGED <<worker_func, size, conn, header, body, owed, pc, req, len, pos, null,
                     holds, lost, why>>
  BY DEF ProxyInv, Proxy!ClientCloses, Proxy!Leave, Proxy!main, Proxy!wire, Proxy!local, Proxy!desc
<1>2. /\ client' \in [Requests -> {"waiting", "done", "gone"}]
      /\ \A q \in Requests \ {r} : client'[q] = client[q]
      /\ \/ client'[r] = "gone"
         \/ client'[r] = "done" /\ Proxy!HasAll(r)
  BY <1>1 DEF ProxyTypes, Proxy!ClientCloses, Proxy!Leave
<1>3. ProxyTypes'
  BY <1>1, <1>2 DEF ProxyTypes, Workers, Absent, Headers, Early, Late
<1>4. OwnerInv'
  BY <1>1 DEF ProxyInv, OwnerInv
<1>5. LostInv'
  <2>1. Accepted' = Accepted /\ Called' = Called
    BY <1>1 DEF Accepted, Called
  <2>2. Spent' = Spent
    BY <1>1, <2>1 DEF Spent, Charged, Past, Late, Absent
  <2> QED
    BY <1>1, <2>1, <2>2 DEF ProxyInv, LostInv
<1>6. ASSUME NEW v \in Workers
      PROVE  PlaceInv(v)' /\ (pc'[v] # "idle" => HandlerInv(v, req[v])')
  <2>1. PlaceInv(v)'
    BY <1>1 DEF ProxyInv, PlaceInv
  <2>2. ASSUME pc'[v] # "idle" PROVE HandlerInv(v, req[v])'
    <3>1. PICK q \in Requests : q = req[v] /\ HandlerInv(v, q)
      BY <1>1, <2>2 DEF ProxyInv, OwnerInv
    <3>2. client[q] = "gone" => client'[q] = "gone"
      BY <1>1, <1>2
    <3>3. HandlerInv(v, q)'
      BY <1>1, <3>1, <3>2, HandlerKept
    <3> QED
      BY <1>1, <3>1, <3>3
  <2> QED
    BY <2>1, <2>2
<1>7. ASSUME NEW q \in Requests PROVE RequestInv(q)'
  <2>1. CASE client'[q] = client[q] \/ client'[q] # "done"
    <3>1. client'[q] = client[q] \/ (client'[q] # "done" /\ conn'[q] = "busy")
      BY <1>1, <1>2, <2>1
    <3> QED
      BY <1>1, <3>1, RequestKept DEF ProxyInv
  <2>2. CASE q = r /\ client'[q] = "done"
    <3>1. header[r].st # "none" /\ Told(r)
      BY <1>1, <1>2, <2>2, AllReceived
    <3>2. Told(r)'
      BY <1>1, <3>1 DEF Told, RightHeader, RightLength, NotServed, RightCount, FirstBytes, Absent
    <3> QED
      BY <1>1, <2>2, <3>1, <3>2 DEF RequestInv
  <2> QED
    BY <1>2, <2>1, <2>2
<1> QED
  BY <1>3, <1>4, <1>5, <1>6, <1>7 DEF ProxyInv

-----------------------------------------------------------------------------
(* The whole.                                                              *)

LEMMA OtherStep ==
  ASSUME ProxyInv,
         UNCHANGED <<worker_func, size, conn, client, header, body, owed, pc, req, len, pos, null,
                     holds, lost, why>>
  PROVE  ProxyInv'
<1>1. ProxyTypes'
  BY DEF ProxyInv, ProxyTypes, Workers, Absent, Headers, Early, Late
<1>2. OwnerInv'
  BY DEF ProxyInv, OwnerInv
<1>3. LostInv'
  <2>1. Accepted' = Accepted /\ Spent' = Spent
    BY DEF Accepted, Spent, Called, Charged, Past, Late, Absent
  <2> QED
    BY <2>1 DEF ProxyInv, LostInv
<1>4. ASSUME NEW v \in Workers
      PROVE  PlaceInv(v)' /\ (pc'[v] # "idle" => HandlerInv(v, req[v])')
  <2>1. PlaceInv(v)'
    BY DEF ProxyInv, PlaceInv
  <2>2. ASSUME pc'[v] # "idle" PROVE HandlerInv(v, req[v])'
    <3>1. PICK q \in Requests : q = req[v] /\ HandlerInv(v, q)
      BY <2>2 DEF ProxyInv, OwnerInv
    <3>2. HandlerInv(v, q)'
      BY <3>1, HandlerKept
    <3> QED
      BY <3>1, <3>2
  <2> QED
    BY <2>1, <2>2
<1>5. ASSUME NEW q \in Requests PROVE RequestInv(q)'
  BY RequestKept DEF ProxyInv
<1> QED
  BY <1>1, <1>2, <1>3, <1>4, <1>5 DEF ProxyInv

LEMMA SendResponseStep ==
  ASSUME ProxyConstants, ProxyInv, NEW w \in Workers, Proxy!SendResponse(w)
  PROVE  ProxyInv'
<1>1. /\ worker_func = "curl" /\ pc[w] = "send" /\ pos[w] < len[w]
      /\ UNCHANGED <<worker_func, size, conn, client, req, len, null>>
  BY DEF Proxy!SendResponse, Proxy!env, Proxy!main
<1>2. CASE Proxy!GiveUp(w)
  BY <1>1, <1>2, GiveUpStep
<1>3. CASE Proxy!Chunk(w, len[w]) /\ UNCHANGED why
  <2>1. PICK r \in Requests : r = req[w]
    BY <1>1, AtWork
  <2>2. pos[w] = 0
    <3>1. pos[w] \in {0, len[w]}
      BY <1>1, <2>1, AtWork DEF HandlerInv
    <3>2. pos[w] \in Nat /\ len[w] \in Nat
      BY DEF ProxyInv, ProxyTypes
    <3> QED
      BY <1>1, <3>1, <3>2
  <2>3. /\ len[w] \in 1 .. BUFFER_SIZE + len[w] /\ len[w] = len[w] - pos[w]
        /\ ~ (pos[w] + len[w] > len[w])
    <3>1. len[w] \in Nat /\ BUFFER_SIZE \in Nat
      BY DEF ProxyInv, ProxyTypes, ProxyConstants
    <3> QED
      BY <1>1, <2>2, <3>1
  <2> QED
    BY <1>1, <1>3, <2>3, ChunkStep
<1> QED
  BY <1>2, <1>3 DEF Proxy!SendResponse

LEMMA ReadAndSendStep ==
  ASSUME ProxyConstants, ProxyInv, NEW w \in Workers, Proxy!ReadAndSend(w)
  PROVE  ProxyInv'
<1>1. /\ worker_func # "curl" /\ pc[w] = "send" /\ pos[w] < len[w]
      /\ UNCHANGED <<worker_func, size, conn, client, req, len, null>>
  BY DEF Proxy!ReadAndSend, Proxy!env, Proxy!main
<1>2. CASE Proxy!GiveUp(w)
  BY <1>1, <1>2, GiveUpStep
<1>3. ASSUME NEW n \in 1 .. Proxy!Smaller(BUFFER_SIZE, MaxSize - pos[w]), Proxy!Chunk(w, n),
             IF pos[w] + n > len[w] THEN Proxy!Blame(w, "grown") ELSE UNCHANGED why
      PROVE  ProxyInv'
  <2>1. pos[w] \in Nat /\ len[w] \in Nat /\ BUFFER_SIZE \in Nat /\ MaxSize \in Nat
    BY DEF ProxyInv, ProxyTypes, ProxyConstants
  <2>2. n \in 1 .. BUFFER_SIZE + len[w] /\ n <= BUFFER_SIZE
    BY <1>3, <2>1 DEF Proxy!Smaller
  <2> QED
    BY <1>1, <1>3, <2>2, ChunkStep
<1> QED
  BY <1>2, <1>3 DEF Proxy!ReadAndSend

LEMMA UnreachableStep ==
  ASSUME ProxyConstants, ProxyInv, NEW w \in Workers, Proxy!Unreachable(w)
  PROVE  ProxyInv'
<1>1. /\ pc[w] = "connect" /\ Proxy!NotOK(w)
      /\ \E reason \in {"full", "fetch"} : Proxy!Blame(w, reason)
  BY DEF Proxy!Unreachable
<1> QED
  BY <1>1, NotOKStep

LEMMA ProxyInitInv == ProxyConstants /\ Proxy!Init => ProxyInv
<1> SUFFICES ASSUME ProxyConstants, Proxy!Init PROVE ProxyInv
  OBVIOUS
<1>1. ProxyTypes
  <2>1. Proxy!NoHeader \in Headers
    BY DEF Proxy!NoHeader, Headers
  <2>2. <<>> \in Seq(Int)
    BY EmptySeq
  <2> QED
    BY <2>1, <2>2 DEF ProxyTypes, Proxy!Init, Proxy!Absent, Absent, Proxy!Workers, Workers
<1>2. OwnerInv
  BY DEF OwnerInv, Proxy!Init, Proxy!Workers, Workers
<1>3. LostInv
  <2>1. Accepted = {} /\ Spent = {} /\ lost = 0
    BY DEF Accepted, Spent, Called, Proxy!Init
  <2>2. IsFiniteSet({}) /\ Cardinality({}) = 0
    BY FS_EmptySet
  <2>3. IsFiniteSet(Accepted) /\ Cardinality(Spent) = 0
    BY <2>1, <2>2
  <2> QED
    BY <2>1, <2>3 DEF LostInv
<1>4. \A w \in Workers : PlaceInv(w) /\ pc[w] = "idle"
  BY DEF PlaceInv, Proxy!Init, Proxy!Workers, Workers
<1>5. \A r \in Requests : RequestInv(r)
  BY DEF RequestInv, Untouched, Proxy!Init
<1> QED
  BY <1>1, <1>2, <1>3, <1>4, <1>5 DEF ProxyInv

LEMMA ProxyNextInv == ProxyConstants /\ ProxyInv /\ [Proxy!Next]_(Proxy!vars) => ProxyInv'
<1> SUFFICES ASSUME ProxyConstants, ProxyInv, [Proxy!Next]_(Proxy!vars) PROVE ProxyInv'
  OBVIOUS
<1>1. CASE UNCHANGED Proxy!vars
  BY <1>1, OtherStep DEF Proxy!vars, Proxy!main, Proxy!wire, Proxy!local
<1>2. CASE Proxy!SetWorkerArg \/ Proxy!Serve \/ Proxy!Signal
  BY <1>2, OtherStep DEF Proxy!SetWorkerArg, Proxy!Serve, Proxy!Signal, Proxy!main, Proxy!wire,
     Proxy!local, Proxy!desc
<1>3. ASSUME NEW w \in Workers, Proxy!Killed(w) PROVE ProxyInv'
  BY <1>3, OtherStep DEF Proxy!Killed, Proxy!Signal, Proxy!main, Proxy!wire, Proxy!local, Proxy!desc
<1>4. ASSUME NEW w \in Workers, Proxy!HandleWithCurl(w) PROVE ProxyInv'
  BY <1>4, CurlInitStep, UnreachableStep, ConnectFetchStep, WriteMemoryStep, PerformedStep,
     SendOKStep, FinishStep, SendResponseStep DEF Proxy!HandleWithCurl
<1>5. ASSUME NEW w \in Workers, Proxy!HandleWithFile(w) \/ Proxy!HandleWithCache(w)
      PROVE  ProxyInv'
  BY <1>5, OpenFileStep, SendOKStep, ReadAndSendStep, FinishStep
     DEF Proxy!HandleWithFile, Proxy!HandleWithCache
<1>6. ASSUME NEW w \in Workers,
             Proxy!SendError(w) \/ Proxy!Fill(w) \/ Proxy!Close(w)
             \/ \E r \in Requests : Proxy!Call(w, r)
      PROVE  ProxyInv'
  BY <1>6, SendErrorStep, FillStep, CloseStep, CallStep
<1>7. ASSUME NEW r \in Requests, Proxy!Accept(r) \/ Proxy!ClientCloses(r) \/ Proxy!Leave(r)
      PROVE  ProxyInv'
  BY <1>7, AcceptStep, ClientStep
<1>8. \/ Proxy!SetWorkerArg \/ Proxy!Serve \/ Proxy!Signal
      \/ \E w \in Workers : Proxy!WorkerStep(w) \/ Proxy!Killed(w)
      \/ \E r \in Requests : Proxy!Accept(r) \/ Proxy!ClientCloses(r) \/ Proxy!Leave(r)
      \/ UNCHANGED Proxy!vars
  BY DEF Proxy!Next, Proxy!Workers, Workers
<1>9. ASSUME NEW w \in Workers, Proxy!WorkerStep(w) PROVE ProxyInv'
  BY <1>4, <1>5, <1>6, <1>9 DEF Proxy!WorkerStep
<1> QED
  BY <1>1, <1>2, <1>3, <1>7, <1>8, <1>9

(* The inductive invariant of the proxy.                                   *)
THEOREM ProxyInvariance ==
  ASSUME Proxy!ThreadsAssumption, Proxy!SizesAssumption, Proxy!LimitAssumption,
         Proxy!NoRequestNotOne
  PROVE  Proxy!SafeSpec => []ProxyInv
<1>1. ProxyConstants
  BY DEF ProxyConstants, Proxy!ThreadsAssumption, Proxy!SizesAssumption, Proxy!LimitAssumption,
     Proxy!NoRequestNotOne
<1> QED
  BY <1>1, ProxyInitInv, ProxyNextInv, PTL DEF Proxy!SafeSpec

(* Whatever the handler, the workers and the other clients do, a client    *)
(* that received all it was promised was told what is so, and has the file *)
(* from its start: as much as the header announced, or more by less than a *)
(* buffer if the file grew behind it, unless the handler gave up           *)
(* (handle_with_curl.c:58-95, handle_with_file.c:10-64).                   *)
THEOREM FileDelivered ==
  ASSUME Proxy!ThreadsAssumption, Proxy!SizesAssumption, Proxy!LimitAssumption,
         Proxy!NoRequestNotOne
  PROVE  Proxy!SafeSpec => []Proxy!ClientHasTheFile
<1>1. ProxyInv => Proxy!ClientHasTheFile
  <2> SUFFICES ASSUME ProxyInv, NEW r \in Requests, client[r] = "done"
               PROVE  /\ RightHeader(r)
                      /\ "quit" \notin why[r] =>
                            /\ body[r] = [i \in 1 .. Len(body[r]) |-> i]
                            /\ RightCount(r, header[r].len, Len(body[r]))
    BY DEF Proxy!ClientHasTheFile, RightHeader, RightLength, NotServed, RightCount, Absent,
       Proxy!Absent
  <2>1. Told(r)
    BY DEF ProxyInv, RequestInv
  <2>2. ASSUME "quit" \notin why[r]
        PROVE  body[r] = [i \in 1 .. Len(body[r]) |-> i]
    <3>1. PICK n : n = Len(body[r])
      OBVIOUS
    <3>2. \A b \in 1 .. n : body[r][b] = b
      BY <2>1, <2>2, <3>1 DEF Told, FirstBytes
    <3>3. body[r] \in Seq(Int)
      BY DEF ProxyInv, ProxyTypes
    <3>4. body[r] \in [1 .. n -> Int]
      BY <3>1, <3>3, LenProperties
    <3> QED
      BY <3>1, <3>2, <3>4
  <2> QED
    BY <2>1, <2>2 DEF Told
<1> QED
  BY <1>1, ProxyInvariance, PTL

(* What the workers lose, in any number and for any number of requests:    *)
(* with curl at most one descriptor for each request not sent on whole,    *)
(* and with the file handlers, which never close a file, exactly one for   *)
(* each file opened (handle_with_file.c:10-64).                            *)
THEOREM LossBounded ==
  ASSUME Proxy!ThreadsAssumption, Proxy!SizesAssumption, Proxy!LimitAssumption,
         Proxy!NoRequestNotOne
  PROVE  Proxy!SafeSpec => []Proxy!LostIsAccountedFor
<1>1. ProxyConstants
  BY DEF ProxyConstants, Proxy!ThreadsAssumption, Proxy!SizesAssumption, Proxy!LimitAssumption,
     Proxy!NoRequestNotOne
<1>2. ProxyConstants /\ ProxyInv => Proxy!LostIsAccountedFor
  <2> SUFFICES ASSUME ProxyConstants, ProxyInv PROVE Proxy!LostIsAccountedFor
    OBVIOUS
  <2> DEFINE Over == {r \in Requests : conn[r] = "closed"}
             Busy == {r \in Requests : conn[r] = "busy"}
             Failed == {r \in Over \cup Busy : size[r] = Proxy!Absent \/ why[r] # {}}
             Opened(S) == {r \in S : Proxy!OpenedFile(r)}
  <2>1. Called = Over \cup Busy
    BY DEF Called
  <2>2. IsFiniteSet(Called)
    <3>1. Called \subseteq Accepted /\ IsFiniteSet(Accepted)
      BY DEF Called, Accepted, ProxyInv, LostInv
    <3> QED
      BY <3>1, FS_Subset
  <2>3. lost \in Nat
    BY DEF ProxyInv, ProxyTypes
  <2>4. CASE worker_func = "curl"
    <3>1. Spent \subseteq Failed /\ Failed \subseteq Called
      BY <2>1, <2>4 DEF Spent, Charged, Absent, Proxy!Absent
    <3>2. IsFiniteSet(Failed)
      BY <2>2, <3>1, FS_Subset
    <3>3. /\ Cardinality(Spent) <= Cardinality(Failed) /\ IsFiniteSet(Spent)
          /\ Cardinality(Failed) \in Nat
      BY <3>1, <3>2, FS_Subset, FS_CardinalityType
    <3>4. Cardinality(Spent) \in Nat
      BY <3>3, FS_CardinalityType
    <3>5. lost <= Cardinality(Failed)
      BY <2>3, <2>4, <3>3, <3>4 DEF ProxyInv, LostInv
    <3>6. lost <= Proxy!Cardinality(Failed)
      BY <3>5, SameCardinality
    <3> QED
      BY <2>4, <3>6, Zenon DEF Proxy!LostIsAccountedFor
  <2>5. CASE worker_func # "curl"
    <3>1. \A r \in Over : Past(r)
      BY DEF Past, ProxyInv, OwnerInv, ProxyConstants
    <3>2. /\ Opened(Over) \subseteq Spent /\ Spent \subseteq Opened(Over \cup Busy)
          /\ Opened(Over \cup Busy) \subseteq Called
      BY <2>1, <2>5, <3>1 DEF Spent, Charged, Absent, Proxy!Absent, Proxy!OpenedFile
    <3>3. IsFiniteSet(Opened(Over \cup Busy))
      BY <2>2, <3>2, FS_Subset
    <3>4. /\ Cardinality(Spent) <= Cardinality(Opened(Over \cup Busy)) /\ IsFiniteSet(Spent)
      BY <3>2, <3>3, FS_Subset
    <3>5. Cardinality(Opened(Over)) <= Cardinality(Spent) /\ IsFiniteSet(Opened(Over))
      BY <3>2, <3>4, FS_Subset
    <3>6. lost = Cardinality(Spent)
      BY <2>5 DEF ProxyInv, LostInv
    <3>7. /\ Cardinality(Opened(Over)) <= lost
          /\ lost <= Cardinality(Opened(Over \cup Busy))
      BY <3>4, <3>5, <3>6
    <3>8. Cardinality(Opened(Over)) \in Nat
      BY <3>5, FS_CardinalityType
    <3>9. lost >= Cardinality(Opened(Over))
      BY <2>3, <3>7, <3>8
    <3>10. /\ lost >= Proxy!Cardinality(Opened(Over))
           /\ lost <= Proxy!Cardinality(Opened(Over \cup Busy))
      BY <3>7, <3>9, SameCardinality
    <3> QED
      BY <2>5, <3>10, Zenon DEF Proxy!LostIsAccountedFor
  <2> QED
    BY <2>4, <2>5
<1> QED
  BY <1>1, <1>2, ProxyInvariance, PTL

-----------------------------------------------------------------------------
(* Nobody waits in vain.                                                   *)

(* A handler that is over has sent a header, unless curl_easy_init failed. *)
AnsweredInv ==
    /\ \A r \in Requests : header[r].st = "none" => header[r] = Proxy!NoHeader
    /\ \A w \in Workers :
          pc[w] \in {"close", "drain"} =>
             header[req[w]] # Proxy!NoHeader \/ "mute" \in why[req[w]]

(* The replies and what is held against them only grow; worker w alone     *)
(* takes a step.                                                           *)
Grows(w) ==
    /\ \A q \in Requests : header'[q] = header[q] \/ header'[q].st # "none"
    /\ \A q \in Requests : why[q] \subseteq why'[q]
    /\ \A v \in Workers \ {w} : pc'[v] = pc[v] /\ req'[v] = req[v]

LEMMA AnswerKept ==
  ASSUME ProxyInv, AnsweredInv, NEW w \in Workers, Grows(w),
         pc'[w] \in {"close", "drain"} =>
            header'[req'[w]] # Proxy!NoHeader \/ "mute" \in why'[req'[w]]
  PROVE  AnsweredInv'
<1>1. ASSUME NEW r \in Requests, header'[r].st = "none"
      PROVE  header'[r] = Proxy!NoHeader'
  BY <1>1 DEF Grows, AnsweredInv, Proxy!NoHeader
<1>2. ASSUME NEW v \in Workers, pc'[v] \in {"close", "drain"}
      PROVE  header'[req'[v]] # Proxy!NoHeader' \/ "mute" \in why'[req'[v]]
  <2>1. CASE v = w
    BY <1>2, <2>1 DEF Proxy!NoHeader
  <2>2. CASE v # w
    <3>1. /\ pc[v] \in {"close", "drain"} /\ req'[v] = req[v] /\ req[v] \in Requests
          /\ header[req[v]] # Proxy!NoHeader \/ "mute" \in why[req[v]]
      BY <1>2, <2>2 DEF Grows, AnsweredInv, ProxyInv, OwnerInv
    <3> QED
      BY <3>1 DEF Grows, Proxy!NoHeader
  <2> QED
    BY <2>1, <2>2
<1> QED
  BY <1>1, <1>2 DEF AnsweredInv

LEMMA HeaderAnswers ==
  ASSUME ProxyTypes, NEW w \in Workers, req[w] \in Requests,
         NEW st \in {"OK", "FILE_NOT_FOUND", "ERROR"}, NEW n, Proxy!Header(w, st, n)
  PROVE  /\ \A q \in Requests : header'[q] = header[q] \/ header'[q].st # "none"
         /\ header'[req[w]] # Proxy!NoHeader
BY DEF Proxy!Header, Proxy!NoHeader, ProxyTypes

LEMMA GotoOthers ==
  ASSUME ProxyTypes, NEW w \in Workers, NEW place \in Places, Proxy!Goto(w, place)
  PROVE  pc'[w] = place /\ \A v \in Workers \ {w} : pc'[v] = pc[v]
BY GotoStep

LEMMA BlameGrows ==
  ASSUME ProxyTypes, NEW w \in Workers, NEW reason, Proxy!Blame(w, reason)
  PROVE  \A q \in Requests : why[q] \subseteq why'[q]
BY DEF Proxy!Blame, ProxyTypes

(* A step after which the handler is not over.                             *)
LEMMA AnswerPending ==
  ASSUME ProxyInv, AnsweredInv, NEW w \in Workers, Grows(w),
         pc'[w] \notin {"close", "drain"}
  PROVE  AnsweredInv'
BY AnswerKept

(* A step that answers.                                                    *)
LEMMA AnswerSent ==
  ASSUME ProxyInv, AnsweredInv, NEW w \in Workers, pc[w] # "idle", req' = req,
         NEW st \in {"OK", "FILE_NOT_FOUND", "ERROR"}, NEW n, Proxy!Header(w, st, n),
         NEW place \in Places, Proxy!Goto(w, place),
         \A q \in Requests : why[q] \subseteq why'[q]
  PROVE  AnsweredInv'
<1>1. /\ \A q \in Requests : header'[q] = header[q] \/ header'[q].st # "none"
      /\ header'[req[w]] # Proxy!NoHeader
  BY AtWork, HeaderAnswers DEF ProxyInv
<1>2. Grows(w)
  BY <1>1, GotoOthers DEF Grows, ProxyInv
<1> QED
  BY <1>1, <1>2, AnswerKept

(* A step that leaves the replies alone.                                   *)
LEMMA AnswerAsBefore ==
  ASSUME ProxyInv, AnsweredInv, NEW w \in Workers, UNCHANGED <<header, req>>,
         NEW place \in Places, Proxy!Goto(w, place),
         \A q \in Requests : why[q] \subseteq why'[q],
         place \in {"close", "drain"} =>
            header[req[w]] # Proxy!NoHeader \/ "mute" \in why'[req[w]]
  PROVE  AnsweredInv'
<1>1. Grows(w) /\ pc'[w] = place
  BY GotoOthers DEF Grows, ProxyInv
<1> QED
  BY <1>1, AnswerKept

(* A step of somebody else.                                                *)
LEMMA AnswerStays ==
  ASSUME AnsweredInv, UNCHANGED <<header, why, pc, req>>
  PROVE  AnsweredInv'
BY DEF AnsweredInv, Proxy!NoHeader, Workers

LEMMA AnsweredInit == Proxy!Init => AnsweredInv
BY DEF Proxy!Init, Proxy!NoHeader, AnsweredInv, Proxy!Workers, Workers

LEMMA NotOKAnswers ==
  ASSUME ProxyInv, AnsweredInv, NEW w \in Workers, pc[w] # "idle", Proxy!NotOK(w),
         \A q \in Requests : why[q] \subseteq why'[q]
  PROVE  AnsweredInv'
<1>1. Proxy!Header(w, "FILE_NOT_FOUND", 0) /\ req' = req
  BY DEF Proxy!NotOK
<1>2. PICK place \in {"close", "error"} : Proxy!Goto(w, place)
  BY DEF Proxy!NotOK, Proxy!NotFoundSent, Proxy!Return
<1>3. place \in Places
  BY DEF Places, Late
<1> QED
  BY <1>1, <1>2, <1>3, AnswerSent

LEMMA CurlAnswers ==
  ASSUME ProxyInv, AnsweredInv, NEW w \in Workers,
         \/ Proxy!CurlInit(w) \/ Proxy!Unreachable(w) \/ Proxy!Connect(w)
         \/ Proxy!WriteMemory(w) \/ Proxy!Performed(w)
  PROVE  AnsweredInv'
<1>1. ProxyTypes /\ {"connect", "close", "fetch", "header"} \subseteq Places
  BY DEF ProxyInv, Places, Early, Late
<1>2. CASE Proxy!CurlInit(w)
  <2>1. UNCHANGED <<header, req>> /\ req[w] \in Requests
    BY <1>2, AtWork DEF Proxy!CurlInit, Proxy!wire
  <2>2. CASE Proxy!Goto(w, "connect") /\ why' = why
    BY <1>1, <2>1, <2>2, AnswerAsBefore
  <2>3. CASE Proxy!Goto(w, "close") /\ Proxy!Blame(w, "mute")
    <3>1. "mute" \in why'[req[w]]
      BY <1>1, <2>1, <2>3 DEF ProxyTypes, Proxy!Blame
    <3> QED
      BY <1>1, <2>1, <2>3, <3>1, BlameGrows, AnswerAsBefore
  <2> QED
    BY <1>2, <2>2, <2>3 DEF Proxy!CurlInit
<1>3. CASE Proxy!Unreachable(w)
  <2>1. pc[w] # "idle" /\ Proxy!NotOK(w) /\ \E reason \in {"full", "fetch"} : Proxy!Blame(w, reason)
    BY <1>3 DEF Proxy!Unreachable
  <2> QED
    BY <1>1, <2>1, BlameGrows, NotOKAnswers
<1>4. CASE Proxy!Connect(w)
  <2>1. UNCHANGED <<header, req, why>> /\ Proxy!Goto(w, "fetch")
    BY <1>4 DEF Proxy!Connect, Proxy!wire
  <2> QED
    BY <1>1, <2>1, AnswerAsBefore
<1>5. CASE Proxy!WriteMemory(w)
  <2>1. UNCHANGED <<header, req>>
    BY <1>5 DEF Proxy!WriteMemory, Proxy!wire
  <2>2. CASE UNCHANGED <<pc, why>>
    BY <2>1, <2>2, AnswerStays
  <2>3. CASE Proxy!Goto(w, "header") /\ Proxy!Blame(w, "fetch")
    BY <1>1, <2>1, <2>3, BlameGrows, AnswerAsBefore
  <2> QED
    BY <1>5, <2>2, <2>3 DEF Proxy!WriteMemory
<1>6. CASE Proxy!Performed(w)
  <2>1. CASE /\ Proxy!NotOK(w)
             /\ IF size[req[w]] = Proxy!Absent THEN UNCHANGED why ELSE Proxy!Blame(w, "status")
    <3>1. \A q \in Requests : why[q] \subseteq why'[q]
      BY <1>1, <2>1, BlameGrows
    <3> QED
      BY <1>6, <2>1, <3>1, NotOKAnswers DEF Proxy!Performed
  <2>2. CASE /\ why' = why \/ Proxy!Blame(w, "fetch")
             /\ Proxy!Goto(w, "header") /\ UNCHANGED <<header, req>>
    BY <1>1, <2>2, BlameGrows, AnswerAsBefore
  <2> QED
    BY <1>6, <2>1, <2>2 DEF Proxy!Performed, Proxy!wire
<1> QED
  BY <1>2, <1>3, <1>4, <1>5, <1>6

LEMMA FileAnswers ==
  ASSUME ProxyInv, AnsweredInv, NEW w \in Workers,
         \/ Proxy!OpenFile(w) \/ Proxy!SendOK(w) \/ Proxy!Finish(w)
         \/ Proxy!SendResponse(w) \/ Proxy!ReadAndSend(w)
  PROVE  AnsweredInv'
<1>1. ProxyTypes /\ {"close", "error", "header", "send"} \subseteq Places
  BY DEF ProxyInv, Places, Early, Late
<1>2. CASE Proxy!OpenFile(w)
  <2>1. pc[w] # "idle" /\ req' = req
    BY <1>2 DEF Proxy!OpenFile
  <2>2. CASE Proxy!Goto(w, "error") /\ (\E reason : Proxy!Blame(w, reason)) /\ header' = header
    BY <1>1, <2>1, <2>2, BlameGrows, AnswerAsBefore
  <2>3. CASE /\ Proxy!Header(w, "FILE_NOT_FOUND", 0) /\ why' = why
             /\ \E place \in Proxy!NotFoundSent(w) : Proxy!Goto(w, place)
    <3>1. PICK place \in {"close", "error"} : Proxy!Goto(w, place)
      BY <2>3 DEF Proxy!NotFoundSent
    <3> QED
      BY <1>1, <2>1, <2>3, <3>1, AnswerSent
  <2>4. CASE Proxy!Goto(w, "header") /\ UNCHANGED <<header, why>>
    BY <1>1, <2>1, <2>4, AnswerAsBefore
  <2> QED
    BY <1>2, <2>2, <2>3, <2>4, Zenon DEF Proxy!OpenFile, Proxy!wire
<1>3. CASE Proxy!SendOK(w)
  <2>1. /\ pc[w] # "idle" /\ UNCHANGED <<req, why>>
        /\ \E n : Proxy!Header(w, "OK", n) /\ Proxy!Goto(w, "send")
    BY <1>3 DEF Proxy!SendOK
  <2> QED
    BY <1>1, <2>1, AnswerSent
<1>4. CASE Proxy!Finish(w)
  <2>1. /\ pc[w] = "send" /\ UNCHANGED <<header, req, why>> /\ Proxy!Goto(w, "close")
    BY <1>4 DEF Proxy!Finish, Proxy!Return, Proxy!wire
  <2>2. header[req[w]] # Proxy!NoHeader
    <3>1. header[req[w]] = [st |-> "OK", len |-> len[w]]
      BY <2>1, AtWork DEF HandlerInv
    <3>2. header[req[w]].st = "OK" /\ Proxy!NoHeader.st = "none"
      BY <3>1 DEF Proxy!NoHeader
    <3> QED
      BY <3>2
  <2> QED
    BY <1>1, <2>1, <2>2, AnswerAsBefore
<1>5. CASE Proxy!SendResponse(w) \/ Proxy!ReadAndSend(w)
  <2>1. UNCHANGED req
    BY <1>5 DEF Proxy!SendResponse, Proxy!ReadAndSend
  <2>2. CASE Proxy!GiveUp(w)
    <3>1. header' = header /\ Proxy!Blame(w, "quit") /\ Proxy!Goto(w, "error")
      BY <2>2 DEF Proxy!GiveUp, Proxy!Return, Proxy!wire
    <3> QED
      BY <1>1, <2>1, <3>1, BlameGrows, AnswerAsBefore
  <2>3. CASE /\ \E n : Proxy!Chunk(w, n)
             /\ UNCHANGED why \/ Proxy!Blame(w, "grown")
    <3>1. UNCHANGED <<header, pc>> /\ pc[w] = "send"
      BY <1>5, <2>3 DEF Proxy!Chunk, Proxy!Data, Proxy!SendResponse, Proxy!ReadAndSend
    <3>2. \A q \in Requests : why[q] \subseteq why'[q]
      BY <1>1, <2>3, BlameGrows
    <3>3. Grows(w)
      BY <2>1, <3>1, <3>2 DEF Grows
    <3> QED
      BY <3>1, <3>3, AnswerPending
  <2> QED
    BY <1>5, <2>2, <2>3 DEF Proxy!SendResponse, Proxy!ReadAndSend
<1> QED
  BY <1>2, <1>3, <1>4, <1>5

LEMMA LibraryAnswers ==
  ASSUME ProxyInv, AnsweredInv, NEW w \in Workers,
         \/ Proxy!SendError(w) \/ Proxy!Fill(w) \/ Proxy!Close(w)
         \/ \E r \in Requests : Proxy!Call(w, r)
  PROVE  AnsweredInv'
<1>1. ProxyTypes /\ {"init", "open", "close", "drain", "idle"} \subseteq Places
  BY DEF ProxyInv, Places, Early, Late
<1>2. CASE Proxy!SendError(w)
  <2>1. /\ pc[w] # "idle" /\ UNCHANGED <<req, why>>
        /\ Proxy!Header(w, "ERROR", 0) /\ Proxy!Goto(w, "close")
    BY <1>2 DEF Proxy!SendError
  <2> QED
    BY <1>1, <2>1, AnswerSent
<1>3. CASE Proxy!Fill(w)
  <2>1. pc[w] = "close" /\ UNCHANGED <<header, req, why>> /\ Proxy!Goto(w, "drain")
    BY <1>3 DEF Proxy!Fill, Proxy!Data
  <2>2. header[req[w]] # Proxy!NoHeader \/ "mute" \in why'[req[w]]
    BY <2>1 DEF AnsweredInv
  <2> QED
    BY <1>1, <2>1, <2>2, AnswerAsBefore
<1>4. CASE Proxy!Close(w) \/ \E r \in Requests : Proxy!Call(w, r)
  <2>1. /\ UNCHANGED <<header, why>> /\ \A v \in Workers \ {w} : req'[v] = req[v]
        /\ \E place \in {"idle", "init", "open"} : Proxy!Goto(w, place)
    BY <1>1, <1>4 DEF Proxy!Close, Proxy!Call, Proxy!wire, ProxyTypes
  <2>2. Grows(w) /\ pc'[w] \notin {"close", "drain"}
    BY <1>1, <2>1, GotoOthers DEF Grows
  <2> QED
    BY <2>2, AnswerPending
<1> QED
  BY <1>2, <1>3, <1>4

LEMMA AnsweredNext ==
  ProxyInv /\ AnsweredInv /\ [Proxy!Next]_(Proxy!vars) => AnsweredInv'
<1> SUFFICES ASSUME ProxyInv, AnsweredInv, [Proxy!Next]_(Proxy!vars) PROVE AnsweredInv'
  OBVIOUS
<1>1. CASE UNCHANGED Proxy!vars
  BY <1>1, AnswerStays DEF Proxy!vars, Proxy!wire
<1>2. CASE Proxy!SetWorkerArg \/ Proxy!Serve \/ Proxy!Signal
  BY <1>2, AnswerStays DEF Proxy!SetWorkerArg, Proxy!Serve, Proxy!Signal, Proxy!wire
<1>3. ASSUME NEW w \in Workers, Proxy!Killed(w) PROVE AnsweredInv'
  BY <1>3, AnswerStays DEF Proxy!Killed, Proxy!Signal, Proxy!wire
<1>4. ASSUME NEW w \in Workers, Proxy!WorkerStep(w) PROVE AnsweredInv'
  BY <1>4, CurlAnswers, FileAnswers, LibraryAnswers
     DEF Proxy!WorkerStep, Proxy!HandleWithCurl, Proxy!HandleWithFile, Proxy!HandleWithCache
<1>5. ASSUME NEW r \in Requests, Proxy!Accept(r) \/ Proxy!ClientCloses(r) \/ Proxy!Leave(r)
      PROVE  AnsweredInv'
  BY <1>5, AnswerStays DEF Proxy!Accept, Proxy!ClientCloses, Proxy!Leave, Proxy!wire
<1>6. \/ Proxy!SetWorkerArg \/ Proxy!Serve \/ Proxy!Signal
      \/ \E w \in Workers : Proxy!WorkerStep(w) \/ Proxy!Killed(w)
      \/ \E r \in Requests : Proxy!Accept(r) \/ Proxy!ClientCloses(r) \/ Proxy!Leave(r)
      \/ UNCHANGED Proxy!vars
  BY DEF Proxy!Next, Proxy!Workers, Workers
<1> QED
  BY <1>1, <1>2, <1>3, <1>4, <1>5, <1>6

(* The library that drains a connection and the client at its other end    *)
(* wait for one another only if the handler returned without a header      *)
(* (handle_with_curl.c:53-55) or gave up behind one (:87-90, and           *)
(* handle_with_file.c:39-47): else the client has all it waits for.        *)
THEOREM NoWaitInVain ==
  ASSUME Proxy!ThreadsAssumption, Proxy!SizesAssumption, Proxy!LimitAssumption,
         Proxy!NoRequestNotOne
  PROVE  Proxy!SafeSpec => []Proxy!NoMutualWait
<1>1. ProxyInv /\ AnsweredInv => Proxy!NoMutualWait
  <2> SUFFICES ASSUME ProxyInv, AnsweredInv, NEW w \in Workers, pc[w] = "drain",
                      client[req[w]] = "waiting", why[req[w]] \cap {"mute", "quit"} = {}
               PROVE  Proxy!HasAll(req[w])
    BY DEF Proxy!NoMutualWait, Proxy!Workers, Workers
  <2>1. PICK r \in Requests : r = req[w]
    BY AtWork
  <2>2. header[r] # Proxy!NoHeader /\ header[r].st # "none"
    BY <2>1 DEF AnsweredInv
  <2>3. Told(r)
    BY <2>1, <2>2, AtWork DEF HandlerInv
  <2>4. RightCount(r, header[r].len, Len(body[r]))
    BY <2>1, <2>3 DEF Told
  <2>5. header[r].len \in Nat /\ BUFFER_SIZE \in Nat
    BY DEF ProxyInv, ProxyTypes, Headers, ProxyConstants
  <2>6. Len(body[r]) >= header[r].len
    BY <2>4, <2>5 DEF RightCount
  <2> QED
    BY <2>1, <2>2, <2>6 DEF Proxy!HasAll
<1> QED
  BY <1>1, ProxyInvariance, AnsweredInit, AnsweredNext, PTL DEF Proxy!SafeSpec
=============================================================================
