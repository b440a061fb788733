---------------------------- MODULE QueueLemmas -----------------------------
(* What the two ends of a queue do to its elements, and how sequences are  *)
(* cut and joined: lemmas for the proofs.                                  *)
EXTENDS Integers, Sequences, Functions, SequenceTheorems, TLAPS

(* Appending adds one element, and keeps the elements distinct if it is    *)
(* new.                                                                    *)
LEMMA AppendElements ==
  ASSUME NEW S, NEW q \in Seq(S), NEW x \in S
  PROVE  /\ \A y : (\E i \in DOMAIN Append(q, x) : Append(q, x)[i] = y)
                     <=> (\E i \in DOMAIN q : q[i] = y) \/ y = x
         /\ IsInjective(q) /\ (\A i \in DOMAIN q : q[i] # x)
              => IsInjective(Append(q, x))
<1> DEFINE a == Append(q, x)
<1>1. DOMAIN q = 1 .. Len(q) /\ Len(q) \in Nat
  BY LenProperties
<1>2. /\ DOMAIN a = 1 .. (Len(q) + 1)
      /\ \A i \in 1 .. Len(q) : a[i] = q[i]
      /\ a[Len(q) + 1] = x
  BY AppendProperties, <1>1
<1>3. Len(q) + 1 \in 1 .. (Len(q) + 1) /\ \A i \in 1 .. Len(q) : i \in 1 .. (Len(q) + 1)
  BY <1>1
<1>4. \A i \in 1 .. (Len(q) + 1) : i \in 1 .. Len(q) \/ i = Len(q) + 1
  BY <1>1
<1> HIDE DEF a
<1>5. \A y : (\E i \in DOMAIN a : a[i] = y) <=> (\E i \in DOMAIN q : q[i] = y) \/ y = x
  BY <1>1, <1>2, <1>3, <1>4
<1>6. IsInjective(q) /\ (\A i \in DOMAIN q : q[i] # x) => IsInjective(a)
  BY <1>1, <1>2, <1>4 DEF IsInjective
<1> QED
  BY <1>5, <1>6 DEF a

(* Tail takes the head away, and all of it when the elements are distinct. *)
LEMMA TailElements ==
  ASSUME NEW S, NEW q \in Seq(S), q # <<>>
  PROVE  /\ \A y : (\E i \in DOMAIN q : q[i] = y)
                     <=> (\E i \in DOMAIN Tail(q) : Tail(q)[i] = y) \/ y = Head(q)
         /\ IsInjective(q) => /\ IsInjective(Tail(q))
                              /\ \A i \in DOMAIN Tail(q) : Tail(q)[i] # Head(q)
<1> DEFINE t == Tail(q)
<1>1. DOMAIN q = 1 .. Len(q) /\ Len(q) \in Nat /\ Len(q) # 0
  BY LenProperties, EmptySeq
<1>2. /\ DOMAIN t = 1 .. (Len(q) - 1)
      /\ \A i \in 1 .. (Len(q) - 1) : t[i] = q[i + 1]
      /\ Head(q) = q[1]
  BY HeadTailProperties, LenProperties, <1>1
<1>3. 1 \in 1 .. Len(q)
  BY <1>1
<1>4. \A i \in 1 .. Len(q) : i = 1 \/ (i - 1 \in 1 .. (Len(q) - 1) /\ (i - 1) + 1 = i)
  BY <1>1
<1>5. \A i \in 1 .. (Len(q) - 1) : i + 1 \in 1 .. Len(q) /\ i + 1 # 1
  BY <1>1
<1> HIDE DEF t
<1>6. \A y : (\E i \in DOMAIN q : q[i] = y) <=> (\E i \in DOMAIN t : t[i] = y) \/ y = Head(q)
  <2> TAKE y
  <2>1. ASSUME NEW i \in DOMAIN q, q[i] = y, i # 1 PROVE \E j \in DOMAIN t : t[j] = y
    <3>1. i - 1 \in 1 .. (Len(q) - 1) /\ (i - 1) + 1 = i
      BY <1>1, <1>4, <2>1
    <3>2. t[i - 1] = q[i]
      BY <1>2, <3>1
    <3> QED
      BY <1>2, <2>1, <3>1, <3>2
  <2>2. ASSUME NEW i \in DOMAIN t, t[i] = y PROVE \E j \in DOMAIN q : q[j] = y
    BY <1>1, <1>2, <1>5, <2>2
  <2>3. Head(q) = q[1] /\ 1 \in DOMAIN q
    BY <1>1, <1>2, <1>3
  <2> QED
    BY <2>1, <2>2, <2>3
<1>7. IsInjective(q) => IsInjective(t)
  BY <1>1, <1>2, <1>5 DEF IsInjective
<1>8. IsInjective(q) => \A i \in DOMAIN t : t[i] # Head(q)
  BY <1>1, <1>2, <1>3, <1>5 DEF IsInjective
<1> QED
  BY <1>6, <1>7, <1>8 DEF t

(* Adding at the front shifts the others by one. *)
LEMMA ConsElements ==
  ASSUME NEW S, NEW q \in Seq(S), NEW x \in S
  PROVE  /\ <<x>> \o q \in Seq(S)
         /\ Len(<<x>> \o q) = Len(q) + 1
         /\ DOMAIN (<<x>> \o q) = 1 .. (Len(q) + 1)
         /\ (<<x>> \o q)[1] = x
         /\ \A i \in 1 .. Len(q) : (<<x>> \o q)[i + 1] = q[i]
<1>1. <<x>> \in Seq(S) /\ Len(<<x>>) = 1 /\ <<x>>[1] = x
  OBVIOUS
<1>2. Len(q) \in Nat
  BY LenProperties
<1>3. /\ <<x>> \o q \in Seq(S)
      /\ Len(<<x>> \o q) = 1 + Len(q)
      /\ \A i \in 1 .. 1 + Len(q) :
            (<<x>> \o q)[i] = IF i <= 1 THEN <<x>>[i] ELSE q[i - 1]
  BY <1>1, ConcatProperties
<1>4. DOMAIN (<<x>> \o q) = 1 .. (Len(q) + 1)
  BY <1>2, <1>3, LenProperties
<1> DEFINE c == <<x>> \o q
<1> HIDE DEF c
<1>5. \A i \in 1 .. 1 + Len(q) : c[i] = IF i <= 1 THEN <<x>>[i] ELSE q[i - 1]
  BY <1>3 DEF c
<1>6. c[1] = x /\ \A i \in 1 .. Len(q) : c[i + 1] = q[i]
  BY <1>1, <1>2, <1>5
<1> QED
  BY <1>2, <1>3, <1>4, <1>6 DEF c

(* Moving the head to the end shifts the others the other way. *)
LEMMA RotateElements ==
  ASSUME NEW S, NEW q \in Seq(S), q # <<>>
  PROVE  LET r == Append(Tail(q), Head(q))
         IN  /\ r \in Seq(S)
             /\ Len(r) = Len(q)
             /\ DOMAIN r = 1 .. Len(q)
             /\ r[Len(q)] = q[1]
             /\ \A i \in 1 .. (Len(q) - 1) : r[i] = q[i + 1]
<1>1. /\ Head(q) \in S /\ Head(q) = q[1]
      /\ Tail(q) \in Seq(S)
      /\ Len(Tail(q)) = Len(q) - 1
      /\ \A i \in 1 .. Len(Tail(q)) : Tail(q)[i] = q[i + 1]
  BY HeadTailProperties
<1>2. Len(q) \in Nat \ {0}
  BY EmptySeq
<1> DEFINE r == Append(Tail(q), Head(q))
<1>3. /\ r \in Seq(S)
      /\ Len(r) = Len(Tail(q)) + 1
      /\ \A i \in 1 .. Len(Tail(q)) : r[i] = Tail(q)[i]
      /\ r[Len(Tail(q)) + 1] = Head(q)
  BY <1>1, AppendProperties
<1> HIDE DEF r
<1>4. DOMAIN r = 1 .. Len(q)
  BY <1>1, <1>2, <1>3, LenProperties
<1> QED
  BY <1>1, <1>2, <1>3, <1>4 DEF r

(* The beginning of a sequence, and what is left without it.               *)
LEMMA CutProperties ==
  ASSUME NEW S, NEW s \in Seq(S), NEW n \in 0 .. Len(s)
  PROVE  /\ SubSeq(s, 1, n) \in Seq(S) /\ Len(SubSeq(s, 1, n)) = n
         /\ \A b \in 1 .. n : SubSeq(s, 1, n)[b] = s[b]
         /\ SubSeq(s, n + 1, Len(s)) \in Seq(S) /\ Len(SubSeq(s, n + 1, Len(s))) = Len(s) - n
         /\ \A b \in 1 .. Len(s) - n : SubSeq(s, n + 1, Len(s))[b] = s[n + b]
<1>1. Len(s) \in Nat
  BY LenProperties
<1>2. \A b \in 1 .. n : s[b] \in S
  BY <1>1, ElementOfSeq
<1>3. \A b \in n + 1 .. Len(s) : s[b] \in S
  BY <1>1, ElementOfSeq
<1>4. /\ SubSeq(s, 1, n) \in Seq(S)
      /\ Len(SubSeq(s, 1, n)) = IF 1 <= n THEN n - 1 + 1 ELSE 0
      /\ \A b \in 1 .. n - 1 + 1 : SubSeq(s, 1, n)[b] = s[1 + b - 1]
  BY <1>1, <1>2, SubSeqProperties
<1>5. /\ SubSeq(s, n + 1, Len(s)) \in Seq(S)
      /\ Len(SubSeq(s, n + 1, Len(s))) = IF n + 1 <= Len(s) THEN Len(s) - (n + 1) + 1 ELSE 0
      /\ \A b \in 1 .. Len(s) - (n + 1) + 1 :
            SubSeq(s, n + 1, Len(s))[b] = s[(n + 1) + b - 1]
  <2>1. n + 1 \in Int /\ Len(s) \in Int
    BY <1>1
  <2> QED
    BY <1>3, <2>1, SubSeqProperties
<1>6. \A b \in 1 .. n : 1 + b - 1 = b
  OBVIOUS
<1>7. \A b \in 1 .. Len(s) - n : (n + 1) + b - 1 = n + b
  BY <1>1
<1>8. n - 1 + 1 = n /\ Len(s) - (n + 1) + 1 = Len(s) - n
  BY <1>1
<1>9. Len(SubSeq(s, 1, n)) = n /\ Len(SubSeq(s, n + 1, Len(s))) = Len(s) - n
  BY <1>1, <1>4, <1>5
<1>10. \A b \in 1 .. n : SubSeq(s, 1, n)[b] = s[b]
  BY <1>4, <1>6, <1>8
<1>11. \A b \in 1 .. Len(s) - n : SubSeq(s, n + 1, Len(s))[b] = s[n + b]
  BY <1>5, <1>7, <1>8
<1> QED
  BY <1>4, <1>5, <1>9, <1>10, <1>11

(* Two sequences, one behind the other.                                   *)
LEMMA JoinProperties ==
  ASSUME NEW S, NEW s \in Seq(S), NEW t \in Seq(S)
  PROVE  /\ s \o t \in Seq(S) /\ Len(s) \in Nat /\ Len(t) \in Nat
         /\ Len(s \o t) = Len(s) + Len(t)
         /\ \A b \in 1 .. Len(s) : (s \o t)[b] = s[b]
         /\ \A b \in Len(s) + 1 .. Len(s) + Len(t) : (s \o t)[b] = t[b - Len(s)]
<1>1. Len(s) \in Nat /\ Len(t) \in Nat
  BY LenProperties
<1> DEFINE c == s \o t
<1>2. /\ c \in Seq(S) /\ Len(c) = Len(s) + Len(t)
      /\ \A b \in 1 .. Len(s) + Len(t) : c[b] = IF b <= Len(s) THEN s[b] ELSE t[b - Len(s)]
  BY ConcatProperties
<1> HIDE DEF c
<1>3. \A b \in 1 .. Len(s) : b \in 1 .. Len(s) + Len(t) /\ b <= Len(s)
  BY <1>1
<1>4. \A b \in Len(s) + 1 .. Len(s) + Len(t) : b \in 1 .. Len(s) + Len(t) /\ ~ (b <= Len(s))
  BY <1>1
<1> QED
  BY <1>1, <1>2, <1>3, <1>4 DEF c
=============================================================================
