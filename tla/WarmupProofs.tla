----------------------------- MODULE WarmupProofs -----------------------------
(***************************************************************************)
(* Proofs about the two warm-up programs of pr1.  Transfer, for every set  *)
(* of clients, every file, all old local files, every buffer size and      *)
(* every choice of faults; and Echo, for every set of clients, all         *)
(* messages, every buffer and every length of the listen queue.            *)
(***************************************************************************)
EXTENDS Transfer, QueueLemmas

FileBytes == 1 .. FileLen

TypeInv ==
    /\ backlog \in Seq(Clients)
    /\ connfd \in Clients \cup {NoClient}
    /\ pc \in {"bind", "elsewhere", "accept", "open", "read", "send", "close"}
    /\ pos \in 0 .. FileLen
    /\ chunk \in Seq(FileBytes)
    /\ stream \in [Clients -> Seq(FileBytes)]
    /\ fin \subseteq Clients /\ closed \subseteq Clients /\ unread \subseteq Clients
    /\ server \in {"running", "exited"}
    /\ client \in [Clients -> {"new", "failed", "receiving", "succeeded"}]
    /\ recv_size \in [Clients -> Nat]
    /\ saved \in [Clients -> Nat]
    /\ local \in [Clients -> Seq(Nat)]
    /\ unsaved \subseteq Clients

Queued(c) == \E j \in DOMAIN backlog : backlog[j] = c

(* A connection is in the listen queue, accepted, or closed, once; and its *)
(* client has called connect.                                              *)
QueueInv ==
    /\ IsInjective(backlog)
    /\ \A c \in Clients : Queued(c) => c # connfd /\ c \notin closed /\ client[c] # "new"
    /\ connfd \in Clients => connfd \notin closed /\ client[connfd] # "new"
    /\ \A c \in closed : client[c] # "new"
    /\ connfd # NoClient <=> pc \in {"open", "read", "send", "close"}

(* The bytes sent to the client, received or not.                          *)
Out(c) == recv_size[c] + Len(stream[c])

(* The bytes of the file that follow the first k.                          *)
Continues(bytes, k) == \A b \in 1 .. Len(bytes) : bytes[b] = k + b

(* What is under way to the client follows what it has received; what the  *)
(* server has read follows what it has sent; and it closes a connection    *)
(* only at the end of the file or after a failed read.                     *)
SentInv ==
    /\ \A c \in Clients : Continues(stream[c], recv_size[c])
    /\ \A c \in Clients : c \notin closed /\ (c # connfd \/ pc = "open") => Out(c) = 0
    /\ server = "running" =>
          /\ pc \in {"read", "close"} => Out(connfd) = pos
          /\ pc = "send" => Continues(chunk, Out(connfd)) /\ pos = Out(connfd) + Len(chunk)
          /\ pc = "close" => pos = FileLen \/ connfd \in unread
    /\ \A c \in closed \ unread : Out(c) = FileLen

(* SavedInOrder, byte by byte.                                             *)
SavedOf(c) ==
    /\ saved[c] <= Len(local[c])
    /\ \A b \in 1 .. saved[c] : local[c][b] \in 1 .. recv_size[c]
    /\ \A a, b \in 1 .. saved[c] : a < b => local[c][a] < local[c][b]
    /\ c \notin unsaved => /\ saved[c] = recv_size[c]
                           /\ \A b \in 1 .. saved[c] : local[c][b] = b
    /\ \A b \in saved[c] + 1 .. Len(local[c]) : local[c][b] = 0

IInv ==
    /\ TypeInv
    /\ QueueInv
    /\ SentInv
    /\ \A c \in Clients : SavedOf(c)

-----------------------------------------------------------------------------
(* The constants, and sequences of bytes.                                  *)

LEMMA Lengths ==
    /\ FileLen \in Nat /\ BUFSIZE \in Nat \ {0} /\ OldLens \subseteq Nat
    /\ NoClient \notin Clients
BY LengthsAssumption, BufsizeAssumption, NoClientAssumption

LEMMA BytesProperties ==
  ASSUME NEW k \in 0 .. FileLen, NEW n \in 0 .. FileLen - k
  PROVE  /\ Bytes(k, n) \in Seq(FileBytes) /\ Len(Bytes(k, n)) = n
         /\ Continues(Bytes(k, n), k)
<1>1. n \in Nat /\ \A b \in 1 .. n : k + b \in FileBytes
  BY Lengths DEF FileBytes
<1>2. Bytes(k, n) \in Seq(FileBytes) /\ Len(Bytes(k, n)) = n
  BY <1>1 DEF Bytes
<1>3. \A b \in 1 .. n : Bytes(k, n)[b] = k + b
  BY DEF Bytes
<1> QED
  BY <1>2, <1>3 DEF Continues

(* What write leaves: the old beginning, the bytes, and what of the old    *)
(* file is behind them.                                                    *)
LEMMA OverwrittenProperties ==
  ASSUME NEW old \in Seq(Nat), NEW bytes \in Seq(Nat), NEW from \in 0 .. Len(old)
  PROVE  LET new == Overwritten(old, from, bytes)
         IN  /\ new \in Seq(Nat) /\ Len(bytes) \in Nat
             /\ from + Len(bytes) <= Len(new)
             /\ \A b \in 1 .. from : new[b] = old[b]
             /\ \A b \in from + 1 .. from + Len(bytes) : new[b] = bytes[b - from]
             /\ \A b \in from + Len(bytes) + 1 .. Len(new) :
                   b \in 1 .. Len(old) /\ new[b] = old[b]
<1> DEFINE n == from + Len(bytes)
           head == SubSeq(old, 1, from)
           rest == SubSeq(old, n + 1, Len(old))
<1>1. Len(old) \in Nat /\ Len(bytes) \in Nat /\ from \in Nat
  BY LenProperties
<1>2. /\ head \in Seq(Nat) /\ Len(head) = from
      /\ \A b \in 1 .. from : head[b] = old[b]
  BY CutProperties
<1>3. /\ rest \in Seq(Nat)
      /\ Len(rest) = IF n + 1 <= Len(old) THEN Len(old) - n ELSE 0
      /\ \A b \in 1 .. Len(old) - n : rest[b] = old[n + b]
  <2>1. CASE n <= Len(old)
    <3>1. n \in 0 .. Len(old)
      BY <1>1, <2>1
    <3>2. /\ rest \in Seq(Nat) /\ Len(rest) = Len(old) - n
          /\ \A b \in 1 .. Len(old) - n : rest[b] = old[n + b]
      BY <3>1, CutProperties
    <3> QED
      BY <1>1, <3>1, <3>2
  <2>2. CASE ~ (n <= Len(old))
    <3>1. n + 1 \in Int /\ Len(old) \in Int /\ ~ (n + 1 <= Len(old)) /\ 1 .. Len(old) - n = {}
      BY <1>1, <2>2
    <3>2. \A b \in n + 1 .. Len(old) : old[b] \in Nat
      BY <1>1, <2>2
    <3>3. rest \in Seq(Nat) /\ Len(rest) = IF n + 1 <= Len(old) THEN Len(old) - (n + 1) + 1 ELSE 0
      BY <3>1, <3>2, SubSeqProperties
    <3> QED
      BY <3>1, <3>3
  <2> QED
    BY <2>1, <2>2
<1>4. n \in Nat
  BY <1>1
<1> HIDE DEF head, rest, n
<1> DEFINE front == head \o bytes
<1>5. /\ front \in Seq(Nat) /\ Len(front) = n
      /\ \A b \in 1 .. from : front[b] = old[b]
      /\ \A b \in from + 1 .. n : front[b] = bytes[b - from]
  <2>1. /\ front \in Seq(Nat) /\ Len(front) = Len(head) + Len(bytes)
        /\ \A b \in 1 .. Len(head) : front[b] = head[b]
        /\ \A b \in Len(head) + 1 .. Len(head) + Len(bytes) : front[b] = bytes[b - Len(head)]
    <3>1. head \in Seq(Nat) /\ bytes \in Seq(Nat)
      BY <1>2
    <3> QED
      BY <3>1, JoinProperties, Zenon
  <2> QED
    BY <1>2, <2>1 DEF n
<1> HIDE DEF front
<1> DEFINE new == front \o rest
<1>6. /\ new \in Seq(Nat) /\ Len(new) = n + Len(rest) /\ Len(rest) \in Nat
      /\ \A b \in 1 .. n : new[b] = front[b]
      /\ \A b \in n + 1 .. n + Len(rest) : new[b] = rest[b - n]
  <2>1. /\ new \in Seq(Nat) /\ Len(new) = Len(front) + Len(rest) /\ Len(rest) \in Nat
        /\ \A b \in 1 .. Len(front) : new[b] = front[b]
        /\ \A b \in Len(front) + 1 .. Len(front) + Len(rest) : new[b] = rest[b - Len(front)]
    <3>1. front \in Seq(Nat) /\ rest \in Seq(Nat)
      BY <1>3, <1>5
    <3> QED
      BY <3>1, JoinProperties, Zenon
  <2> QED
    BY <1>5, <2>1
<1>7. Overwritten(old, from, bytes) = new
  BY DEF Overwritten, new, front, head, rest, n
<1> HIDE DEF new
<1>8. \A b \in n + 1 .. Len(new) : b \in 1 .. Len(old) /\ new[b] = old[b]
  <2> SUFFICES ASSUME NEW b \in n + 1 .. Len(new)
               PROVE  b \in 1 .. Len(old) /\ new[b] = old[b]
    OBVIOUS
  <2>1. b - n \in 1 .. Len(rest) /\ b \in n + 1 .. n + Len(rest)
    BY <1>4, <1>6
  <2>2. Len(rest) = Len(old) - n
    BY <1>1, <1>3, <1>4, <2>1
  <2>3. b - n \in 1 .. Len(old) - n /\ n + (b - n) = b /\ b \in 1 .. Len(old)
    BY <1>1, <1>4, <2>1, <2>2
  <2>4. new[b] = rest[b - n] /\ rest[b - n] = old[n + (b - n)]
    BY <1>3, <1>6, <2>1, <2>3
  <2> QED
    BY <2>3, <2>4
<1>9. \A b \in 1 .. from : b \in 1 .. n
  BY <1>1 DEF n
<1>10. \A b \in from + 1 .. n : b \in 1 .. n
  BY <1>1, <1>4
<1>11. n <= Len(new)
  BY <1>4, <1>6
<1>12. \A b \in 1 .. from : new[b] = old[b]
  BY <1>5, <1>6, <1>9
<1>13. \A b \in from + 1 .. n : new[b] = bytes[b - from]
  BY <1>5, <1>6, <1>10
<1> QED
  BY <1>1, <1>6, <1>7, <1>8, <1>11, <1>12, <1>13 DEF n

LEMMA ContinuesJoin ==
  ASSUME NEW s \in Seq(FileBytes), NEW t \in Seq(FileBytes), NEW k \in Nat,
         Continues(s, k), Continues(t, k + Len(s))
  PROVE  /\ s \o t \in Seq(FileBytes) /\ Len(s \o t) = Len(s) + Len(t)
         /\ Continues(s \o t, k)
<1> DEFINE c == s \o t
<1>1. /\ c \in Seq(FileBytes) /\ Len(s) \in Nat /\ Len(t) \in Nat
      /\ Len(c) = Len(s) + Len(t)
      /\ \A b \in 1 .. Len(s) : c[b] = s[b]
      /\ \A b \in Len(s) + 1 .. Len(s) + Len(t) : c[b] = t[b - Len(s)]
  BY JoinProperties
<1> HIDE DEF c
<1>2. ASSUME NEW b \in 1 .. Len(c) PROVE c[b] = k + b
  <2>1. CASE b <= Len(s)
    <3>1. b \in 1 .. Len(s)
      BY <1>1, <2>1
    <3> QED
      BY <1>1, <3>1 DEF Continues
  <2>2. CASE ~ (b <= Len(s))
    <3>1. b \in Len(s) + 1 .. Len(s) + Len(t) /\ b - Len(s) \in 1 .. Len(t)
      BY <1>1, <2>2
    <3>2. c[b] = t[b - Len(s)] /\ t[b - Len(s)] = k + Len(s) + (b - Len(s))
      BY <1>1, <3>1 DEF Continues
    <3> QED
      BY <1>1, <3>2
  <2> QED
    BY <2>1, <2>2
<1>3. Continues(c, k)
  BY <1>2 DEF Continues
<1> QED
  BY <1>1, <1>3 DEF c

LEMMA ContinuesCut ==
  ASSUME NEW s \in Seq(FileBytes), NEW k \in Nat, NEW n \in 0 .. Len(s), Continues(s, k)
  PROVE  /\ Continues(SubSeq(s, 1, n), k)
         /\ Continues(SubSeq(s, n + 1, Len(s)), k + n)
<1>1. Len(s) \in Nat
  BY LenProperties
<1>2. /\ Len(SubSeq(s, 1, n)) = n
      /\ \A b \in 1 .. n : SubSeq(s, 1, n)[b] = s[b]
      /\ Len(SubSeq(s, n + 1, Len(s))) = Len(s) - n
      /\ \A b \in 1 .. Len(s) - n : SubSeq(s, n + 1, Len(s))[b] = s[n + b]
  BY CutProperties
<1>3. \A b \in 1 .. n : b \in 1 .. Len(s)
  BY <1>1
<1>4. \A b \in 1 .. Len(s) - n : n + b \in 1 .. Len(s) /\ k + (n + b) = k + n + b
  BY <1>1
<1> QED
  BY <1>2, <1>3, <1>4 DEF Continues

LEMMA InitInv == Init => IInv
<1> SUFFICES ASSUME Init PROVE IInv
  OBVIOUS
<1> USE Lengths
<1>1. PICK old \in [Clients -> OldLens] : local = [c \in Clients |-> [b \in 1 .. old[c] |-> 0]]
  BY DEF Init
<1>2. \A c \in Clients : /\ old[c] \in Nat /\ local[c] = [b \in 1 .. old[c] |-> 0]
                         /\ local[c] \in Seq(Nat) /\ Len(local[c]) = old[c]
                         /\ \A b \in 1 .. old[c] : local[c][b] = 0
  <2> SUFFICES ASSUME NEW c \in Clients
               PROVE  /\ old[c] \in Nat /\ local[c] = [b \in 1 .. old[c] |-> 0]
                      /\ local[c] \in Seq(Nat) /\ Len(local[c]) = old[c]
                      /\ \A b \in 1 .. old[c] : local[c][b] = 0
    OBVIOUS
  <2>1. old[c] \in Nat /\ local[c] = [b \in 1 .. old[c] |-> 0]
    BY <1>1
  <2>2. [b \in 1 .. old[c] |-> 0] \in Seq(Nat) /\ Len([b \in 1 .. old[c] |-> 0]) = old[c]
    BY <2>1
  <2> QED
    BY <2>1, <2>2
<1>3. local \in [Clients -> Seq(Nat)]
  BY <1>1, <1>2
<1>4. <<>> \in Seq(Clients) /\ <<>> \in Seq(FileBytes) /\ Len(<<>>) = 0
  BY EmptySeq
<1>5. /\ backlog = <<>> /\ connfd = NoClient /\ pc = "bind" /\ pos = 0 /\ chunk = <<>>
      /\ stream = [c \in Clients |-> <<>>] /\ fin = {} /\ closed = {} /\ unread = {}
      /\ server = "running" /\ client = [c \in Clients |-> "new"]
      /\ recv_size = [c \in Clients |-> 0] /\ saved = [c \in Clients |-> 0] /\ unsaved = {}
  BY DEF Init
<1>6. TypeInv
  BY <1>3, <1>4, <1>5 DEF TypeInv
<1>7. QueueInv
  BY <1>4, <1>5 DEF QueueInv, Queued, IsInjective
<1>8. SentInv
  BY <1>4, <1>5 DEF SentInv, Continues, Out
<1>9. ASSUME NEW c \in Clients PROVE SavedOf(c)
  <2>1. /\ old[c] \in Nat /\ Len(local[c]) = old[c]
        /\ \A b \in 1 .. old[c] : local[c][b] = 0
    BY <1>2
  <2>2. recv_size[c] = 0 /\ saved[c] = 0
    BY <1>5
  <2> QED
    BY <2>1, <2>2 DEF SavedOf
<1> QED
  BY <1>6, <1>7, <1>8, <1>9 DEF IInv

-----------------------------------------------------------------------------
(* The server's steps.                                                     *)

LEMMA ExitsStep ==
  ASSUME IInv, ServerExits
  PROVE  IInv'
<1>1. /\ server' = "exited" /\ fin' = Clients
      /\ UNCHANGED <<backlog, connfd, pc, pos, chunk, stream, closed, unread, client,
                     recv_size, saved, local, unsaved>>
  BY DEF ServerExits, sending, clients
<1>2. TypeInv' /\ QueueInv'
  BY <1>1 DEF IInv, TypeInv, QueueInv, Queued
<1>3. SentInv'
  BY <1>1 DEF IInv, SentInv, Out, Continues
<1>4. \A c \in Clients : SavedOf(c)'
  BY <1>1 DEF IInv, SavedOf
<1> QED
  BY <1>2, <1>3, <1>4 DEF IInv

(* Bind, OpenFile and ReadEnds change no sequence.                         *)
LEMMA BindOpenEndStep ==
  ASSUME IInv, Bind \/ OpenFile \/ ReadEnds
  PROVE  IInv'
<1>1. UNCHANGED <<backlog, connfd, chunk, stream, fin, closed, server, client,
                  recv_size, saved, local, unsaved>>
  BY DEF Bind, OpenFile, ReadEnds, clients
<1>2. \/ /\ pc = "bind" /\ pc' \in {"accept", "elsewhere"}
         /\ pos' = pos /\ unread' = unread
      \/ pc = "open" /\ pos' = 0 /\ pc' = "read" /\ unread' = unread
      \/ /\ pc = "read" /\ pc' = "close" /\ pos' = pos
         /\ \/ pos = FileLen /\ unread' = unread
            \/ unread' = unread \cup {connfd}
  BY DEF Bind, OpenFile, ReadEnds, Start
<1>3. TypeInv /\ QueueInv /\ SentInv
  BY DEF IInv
<1>4. pc \in {"open", "read"} => connfd \in Clients /\ connfd \notin closed
  BY <1>3 DEF TypeInv, QueueInv
<1>5. TypeInv'
  <2>1. unread' \subseteq Clients
    BY <1>2, <1>3, <1>4 DEF TypeInv
  <2>2. pos' \in 0 .. FileLen
    BY <1>2, <1>3, Lengths DEF TypeInv
  <2> QED
    BY <1>1, <1>2, <1>3, <2>1, <2>2 DEF TypeInv
<1>6. QueueInv'
  BY <1>1, <1>2, <1>3 DEF QueueInv, Queued
<1>7. SentInv'
  <2>1. \A c \in Clients : Out(c)' = Out(c)
    BY <1>1 DEF Out
  <2>2. \A c \in Clients : Continues(stream[c], recv_size[c])'
    BY <1>1, <1>3 DEF SentInv, Continues
  <2>3. \A c \in Clients : c \notin closed' /\ (c # connfd' \/ pc' = "open") => Out(c)' = 0
    BY <1>1, <1>2, <1>3, <2>1 DEF SentInv
  <2>4. server' = "running" /\ pc' \in {"read", "close"} => Out(connfd)' = pos'
    BY <1>1, <1>2, <1>3, <1>4, <2>1 DEF SentInv, Out
  <2>5. server' = "running" /\ pc' = "close" => pos' = FileLen \/ connfd' \in unread'
    BY <1>1, <1>2
  <2>6. \A c \in closed' \ unread' : Out(c)' = FileLen
    BY <1>1, <1>2, <1>3, <2>1 DEF SentInv, TypeInv
  <2>7. pc' # "send"
    BY <1>2
  <2> QED
    BY <2>2, <2>3, <2>4, <2>5, <2>6, <2>7 DEF SentInv
<1>8. \A c \in Clients : SavedOf(c)'
  BY <1>1 DEF IInv, SavedOf
<1> QED
  BY <1>5, <1>6, <1>7, <1>8 DEF IInv

LEMMA AcceptStep ==
  ASSUME IInv, Accept
  PROVE  IInv'
<1>0. PICK h : h = Head(backlog)
  OBVIOUS
<1>1. /\ pc = "accept" /\ backlog # <<>> /\ connfd' = Head(backlog)
      /\ backlog' = Tail(backlog) /\ pc' = "open"
      /\ UNCHANGED <<pos, chunk, stream, fin, closed, unread, server, client, recv_size,
                     saved, local, unsaved>>
  BY DEF Accept, clients
<1>2. TypeInv /\ QueueInv /\ SentInv
  BY DEF IInv
<1>3. backlog \in Seq(Clients) /\ IsInjective(backlog)
  BY <1>2 DEF TypeInv, QueueInv
<1>4. /\ \A c : Queued(c) <=> Queued(c)' \/ c = h
      /\ IsInjective(Tail(backlog)) /\ ~ Queued(h)'
  <2>1. /\ \A c : (\E j \in DOMAIN backlog : backlog[j] = c)
                    <=> (\E j \in DOMAIN Tail(backlog) : Tail(backlog)[j] = c)
                        \/ c = Head(backlog)
        /\ IsInjective(Tail(backlog))
        /\ \A j \in DOMAIN Tail(backlog) : Tail(backlog)[j] # Head(backlog)
    BY <1>1, <1>3, TailElements
  <2>2. \A c : Queued(c)' <=> \E j \in DOMAIN Tail(backlog) : Tail(backlog)[j] = c
    BY <1>1 DEF Queued
  <2> QED
    BY <1>0, <2>1, <2>2 DEF Queued
<1>5. h \in Clients /\ connfd' = h /\ Tail(backlog) \in Seq(Clients)
  BY <1>0, <1>1, <1>3, HeadTailProperties
<1>6. TypeInv'
  BY <1>1, <1>2, <1>5 DEF TypeInv
<1>7. Queued(h) /\ connfd = NoClient
  BY <1>1, <1>2, <1>4 DEF QueueInv
<1>8. QueueInv'
  <2>1. h \notin closed /\ client[h] # "new"
    BY <1>2, <1>5, <1>7 DEF QueueInv
  <2>2. h # NoClient
    BY <1>5, Lengths
  <2>3. \A c \in Clients : Queued(c)' => c # h /\ c \notin closed /\ client[c] # "new"
    BY <1>2, <1>4 DEF QueueInv
  <2> QED
    BY <1>1, <1>2, <1>4, <1>5, <2>1, <2>2, <2>3 DEF QueueInv
<1>9. SentInv'
  <2>1. \A c \in Clients : Out(c)' = Out(c) /\ c # connfd
    BY <1>1, <1>7, Lengths DEF Out
  <2>2. \A c \in Clients : Continues(stream[c], recv_size[c])'
    BY <1>1, <1>2 DEF SentInv, Continues
  <2>3. \A c \in Clients : c \notin closed => Out(c)' = 0
    BY <1>2, <2>1 DEF SentInv
  <2>4. \A c \in closed \ unread : Out(c)' = FileLen
    BY <1>2, <2>1 DEF SentInv, TypeInv
  <2> QED
    BY <1>1, <2>2, <2>3, <2>4 DEF SentInv
<1>10. \A c \in Clients : SavedOf(c)'
  BY <1>1 DEF IInv, SavedOf
<1> QED
  BY <1>6, <1>8, <1>9, <1>10 DEF IInv

LEMMA ReadStep ==
  ASSUME IInv, server = "running", Read
  PROVE  IInv'
<1>1. /\ pc = "read" /\ pos < FileLen /\ pc' = "send"
      /\ UNCHANGED <<backlog, connfd, stream, fin, closed, unread, server, client, recv_size,
                     saved, local, unsaved>>
  BY DEF Read, clients
<1>2. PICK n \in 1 .. Smaller(BUFSIZE, FileLen - pos) : chunk' = Bytes(pos, n) /\ pos' = pos + n
  BY DEF Read
<1>3. TypeInv /\ QueueInv /\ SentInv
  BY DEF IInv
<1>4. /\ pos \in 0 .. FileLen /\ n \in 0 .. FileLen - pos /\ pos' \in 0 .. FileLen
      /\ connfd \in Clients /\ connfd \notin closed
  BY <1>1, <1>2, <1>3, Lengths DEF TypeInv, QueueInv, Smaller
<1>5. chunk' \in Seq(FileBytes) /\ Len(chunk') = n /\ Continues(chunk', pos)
  BY <1>2, <1>4, BytesProperties
<1>6. TypeInv'
  BY <1>1, <1>3, <1>4, <1>5 DEF TypeInv
<1>7. QueueInv'
  BY <1>1, <1>3 DEF QueueInv, Queued
<1>8. SentInv'
  <2>1. \A c \in Clients : Out(c)' = Out(c)
    BY <1>1 DEF Out
  <2>2. Out(connfd)' = pos
    BY <1>1, <1>3, <1>4, <2>1 DEF SentInv, Out
  <2>3. Continues(chunk, Out(connfd))' /\ pos' = Out(connfd)' + Len(chunk')
    BY <1>2, <1>5, <2>2 DEF Continues
  <2>4. \A c \in Clients : Continues(stream[c], recv_size[c])'
    BY <1>1, <1>3 DEF SentInv, Continues
  <2>5. \A c \in Clients : c \notin closed' /\ (c # connfd' \/ pc' = "open") => Out(c)' = 0
    BY <1>1, <1>3, <2>1 DEF SentInv
  <2>6. \A c \in closed' \ unread' : Out(c)' = FileLen
    BY <1>1, <1>3, <2>1 DEF SentInv, TypeInv
  <2> QED
    BY <1>1, <2>3, <2>4, <2>5, <2>6 DEF SentInv
<1>9. \A c \in Clients : SavedOf(c)'
  BY <1>1 DEF IInv, SavedOf
<1> QED
  BY <1>6, <1>7, <1>8, <1>9 DEF IInv

(* Some or all of the chunk goes out; all of it only if the server goes on. *)
LEMMA SendStep ==
  ASSUME IInv, NEW n \in 0 .. Len(chunk), pc = "send", server = "running",
         stream' = [stream EXCEPT ![connfd] = @ \o SubSeq(chunk, 1, n)],
         \/ /\ n = Len(chunk) /\ chunk' = <<>> /\ pc' = "read"
            /\ server' = "running" /\ fin' = fin
         \/ chunk' = chunk /\ pc' = pc /\ server' = "exited" /\ fin' = Clients,
         UNCHANGED <<backlog, connfd, pos, closed, unread, client, recv_size, saved, local, unsaved>>
  PROVE  IInv'
<1>1. TypeInv /\ QueueInv /\ SentInv
  BY DEF IInv
<1>2. /\ connfd \in Clients /\ connfd \notin closed
      /\ stream \in [Clients -> Seq(FileBytes)] /\ chunk \in Seq(FileBytes)
      /\ recv_size \in [Clients -> Nat]
      /\ stream[connfd] \in Seq(FileBytes) /\ recv_size[connfd] \in Nat
  BY <1>1 DEF TypeInv, QueueInv
<1>3. /\ Continues(stream[connfd], recv_size[connfd])
      /\ Continues(chunk, recv_size[connfd] + Len(stream[connfd]))
      /\ pos = recv_size[connfd] + Len(stream[connfd]) + Len(chunk)
  BY <1>1, <1>2 DEF SentInv, Out
<1>4. Len(stream[connfd]) \in Nat /\ Len(chunk) \in Nat /\ n \in Nat
  BY <1>2, LenProperties
<1>5. PICK part : part = SubSeq(chunk, 1, n)
  OBVIOUS
<1>6. part \in Seq(FileBytes) /\ Len(part) = n
  BY <1>2, <1>5, CutProperties
<1>7. recv_size[connfd] + Len(stream[connfd]) \in Nat
  BY <1>2, <1>4
<1>8. Continues(part, recv_size[connfd] + Len(stream[connfd]))
  BY <1>2, <1>3, <1>5, <1>7, ContinuesCut
<1>9. PICK out : out = stream[connfd] \o part
  OBVIOUS
<1>10. /\ out \in Seq(FileBytes) /\ Continues(out, recv_size[connfd])
       /\ Len(out) = Len(stream[connfd]) + n
  BY <1>2, <1>3, <1>6, <1>8, <1>9, ContinuesJoin
<1>11. stream' = [stream EXCEPT ![connfd] = out]
  BY <1>5, <1>9
<1>12. /\ stream' \in [Clients -> Seq(FileBytes)] /\ stream'[connfd] = out
       /\ \A c \in Clients \ {connfd} : stream'[c] = stream[c]
  BY <1>2, <1>10, <1>11
<1>13. TypeInv'
  <2>1. chunk' \in Seq(FileBytes)
    BY <1>2, EmptySeq
  <2> QED
    BY <1>1, <1>12, <2>1 DEF TypeInv
<1>14. QueueInv'
  BY <1>1 DEF QueueInv, Queued
<1>15. SentInv'
  <2>1. \A c \in Clients : Continues(stream[c], recv_size[c])'
    BY <1>1, <1>10, <1>12 DEF SentInv, Continues
  <2>2. \A c \in Clients \ {connfd} : Out(c)' = Out(c)
    BY <1>12 DEF Out
  <2>3. pc' = "read" => Out(connfd)' = pos'
    BY <1>2, <1>3, <1>4, <1>10, <1>12 DEF Out
  <2>4. \A c \in Clients : c \notin closed' /\ (c # connfd' \/ pc' = "open") => Out(c)' = 0
    BY <1>1, <2>2 DEF SentInv
  <2>5. \A c \in closed' \ unread' : Out(c)' = FileLen
    BY <1>1, <1>2, <2>2 DEF SentInv, TypeInv
  <2> QED
    BY <2>1, <2>3, <2>4, <2>5 DEF SentInv
<1>16. \A c \in Clients : SavedOf(c)'
  BY DEF IInv, SavedOf
<1> QED
  BY <1>13, <1>14, <1>15, <1>16 DEF IInv

LEMMA CloseStep ==
  ASSUME IInv, server = "running", Close
  PROVE  IInv'
<1>1. /\ pc = "close" /\ pc' = "accept" /\ connfd' = NoClient
      /\ fin' = fin \cup {connfd} /\ closed' = closed \cup {connfd}
      /\ UNCHANGED <<backlog, pos, chunk, stream, unread, server, client, recv_size, saved, local, unsaved>>
  BY DEF Close, After, clients
<1>2. TypeInv /\ QueueInv /\ SentInv
  BY DEF IInv
<1>3. connfd \in Clients /\ client[connfd] # "new" /\ ~ Queued(connfd)
  BY <1>1, <1>2 DEF TypeInv, QueueInv
<1>4. Out(connfd) = FileLen \/ connfd \in unread
  BY <1>1, <1>2 DEF SentInv
<1>5. TypeInv'
  BY <1>1, <1>2, <1>3 DEF TypeInv
<1>6. QueueInv'
  <2>1. \A c \in Clients : Queued(c)' <=> Queued(c)
    BY <1>1 DEF Queued
  <2> QED
    BY <1>1, <1>2, <1>3, <2>1, Lengths DEF QueueInv
<1>7. SentInv'
  <2>1. \A c \in Clients : Out(c)' = Out(c)
    BY <1>1 DEF Out
  <2>2. \A c \in Clients : Continues(stream[c], recv_size[c])'
    BY <1>1, <1>2 DEF SentInv, Continues
  <2>3. \A c \in Clients : c \notin closed' => Out(c)' = 0
    BY <1>1, <1>2, <2>1 DEF SentInv
  <2>4. \A c \in closed' \ unread' : Out(c)' = FileLen
    BY <1>1, <1>2, <1>3, <1>4, <2>1 DEF SentInv, TypeInv
  <2> QED
    BY <1>1, <2>2, <2>3, <2>4 DEF SentInv
<1>8. \A c \in Clients : SavedOf(c)'
  BY <1>1 DEF IInv, SavedOf
<1> QED
  BY <1>5, <1>6, <1>7, <1>8 DEF IInv

LEMMA ServerStepInv ==
  ASSUME IInv, ServerStep \/ (server = "running" /\ AcceptFails)
  PROVE  IInv'
<1>1. chunk \in Seq(FileBytes) /\ Len(chunk) \in Nat
  BY LenProperties DEF IInv, TypeInv
<1>2. CASE Bind \/ OpenFile \/ ReadEnds
  BY <1>2, BindOpenEndStep
<1>3. CASE Accept
  BY <1>3, AcceptStep
<1>4. CASE server = "running" /\ Read
  BY <1>4, ReadStep
<1>5. CASE server = "running" /\ Send
  <2>1. SubSeq(chunk, 1, Len(chunk)) = chunk /\ Len(chunk) \in 0 .. Len(chunk)
    BY <1>1
  <2>2. /\ pc = "send" /\ stream' = [stream EXCEPT ![connfd] = @ \o chunk]
        /\ chunk' = <<>> /\ pc' = "read"
        /\ UNCHANGED <<backlog, connfd, pos, fin, closed, unread, server, client, recv_size,
                       saved, local, unsaved>>
    BY <1>5 DEF Send, clients
  <2> QED
    BY <1>5, <2>1, <2>2, SendStep
<1>6. CASE server = "running" /\ Close
  BY <1>6, CloseStep
<1>7. CASE OpenFails \/ AcceptFails
  BY <1>7, ExitsStep DEF OpenFails, AcceptFails
<1>8. CASE server = "running" /\ SendFails
  <2>1. CASE ServerExits
    BY <2>1, ExitsStep
  <2>2. CASE ~ ServerExits
    <3>1. /\ pc = "send" /\ server' = "exited" /\ fin' = Clients
          /\ UNCHANGED <<backlog, connfd, pc, pos, chunk, closed, unread, client, recv_size,
                         saved, local, unsaved>>
      BY <1>8, <2>2 DEF SendFails, sending, clients
    <3>2. PICK n \in 1 .. Len(chunk) - 1 :
             stream' = [stream EXCEPT ![connfd] = @ \o SubSeq(chunk, 1, n)]
      BY <1>8, <2>2 DEF SendFails
    <3>3. n \in 0 .. Len(chunk)
      BY <1>1, <3>2
    <3> QED
      BY <1>8, <3>1, <3>2, <3>3, SendStep
  <2> QED
    BY <2>1, <2>2
<1> QED
  BY <1>2, <1>3, <1>4, <1>5, <1>6, <1>7, <1>8 DEF ServerStep

-----------------------------------------------------------------------------
(* The clients' steps.                                                     *)

LEMMA ConnectStep ==
  ASSUME IInv, NEW c \in Clients, Connect(c)
  PROVE  IInv'
<1>1. /\ client[c] = "new" /\ backlog' = Append(backlog, c)
      /\ \E how \in {"receiving", "succeeded"} : client' = [client EXCEPT ![c] = how]
      /\ UNCHANGED <<connfd, pc, pos, chunk, stream, fin, closed, unread, server, recv_size,
                     saved, local, unsaved>>
  BY DEF Connect, sending
<1>2. TypeInv /\ QueueInv
  BY DEF IInv
<1>3. /\ backlog \in Seq(Clients)
      /\ client \in [Clients -> {"new", "failed", "receiving", "succeeded"}]
      /\ ~ Queued(c) /\ c # connfd /\ c \notin closed
  BY <1>1, <1>2 DEF TypeInv, QueueInv
<1>4. backlog' \in Seq(Clients)
  BY <1>1, <1>3, AppendProperties
<1>5. (\A d : Queued(d)' <=> Queued(d) \/ d = c) /\ IsInjective(backlog')
  <2>1. /\ \A d : (\E j \in DOMAIN Append(backlog, c) : Append(backlog, c)[j] = d)
                     <=> (\E j \in DOMAIN backlog : backlog[j] = d) \/ d = c
        /\ IsInjective(backlog) /\ (\A j \in DOMAIN backlog : backlog[j] # c)
              => IsInjective(Append(backlog, c))
    BY <1>3, AppendElements
  <2>2. IsInjective(Append(backlog, c))
    BY <1>2, <1>3, <2>1 DEF QueueInv, Queued
  <2> QED
    BY <1>1, <2>1, <2>2 DEF Queued
<1>6. /\ client' \in [Clients -> {"new", "failed", "receiving", "succeeded"}]
      /\ client'[c] # "new" /\ \A d \in Clients \ {c} : client'[d] = client[d]
  BY <1>1, <1>3
<1>7. TypeInv'
  BY <1>1, <1>2, <1>4, <1>6 DEF TypeInv
<1>8. QueueInv'
  BY <1>1, <1>2, <1>3, <1>5, <1>6 DEF QueueInv, TypeInv
<1>9. SentInv' /\ \A d \in Clients : SavedOf(d)'
  BY <1>1 DEF IInv, SentInv, SavedOf, Out, Continues
<1> QED
  BY <1>7, <1>8, <1>9 DEF IInv

(* What recv takes from the stream, it counts.                             *)
LEMMA TakenStep ==
  ASSUME IInv, NEW c \in Clients, NEW n \in 1 .. Smaller(BUFSIZE, Len(stream[c])), Taken(c, n),
         UNCHANGED <<connfd, pc, pos, chunk, closed, unread, server>>
  PROVE  /\ n \in Nat /\ n \in 0 .. Len(stream[c])
         /\ recv_size'[c] = recv_size[c] + n
         /\ \A d \in Clients \ {c} : recv_size'[d] = recv_size[d]
         /\ stream' \in [Clients -> Seq(FileBytes)] /\ recv_size' \in [Clients -> Nat]
         /\ SentInv'
<1>2. /\ recv_size' = [recv_size EXCEPT ![c] = recv_size[c] + n]
      /\ stream' = [stream EXCEPT ![c] = SubSeq(stream[c], n + 1, Len(stream[c]))]
  BY DEF Taken
<1>3. TypeInv /\ QueueInv /\ SentInv
  BY DEF IInv
<1>4. /\ stream \in [Clients -> Seq(FileBytes)] /\ stream[c] \in Seq(FileBytes)
      /\ recv_size \in [Clients -> Nat] /\ recv_size[c] \in Nat
      /\ Len(stream[c]) \in Nat
  BY <1>3, LenProperties DEF TypeInv
<1>5. n \in 0 .. Len(stream[c]) /\ n \in Nat
  BY <1>4, Lengths DEF Smaller
<1>6. PICK rest : rest = SubSeq(stream[c], n + 1, Len(stream[c]))
  OBVIOUS
<1>7. rest \in Seq(FileBytes) /\ Len(rest) = Len(stream[c]) - n
  BY <1>4, <1>5, <1>6, CutProperties
<1>8. Continues(rest, recv_size[c] + n)
  <2>1. Continues(stream[c], recv_size[c])
    BY <1>3 DEF SentInv
  <2> QED
    BY <1>4, <1>5, <1>6, <2>1, ContinuesCut
<1>12. /\ stream'[c] = rest /\ recv_size'[c] = recv_size[c] + n
       /\ \A d \in Clients \ {c} : stream'[d] = stream[d] /\ recv_size'[d] = recv_size[d]
       /\ stream' \in [Clients -> Seq(FileBytes)]
       /\ recv_size' \in [Clients -> Nat]
  BY <1>2, <1>4, <1>5, <1>6, <1>7
<1>15. SentInv'
  <2>1. Out(c)' = Out(c)
    <3>1. Out(c)' = recv_size'[c] + Len(stream'[c])
      BY DEF Out
    <3>2. Out(c)' = (recv_size[c] + n) + Len(rest)
      BY <1>12, <3>1
    <3>3. (recv_size[c] + n) + Len(rest) = recv_size[c] + Len(stream[c])
      BY <1>4, <1>5, <1>7
    <3> QED
      BY <3>2, <3>3 DEF Out
  <2>2. \A d \in Clients : Out(d)' = Out(d)
    BY <1>12, <2>1 DEF Out
  <2>3. \A d \in Clients : Continues(stream[d], recv_size[d])'
    <3>1. Continues(stream'[c], recv_size'[c])
      BY <1>8, <1>12
    <3>2. \A d \in Clients \ {c} : Continues(stream'[d], recv_size'[d])
      BY <1>3, <1>12 DEF SentInv
    <3> QED
      BY <3>1, <3>2 DEF Continues
  <2>4. connfd \in Clients \/ pc \notin {"read", "close", "send"}
    BY <1>3 DEF QueueInv, TypeInv
  <2>5. connfd \in Clients => Out(connfd)' = Out(connfd)
    BY <2>2 DEF Out
  <2>6. server' = "running" =>
          /\ pc' \in {"read", "close"} => Out(connfd)' = pos'
          /\ pc' = "send" => Continues(chunk, Out(connfd))' /\ pos' = Out(connfd)' + Len(chunk')
          /\ pc' = "close" => pos' = FileLen \/ connfd' \in unread'
    BY <1>3, <2>4, <2>5 DEF SentInv, Continues
  <2>7. \A d \in Clients : d \notin closed' /\ (d # connfd' \/ pc' = "open") => Out(d)' = 0
    BY <1>3, <2>2 DEF SentInv
  <2>8. \A d \in closed' \ unread' : Out(d)' = FileLen
    BY <1>3, <2>2 DEF SentInv, TypeInv
  <2> QED
    BY <2>3, <2>6, <2>7, <2>8 DEF SentInv
<1> QED
  BY <1>5, <1>12, <1>15

(* The bytes written come behind those written before, in the local file   *)
(* and in the served one.                                                  *)
LEMMA RecvStep ==
  ASSUME IInv, NEW c \in Clients, Recv(c)
  PROVE  IInv'
<1>1. UNCHANGED <<backlog, connfd, pc, pos, chunk, fin, closed, unread, server, client>>
  BY DEF Recv, sending
<1>2. PICK n \in 1 .. Smaller(BUFSIZE, Len(stream[c])) : \E m \in 0 .. n :
        /\ Taken(c, n)
        /\ local' = [local EXCEPT ![c] = Overwritten(local[c], saved[c],
                                                     SubSeq(stream[c], 1, m))]
        /\ saved' = [saved EXCEPT ![c] = saved[c] + m]
        /\ unsaved' = IF m = n THEN unsaved ELSE unsaved \cup {c}
  BY DEF Recv, At
<1>18. PICK m \in 0 .. n :
        /\ Taken(c, n)
        /\ local' = [local EXCEPT ![c] = Overwritten(local[c], saved[c],
                                                     SubSeq(stream[c], 1, m))]
        /\ saved' = [saved EXCEPT ![c] = saved[c] + m]
        /\ unsaved' = IF m = n THEN unsaved ELSE unsaved \cup {c}
  BY <1>2
<1>3. TypeInv /\ QueueInv /\ SentInv /\ SavedOf(c)
  BY DEF IInv
<1>4. /\ stream \in [Clients -> Seq(FileBytes)] /\ stream[c] \in Seq(FileBytes)
      /\ recv_size[c] \in Nat /\ saved \in [Clients -> Nat] /\ saved[c] \in Nat
      /\ local \in [Clients -> Seq(Nat)] /\ local[c] \in Seq(Nat)
      /\ Len(stream[c]) \in Nat /\ Len(local[c]) \in Nat
  BY <1>3, LenProperties DEF TypeInv
<1>5. /\ n \in Nat /\ m \in Nat /\ m <= n /\ m \in 0 .. Len(stream[c])
      /\ recv_size'[c] = recv_size[c] + n
      /\ \A d \in Clients \ {c} : recv_size'[d] = recv_size[d]
      /\ stream' \in [Clients -> Seq(FileBytes)] /\ recv_size' \in [Clients -> Nat]
      /\ SentInv'
  BY <1>1, <1>18, <1>4, TakenStep
<1>6. PICK part : part = SubSeq(stream[c], 1, m)
  OBVIOUS
<1>7. part \in Seq(FileBytes) /\ Len(part) = m
  BY <1>4, <1>5, <1>6, CutProperties
<1>8. Continues(part, recv_size[c])
  <2>1. Continues(stream[c], recv_size[c])
    BY <1>3 DEF SentInv
  <2> QED
    BY <1>4, <1>5, <1>6, <2>1, ContinuesCut
<1>9. PICK new : new = Overwritten(local[c], saved[c], part)
  OBVIOUS
<1>10. /\ new \in Seq(Nat) /\ saved[c] + m <= Len(new) /\ Len(new) \in Nat
       /\ \A b \in 1 .. saved[c] : new[b] = local[c][b]
       /\ \A b \in saved[c] + 1 .. saved[c] + m : new[b] = part[b - saved[c]]
       /\ \A b \in saved[c] + m + 1 .. Len(new) :
             b \in 1 .. Len(local[c]) /\ new[b] = local[c][b]
  <2>1. part \in Seq(Nat)
    <3>1. FileBytes \subseteq Nat
      BY Lengths DEF FileBytes
    <3> QED
      BY <1>7, <3>1, SeqMonotonic
  <2>2. saved[c] \in 0 .. Len(local[c])
    BY <1>3, <1>4 DEF SavedOf
  <2>3. /\ new \in Seq(Nat) /\ saved[c] + Len(part) <= Len(new)
        /\ \A b \in 1 .. saved[c] : new[b] = local[c][b]
        /\ \A b \in saved[c] + 1 .. saved[c] + Len(part) :
              new[b] = part[b - saved[c]]
        /\ \A b \in saved[c] + Len(part) + 1 .. Len(new) :
              b \in 1 .. Len(local[c]) /\ new[b] = local[c][b]
    BY <1>4, <1>9, <2>1, <2>2, OverwrittenProperties
  <2>4. Len(new) \in Nat
    BY <2>3, LenProperties
  <2> QED
    BY <1>7, <2>3, <2>4
<1>11. /\ local' = [local EXCEPT ![c] = new]
       /\ local'[c] = new /\ saved'[c] = saved[c] + m
       /\ \A d \in Clients \ {c} : /\ local'[d] = local[d] /\ saved'[d] = saved[d]
                                   /\ d \in unsaved' <=> d \in unsaved
       /\ local' \in [Clients -> Seq(Nat)] /\ saved' \in [Clients -> Nat]
       /\ unsaved' \subseteq Clients
  <2>1. local' = [local EXCEPT ![c] = new]
    BY <1>18, <1>6, <1>9
  <2>2. local'[c] = new /\ local' \in [Clients -> Seq(Nat)]
        /\ \A d \in Clients \ {c} : local'[d] = local[d]
    BY <1>4, <1>10, <2>1
  <2>3. saved'[c] = saved[c] + m /\ saved' \in [Clients -> Nat]
        /\ \A d \in Clients \ {c} : saved'[d] = saved[d]
    BY <1>4, <1>5, <1>18
  <2>4. unsaved' \subseteq Clients /\ \A d \in Clients \ {c} : d \in unsaved' <=> d \in unsaved
    BY <1>3, <1>18 DEF TypeInv
  <2> QED
    BY <2>1, <2>2, <2>3, <2>4
<1>12. /\ saved[c] \in Nat /\ recv_size[c] \in Nat /\ n \in Nat /\ m \in Nat /\ m <= n
       /\ Len(local[c]) \in Nat /\ Len(new) \in Nat
  BY <1>4, <1>5, <1>10
<1>13. TypeInv'
  BY <1>1, <1>3, <1>5, <1>11 DEF TypeInv
<1>14. QueueInv'
  BY <1>1, <1>3 DEF QueueInv, Queued
(* The bytes written now follow all that were received before.             *)
<1>15. \A b \in saved[c] + 1 .. saved[c] + m : new[b] = recv_size[c] + (b - saved[c])
  <2> SUFFICES ASSUME NEW b \in saved[c] + 1 .. saved[c] + m
               PROVE  new[b] = recv_size[c] + (b - saved[c])
    OBVIOUS
  <2>1. b - saved[c] \in 1 .. Len(part)
    BY <1>7, <1>12
  <2>2. new[b] = part[b - saved[c]]
    BY <1>10
  <2> QED
    BY <1>8, <2>1, <2>2 DEF Continues
<1>16. SavedOf(c)'
  <2>1. saved'[c] <= Len(local'[c])
    BY <1>10, <1>11
  <2>2. ASSUME NEW b \in 1 .. saved[c] + m
        PROVE  \/ b \in 1 .. saved[c] /\ new[b] = local[c][b] /\ new[b] \in 1 .. recv_size[c]
               \/ /\ b \in saved[c] + 1 .. saved[c] + m
                  /\ new[b] = recv_size[c] + (b - saved[c])
    <3>1. CASE b <= saved[c]
      <4>1. b \in 1 .. saved[c]
        BY <1>12, <3>1
      <4> QED
        BY <1>3, <1>10, <4>1 DEF SavedOf
    <3>2. CASE ~ (b <= saved[c])
      <4>1. b \in saved[c] + 1 .. saved[c] + m
        BY <1>12, <3>2
      <4> QED
        BY <1>15, <4>1
    <3> QED
      BY <3>1, <3>2
  <2>3. ASSUME NEW b \in 1 .. saved[c] + m PROVE new[b] \in 1 .. recv_size[c] + n
    <3>1. CASE new[b] \in 1 .. recv_size[c]
      BY <1>12, <3>1
    <3>2. CASE b \in saved[c] + 1 .. saved[c] + m /\ new[b] = recv_size[c] + (b - saved[c])
      BY <1>12, <3>2
    <3> QED
      BY <2>2, <3>1, <3>2
  <2>4. ASSUME NEW a \in 1 .. saved[c] + m, NEW b \in 1 .. saved[c] + m, a < b
        PROVE  new[a] < new[b]
    <3>1. CASE b \in 1 .. saved[c]
      <4>1. a \in 1 .. saved[c]
        BY <1>12, <2>4, <3>1
      <4> QED
        BY <1>3, <1>10, <2>4, <3>1, <4>1 DEF SavedOf
    <3>2. CASE b \notin 1 .. saved[c]
      <4>1. b \in saved[c] + 1 .. saved[c] + m /\ new[b] = recv_size[c] + (b - saved[c])
        BY <2>2, <3>2
      <4>2. CASE a \in 1 .. saved[c]
        <5>1. new[a] \in 1 .. recv_size[c]
          BY <1>12, <2>2, <4>2
        <5> QED
          BY <1>12, <4>1, <5>1
      <4>3. CASE a \notin 1 .. saved[c]
        <5>1. new[a] = recv_size[c] + (a - saved[c])
          BY <2>2, <4>3
        <5> QED
          BY <1>12, <2>4, <4>1, <5>1
      <4> QED
        BY <4>2, <4>3
    <3> QED
      BY <3>1, <3>2
  <2>5. ASSUME c \notin unsaved'
        PROVE  saved[c] + m = recv_size[c] + n /\ \A b \in 1 .. saved[c] + m : new[b] = b
    <3>1. m = n /\ c \notin unsaved
      BY <1>18, <2>5
    <3>2. saved[c] = recv_size[c] /\ \A b \in 1 .. saved[c] : local[c][b] = b
      BY <1>3, <3>1 DEF SavedOf
    <3>3. ASSUME NEW b \in 1 .. saved[c] + m PROVE new[b] = b
      <4>1. CASE b \in 1 .. saved[c]
        BY <1>10, <3>2, <4>1
      <4>2. CASE b \notin 1 .. saved[c]
        <5>1. new[b] = recv_size[c] + (b - saved[c])
          BY <2>2, <4>2
        <5> QED
          BY <1>12, <3>2, <5>1
      <4> QED
        BY <4>1, <4>2
    <3> QED
      BY <1>12, <3>1, <3>2, <3>3
  <2>6. ASSUME NEW b \in saved[c] + m + 1 .. Len(new) PROVE new[b] = 0
    <3>1. b \in 1 .. Len(local[c]) /\ new[b] = local[c][b]
      BY <1>10
    <3>2. b \in saved[c] + 1 .. Len(local[c])
      BY <1>12, <3>1
    <3> QED
      BY <1>3, <3>1, <3>2 DEF SavedOf
  <2> QED
    BY <1>5, <1>11, <2>1, <2>3, <2>4, <2>5, <2>6 DEF SavedOf
<1>17. \A d \in Clients \ {c} : SavedOf(d)'
  <2> SUFFICES ASSUME NEW d \in Clients \ {c} PROVE SavedOf(d)'
    OBVIOUS
  <2>1. SavedOf(d)
    BY DEF IInv
  <2>2. /\ local'[d] = local[d] /\ saved'[d] = saved[d] /\ recv_size'[d] = recv_size[d]
        /\ d \in unsaved' <=> d \in unsaved
    BY <1>5, <1>11
  <2> QED
    BY <2>1, <2>2 DEF SavedOf
<1> QED
  BY <1>5, <1>13, <1>14, <1>16, <1>17 DEF IInv

(* A write that fails: what was taken is lost.                             *)
LEMMA WriteFailsStep ==
  ASSUME IInv, NEW c \in Clients, WriteFails(c)
  PROVE  IInv'
<1>1. /\ client' = [client EXCEPT ![c] = "succeeded"] /\ unsaved' = unsaved \cup {c}
      /\ UNCHANGED <<backlog, connfd, pc, pos, chunk, fin, closed, unread, server, saved, local>>
  BY DEF WriteFails, sending
<1>2. PICK n \in 1 .. Smaller(BUFSIZE, Len(stream[c])) : Taken(c, n)
  BY DEF WriteFails
<1>3. /\ TypeInv /\ QueueInv /\ client \in [Clients -> {"new", "failed", "receiving", "succeeded"}]
      /\ recv_size \in [Clients -> Nat]
  BY DEF IInv, TypeInv
<1>4. /\ n \in Nat /\ recv_size'[c] = recv_size[c] + n
      /\ \A d \in Clients \ {c} : recv_size'[d] = recv_size[d]
      /\ stream' \in [Clients -> Seq(FileBytes)] /\ recv_size' \in [Clients -> Nat]
      /\ SentInv'
  BY <1>1, <1>2, TakenStep
<1>5. /\ client' \in [Clients -> {"new", "failed", "receiving", "succeeded"}]
      /\ \A d \in Clients : client[d] # "new" => client'[d] # "new"
  BY <1>1, <1>3
<1>6. TypeInv'
  BY <1>1, <1>3, <1>4, <1>5 DEF TypeInv
<1>7. QueueInv'
  BY <1>1, <1>3, <1>5 DEF QueueInv, Queued, TypeInv
<1>8. SavedOf(c)'
  <2>1. SavedOf(c) /\ recv_size[c] \in Nat
    BY <1>3 DEF IInv
  <2>2. \A b \in 1 .. saved[c] : local[c][b] \in 1 .. recv_size'[c]
    BY <1>4, <2>1 DEF SavedOf
  <2> QED
    BY <1>1, <2>1, <2>2 DEF SavedOf
<1>9. \A d \in Clients \ {c} : SavedOf(d)'
  <2> SUFFICES ASSUME NEW d \in Clients \ {c} PROVE SavedOf(d)'
    OBVIOUS
  <2>1. SavedOf(d)
    BY DEF IInv
  <2>2. /\ local' = local /\ saved' = saved /\ recv_size'[d] = recv_size[d]
        /\ d \in unsaved' <=> d \in unsaved
    BY <1>1, <1>4
  <2> QED
    BY <2>1, <2>2 DEF SavedOf
<1> QED
  BY <1>4, <1>6, <1>7, <1>8, <1>9 DEF IInv

(* The steps that only change what a client does next.                     *)
LEMMA ClientEndsStep ==
  ASSUME IInv, NEW c \in Clients, ConnectFails(c) \/ RecvEnds(c)
  PROVE  IInv'
<1>1. /\ \E how \in {"failed", "succeeded"} : client' = [client EXCEPT ![c] = how]
      /\ UNCHANGED <<backlog, connfd, pc, pos, chunk, stream, fin, closed, unread, server,
                     recv_size, saved, local, unsaved>>
  BY DEF ConnectFails, RecvEnds, sending
<1>2. TypeInv /\ client \in [Clients -> {"new", "failed", "receiving", "succeeded"}]
  BY DEF IInv, TypeInv
<1>3. /\ client' \in [Clients -> {"new", "failed", "receiving", "succeeded"}]
      /\ \A d \in Clients : client[d] # "new" => client'[d] # "new"
  BY <1>1, <1>2
<1>4. TypeInv'
  BY <1>1, <1>2, <1>3 DEF TypeInv
<1>5. QueueInv'
  BY <1>1, <1>2, <1>3 DEF IInv, QueueInv, Queued, TypeInv
<1>6. SentInv' /\ \A d \in Clients : SavedOf(d)'
  BY <1>1 DEF IInv, SentInv, SavedOf, Out, Continues
<1> QED
  BY <1>4, <1>5, <1>6 DEF IInv

LEMMA NextInv == IInv /\ [Next]_vars => IInv'
<1> SUFFICES ASSUME IInv, [Next]_vars PROVE IInv'
  OBVIOUS
<1>1. CASE UNCHANGED vars
  <2>1. UNCHANGED <<backlog, connfd, pc, pos, chunk, stream, fin, closed, unread, server,
                    client, recv_size, saved, local, unsaved>>
    BY <1>1 DEF vars, sending, clients
  <2> QED
    BY <2>1 DEF IInv, TypeInv, QueueInv, Queued, SentInv, SavedOf, Out, Continues
<1>2. CASE ServerStep \/ (server = "running" /\ AcceptFails)
  BY <1>2, ServerStepInv
<1>3. ASSUME NEW c \in Clients, Connect(c) \/ ConnectFails(c) \/ ClientStep(c) PROVE IInv'
  BY <1>3, ConnectStep, RecvStep, WriteFailsStep, ClientEndsStep DEF ClientStep
<1> QED
  BY <1>1, <1>2, <1>3 DEF Next

-----------------------------------------------------------------------------
(* The theorems.                                                           *)

(* The inductive invariant, of every run of the server and its clients.    *)
THEOREM Invariance == SafeSpec => []IInv
BY InitInv, NextInv, PTL DEF SafeSpec

(* A file of the bytes 1 to n, in order, begins with Bytes(0, n).          *)
LEMMA InOrderIsBytes ==
  ASSUME NEW s \in Seq(Nat), NEW n \in 0 .. Len(s), \A b \in 1 .. n : s[b] = b
  PROVE  SubSeq(s, 1, n) = Bytes(0, n)
<1>1. PICK part : part = SubSeq(s, 1, n)
  OBVIOUS
<1>2. /\ part \in Seq(Nat) /\ Len(part) = n
      /\ \A b \in 1 .. n : part[b] = s[b]
  BY <1>1, CutProperties
<1>3. part \in [1 .. n -> Nat] /\ \A b \in 1 .. n : part[b] = b
  BY <1>2, LenProperties
<1>4. Bytes(0, n) = [b \in 1 .. n |-> b]
  BY DEF Bytes
<1>5. part = [b \in 1 .. n |-> b]
  BY <1>3
<1> QED
  BY <1>1, <1>4, <1>5

LEMMA SavedOfIsSaved == IInv => SavedInOrder
<1> SUFFICES ASSUME IInv, NEW c \in Clients
             PROVE  /\ saved[c] <= Len(local[c])
                    /\ \A b \in 1 .. saved[c] : local[c][b] \in 1 .. recv_size[c]
                    /\ \A a, b \in 1 .. saved[c] : a < b => local[c][a] < local[c][b]
                    /\ c \notin unsaved =>
                          /\ saved[c] = recv_size[c]
                          /\ SubSeq(local[c], 1, saved[c]) = Bytes(0, saved[c])
                    /\ \A b \in saved[c] + 1 .. Len(local[c]) : local[c][b] = 0
  BY DEF SavedInOrder
<1>1. SavedOf(c) /\ local[c] \in Seq(Nat) /\ saved[c] \in Nat /\ Len(local[c]) \in Nat
  BY LenProperties DEF IInv, TypeInv
<1>2. saved[c] \in 0 .. Len(local[c])
  BY <1>1 DEF SavedOf
<1>3. c \notin unsaved => SubSeq(local[c], 1, saved[c]) = Bytes(0, saved[c])
  BY <1>1, <1>2, InOrderIsBytes DEF SavedOf
<1> QED
  BY <1>1, <1>3 DEF SavedOf

(* recv and send may cut the stream anywhere, the local file may have held *)
(* anything, and write may write less than it was given: what is in the    *)
(* file is in order, and all that was received if no write fell short.     *)
THEOREM FilesInOrder == SafeSpec => []SavedInOrder
BY SavedOfIsSaved, Invariance, PTL

(* A connection the server closed itself, and not after a failed read, has *)
(* brought the whole file to a client that read to the end, and its local  *)
(* file begins with it unless a write failed or fell short.                *)
THEOREM FilesWhole == SafeSpec => []WholeFileSaved
<1>1. IInv => WholeFileSaved
  <2> SUFFICES ASSUME IInv, NEW c \in closed \ (unread \cup unsaved), stream[c] = <<>>
               PROVE  /\ FileLen <= Len(local[c])
                      /\ SubSeq(local[c], 1, FileLen) = Bytes(0, FileLen)
    BY DEF WholeFileSaved
  <2>1. Out(c) = FileLen
    BY DEF IInv, SentInv
  <2>2. /\ c \in Clients /\ recv_size[c] \in Nat /\ Len(<<>>) = 0
        /\ local[c] \in Seq(Nat) /\ Len(local[c]) \in Nat
    BY EmptySeq, LenProperties DEF IInv, TypeInv
  <2>3. recv_size[c] = FileLen
    BY <2>1, <2>2 DEF Out
  <2>4. /\ saved[c] = FileLen /\ saved[c] <= Len(local[c])
        /\ \A b \in 1 .. FileLen : local[c][b] = b
    BY <2>2, <2>3 DEF IInv, SavedOf
  <2>5. FileLen \in 0 .. Len(local[c])
    BY <2>2, <2>4, Lengths
  <2> QED
    BY <2>2, <2>4, <2>5, InOrderIsBytes
<1> QED
  BY <1>1, Invariance, PTL

(* Who waits, waits in the listen queue or is being served, and stays      *)
(* there until its connection ends: every way out of the server's process  *)
(* ends them all.                                                          *)
LEMMA WaitingStep == IInv /\ WaitingIsServed /\ [Next]_vars => WaitingIsServed'
<1> SUFFICES ASSUME IInv, WaitingIsServed, [Next]_vars,
                    NEW c \in Clients \ fin', client'[c] = "receiving"
             PROVE  server' = "running" /\ (connfd' = c \/ Queued(c)')
  BY DEF WaitingIsServed, Queued
<1>1. /\ backlog \in Seq(Clients) /\ c # NoClient
      /\ client \in [Clients -> {"new", "failed", "receiving", "succeeded"}]
      /\ connfd # NoClient <=> pc \in {"open", "read", "send", "close"}
  BY Lengths DEF IInv, TypeInv, QueueInv
<1>2. c \notin fin /\ client[c] = "receiving" => server = "running" /\ (connfd = c \/ Queued(c))
  BY DEF WaitingIsServed, Queued
<1>3. CASE UNCHANGED <<backlog, connfd, client, server>> /\ fin \subseteq fin'
  BY <1>2, <1>3 DEF Queued
<1>4. CASE server = "running" /\ Accept
  <2>1. /\ connfd = NoClient /\ backlog # <<>> /\ connfd' = Head(backlog)
        /\ backlog' = Tail(backlog) /\ UNCHANGED <<client, fin, server>>
    BY <1>1, <1>4 DEF Accept, clients
  <2>2. server = "running" /\ Queued(c)
    BY <1>1, <1>2, <2>1
  <2>3. Queued(c) => Queued(c)' \/ c = Head(backlog)
    BY <1>1, <2>1, TailElements DEF Queued
  <2> QED
    BY <2>1, <2>2, <2>3
<1>5. CASE server = "running" /\ Close
  <2>1. fin' = fin \cup {connfd} /\ UNCHANGED <<backlog, client, server>>
    BY <1>5 DEF Close, clients
  <2> QED
    BY <1>2, <2>1 DEF Queued
<1>6. CASE server = "running" /\ (OpenFails \/ SendFails \/ AcceptFails)
  BY <1>6 DEF OpenFails, SendFails, AcceptFails, ServerExits
<1>7. CASE server = "running" /\ (Bind \/ OpenFile \/ Read \/ ReadEnds \/ Send)
  BY <1>3, <1>7 DEF Bind, OpenFile, Read, ReadEnds, Send, clients
<1>8. ASSUME NEW d \in Clients, Connect(d) PROVE server' = "running" /\ (connfd' = c \/ Queued(c)')
  <2>1. /\ server = "running" /\ backlog' = Append(backlog, d)
        /\ \E how : client' = [client EXCEPT ![d] = how]
        /\ UNCHANGED <<connfd, fin, server>>
    BY <1>8 DEF Connect, Listening
  <2>2. Queued(c)' <=> Queued(c) \/ c = d
    BY <1>1, <2>1, AppendElements DEF Queued
  <2>3. c = d \/ client[c] = "receiving"
    BY <1>1, <2>1
  <2> QED
    BY <1>2, <2>1, <2>2, <2>3
<1>9. ASSUME NEW d \in Clients, ConnectFails(d) \/ ClientStep(d)
      PROVE  server' = "running" /\ (connfd' = c \/ Queued(c)')
  <2>1. /\ UNCHANGED <<backlog, connfd, fin, server>>
        /\ \/ client' = client
           \/ \E how \in {"failed", "succeeded"} : client' = [client EXCEPT ![d] = how]
    BY <1>9 DEF ConnectFails, ClientStep, Recv, RecvEnds, WriteFails
  <2>2. client[c] = "receiving"
    BY <1>1, <2>1
  <2> QED
    BY <1>2, <2>1, <2>2 DEF Queued
<1>10. CASE UNCHANGED vars
  BY <1>3, <1>10 DEF vars, clients
<1> QED
  BY <1>4, <1>5, <1>6, <1>7, <1>8, <1>9, <1>10 DEF Next, ServerStep

(* No client waits for a server that does not know of it or has gone: with *)
(* the order of the listen queue, the part of ServiceSpec's promise that   *)
(* needs no fairness, for the client's side.                               *)
THEOREM NobodyForgotten == SafeSpec => []WaitingIsServed
<1>1. Init => WaitingIsServed
  BY DEF Init, WaitingIsServed
<1> QED
  BY <1>1, WaitingStep, Invariance, PTL DEF SafeSpec

-----------------------------------------------------------------------------
(* The server implements RequestService, safety part: Connect, Accept,     *)
(* Close and the end of the server's process are what is visible of it.    *)

LEMMA RefineInit == Init => Service!Init
BY DEF Init, Service!Init

LEMMA RefineStep == IInv /\ [Next]_vars => [Service!Next]_(Service!vars)
<1> SUFFICES ASSUME IInv, [Next]_vars
             PROVE  Service!Next \/ UNCHANGED Service!vars
  OBVIOUS
<1>1. CASE UNCHANGED <<backlog, connfd, closed, server>>
  BY <1>1 DEF Service!vars
<1>2. ASSUME server = "running", server' # "running", UNCHANGED <<backlog, connfd, closed>>
      PROVE  Service!Next
  BY <1>2 DEF Service!Next, Service!Stop
<1>3. ASSUME NEW c \in Clients, Connect(c) PROVE Service!Next
  <2>1. ~ Queued(c) /\ c # connfd /\ c \notin closed /\ server = "running"
    BY <1>3 DEF IInv, QueueInv, Connect, Listening
  <2>2. backlog \in Seq(Clients)
    BY DEF IInv, TypeInv
  <2>3. c \notin Service!Known
    BY <2>1, <2>2 DEF Service!Known, Service!Range, Queued
  <2>4. Service!Submit(c)
    BY <1>3, <2>1, <2>3 DEF Connect, Service!Submit
  <2> QED
    BY <2>4 DEF Service!Next
<1>4. ASSUME server = "running", Accept PROVE Service!Next
  <2>1. backlog # <<>> /\ connfd = NoClient
    BY <1>4 DEF IInv, QueueInv, Accept
  <2>2. Service!Start("main")
    BY <1>4, <2>1 DEF Accept, Service!Start
  <2> QED
    BY <2>2 DEF Service!Next
<1>5. ASSUME server = "running", Close PROVE Service!Next
  <2>1. connfd # NoClient
    BY <1>5 DEF IInv, QueueInv, Close
  <2>2. Service!Finish("main")
    BY <1>5, <2>1 DEF Close, Service!Finish
  <2> QED
    BY <2>2 DEF Service!Next
<1>6. CASE ServerStep
  <2>1. \/ server = "running" /\ (Accept \/ Close)
        \/ UNCHANGED <<backlog, connfd, closed, server>>
        \/ /\ server = "running" /\ server' # "running"
           /\ UNCHANGED <<backlog, connfd, closed>>
    BY <1>6 DEF ServerStep, Bind, OpenFile, Read, ReadEnds, Send, OpenFails, SendFails,
                ServerExits
  <2> QED
    BY <1>1, <1>2, <1>4, <1>5, <2>1
<1>7. CASE server = "running" /\ AcceptFails
  BY <1>2, <1>7 DEF AcceptFails, ServerExits
<1>8. ASSUME NEW c \in Clients, ConnectFails(c) \/ ClientStep(c)
      PROVE  UNCHANGED <<backlog, connfd, closed, server>>
  BY <1>8 DEF ConnectFails, ClientStep, Recv, RecvEnds, WriteFails
<1>9. CASE UNCHANGED vars
  BY <1>1, <1>9 DEF vars
<1> QED
  BY <1>1, <1>3, <1>6, <1>7, <1>8, <1>9 DEF Next

(* Seen from outside, every run of the server is a run of the service that *)
(* the worker pool implements too: first come first served, each client    *)
(* once.                                                                   *)
THEOREM ServerImplementsService == SafeSpec => Service!SafeSpec
BY RefineInit, RefineStep, Invariance, PTL DEF SafeSpec, Service!SafeSpec

-----------------------------------------------------------------------------
(* The echo server and its clients, with variables of their own.  An       *)
(* instance leaves Echo's assumptions to its theorems, as hypotheses.      *)
CONSTANTS MAXSTRING, maxnpending, MaxLen
VARIABLES spc, served, buffer, queue, message, cpc, printed, status, sent, reply, conn

Echo == INSTANCE Echo WITH connfd <- served

EchoBytes == (Clients \cup {NoClient}) \X Nat

EchoTypeInv ==
    /\ spc \in {"bind", "elsewhere", "accept", "recv", "send", "close", "exit"}
    /\ served \in Clients \cup {NoClient}
    /\ buffer \in Seq(EchoBytes)
    /\ queue \in Seq(Clients)
    /\ message \in [Clients -> 0 .. MaxLen]
    /\ cpc \in [Clients -> {"connect", "send", "recv", "exit"}]
    /\ printed \in [Clients -> Seq(EchoBytes)]
    /\ status \in [Clients -> {"none", "0", "1", "3", "4", "crash", "signal", "unread"}]
    /\ sent \in [Clients -> Seq(EchoBytes)]
    /\ reply \in [Clients -> Seq(EchoBytes)]
    /\ conn \in [Clients -> {"none", "open", "closed", "reset"}]

Waiting(c) == \E j \in DOMAIN queue : queue[j] = c

(* A connection waits in the queue, is served, or is over, once.           *)
EchoQueueInv ==
    /\ IsInjective(queue)
    /\ \A c \in Clients : Waiting(c) => c # served /\ cpc[c] # "connect"
    /\ served \in Clients => cpc[served] # "connect"
    /\ served # NoClient <=> spc \in {"recv", "send", "close"}

(* The bytes are the beginning of c's message.                             *)
Own(bytes, c) ==
    Len(bytes) <= message[c] /\ \A b \in 1 .. Len(bytes) : bytes[b] = <<c, b>>

(* Before the server has read from c, all c has sent is there; afterwards  *)
(* c has left "send", and what it was answered is one buffer at most.  A   *)
(* close without an answer tells that c is gone.                           *)
Unheard(c) == Waiting(c) \/ (served = c /\ spc = "recv") \/ cpc[c] = "connect"
Heard(c)   == served = c /\ spc \in {"send", "close"}

EchoClientInv(c) ==
    /\ Unheard(c) => Own(sent[c], c) /\ reply[c] = <<>>
    /\ cpc[c] \in {"connect", "send"} =>
          sent[c] = <<>> /\ ~ Heard(c) /\ conn[c] # "closed"
    /\ served = c /\ spc = "send" => Own(buffer, c) /\ Len(buffer) \in 1 .. MAXSTRING
    /\ Own(reply[c], c) /\ Len(reply[c]) <= MAXSTRING
    /\ (served = c /\ spc = "close") \/ conn[c] = "closed" =>
          reply[c] # <<>> \/ cpc[c] = "exit"
    /\ status[c] = "0" => Own(printed[c], c) /\ Len(printed[c]) \in 1 .. MAXSTRING
    /\ cpc[c] # "exit" => status[c] = "none"

EchoInv ==
    /\ EchoTypeInv
    /\ EchoQueueInv
    /\ \A c \in Clients : EchoClientInv(c)

EchoConstants ==
    /\ MAXSTRING \in Nat \ {0} /\ maxnpending \in Nat /\ MaxLen \in Nat
    /\ NoClient \notin Clients

LEMMA EchoInitInv ==
  ASSUME EchoConstants, Echo!Init
  PROVE  EchoInv
<1>1. /\ spc = "bind" /\ served = NoClient /\ buffer = <<>> /\ queue = <<>>
      /\ message \in [Clients -> 0 .. MaxLen]
      /\ cpc = [c \in Clients |-> "connect"]
      /\ printed = [c \in Clients |-> <<>>] /\ status = [c \in Clients |-> "none"]
      /\ sent = [c \in Clients |-> <<>>] /\ reply = [c \in Clients |-> <<>>]
      /\ conn = [c \in Clients |-> "none"]
  BY DEF Echo!Init
<1>2. /\ <<>> \in Seq(Clients) /\ <<>> \in Seq(EchoBytes) /\ Len(<<>>) = 0
  BY EmptySeq
<1>3. \A c \in Clients :
         /\ cpc[c] = "connect" /\ status[c] = "none" /\ conn[c] = "none"
         /\ sent[c] = <<>> /\ reply[c] = <<>> /\ message[c] \in Nat
  BY <1>1
<1>4. EchoTypeInv
  <2>1. buffer \in Seq(EchoBytes) /\ queue \in Seq(Clients)
    BY <1>1, <1>2
  <2>2. /\ printed \in [Clients -> Seq(EchoBytes)] /\ sent \in [Clients -> Seq(EchoBytes)]
        /\ reply \in [Clients -> Seq(EchoBytes)]
    BY <1>1, <1>2
  <2> QED
    BY <1>1, <2>1, <2>2 DEF EchoTypeInv
<1>5. EchoQueueInv
  <2>1. DOMAIN queue = {}
    <3>1. DOMAIN queue = 1 .. 0
      BY <1>1, <1>2, LenProperties
    <3> QED
      BY <3>1
  <2> QED
    BY <1>1, <2>1 DEF EchoQueueInv, Waiting, IsInjective, EchoConstants
<1>6. ASSUME NEW c \in Clients PROVE EchoClientInv(c)
  <2>1. Own(<<>>, c)
    BY <1>2, <1>3 DEF Own
  <2>2. Len(reply[c]) <= MAXSTRING
    <3>1. Len(reply[c]) = 0
      BY <1>2, <1>3
    <3> QED
      BY <3>1 DEF EchoConstants
  <2>3. spc = "bind"
    BY <1>1
  <2> QED
    BY <1>3, <2>1, <2>2, <2>3 DEF EchoClientInv, Heard
<1> QED
  BY <1>4, <1>5, <1>6 DEF EchoInv

(* A client whom a step does not touch.                                    *)
LEMMA EchoKept ==
  ASSUME NEW c \in Clients, EchoClientInv(c), UNCHANGED message,
         cpc'[c] = cpc[c], sent'[c] = sent[c], reply'[c] = reply[c], conn'[c] = conn[c],
         status'[c] = status[c], printed'[c] = printed[c],
         Unheard(c)' => Unheard(c), ~ Heard(c)'
  PROVE  EchoClientInv(c)'
<1>1. /\ Own(sent[c], c)' <=> Own(sent[c], c)
      /\ Own(reply[c], c)' <=> Own(reply[c], c)
      /\ Own(printed[c], c)' <=> Own(printed[c], c)
  BY DEF Own
<1>2. ~ (served' = c /\ spc' = "send") /\ ~ (served' = c /\ spc' = "close")
  BY DEF Heard
<1> QED
  BY <1>1, <1>2 DEF EchoClientInv

LEMMA EchoBindStep ==
  ASSUME EchoConstants, EchoInv, Echo!Bind
  PROVE  EchoInv'
<1>1. /\ spc = "bind" /\ spc' \in {"accept", "elsewhere"}
      /\ UNCHANGED <<served, buffer, queue, message, cpc, printed, status, sent, reply, conn>>
  BY DEF Echo!Bind, Echo!client, Echo!wire
<1>2. EchoTypeInv'
  BY <1>1 DEF EchoInv, EchoTypeInv
<1>3. EchoQueueInv'
  BY <1>1 DEF EchoInv, EchoQueueInv, Waiting
<1>4. ASSUME NEW c \in Clients PROVE EchoClientInv(c)'
  <2>1. (Unheard(c)' => Unheard(c)) /\ ~ Heard(c)'
    BY <1>1 DEF Unheard, Waiting, Heard
  <2> QED
    BY <1>1, <2>1, EchoKept DEF EchoInv
<1> QED
  BY <1>2, <1>3, <1>4 DEF EchoInv

LEMMA EchoAcceptStep ==
  ASSUME EchoConstants, EchoInv, Echo!Accept
  PROVE  EchoInv'
<1>0. PICK h : h = Head(queue)
  OBVIOUS
<1>1. /\ spc = "accept" /\ queue # <<>> /\ spc' = "recv" /\ served' = h
      /\ queue' = Tail(queue) /\ buffer' = <<>>
      /\ UNCHANGED <<message, cpc, printed, status, sent, reply, conn>>
  BY <1>0 DEF Echo!Accept, Echo!client, Echo!wire
<1>2. EchoTypeInv /\ EchoQueueInv
  BY DEF EchoInv
<1>3. queue \in Seq(Clients) /\ IsInjective(queue) /\ served = NoClient
  BY <1>1, <1>2 DEF EchoTypeInv, EchoQueueInv
<1>4. /\ \A c : Waiting(c) <=> Waiting(c)' \/ c = h
      /\ IsInjective(Tail(queue)) /\ ~ Waiting(h)'
  <2>1. /\ \A c : (\E j \in DOMAIN queue : queue[j] = c)
                    <=> (\E j \in DOMAIN Tail(queue) : Tail(queue)[j] = c)
                        \/ c = Head(queue)
        /\ IsInjective(Tail(queue))
        /\ \A j \in DOMAIN Tail(queue) : Tail(queue)[j] # Head(queue)
    BY <1>1, <1>3, TailElements
  <2>2. \A c : Waiting(c)' <=> \E j \in DOMAIN Tail(queue) : Tail(queue)[j] = c
    BY <1>1 DEF Waiting
  <2> QED
    BY <1>0, <2>1, <2>2 DEF Waiting
<1>5. h \in Clients /\ h # NoClient /\ Tail(queue) \in Seq(Clients)
  BY <1>0, <1>1, <1>3, HeadTailProperties DEF EchoConstants
<1>6. cpc[h] # "connect"
  BY <1>2, <1>4, <1>5 DEF EchoQueueInv
<1>7. EchoTypeInv'
  BY <1>1, <1>2, <1>5, EmptySeq DEF EchoTypeInv
<1>8. EchoQueueInv'
  <2>1. \A c \in Clients : Waiting(c)' => c # h /\ cpc[c] # "connect"
    BY <1>2, <1>4 DEF EchoQueueInv
  <2> QED
    BY <1>1, <1>4, <1>5, <1>6, <2>1 DEF EchoQueueInv
<1>9. ASSUME NEW c \in Clients PROVE EchoClientInv(c)'
  <2>1. Unheard(c)' => Unheard(c)
    BY <1>1, <1>4 DEF Unheard
  <2>2. ~ Heard(c)'
    BY <1>1 DEF Heard
  <2> QED
    BY <1>1, <2>1, <2>2, EchoKept DEF EchoInv
<1> QED
  BY <1>7, <1>8, <1>9 DEF EchoInv

LEMMA EchoReceiveStep ==
  ASSUME EchoConstants, EchoInv, Echo!Receive
  PROVE  EchoInv'
<1>1. /\ spc = "recv"
      /\ UNCHANGED <<served, queue, message, cpc, printed, status, reply, conn>>
  BY DEF Echo!Receive, Echo!client
<1>2. EchoTypeInv /\ EchoQueueInv
  BY DEF EchoInv
<1>3. served \in Clients /\ EchoClientInv(served)
  BY <1>1, <1>2 DEF EchoTypeInv, EchoQueueInv, EchoInv
<1>4. PICK d \in Clients : d = served
  BY <1>3
<1>5. spc' \in {"send", "close"} =>
         /\ \A c \in Clients \ {d} : (Unheard(c)' => Unheard(c)) /\ ~ Heard(c)'
         /\ EchoQueueInv'
  <2>1. spc' \in {"send", "close"} => \A c \in Clients : Unheard(c)' => Unheard(c)
    BY <1>1 DEF Unheard, Waiting
  <2>2. \A c \in Clients \ {d} : ~ Heard(c)'
    BY <1>1, <1>4 DEF Heard
  <2> QED
    BY <1>1, <1>2, <2>1, <2>2 DEF EchoQueueInv, Waiting
<1>6. /\ EchoClientInv(d) /\ sent[d] \in Seq(EchoBytes) /\ Len(sent[d]) \in Nat
      /\ message[d] \in Nat /\ Own(sent[d], d) /\ reply[d] = <<>>
  <2>1. EchoClientInv(d) /\ Unheard(d)
    BY <1>1, <1>3, <1>4 DEF Unheard
  <2>2. sent[d] \in Seq(EchoBytes) /\ message[d] \in Nat
    BY <1>2 DEF EchoTypeInv, EchoConstants
  <2> QED
    BY <2>1, <2>2, LenProperties DEF EchoClientInv
<1>7. ASSUME NEW n \in 1 .. Len(sent[d]), n <= MAXSTRING,
             buffer' = SubSeq(sent[d], 1, n),
             sent' = [sent EXCEPT ![d] = SubSeq(@, n + 1, Len(@))], spc' = "send"
      PROVE  EchoInv'
  <2>1. /\ buffer' \in Seq(EchoBytes) /\ Len(buffer') = n
        /\ \A b \in 1 .. n : buffer'[b] = sent[d][b]
        /\ SubSeq(sent[d], n + 1, Len(sent[d])) \in Seq(EchoBytes)
    <3>1. n \in 0 .. Len(sent[d])
      BY <1>6
    <3> QED
      BY <1>6, <1>7, <3>1, CutProperties
  <2>2. EchoTypeInv'
    <3>1. sent' \in [Clients -> Seq(EchoBytes)]
      BY <1>2, <1>7, <2>1 DEF EchoTypeInv
    <3> QED
      BY <1>1, <1>2, <1>7, <2>1, <3>1 DEF EchoTypeInv
  <2>3. ASSUME NEW c \in Clients \ {d} PROVE EchoClientInv(c)'
    <3>1. sent'[c] = sent[c]
      BY <1>2, <1>7 DEF EchoTypeInv
    <3>2. (Unheard(c)' => Unheard(c)) /\ ~ Heard(c)'
      BY <1>5, <1>7
    <3> QED
      BY <1>1, <3>1, <3>2, EchoKept DEF EchoInv
  <2>4. EchoClientInv(d)'
    <3>1. cpc[d] \notin {"connect", "send"}
      <4>1. sent[d] # <<>>
        BY <1>6, EmptySeq
      <4> QED
        BY <1>6, <4>1 DEF EchoClientInv
    <3>2. Own(buffer, d)' /\ Len(buffer') \in 1 .. MAXSTRING
      BY <1>1, <1>6, <1>7, <2>1 DEF Own, EchoConstants
    <3>3. ~ Unheard(d)'
      <4>1. ~ Waiting(d)
        BY <1>2, <1>4 DEF EchoQueueInv
      <4> QED
        BY <1>1, <1>7, <3>1, <4>1 DEF Unheard, Waiting
    <3>4. /\ Own(reply[d], d)' <=> Own(reply[d], d)
          /\ Own(printed[d], d)' <=> Own(printed[d], d)
      BY <1>1 DEF Own
    <3> QED
      BY <1>1, <1>6, <1>7, <3>1, <3>2, <3>3, <3>4 DEF EchoClientInv
  <2> QED
    BY <1>5, <1>7, <2>2, <2>3, <2>4 DEF EchoInv
<1>8. ASSUME cpc[d] = "exit", spc' = "close", UNCHANGED <<buffer, sent>>
      PROVE  EchoInv'
  <2>1. EchoTypeInv'
    BY <1>1, <1>2, <1>8 DEF EchoTypeInv
  <2>2. ASSUME NEW c \in Clients \ {d} PROVE EchoClientInv(c)'
    <3>1. (Unheard(c)' => Unheard(c)) /\ ~ Heard(c)'
      BY <1>5, <1>8
    <3> QED
      BY <1>1, <1>8, <3>1, EchoKept DEF EchoInv
  <2>3. EchoClientInv(d)'
    <3>1. Unheard(d)' => Unheard(d)
      BY <1>1, <1>8 DEF Unheard, Waiting
    <3>2. /\ Own(sent[d], d)' <=> Own(sent[d], d)
          /\ Own(reply[d], d)' <=> Own(reply[d], d)
          /\ Own(printed[d], d)' <=> Own(printed[d], d)
      BY <1>1, <1>8 DEF Own
    <3> QED
      BY <1>1, <1>6, <1>8, <3>1, <3>2 DEF EchoClientInv
  <2> QED
    BY <1>5, <1>8, <2>1, <2>2, <2>3 DEF EchoInv
<1> QED
  BY <1>4, <1>7, <1>8 DEF Echo!Receive

(* The server's end, and with it every connection that was open.           *)
LEMMA EchoReadErrorStep ==
  ASSUME EchoConstants, EchoInv, Echo!ReadError
  PROVE  EchoInv'
<1>1. /\ spc' = "exit" /\ served' = NoClient /\ queue' = <<>>
      /\ conn' = [c \in Clients |-> IF conn[c] = "open" THEN "reset" ELSE conn[c]]
      /\ UNCHANGED <<buffer, message, cpc, printed, status, sent, reply>>
  BY DEF Echo!ReadError, Echo!client
<1>2. EchoTypeInv /\ <<>> \in Seq(Clients) /\ Len(<<>>) = 0
  BY EmptySeq DEF EchoInv
<1>3. DOMAIN queue' = {}
  <2>1. DOMAIN queue' = 1 .. 0
    BY <1>1, <1>2, LenProperties
  <2> QED
    BY <2>1
<1>4. EchoTypeInv'
  <2>1. conn' \in [Clients -> {"none", "open", "closed", "reset"}]
    BY <1>1, <1>2 DEF EchoTypeInv
  <2> QED
    BY <1>1, <1>2, <2>1 DEF EchoTypeInv
<1>5. EchoQueueInv'
  BY <1>1, <1>3 DEF EchoQueueInv, Waiting, IsInjective, EchoConstants
<1>6. ASSUME NEW c \in Clients PROVE EchoClientInv(c)'
  <2>1. EchoClientInv(c)
    BY DEF EchoInv
  <2>2. Unheard(c)' => Unheard(c)
    BY <1>1, <1>3 DEF Unheard, Waiting, EchoConstants
  <2>3. ~ Heard(c)'
    BY <1>1 DEF Heard
  <2>4. /\ conn'[c] = "closed" <=> conn[c] = "closed"
    BY <1>1
  <2>5. /\ Own(sent[c], c)' <=> Own(sent[c], c)
        /\ Own(reply[c], c)' <=> Own(reply[c], c)
        /\ Own(printed[c], c)' <=> Own(printed[c], c)
    BY <1>1 DEF Own
  <2>6. spc' = "exit"
    BY <1>1
  <2> QED
    BY <1>1, <2>1, <2>2, <2>3, <2>4, <2>5, <2>6 DEF EchoClientInv
<1> QED
  BY <1>4, <1>5, <1>6 DEF EchoInv

LEMMA EchoSendStep ==
  ASSUME EchoConstants, EchoInv, Echo!Send
  PROVE  EchoInv'
<1>1. /\ spc = "send" /\ spc' = "close" /\ reply' = [reply EXCEPT ![served] = buffer]
      /\ UNCHANGED <<served, buffer, queue, message, cpc, printed, status, sent, conn>>
  BY DEF Echo!Send, Echo!client
<1>2. EchoTypeInv /\ EchoQueueInv
  BY DEF EchoInv
<1>3. PICK d \in Clients : d = served
  BY <1>1, <1>2 DEF EchoTypeInv, EchoQueueInv
<1>4. reply'[d] = buffer /\ \A c \in Clients \ {d} : reply'[c] = reply[c]
  BY <1>1, <1>2, <1>3 DEF EchoTypeInv
<1>5. EchoTypeInv'
  <2>1. reply' \in [Clients -> Seq(EchoBytes)]
    BY <1>1, <1>2, <1>3 DEF EchoTypeInv
  <2> QED
    BY <1>1, <1>2, <2>1 DEF EchoTypeInv
<1>6. EchoQueueInv'
  BY <1>1, <1>2 DEF EchoQueueInv, Waiting
<1>7. ASSUME NEW c \in Clients \ {d} PROVE EchoClientInv(c)'
  <2>1. (Unheard(c)' => Unheard(c)) /\ ~ Heard(c)'
    BY <1>1, <1>3 DEF Unheard, Heard, Waiting
  <2> QED
    BY <1>1, <1>4, <2>1, EchoKept DEF EchoInv
<1>8. EchoClientInv(d)'
  <2>1. EchoClientInv(d) /\ Heard(d) /\ Own(buffer, d) /\ Len(buffer) \in 1 .. MAXSTRING
    BY <1>1, <1>3 DEF EchoInv, EchoClientInv, Heard
  <2>2. Own(reply[d], d)' /\ Len(reply'[d]) <= MAXSTRING /\ reply'[d] # <<>>
    <3>1. Len(<<>>) = 0
      BY EmptySeq
    <3>2. Len(reply'[d]) <= MAXSTRING /\ reply'[d] # <<>>
      BY <1>4, <2>1, <3>1 DEF EchoConstants
    <3> QED
      BY <1>1, <1>4, <2>1, <3>2 DEF Own
  <2>3. ~ Unheard(d)'
    BY <1>1, <1>2, <1>3, <2>1 DEF Unheard, Waiting, EchoQueueInv
  <2>4. Own(printed[d], d)' <=> Own(printed[d], d)
    BY <1>1 DEF Own
  <2>5. cpc[d] \notin {"connect", "send"}
    BY <2>1 DEF EchoClientInv
  <2> QED
    BY <1>1, <2>1, <2>2, <2>3, <2>4, <2>5 DEF EchoClientInv
<1> QED
  BY <1>3, <1>5, <1>6, <1>7, <1>8 DEF EchoInv

LEMMA EchoCloseStep ==
  ASSUME EchoConstants, EchoInv, Echo!Close
  PROVE  EchoInv'
<1>1. /\ spc = "close" /\ spc' = "accept" /\ served' = NoClient
      /\ UNCHANGED <<buffer, queue, message, cpc, printed, status, sent, reply>>
  BY DEF Echo!Close, Echo!client
<1>2. PICK e \in {"closed", "reset"} : conn' = [conn EXCEPT ![served] = e]
  BY DEF Echo!Close
<1>3. EchoTypeInv /\ EchoQueueInv
  BY DEF EchoInv
<1>4. PICK d \in Clients : d = served
  BY <1>1, <1>3 DEF EchoTypeInv, EchoQueueInv
<1>5. conn'[d] = e /\ \A c \in Clients \ {d} : conn'[c] = conn[c]
  BY <1>2, <1>3, <1>4 DEF EchoTypeInv
<1>6. EchoTypeInv'
  <2>1. conn' \in [Clients -> {"none", "open", "closed", "reset"}]
    BY <1>2, <1>3, <1>4 DEF EchoTypeInv
  <2> QED
    BY <1>1, <1>3, <2>1 DEF EchoTypeInv
<1>7. EchoQueueInv'
  <2>1. \A c \in Clients : c # NoClient
    BY DEF EchoConstants
  <2> QED
    BY <1>1, <1>3, <2>1 DEF EchoQueueInv, Waiting
<1>8. ASSUME NEW c \in Clients PROVE (Unheard(c)' => Unheard(c)) /\ ~ Heard(c)'
  BY <1>1 DEF Unheard, Heard, Waiting
<1>9. ASSUME NEW c \in Clients \ {d} PROVE EchoClientInv(c)'
  BY <1>1, <1>5, <1>8, EchoKept DEF EchoInv
<1>10. EchoClientInv(d)'
  <2>1. EchoClientInv(d) /\ Heard(d) /\ (reply[d] # <<>> \/ cpc[d] = "exit")
    BY <1>1, <1>4 DEF EchoInv, EchoClientInv, Heard
  <2>2. cpc[d] \notin {"connect", "send"}
    BY <2>1 DEF EchoClientInv
  <2>3. /\ Own(sent[d], d)' <=> Own(sent[d], d)
        /\ Own(reply[d], d)' <=> Own(reply[d], d)
        /\ Own(printed[d], d)' <=> Own(printed[d], d)
    BY <1>1 DEF Own
  <2> QED
    BY <1>1, <1>8, <2>1, <2>2, <2>3 DEF EchoClientInv
<1> QED
  BY <1>4, <1>6, <1>7, <1>9, <1>10 DEF EchoInv

(* A step of client d: the server's state and the other clients stay.      *)
EchoAt(d) ==
    /\ UNCHANGED <<spc, served, buffer, message>>
    /\ \A c \in Clients \ {d} :
          /\ cpc'[c] = cpc[c] /\ sent'[c] = sent[c] /\ reply'[c] = reply[c]
          /\ conn'[c] = conn[c] /\ status'[c] = status[c] /\ printed'[c] = printed[c]

LEMMA EchoOthersKept ==
  ASSUME EchoInv, NEW d \in Clients, EchoAt(d), NEW c \in Clients \ {d},
         Waiting(c)' => Waiting(c)
  PROVE  EchoClientInv(c)'
<1>1. EchoClientInv(c)
  BY DEF EchoInv
<1>2. /\ UNCHANGED <<spc, served, buffer>>
      /\ cpc'[c] = cpc[c] /\ sent'[c] = sent[c] /\ reply'[c] = reply[c]
      /\ conn'[c] = conn[c] /\ status'[c] = status[c] /\ printed'[c] = printed[c]
      /\ message'[c] = message[c]
  BY DEF EchoAt
<1>3. (Unheard(c)' => Unheard(c)) /\ (Heard(c)' <=> Heard(c))
  BY <1>2 DEF Unheard, Heard
<1>4. /\ Own(sent[c], c)' <=> Own(sent[c], c)
      /\ Own(reply[c], c)' <=> Own(reply[c], c)
      /\ Own(printed[c], c)' <=> Own(printed[c], c)
      /\ Own(buffer, c)' <=> Own(buffer, c)
  BY <1>2 DEF Own
<1> QED
  BY <1>1, <1>2, <1>3, <1>4 DEF EchoClientInv

(* A client ends without having read, or with what it printed its own.     *)
LEMMA EchoExitStep ==
  ASSUME EchoConstants, EchoInv, NEW d \in Clients, cpc[d] # "exit",
         NEW code \in {"0", "1", "3", "4", "crash", "signal", "unread"},
         NEW line \in Seq(EchoBytes),
         cpc' = [cpc EXCEPT ![d] = "exit"], status' = [status EXCEPT ![d] = code],
         printed' = [printed EXCEPT ![d] = line],
         code = "0" => Own(line, d) /\ Len(line) \in 1 .. MAXSTRING,
         UNCHANGED <<spc, served, buffer, queue, message, sent, reply, conn>>
  PROVE  EchoInv'
<1>1. EchoTypeInv /\ EchoQueueInv
  BY DEF EchoInv
<1>2. /\ cpc'[d] = "exit" /\ status'[d] = code /\ printed'[d] = line
      /\ \A c \in Clients \ {d} :
            cpc'[c] = cpc[c] /\ status'[c] = status[c] /\ printed'[c] = printed[c]
  BY <1>1 DEF EchoTypeInv
<1>3. EchoTypeInv'
  <2>1. cpc' \in [Clients -> {"connect", "send", "recv", "exit"}]
    BY <1>1 DEF EchoTypeInv
  <2>2. status' \in [Clients -> {"none", "0", "1", "3", "4", "crash", "signal", "unread"}]
    BY <1>1 DEF EchoTypeInv
  <2>3. printed' \in [Clients -> Seq(EchoBytes)]
    BY <1>1 DEF EchoTypeInv
  <2> QED
    BY <1>1, <2>1, <2>2, <2>3 DEF EchoTypeInv
<1>4. EchoQueueInv'
  <2>1. \A c \in Clients : cpc'[c] = "connect" => cpc[c] = "connect"
    BY <1>2
  <2> QED
    BY <1>1, <2>1 DEF EchoQueueInv, Waiting
<1>5. ASSUME NEW c \in Clients \ {d} PROVE EchoClientInv(c)'
  <2>1. EchoAt(d)
    BY <1>2 DEF EchoAt
  <2>2. Waiting(c)' => Waiting(c)
    BY DEF Waiting
  <2> QED
    BY <2>1, <2>2, EchoOthersKept
<1>6. EchoClientInv(d)'
  <2>1. EchoClientInv(d)
    BY DEF EchoInv
  <2>2. Unheard(d)' => Unheard(d)
    BY <1>2 DEF Unheard, Waiting
  <2>3. /\ Own(sent[d], d)' <=> Own(sent[d], d)
        /\ Own(reply[d], d)' <=> Own(reply[d], d)
        /\ Own(buffer, d)' <=> Own(buffer, d)
    BY DEF Own
  <2>4. code = "0" => Own(printed[d], d)' /\ Len(printed'[d]) \in 1 .. MAXSTRING
    BY <1>2 DEF Own
  <2> QED
    BY <1>2, <2>1, <2>2, <2>3, <2>4 DEF EchoClientInv
<1> QED
  BY <1>3, <1>4, <1>5, <1>6 DEF EchoInv

(* Exits that print nothing.                                               *)
LEMMA EchoQuietExit ==
  ASSUME EchoConstants, EchoInv, NEW d \in Clients, cpc[d] # "exit",
         NEW code \in {"1", "3", "4", "crash", "signal"}, Echo!Exit(d, code),
         UNCHANGED <<spc, served, buffer, queue, message, printed, sent, reply, conn>>
  PROVE  EchoInv'
<1>1. /\ cpc' = [cpc EXCEPT ![d] = "exit"] /\ status' = [status EXCEPT ![d] = code]
  BY DEF Echo!Exit
<1>2. printed \in [Clients -> Seq(EchoBytes)]
  BY DEF EchoInv, EchoTypeInv
<1>3. PICK line \in Seq(EchoBytes) : line = printed[d]
  BY <1>2
<1>4. printed' = [printed EXCEPT ![d] = line]
  BY <1>2, <1>3
<1>5. code # "0" /\ code \in {"0", "1", "3", "4", "crash", "signal", "unread"}
  OBVIOUS
<1> QED
  BY <1>1, <1>4, <1>5, EchoExitStep

(* connect puts the client in the queue, or is refused.                    *)
LEMMA EchoConnectStep ==
  ASSUME EchoConstants, EchoInv, NEW d \in Clients, Echo!Connect(d)
  PROVE  EchoInv'
<1>1. EchoTypeInv /\ EchoQueueInv /\ EchoClientInv(d) /\ cpc[d] = "connect"
  BY DEF EchoInv, Echo!Connect
<1>2. CASE Echo!Exit(d, "3") /\ UNCHANGED <<queue, conn>>
  BY <1>1, <1>2, EchoQuietExit DEF Echo!Connect, Echo!server
<1>3. CASE /\ queue' = Append(queue, d)
           /\ conn' = [conn EXCEPT ![d] = "open"] /\ cpc' = [cpc EXCEPT ![d] = "send"]
           /\ UNCHANGED status
  <2>1. UNCHANGED <<spc, served, buffer, status, message, printed, sent, reply>>
    BY <1>3 DEF Echo!Connect, Echo!server
  <2>2. /\ conn'[d] = "open" /\ cpc'[d] = "send"
        /\ \A c \in Clients \ {d} : conn'[c] = conn[c] /\ cpc'[c] = cpc[c]
    BY <1>1, <1>3 DEF EchoTypeInv
  <2>3. ~ Waiting(d) /\ d # served
    BY <1>1 DEF EchoQueueInv
  <2>4. /\ Append(queue, d) \in Seq(Clients) /\ IsInjective(Append(queue, d))
        /\ \A c : Waiting(c)' <=> Waiting(c) \/ c = d
    <3>1. queue \in Seq(Clients) /\ IsInjective(queue)
      BY <1>1 DEF EchoTypeInv, EchoQueueInv
    <3>2. \A j \in DOMAIN queue : queue[j] # d
      BY <2>3 DEF Waiting
    <3>3. /\ Append(queue, d) \in Seq(Clients)
          /\ \A c : (\E j \in DOMAIN Append(queue, d) : Append(queue, d)[j] = c)
                      <=> (\E j \in DOMAIN queue : queue[j] = c) \/ c = d
          /\ IsInjective(Append(queue, d))
      BY <3>1, <3>2, AppendElements, AppendProperties
    <3>4. \A c : Waiting(c)' <=> \E j \in DOMAIN Append(queue, d) : Append(queue, d)[j] = c
      BY <1>3 DEF Waiting
    <3> QED
      BY <3>3, <3>4 DEF Waiting
  <2>5. EchoTypeInv'
    <3>1. cpc' \in [Clients -> {"connect", "send", "recv", "exit"}]
      BY <1>1, <1>3 DEF EchoTypeInv
    <3>2. conn' \in [Clients -> {"none", "open", "closed", "reset"}]
      BY <1>1, <1>3 DEF EchoTypeInv
    <3> QED
      BY <1>1, <1>3, <2>1, <2>4, <3>1, <3>2 DEF EchoTypeInv
  <2>6. EchoQueueInv'
    <3>1. \A c \in Clients : Waiting(c)' => c # served /\ cpc'[c] # "connect"
      BY <1>1, <2>2, <2>3, <2>4 DEF EchoQueueInv
    <3>2. served \in Clients => cpc'[served] # "connect"
      BY <1>1, <2>2, <2>3 DEF EchoQueueInv
    <3> QED
      BY <1>1, <1>3, <2>1, <2>4, <3>1, <3>2 DEF EchoQueueInv
  <2>7. ASSUME NEW c \in Clients \ {d} PROVE EchoClientInv(c)'
    <3>1. EchoAt(d)
      BY <2>1, <2>2 DEF EchoAt
    <3> QED
      BY <2>4, <3>1, EchoOthersKept
  <2>8. EchoClientInv(d)'
    <3>1. Unheard(d) /\ status[d] = "none" /\ sent[d] = <<>> /\ ~ Heard(d)
      BY <1>1 DEF EchoClientInv, Unheard
    <3>2. Heard(d)' <=> Heard(d)
      BY <2>1 DEF Heard
    <3>3. /\ Own(sent[d], d)' <=> Own(sent[d], d)
          /\ Own(reply[d], d)' <=> Own(reply[d], d)
      BY <2>1 DEF Own
    <3> QED
      BY <1>1, <2>1, <2>2, <2>3, <3>1, <3>2, <3>3 DEF EchoClientInv
  <2> QED
    BY <2>5, <2>6, <2>7, <2>8 DEF EchoInv
<1> QED
  BY <1>2, <1>3 DEF Echo!Connect

LEMMA EchoSendMessageStep ==
  ASSUME EchoConstants, EchoInv, NEW d \in Clients, Echo!SendMessage(d)
  PROVE  EchoInv'
<1>1. /\ EchoTypeInv /\ EchoQueueInv /\ EchoClientInv(d) /\ cpc[d] = "send"
      /\ UNCHANGED <<spc, served, buffer, queue, message, printed, reply, conn>>
  BY DEF EchoInv, Echo!SendMessage, Echo!server
<1>2. CASE (\E code \in {"4", "signal"} : Echo!Exit(d, code)) /\ UNCHANGED sent
  BY <1>1, <1>2, EchoQuietExit
<1>3. CASE /\ sent' = [sent EXCEPT ![d] = [b \in 1 .. message[d] |-> <<d, b>>]]
           /\ cpc' = [cpc EXCEPT ![d] = "recv"] /\ UNCHANGED status
  <2>0. PICK text : text = [b \in 1 .. message[d] |-> <<d, b>>]
    OBVIOUS
  <2>1. message[d] \in Nat
    BY <1>1 DEF EchoTypeInv, EchoConstants
  <2>2. text \in Seq(EchoBytes) /\ Len(text) = message[d]
    <3>1. \A b \in 1 .. message[d] : <<d, b>> \in EchoBytes
      BY <2>1 DEF EchoBytes
    <3>2. text \in [1 .. message[d] -> EchoBytes]
      BY <2>0, <3>1
    <3>3. text \in Seq(EchoBytes)
      BY <2>1, <3>2, SeqDef
    <3> QED
      BY <2>1, <3>2, <3>3, LenProperties
  <2>3. /\ sent'[d] = text /\ cpc'[d] = "recv"
        /\ \A c \in Clients \ {d} : sent'[c] = sent[c] /\ cpc'[c] = cpc[c]
    BY <1>1, <1>3, <2>0 DEF EchoTypeInv
  <2>4. EchoTypeInv'
    <3>1. cpc' \in [Clients -> {"connect", "send", "recv", "exit"}]
      BY <1>1, <1>3 DEF EchoTypeInv
    <3>2. sent' \in [Clients -> Seq(EchoBytes)]
      BY <1>1, <1>3, <2>0, <2>2 DEF EchoTypeInv
    <3> QED
      BY <1>1, <1>3, <3>1, <3>2 DEF EchoTypeInv
  <2>5. EchoQueueInv'
    <3>1. \A c \in Clients : cpc'[c] = "connect" => cpc[c] = "connect"
      BY <1>1, <2>3
    <3> QED
      BY <1>1, <3>1 DEF EchoQueueInv, Waiting
  <2>6. ASSUME NEW c \in Clients \ {d} PROVE EchoClientInv(c)'
    <3>1. EchoAt(d)
      BY <1>1, <1>3, <2>3 DEF EchoAt
    <3>2. Waiting(c)' => Waiting(c)
      BY <1>1 DEF Waiting
    <3> QED
      BY <3>1, <3>2, EchoOthersKept
  <2>7. EchoClientInv(d)'
    <3>1. Own(sent[d], d)'
      BY <1>1, <2>0, <2>1, <2>2, <2>3 DEF Own
    <3>2. Unheard(d)' => Unheard(d)
      BY <1>1, <2>3 DEF Unheard, Waiting
    <3>3. /\ Own(reply[d], d)' <=> Own(reply[d], d)
          /\ Own(printed[d], d)' <=> Own(printed[d], d)
      BY <1>1 DEF Own
    <3>4. ~ Heard(d) /\ conn[d] # "closed" /\ status[d] = "none"
      BY <1>1 DEF EchoClientInv
    <3>5. spc' \in {"send", "close"} => served' # d
      BY <1>1, <3>4 DEF Heard
    <3> QED
      BY <1>1, <1>3, <2>3, <3>1, <3>2, <3>3, <3>4, <3>5 DEF EchoClientInv
  <2> QED
    BY <2>4, <2>5, <2>6, <2>7 DEF EchoInv
<1> QED
  BY <1>2, <1>3 DEF Echo!SendMessage

LEMMA EchoReceiveLineStep ==
  ASSUME EchoConstants, EchoInv, NEW d \in Clients, Echo!ReceiveLine(d)
  PROVE  EchoInv'
<1>1. /\ EchoTypeInv /\ EchoClientInv(d) /\ cpc[d] = "recv"
      /\ UNCHANGED <<spc, served, buffer, queue, message, sent, reply, conn>>
  BY DEF EchoInv, Echo!ReceiveLine, Echo!server, Echo!wire
<1>2. reply[d] \in Seq(EchoBytes) /\ Len(reply[d]) \in Nat /\ message[d] \in Nat
  BY <1>1, LenProperties DEF EchoTypeInv, EchoConstants
<1>3. PICK n \in Echo!Received(d) :
        /\ printed' = [printed EXCEPT ![d] = IF n < 0 THEN Echo!Garbage
                                             ELSE SubSeq(reply[d], 1, n)]
        /\ Echo!Exit(d, IF n < 0 THEN "unread" ELSE "0")
  BY DEF Echo!ReceiveLine
<1>4. CASE n = -1
  <2>1. Echo!Garbage \in Seq(EchoBytes)
    BY DEF Echo!Garbage, EchoBytes
  <2>2. /\ printed' = [printed EXCEPT ![d] = Echo!Garbage]
        /\ cpc' = [cpc EXCEPT ![d] = "exit"] /\ status' = [status EXCEPT ![d] = "unread"]
    BY <1>3, <1>4 DEF Echo!Exit
  <2>3. "unread" # "0" /\ "unread" \in {"0", "1", "3", "4", "crash", "signal", "unread"}
    OBVIOUS
  <2> QED
    BY <1>1, <2>1, <2>2, <2>3, EchoExitStep
<1>5. CASE n \in 1 .. Len(reply[d])
  <2>1. PICK line : line = SubSeq(reply[d], 1, n)
    OBVIOUS
  <2>2. /\ line \in Seq(EchoBytes) /\ Len(line) = n
        /\ \A b \in 1 .. n : line[b] = reply[d][b]
    <3>1. n \in 0 .. Len(reply[d])
      BY <1>2, <1>5
    <3> QED
      BY <1>2, <2>1, <3>1, CutProperties
  <2>3. Own(line, d) /\ Len(line) \in 1 .. MAXSTRING
    BY <1>1, <1>2, <1>5, <2>2 DEF EchoClientInv, Own, EchoConstants
  <2>4. /\ printed' = [printed EXCEPT ![d] = line]
        /\ cpc' = [cpc EXCEPT ![d] = "exit"] /\ status' = [status EXCEPT ![d] = "0"]
    <3>1. ~ (n < 0)
      BY <1>2, <1>5
    <3>2. printed' = [printed EXCEPT ![d] = line] /\ Echo!Exit(d, "0")
      BY <1>3, <2>1, <3>1
    <3> QED
      BY <3>2 DEF Echo!Exit
  <2> QED
    BY <1>1, <2>2, <2>3, <2>4, EchoExitStep
<1>6. CASE n = 0 /\ reply[d] = <<>> /\ conn[d] = "closed"
  BY <1>1, <1>6 DEF EchoClientInv
<1> QED
  BY <1>3, <1>4, <1>5, <1>6 DEF Echo!Received

LEMMA EchoNextInv ==
  ASSUME EchoConstants
  PROVE  EchoInv /\ [Echo!Next]_(Echo!vars) => EchoInv'
<1> SUFFICES ASSUME EchoInv, [Echo!Next]_(Echo!vars) PROVE EchoInv'
  OBVIOUS
<1>1. CASE UNCHANGED Echo!vars
  <2>1. UNCHANGED <<spc, served, buffer, queue, message, cpc, printed, status, sent,
                    reply, conn>>
    BY <1>1 DEF Echo!vars, Echo!server, Echo!client, Echo!wire
  <2> QED
    BY <2>1 DEF EchoInv, EchoTypeInv, EchoQueueInv, EchoClientInv, Unheard, Heard,
       Waiting, Own
<1>2. ASSUME NEW d \in Clients, Echo!NoSocket(d) \/ Echo!Interrupt(d) PROVE EchoInv'
  <2>1. PICK code \in {"1", "3", "4", "crash", "signal"} : Echo!Exit(d, code)
    BY <1>2 DEF Echo!NoSocket, Echo!Interrupt
  <2>2. cpc[d] # "exit"
    BY <1>2 DEF Echo!NoSocket, Echo!Interrupt
  <2>3. UNCHANGED <<spc, served, buffer, queue, message, printed, sent, reply, conn>>
    BY <1>2 DEF Echo!NoSocket, Echo!Interrupt, Echo!server, Echo!wire
  <2> QED
    BY <2>1, <2>2, <2>3, EchoQuietExit
<1> QED
  BY <1>1, <1>2, EchoBindStep, EchoAcceptStep, EchoReceiveStep, EchoReadErrorStep,
     EchoSendStep, EchoCloseStep, EchoConnectStep, EchoSendMessageStep, EchoReceiveLineStep
     DEF Echo!Next, Echo!ServerStep, Echo!ClientStep

(* The inductive invariant of the echo pair.                               *)
THEOREM EchoInvariance ==
  ASSUME Echo!SizesAssumption, Echo!NoClientNotOne
  PROVE  Echo!SafeSpec => []EchoInv
<1>1. EchoConstants
  BY DEF EchoConstants, Echo!SizesAssumption, Echo!NoClientNotOne
<1> QED
  BY <1>1, EchoInitInv, EchoNextInv, PTL DEF Echo!SafeSpec

(* A client that could read prints the beginning of its own message, in    *)
(* one buffer, and never another client's (echoserver.c:114-127,           *)
(* echoclient.c:103-107).                                                  *)
THEOREM OwnBeginningPrinted ==
  ASSUME Echo!SizesAssumption, Echo!NoClientNotOne
  PROVE  Echo!SafeSpec => []Echo!PrintsOwnBeginning
<1>1. EchoInv => Echo!PrintsOwnBeginning
  <2> SUFFICES ASSUME EchoInv, NEW c \in Clients, status[c] = "0"
               PROVE  /\ printed[c] = [b \in 1 .. Len(printed[c]) |-> <<c, b>>]
                      /\ Len(printed[c]) \in 1 .. MAXSTRING /\ Len(printed[c]) <= message[c]
    BY DEF Echo!PrintsOwnBeginning
  <2>1. Own(printed[c], c) /\ Len(printed[c]) \in 1 .. MAXSTRING
    BY DEF EchoInv, EchoClientInv
  <2>2. printed[c] \in Seq(EchoBytes)
    BY DEF EchoInv, EchoTypeInv
  <2>3. PICK k \in Nat : k = Len(printed[c])
    BY <2>2, LenProperties
  <2>4. printed[c] \in [1 .. k -> EchoBytes]
    BY <2>2, <2>3, LenProperties
  <2>5. printed[c] = [b \in 1 .. k |-> <<c, b>>]
    BY <2>1, <2>3, <2>4 DEF Own
  <2> QED
    BY <2>1, <2>3, <2>5 DEF Own
<1> QED
  BY <1>1, EchoInvariance, PTL

-----------------------------------------------------------------------------
(* Neither side of the echo waits for the other in vain.                   *)

(* An open connection waits or is served; while nothing of it has been     *)
(* read, its client has sent all of its message.                           *)
EchoWaitInv ==
    /\ spc \in {"bind", "elsewhere", "exit"} => queue = <<>>
    /\ \A c \in Clients :
          /\ cpc[c] \in {"send", "recv"} =>
                /\ conn[c] # "none"
                /\ conn[c] \in {"closed", "reset"} \/ Waiting(c) \/ served = c
          /\ cpc[c] = "recv" /\ Unheard(c) => Len(sent[c]) = message[c]

(* A step of a client that ends, or of the others.                         *)
LEMMA EchoWaitKept ==
  ASSUME EchoWaitInv, UNCHANGED <<spc, served, queue, message, conn, sent>>,
         \A c \in Clients : cpc'[c] = cpc[c] \/ cpc'[c] = "exit"
  PROVE  EchoWaitInv'
<1>1. \A c : Waiting(c)' <=> Waiting(c)
  BY DEF Waiting
<1> QED
  BY <1>1 DEF EchoWaitInv, Unheard

LEMMA EchoExitWaits ==
  ASSUME EchoInv, EchoWaitInv, NEW d \in Clients,
         NEW code \in {"0", "1", "3", "4", "crash", "signal", "unread"}, Echo!Exit(d, code),
         UNCHANGED <<spc, served, queue, message, conn, sent>>
  PROVE  EchoWaitInv'
<1>1. cpc \in [Clients -> {"connect", "send", "recv", "exit"}]
  BY DEF EchoInv, EchoTypeInv
<1>2. cpc' = [cpc EXCEPT ![d] = "exit"]
  BY DEF Echo!Exit
<1>3. \A c \in Clients : cpc'[c] = cpc[c] \/ cpc'[c] = "exit"
  BY <1>1, <1>2
<1> QED
  BY <1>3, EchoWaitKept

LEMMA EchoServerWaits ==
  ASSUME EchoConstants, EchoInv, EchoWaitInv, Echo!ServerStep \/ Echo!ReadError
  PROVE  EchoWaitInv'
<1>1. EchoTypeInv /\ EchoQueueInv
  BY DEF EchoInv
<1>2. CASE Echo!Bind
  <2>1. /\ spc = "bind" /\ spc' \in {"accept", "elsewhere"}
        /\ UNCHANGED <<served, queue, message, cpc, sent, conn>>
    BY <1>2 DEF Echo!Bind, Echo!client, Echo!wire
  <2>2. \A c : Waiting(c)' <=> Waiting(c)
    BY <2>1 DEF Waiting
  <2> QED
    BY <2>1, <2>2 DEF EchoWaitInv, Unheard
<1>3. CASE Echo!Accept
  <2>1. PICK h : h = Head(queue)
    OBVIOUS
  <2>2. /\ spc = "accept" /\ queue # <<>> /\ spc' = "recv" /\ served' = h
        /\ queue' = Tail(queue) /\ UNCHANGED <<message, cpc, sent, conn>>
    BY <1>3, <2>1 DEF Echo!Accept, Echo!client, Echo!wire
  <2>3. served = NoClient /\ queue \in Seq(Clients)
    BY <1>1, <2>2 DEF EchoTypeInv, EchoQueueInv
  <2>4. \A c : Waiting(c) <=> Waiting(c)' \/ c = h
    <3>1. \A c : (\E j \in DOMAIN queue : queue[j] = c)
                    <=> (\E j \in DOMAIN Tail(queue) : Tail(queue)[j] = c)
                        \/ c = Head(queue)
      BY <2>2, <2>3, TailElements
    <3>2. \A c : Waiting(c)' <=> \E j \in DOMAIN Tail(queue) : Tail(queue)[j] = c
      BY <2>2 DEF Waiting
    <3> QED
      BY <2>1, <3>1, <3>2 DEF Waiting
  <2>5. \A c \in Clients : c # NoClient
    BY DEF EchoConstants
  <2>6. \A c \in Clients : (Unheard(c)' => Unheard(c)) /\ (Waiting(c) => Waiting(c)' \/ served' = c)
    BY <2>2, <2>4 DEF Unheard
  <2> QED
    BY <2>2, <2>3, <2>5, <2>6 DEF EchoWaitInv
<1>4. CASE Echo!Receive
  <2>1. /\ spc = "recv" /\ spc' \in {"send", "close"}
        /\ UNCHANGED <<served, queue, message, cpc, conn>>
        /\ \A c \in Clients \ {served} : sent'[c] = sent[c]
    <3>1. /\ spc = "recv" /\ spc' \in {"send", "close"}
          /\ UNCHANGED <<served, queue, message, cpc, conn>>
      BY <1>4 DEF Echo!Receive, Echo!client
    <3>2. sent' = sent \/ \E n : sent' = [sent EXCEPT ![served] = SubSeq(@, n + 1, Len(@))]
      BY <1>4 DEF Echo!Receive
    <3> QED
      BY <1>1, <3>1, <3>2 DEF EchoTypeInv
  <2>2. \A c : Waiting(c)' <=> Waiting(c)
    BY <2>1 DEF Waiting
  <2>3. \A c \in Clients : cpc'[c] = "recv" /\ Unheard(c)' => c # served /\ Unheard(c)
    BY <1>1, <2>1, <2>2 DEF Unheard, EchoQueueInv
  <2> QED
    BY <2>1, <2>2, <2>3 DEF EchoWaitInv
<1>5. CASE Echo!Send
  <2>1. /\ spc = "send" /\ spc' = "close"
        /\ UNCHANGED <<served, queue, message, cpc, sent, conn>>
    BY <1>5 DEF Echo!Send, Echo!client
  <2>2. \A c : Waiting(c)' <=> Waiting(c)
    BY <2>1 DEF Waiting
  <2> QED
    BY <2>1, <2>2 DEF EchoWaitInv, Unheard
<1>6. CASE Echo!Close
  <2>1. /\ spc = "close" /\ spc' = "accept" /\ served' = NoClient
        /\ UNCHANGED <<queue, message, cpc, sent>>
        /\ \E end \in {"closed", "reset"} : conn' = [conn EXCEPT ![served] = end]
    BY <1>6 DEF Echo!Close, Echo!client
  <2>2. \A c : Waiting(c)' <=> Waiting(c)
    BY <2>1 DEF Waiting
  <2>3. \A c \in Clients : IF c = served THEN conn'[c] \in {"closed", "reset"}
                                         ELSE conn'[c] = conn[c]
    BY <1>1, <2>1 DEF EchoTypeInv
  <2> QED
    BY <2>1, <2>2, <2>3 DEF EchoWaitInv, Unheard, EchoConstants
<1>7. CASE Echo!ReadError
  <2>1. /\ spc' = "exit" /\ queue' = <<>> /\ UNCHANGED <<message, cpc, sent>>
        /\ conn' = [c \in Clients |-> IF conn[c] = "open" THEN "reset" ELSE conn[c]]
        /\ served' = NoClient
    BY <1>7 DEF Echo!ReadError, Echo!client
  <2>2. \A c : ~ Waiting(c)'
    BY <2>1, EmptySeq DEF Waiting
  <2>3. \A c \in Clients : 
         cpc[c] \in {"send", "recv"} => conn'[c] \in {"closed", "reset"}
    <3>1. \A c \in Clients : conn[c] \in {"none", "open", "closed", "reset"}
      BY <1>1 DEF EchoTypeInv
    <3> QED
      BY <2>1, <3>1 DEF EchoWaitInv
  <2> QED
    BY <2>1, <2>2, <2>3 DEF EchoWaitInv, Unheard
<1> QED
  BY <1>2, <1>3, <1>4, <1>5, <1>6, <1>7 DEF Echo!ServerStep

LEMMA EchoConnectWaits ==
  ASSUME EchoConstants, EchoInv, EchoWaitInv, NEW d \in Clients, Echo!Connect(d)
  PROVE  EchoWaitInv'
<1>1. /\ EchoTypeInv /\ EchoQueueInv /\ cpc[d] = "connect"
      /\ UNCHANGED <<spc, served, message, sent>>
  BY DEF EchoInv, Echo!Connect, Echo!server
<1>2. CASE Echo!Exit(d, "3") /\ UNCHANGED <<queue, conn>>
  BY <1>1, <1>2, EchoExitWaits
<1>3. CASE /\ spc \notin {"bind", "elsewhere", "exit"} /\ queue' = Append(queue, d)
           /\ conn' = [conn EXCEPT ![d] = "open"] /\ cpc' = [cpc EXCEPT ![d] = "send"]
  <2>1. /\ conn'[d] = "open" /\ cpc'[d] = "send"
        /\ \A c \in Clients \ {d} : cpc'[c] = cpc[c] /\ conn'[c] = conn[c]
    BY <1>1, <1>3 DEF EchoTypeInv
  <2>2. \A c : Waiting(c)' <=> Waiting(c) \/ c = d
    <3>1. queue \in Seq(Clients)
      BY <1>1 DEF EchoTypeInv
    <3>2. \A c : (\E j \in DOMAIN Append(queue, d) : Append(queue, d)[j] = c)
                    <=> (\E j \in DOMAIN queue : queue[j] = c) \/ c = d
      BY <3>1, AppendElements
    <3>3. \A c : Waiting(c)' <=> \E j \in DOMAIN Append(queue, d) : Append(queue, d)[j] = c
      BY <1>3 DEF Waiting
    <3> QED
      BY <3>2, <3>3 DEF Waiting
  <2>3. ASSUME NEW c \in Clients
        PROVE  /\ cpc'[c] \in {"send", "recv"} =>
                     /\ conn'[c] # "none"
                     /\ conn'[c] \in {"closed", "reset"} \/ Waiting(c)' \/ served' = c
               /\ cpc'[c] = "recv" /\ Unheard(c)' => Len(sent'[c]) = message'[c]
    <3>1. CASE c = d
      BY <2>1, <2>2, <3>1
    <3>2. CASE c # d
      <4>1. (Waiting(c)' <=> Waiting(c)) /\ (Unheard(c)' <=> Unheard(c))
        BY <1>1, <2>1, <2>2, <3>2 DEF Unheard
      <4> QED
        BY <1>1, <2>1, <3>2, <4>1 DEF EchoWaitInv
    <3> QED
      BY <3>1, <3>2
  <2>4. spc' \in {"bind", "elsewhere", "exit"} => queue' = <<>>
    BY <1>1, <1>3
  <2> QED
    BY <2>3, <2>4 DEF EchoWaitInv
<1> QED
  BY <1>2, <1>3 DEF Echo!Connect

LEMMA EchoSendMessageWaits ==
  ASSUME EchoConstants, EchoInv, EchoWaitInv, NEW d \in Clients, Echo!SendMessage(d)
  PROVE  EchoWaitInv'
<1>1. /\ EchoTypeInv /\ EchoQueueInv /\ cpc[d] = "send"
      /\ UNCHANGED <<spc, served, queue, message, conn>>
  BY DEF EchoInv, Echo!SendMessage, Echo!server
<1>2. CASE (\E code \in {"4", "signal"} : Echo!Exit(d, code)) /\ UNCHANGED sent
  BY <1>1, <1>2, EchoExitWaits
<1>3. CASE /\ sent' = [sent EXCEPT ![d] = [b \in 1 .. message[d] |-> <<d, b>>]]
           /\ cpc' = [cpc EXCEPT ![d] = "recv"]
  <2>1. \A c \in Clients \ {d} : cpc'[c] = cpc[c] /\ sent'[c] = sent[c]
    BY <1>1, <1>3 DEF EchoTypeInv
  <2>2. Len(sent'[d]) = message[d]
    <3>1. message[d] \in Nat
      BY <1>1 DEF EchoTypeInv, EchoConstants
    <3>2. Len([b \in 1 .. message[d] |-> <<d, b>>]) = message[d]
      BY <3>1
    <3>3. sent'[d] = [b \in 1 .. message[d] |-> <<d, b>>]
      BY <1>1, <1>3 DEF EchoTypeInv
    <3> QED
      BY <3>2, <3>3
  <2>3. \A c : Waiting(c)' <=> Waiting(c)
    BY <1>1 DEF Waiting
  <2>4. ASSUME NEW c \in Clients
        PROVE  /\ cpc'[c] \in {"send", "recv"} =>
                     /\ conn'[c] # "none"
                     /\ conn'[c] \in {"closed", "reset"} \/ Waiting(c)' \/ served' = c
               /\ cpc'[c] = "recv" /\ Unheard(c)' => Len(sent'[c]) = message'[c]
    <3>1. CASE c = d
      BY <1>1, <2>2, <2>3, <3>1 DEF EchoWaitInv
    <3>2. CASE c # d
      BY <1>1, <2>1, <2>3, <3>2 DEF EchoWaitInv, Unheard
    <3> QED
      BY <3>1, <3>2
  <2>5. spc' \in {"bind", "elsewhere", "exit"} => queue' = <<>>
    BY <1>1 DEF EchoWaitInv
  <2> QED
    BY <2>4, <2>5 DEF EchoWaitInv
<1> QED
  BY <1>2, <1>3 DEF Echo!SendMessage

LEMMA EchoClientEnds ==
  ASSUME EchoInv, EchoWaitInv, NEW d \in Clients,
         Echo!ReceiveLine(d) \/ Echo!NoSocket(d) \/ Echo!Interrupt(d)
  PROVE  EchoWaitInv'
<1>1. UNCHANGED <<spc, served, queue, message, conn, sent>>
  BY DEF Echo!ReceiveLine, Echo!NoSocket, Echo!Interrupt, Echo!server, Echo!wire
<1>2. PICK code \in {"0", "1", "3", "4", "crash", "signal", "unread"} : Echo!Exit(d, code)
  BY DEF Echo!ReceiveLine, Echo!NoSocket, Echo!Interrupt
<1> QED
  BY <1>1, <1>2, EchoExitWaits

LEMMA EchoWaitInit == Echo!Init => EchoWaitInv
<1> SUFFICES ASSUME Echo!Init PROVE EchoWaitInv
  OBVIOUS
<1>1. queue = <<>> /\ cpc = [c \in Clients |-> "connect"]
  BY DEF Echo!Init
<1> QED
  BY <1>1 DEF EchoWaitInv

LEMMA EchoWaitNext ==
  ASSUME EchoConstants
  PROVE  EchoInv /\ EchoWaitInv /\ [Echo!Next]_(Echo!vars) => EchoWaitInv'
<1> SUFFICES ASSUME EchoInv, EchoWaitInv, [Echo!Next]_(Echo!vars) PROVE EchoWaitInv'
  OBVIOUS
<1>1. CASE UNCHANGED Echo!vars
  <2>1. UNCHANGED <<spc, served, queue, message, cpc, conn, sent>>
    BY <1>1 DEF Echo!vars, Echo!server, Echo!client, Echo!wire
  <2> QED
    BY <2>1, EchoWaitKept
<1> QED
  BY <1>1, EchoServerWaits, EchoConnectWaits, EchoSendMessageWaits, EchoClientEnds
     DEF Echo!Next, Echo!ClientStep

(* As long as a client is there the server or a client can go on, however  *)
(* full the backlog is, unless the server waits for the first byte of an   *)
(* empty message (echoserver.c:111-131, echoclient.c:89-110).              *)
THEOREM NobodyStuck ==
  ASSUME Echo!SizesAssumption, Echo!NoClientNotOne
  PROVE  Echo!SafeSpec => []Echo!NeverStuck
<1>1. EchoConstants
  BY DEF EchoConstants, Echo!SizesAssumption, Echo!NoClientNotOne
<1>2. EchoInv /\ EchoWaitInv => Echo!NeverStuck
  <2> SUFFICES ASSUME EchoInv, EchoWaitInv, NEW c \in Clients, cpc[c] # "exit",
                      ~ Echo!ServerMoves, \A e \in Clients : ~ Echo!ClientMoves(e),
                      ~ (spc = "recv" /\ message[served] = 0)
               PROVE  FALSE
    BY DEF Echo!NeverStuck
  <2>1. EchoTypeInv /\ EchoQueueInv
    BY DEF EchoInv
  <2>2. ~ (spc = "recv")
    <3> SUFFICES ASSUME spc = "recv" PROVE FALSE
      OBVIOUS
    <3>1. served \in Clients /\ cpc[served] \in {"send", "recv"} /\ sent[served] = <<>>
      BY <2>1 DEF EchoTypeInv, EchoQueueInv, Echo!ServerMoves
    <3>2. cpc[served] = "recv"
      BY <3>1 DEF Echo!ClientMoves
    <3>3. Len(sent[served]) = message[served]
      BY <3>1, <3>2 DEF EchoWaitInv, Unheard
    <3> QED
      BY <3>1, <3>3, EmptySeq
  <2>3. spc \in {"accept", "elsewhere", "exit"} /\ queue = <<>>
    BY <2>1, <2>2 DEF EchoTypeInv, Echo!ServerMoves, EchoWaitInv
  <2>4. cpc[c] # "connect"
    <3>1. Len(queue) <= maxnpending
      <4>1. Len(queue) = 0 /\ maxnpending \in Nat
        BY <1>1, <2>3, EmptySeq DEF EchoConstants
      <4> QED
        BY <4>1
    <3> QED
      BY <3>1 DEF Echo!ClientMoves
  <2>5. cpc[c] = "recv"
    BY <2>1, <2>4 DEF EchoTypeInv, Echo!ClientMoves
  <2>6. Echo!Received(c) = {}
    BY <2>5 DEF Echo!ClientMoves
  <2>7. conn[c] \in {"closed", "reset"}
    <3>1. ~ Waiting(c)
      BY <2>3, EmptySeq DEF Waiting
    <3>2. served # c
      BY <1>1, <2>1, <2>3 DEF EchoQueueInv, EchoConstants
    <3> QED
      BY <2>5, <3>1, <3>2 DEF EchoWaitInv
  <2>8. reply[c] = <<>>
    <3>1. reply[c] \in Seq(EchoBytes)
      BY <2>1 DEF EchoTypeInv
    <3>2. 1 \notin 1 .. Len(reply[c])
      BY <2>6 DEF Echo!Received
    <3>3. Len(reply[c]) \in Nat
      BY <3>1, LenProperties
    <3>4. Len(reply[c]) = 0
      BY <3>2, <3>3
    <3> QED
      BY <3>1, <3>4, EmptySeq
  <2>9. 0 \in Echo!Received(c) \/ -1 \in Echo!Received(c)
    BY <2>7, <2>8 DEF Echo!Received
  <2> QED
    BY <2>6, <2>9
<1> QED
  BY <1>1, <1>2, EchoInvariance, EchoWaitInit, EchoWaitNext, PTL DEF Echo!SafeSpec
===============================================================================
