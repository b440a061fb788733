---------------------------- MODULE GfServerProofs ----------------------------
(***************************************************************************)
(* Proofs about GfServer for every set of clients, all that they may send, *)
(* every content store and all sizes of the two buffers.                   *)
(***************************************************************************)
EXTENDS GfServer, QueueLemmas

Tokens    == UNION {Range(t) : t \in Texts}
FileBytes == Paths \X (Nat \ {0})

(* TypeOK, and what its quantifiers leave open.                            *)
TypeInv ==
    /\ TypeOK
    /\ buffer \in Seq(Tokens)
    /\ body \in [Clients -> Seq(FileBytes)]

Queued(c) == \E j \in DOMAIN backlog : backlog[j] = c

(* A connection is in the listen queue, accepted, or closed, once.         *)
QueueInv ==
    /\ IsInjective(backlog)
    /\ \A c \in Clients : Queued(c) => c # ctx /\ c \notin closed /\ link[c] # "none"
    /\ ctx \in Clients => ctx \notin closed /\ link[ctx] # "none"
    /\ \A c \in closed : link[c] # "none"
    /\ ctx # NoClient <=> pc \notin {"setup", "accept"}

Unanswered(c) == status[c] = "none" /\ body[c] = <<>>

(* The client has sent a proper request, and recv has taken it.            *)
Asked(c) == got[c] > 2 /\ IsRequest(text[c])

(* The bytes are a beginning of file p.                                    *)
Beginning(bytes, p) == \A b \in 1 .. Len(bytes) : bytes[b] = <<p, b>>

(* Answered, byte by byte.                                                 *)
AnsweredOf(c) ==
    /\ status[c] = "OK" => IsRequest(text[c]) /\ text[c][3] \in DOMAIN FileLen
    /\ body[c] # <<>> => status[c] = "OK"
    /\ Beginning(body[c], text[c][3])

(* What WholeAnswer says of one client.                                    *)
WholeOf(c) ==
    link[c] \in {"open", "shut"} /\ Asked(c) =>
        IF text[c][3] \in DOMAIN FileLen
        THEN status[c] = "OK" /\ Len(body[c]) = FileLen[text[c][3]]
        ELSE status[c] = "FILE_NOT_FOUND" /\ body[c] = <<>>

ClientInv(c) ==
    /\ c \notin closed /\ c # ctx => got[c] = 0 /\ Unanswered(c)
    /\ got[c] > 0 => AnsweredOf(c)
    /\ c \in closed \ aborted => WholeOf(c)

(* The connection being served.  Once recv has taken something, the buffer *)
(* holds what this client has sent and nothing else, as far as it fits;    *)
(* before that it holds an earlier request, and an answer to that is one   *)
(* to a client that has asked for nothing.                                 *)
CtxInv ==
    /\ pc \in {"recv", "parse", "notfound", "handler"} => Unanswered(ctx)
    /\ pc \in {"recv", "parse"} =>
          /\ request_size = Smaller(got[ctx], BUFSIZ)
          /\ got[ctx] > 0 => /\ Len(buffer) = request_size
                             /\ \A k \in 1 .. request_size : buffer[k] = text[ctx][k]
    /\ pc = "notfound" => ~ Asked(ctx)
    /\ pc \in {"handler", "chunk"} /\ got[ctx] > 0 =>
          IsRequest(text[ctx]) /\ path = text[ctx][3]
    /\ pc = "chunk" =>
          /\ path \in DOMAIN FileLen /\ bytes_transferred <= FileLen[path]
          /\ Len(body[ctx]) = bytes_transferred /\ Beginning(body[ctx], path)
          /\ \/ status[ctx] = "OK"
             \/ status[ctx] = "none" /\ link[ctx] = "reset" /\ body[ctx] = <<>>
    /\ pc = "close" /\ ctx \notin aborted => WholeOf(ctx)

IInv ==
    /\ TypeInv
    /\ QueueInv
    /\ \A c \in Clients : ClientInv(c)
    /\ CtxInv

-----------------------------------------------------------------------------
(* The constants, and the texts.                                           *)

LEMMA Constants ==
    /\ BUFSIZ \in Nat /\ BUFSIZ > 2 /\ BUFFER_SIZE \in Nat \ {0}
    /\ NoClient \notin Clients
    /\ DOMAIN FileLen \subseteq Paths /\ FileLen \in [DOMAIN FileLen -> Nat]
BY SizesPositive, ClientsAssumption, KeysArePaths

LEMMA TextsAreTokens == \A t \in Texts : t \in Seq(Tokens)
<1> SUFFICES ASSUME NEW t \in Texts PROVE t \in Seq(Tokens)
  OBVIOUS
<1>1. t \in Seq(Range(t))
  BY TextsAssumption
<1>2. Range(t) \subseteq Tokens
  BY DEF Tokens
<1> QED
  BY <1>1, <1>2, SeqMonotonic

(* Whether the first n tokens of a text are a request.                     *)
LEMMA RequestOfPrefix ==
  ASSUME NEW t \in Seq(Tokens), NEW s \in Seq(Tokens), Len(s) <= Len(t),
         \A k \in 1 .. Len(s) : s[k] = t[k]
  PROVE  /\ IsRequest(s) <=> Len(s) > 2 /\ IsRequest(t)
         /\ Len(s) > 2 => s[3] = t[3]
<1>1. Len(s) \in Nat /\ Len(t) \in Nat
  BY LenProperties
<1>2. CASE Len(s) > 2
  <2>1. s[1] = t[1] /\ s[2] = t[2] /\ s[3] = t[3]
    BY <1>1, <1>2
  <2> QED
    BY <1>1, <1>2, <2>1 DEF IsRequest
<1>3. CASE ~ (Len(s) > 2)
  BY <1>3 DEF IsRequest
<1> QED
  BY <1>2, <1>3

LEMMA InitInv == Init => IInv
<1> SUFFICES ASSUME Init PROVE IInv
  OBVIOUS
<1>1. /\ backlog = <<>> /\ text \in [Clients -> Texts]
      /\ pushed = [c \in Clients |-> 0] /\ got = [c \in Clients |-> 0]
      /\ link = [c \in Clients |-> "none"] /\ pc = "setup" /\ ctx = NoClient
      /\ buffer = <<>> /\ request_size = 0 /\ path = "" /\ bytes_transferred = 0
      /\ status = [c \in Clients |-> "none"] /\ body = [c \in Clients |-> <<>>]
      /\ aborted = {} /\ closed = {} /\ process = "running"
  BY DEF Init
<1>2. /\ <<>> \in Seq(Clients) /\ <<>> \in Seq(Tokens) /\ <<>> \in Seq(FileBytes)
      /\ Len(<<>>) = 0
  BY EmptySeq
<1>3. \A c \in Clients : Len(text[c]) \in Nat
  BY <1>1, TextsAreTokens, LenProperties
<1>4. \A c \in Clients : /\ got[c] = 0 /\ pushed[c] = 0 /\ status[c] = "none"
                         /\ body[c] = <<>> /\ link[c] = "none"
  BY <1>1
<1>5. TypeInv
  <2>1. \A c \in Clients : got[c] <= pushed[c] /\ pushed[c] <= Len(text[c])
    BY <1>3, <1>4
  <2>2. \A c \in Clients : body[c] \in Seq(FileBytes)
    BY <1>2, <1>4
  <2>3. body \in [Clients -> Seq(FileBytes)]
    BY <1>1, <1>2
  <2>4. Len(buffer) <= BUFSIZ /\ request_size \in 0 .. Len(buffer)
    <3>1. Len(buffer) = 0 /\ request_size = 0
      BY <1>1, <1>2
    <3> QED
      BY <3>1, Constants
  <2>5. backlog \in Seq(Clients) /\ buffer \in Seq(Tokens)
    BY <1>1, <1>2
  <2>6. /\ pushed \in [Clients -> Nat] /\ got \in [Clients -> Nat]
        /\ link \in [Clients -> {"none", "open", "shut", "full", "gone", "reset"}]
        /\ status \in [Clients -> {"none", "OK", "FILE_NOT_FOUND"}]
    BY <1>1
  <2>7. /\ ctx \in Clients \cup {NoClient} /\ path \in Paths \cup {""}
        /\ bytes_transferred \in Nat /\ aborted \subseteq Clients /\ closed \subseteq Clients
    BY <1>1
  <2> QED
    BY <1>1, <2>1, <2>2, <2>3, <2>4, <2>5, <2>6, <2>7 DEF TypeInv, TypeOK, FileBytes
<1>6. QueueInv
  <2>1. DOMAIN backlog = {}
    <3>1. DOMAIN backlog = 1 .. 0
      BY <1>1, <1>2, LenProperties
    <3> QED
      BY <3>1
  <2> QED
    BY <1>1, <2>1, Constants DEF QueueInv, Queued, IsInjective
<1>7. \A c \in Clients : ClientInv(c)
  <2>1. \A c \in Clients : ~ (got[c] > 0) /\ Unanswered(c)
    BY <1>4 DEF Unanswered
  <2>2. \A c \in Clients : c \notin closed
    BY <1>1
  <2> QED
    BY <1>4, <2>1, <2>2 DEF ClientInv
<1>8. CtxInv
  BY <1>1 DEF CtxInv
<1> QED
  BY <1>5, <1>6, <1>7, <1>8 DEF IInv

-----------------------------------------------------------------------------
(* What the server's steps leave alone.                                    *)

(* A step of the server within a connection.                               *)
StepWithin ==
    /\ pc \notin {"setup", "accept"} /\ pc' \notin {"setup", "accept"}
    /\ aborted \subseteq aborted'
    /\ UNCHANGED <<backlog, text, pushed, ctx, closed>>
    /\ \A c \in Clients \ {ctx} : /\ got'[c] = got[c] /\ link'[c] = link[c]
                                  /\ status'[c] = status[c] /\ body'[c] = body[c]
    /\ link[ctx] # "none" => link'[ctx] # "none"

LEMMA OthersKept ==
  ASSUME IInv, StepWithin
  PROVE  /\ QueueInv' /\ ctx \in Clients /\ ctx \notin closed
         /\ \A c \in Clients \ {ctx} : ClientInv(c)'
<1>1. /\ pc \notin {"setup", "accept"} /\ pc' \notin {"setup", "accept"}
      /\ aborted \subseteq aborted'
      /\ UNCHANGED <<backlog, text, pushed, ctx, closed>>
      /\ \A c \in Clients \ {ctx} : /\ got'[c] = got[c] /\ link'[c] = link[c]
                                    /\ status'[c] = status[c] /\ body'[c] = body[c]
      /\ link[ctx] # "none" => link'[ctx] # "none"
  BY DEF StepWithin
<1>2. QueueInv /\ ctx \in Clients /\ ctx \notin closed
  BY <1>1 DEF IInv, TypeInv, TypeOK, QueueInv
<1>3. QueueInv'
  <2>1. \A c \in Clients : link[c] # "none" => link'[c] # "none"
    BY <1>1
  <2>2. closed \subseteq Clients
    BY DEF IInv, TypeInv, TypeOK
  <2> QED
    BY <1>1, <1>2, <2>1, <2>2 DEF QueueInv, Queued
<1>4. ASSUME NEW c \in Clients \ {ctx} PROVE ClientInv(c)'
  <2>1. ClientInv(c)
    BY DEF IInv
  <2>2. /\ got'[c] = got[c] /\ link'[c] = link[c] /\ status'[c] = status[c]
        /\ body'[c] = body[c] /\ text'[c] = text[c]
    BY <1>1
  <2>3. /\ Unanswered(c)' <=> Unanswered(c)
        /\ AnsweredOf(c)' <=> AnsweredOf(c)
        /\ WholeOf(c)' <=> WholeOf(c)
    BY <2>2 DEF Unanswered, AnsweredOf, Beginning, WholeOf, Asked
  <2> QED
    BY <1>1, <2>1, <2>2, <2>3 DEF ClientInv
<1> QED
  BY <1>2, <1>3, <1>4

-----------------------------------------------------------------------------
(* The process ends; a client takes a step.                                *)

LEMMA EndStep ==
  ASSUME IInv, NEW how \in {"exited", "crashed"}, End(how)
  PROVE  IInv'
<1>1. /\ process' = how
      /\ UNCHANGED <<backlog, text, pushed, link, got, pc, ctx, buffer, request_size, path,
                     bytes_transferred, status, body, aborted, closed>>
  BY DEF End, clients, request, answer, closing
<1>2. TypeInv'
  BY <1>1 DEF IInv, TypeInv, TypeOK
<1>3. QueueInv'
  BY <1>1 DEF IInv, QueueInv, Queued
<1>4. \A c \in Clients : ClientInv(c)'
  BY <1>1 DEF IInv, ClientInv, AnsweredOf, Unanswered, Beginning, WholeOf, Asked
<1>5. CtxInv'
  BY <1>1 DEF IInv, CtxInv, Unanswered, Beginning, WholeOf, Asked
<1> QED
  BY <1>2, <1>3, <1>4, <1>5 DEF IInv

LEMMA PushStep ==
  ASSUME IInv, NEW c \in Clients, Push(c)
  PROVE  IInv'
<1>1. /\ pushed[c] < Len(text[c]) /\ pushed' = [pushed EXCEPT ![c] = @ + 1]
      /\ UNCHANGED <<backlog, text, link, got, pc, ctx, buffer, request_size, path,
                     bytes_transferred, status, body, aborted, closed, process>>
  BY DEF Push, request, answer, closing
<1>2. TypeInv'
  <2>1. TypeInv /\ TypeOK
    BY DEF IInv, TypeInv
  <2>2. pushed \in [Clients -> Nat] /\ got \in [Clients -> Nat]
    BY <2>1 DEF TypeOK
  <2>3. pushed' \in [Clients -> Nat]
    BY <1>1, <2>2
  <2>4. \A d \in Clients : got[d] <= pushed'[d] /\ pushed'[d] <= Len(text[d])
    <3> SUFFICES ASSUME NEW d \in Clients
                 PROVE  got[d] <= pushed'[d] /\ pushed'[d] <= Len(text[d])
      OBVIOUS
    <3>1. /\ got[d] <= pushed[d] /\ pushed[d] <= Len(text[d]) /\ text[d] \in Texts
          /\ got[d] \in Nat /\ pushed[d] \in Nat
      BY <2>1, <2>2 DEF TypeOK
    <3>2. Len(text[d]) \in Nat
      BY <3>1, TextsAreTokens, LenProperties
    <3>3. pushed'[d] = IF d = c THEN pushed[d] + 1 ELSE pushed[d]
      BY <1>1, <2>2
    <3> QED
      BY <1>1, <3>1, <3>2, <3>3
  <2> QED
    BY <1>1, <2>1, <2>3, <2>4 DEF TypeInv, TypeOK
<1>3. QueueInv'
  BY <1>1 DEF IInv, QueueInv, Queued
<1>4. \A d \in Clients : ClientInv(d)'
  BY <1>1 DEF IInv, ClientInv, AnsweredOf, Unanswered, Beginning, WholeOf, Asked
<1>5. CtxInv'
  BY <1>1 DEF IInv, CtxInv, Unanswered, Beginning, WholeOf, Asked
<1> QED
  BY <1>2, <1>3, <1>4, <1>5 DEF IInv

LEMMA ShutLeaveStep ==
  ASSUME IInv, NEW c \in Clients, Shut(c) \/ Leave(c) \/ StopReading(c)
  PROVE  IInv'
<1>0. PICK l : l = link'[c]
  OBVIOUS
<1>1. /\ link[c] \in {"open", "shut", "full"} /\ link' = [link EXCEPT ![c] = l]
      /\ l \in {"full", "gone"} \/ (l = "shut" /\ link[c] = "open")
      /\ UNCHANGED <<backlog, text, pushed, got, pc, ctx, buffer, request_size, path,
                     bytes_transferred, status, body, aborted, closed, process>>
  <2>1. link \in [Clients -> {"none", "open", "shut", "full", "gone", "reset"}]
    BY DEF IInv, TypeInv, TypeOK
  <2> QED
    BY <1>0, <2>1 DEF Shut, Leave, StopReading, clients, request, answer, closing
<1>2. link \in [Clients -> {"none", "open", "shut", "full", "gone", "reset"}]
  BY DEF IInv, TypeInv, TypeOK
<1>3. /\ link' \in [Clients -> {"none", "open", "shut", "full", "gone", "reset"}]
      /\ \A d \in Clients : link'[d] = IF d = c THEN l ELSE link[d]
  BY <1>1, <1>2
<1>4. /\ \A d \in Clients : link[d] # "none" => link'[d] # "none"
      /\ \A d \in Clients : link'[d] \in {"open", "shut"} => link[d] \in {"open", "shut"}
      /\ \A d \in Clients : link[d] = "reset" => link'[d] = "reset"
  BY <1>1, <1>3
<1>5. TypeInv'
  BY <1>1, <1>3 DEF IInv, TypeInv, TypeOK
<1>6. QueueInv' /\ ctx \in Clients \cup {NoClient} /\ closed \subseteq Clients
  <2>1. closed \subseteq Clients /\ QueueInv /\ ctx \in Clients \cup {NoClient}
    BY DEF IInv, TypeInv, TypeOK
  <2> QED
    BY <1>1, <1>4, <2>1 DEF QueueInv, Queued
<1>7. ASSUME NEW d \in Clients, WholeOf(d) PROVE WholeOf(d)'
  BY <1>1, <1>4, <1>7 DEF WholeOf, Asked
<1>8. ASSUME NEW d \in Clients PROVE ClientInv(d)'
  <2>1. ClientInv(d)
    BY DEF IInv
  <2>2. (AnsweredOf(d)' <=> AnsweredOf(d)) /\ (Unanswered(d)' <=> Unanswered(d))
    BY <1>1 DEF AnsweredOf, Unanswered, Beginning
  <2> QED
    BY <1>1, <1>7, <2>1, <2>2 DEF ClientInv
<1>9. CtxInv'
  <2>1. CtxInv
    BY DEF IInv
  <2>2. pc \notin {"setup", "accept"} => ctx \in Clients
    BY <1>6 DEF IInv, QueueInv
  <2>3. CASE pc \in {"setup", "accept"}
    BY <1>1, <2>1, <2>3 DEF CtxInv
  <2>4. CASE pc \notin {"setup", "accept"}
    <3> PICK d : d = ctx
      OBVIOUS
    <3>1. d \in Clients /\ d = ctx'
      BY <1>1, <2>2, <2>4
    <3>2. /\ Unanswered(ctx)' <=> Unanswered(ctx)
          /\ Asked(ctx)' <=> Asked(ctx)
          /\ Beginning(body[ctx], path)' <=> Beginning(body[ctx], path)
      BY <1>1 DEF Unanswered, Asked, Beginning
    <3>3. WholeOf(ctx) => WholeOf(ctx)'
      BY <1>1, <1>4, <3>1 DEF WholeOf, Asked
    <3>4. link[ctx] = "reset" => link'[ctx'] = "reset"
      BY <1>4, <3>1
    <3> QED
      BY <1>1, <2>1, <3>2, <3>3, <3>4 DEF CtxInv
  <2> QED
    BY <2>3, <2>4
<1> QED
  BY <1>5, <1>6, <1>8, <1>9 DEF IInv

LEMMA ConnectStep ==
  ASSUME IInv, NEW c \in Clients, Connect(c)
  PROVE  IInv'
<1>1. /\ link[c] = "none" /\ link' = [link EXCEPT ![c] = "open"]
      /\ backlog' = Append(backlog, c)
      /\ UNCHANGED <<text, pushed, got, pc, ctx, buffer, request_size, path,
                     bytes_transferred, status, body, aborted, closed, process>>
  BY DEF Connect, clients, request, answer, closing
<1>2. /\ link \in [Clients -> {"none", "open", "shut", "full", "gone", "reset"}]
      /\ backlog \in Seq(Clients) /\ IsInjective(backlog)
      /\ ctx \in Clients \cup {NoClient} /\ closed \subseteq Clients
  BY DEF IInv, TypeInv, TypeOK, QueueInv
<1>3. /\ link' \in [Clients -> {"none", "open", "shut", "full", "gone", "reset"}]
      /\ \A d \in Clients : link'[d] = IF d = c THEN "open" ELSE link[d]
      /\ backlog' \in Seq(Clients)
  BY <1>1, <1>2, AppendProperties
<1>4. ~ Queued(c) /\ c # ctx /\ c \notin closed
  BY <1>1, <1>2 DEF IInv, QueueInv
<1>5. \A d : Queued(d)' <=> Queued(d) \/ d = c
  BY <1>1, <1>2, AppendElements DEF Queued
<1>6. IsInjective(backlog')
  BY <1>1, <1>2, <1>4, AppendElements DEF Queued
<1>7. TypeInv'
  BY <1>1, <1>3 DEF IInv, TypeInv, TypeOK
<1>8. QueueInv'
  <2>1. QueueInv
    BY DEF IInv
  <2>2. \A d \in Clients : link[d] # "none" => link'[d] # "none"
    BY <1>3
  <2>3. link'[c] # "none"
    BY <1>3
  <2>4. \A d \in Clients : Queued(d)' => d # ctx /\ d \notin closed /\ link'[d] # "none"
    BY <1>4, <1>5, <2>1, <2>2, <2>3 DEF QueueInv
  <2> QED
    BY <1>1, <1>2, <1>6, <2>1, <2>2, <2>4 DEF QueueInv
<1>9. ASSUME NEW d \in Clients PROVE ClientInv(d)'
  <2>1. ClientInv(d)
    BY DEF IInv
  <2>2. (AnsweredOf(d)' <=> AnsweredOf(d)) /\ (Unanswered(d)' <=> Unanswered(d))
    BY <1>1 DEF AnsweredOf, Unanswered, Beginning
  <2>3. d \in closed => (WholeOf(d)' <=> WholeOf(d))
    <3>1. d \in closed => link'[d] = link[d]
      BY <1>3, <1>4
    <3> QED
      BY <1>1, <3>1 DEF WholeOf, Asked
  <2> QED
    BY <1>1, <2>1, <2>2, <2>3 DEF ClientInv
<1>10. CtxInv'
  <2>1. CtxInv
    BY DEF IInv
  <2>2. CASE pc \in {"setup", "accept"}
    BY <1>1, <2>1, <2>2 DEF CtxInv
  <2>3. CASE pc \notin {"setup", "accept"}
    <3>1. ctx \in Clients
      BY <1>2, <2>3 DEF IInv, QueueInv
    <3>2. link'[ctx'] = link[ctx]
      BY <1>1, <1>3, <1>4, <3>1
    <3>3. /\ Unanswered(ctx)' <=> Unanswered(ctx)
          /\ Asked(ctx)' <=> Asked(ctx)
          /\ Beginning(body[ctx], path)' <=> Beginning(body[ctx], path)
      BY <1>1 DEF Unanswered, Asked, Beginning
    <3>4. WholeOf(ctx)' <=> WholeOf(ctx)
      BY <1>1, <3>2, <3>3 DEF WholeOf
    <3> QED
      BY <1>1, <2>1, <3>2, <3>3, <3>4 DEF CtxInv
  <2> QED
    BY <2>2, <2>3
<1> QED
  BY <1>7, <1>8, <1>9, <1>10 DEF IInv

LEMMA ListenStep ==
  ASSUME IInv, Listen
  PROVE  IInv'
<1>1. /\ pc = "setup" /\ pc' = "accept"
      /\ UNCHANGED <<backlog, text, pushed, link, got, ctx, buffer, request_size, path,
                     bytes_transferred, status, body, aborted, closed, process>>
  BY DEF Listen, clients, request, answer, closing
<1>2. TypeInv'
  BY <1>1 DEF IInv, TypeInv, TypeOK
<1>3. QueueInv'
  BY <1>1 DEF IInv, QueueInv, Queued
<1>4. \A c \in Clients : ClientInv(c)'
  BY <1>1 DEF IInv, ClientInv, AnsweredOf, Unanswered, Beginning, WholeOf, Asked
<1>5. CtxInv'
  BY <1>1 DEF CtxInv
<1> QED
  BY <1>2, <1>3, <1>4, <1>5 DEF IInv

-----------------------------------------------------------------------------
(* A connection is taken from the listen queue, and closed.                *)

LEMMA AcceptStep ==
  ASSUME IInv, Accept
  PROVE  IInv'
<1>0. PICK h : h = Head(backlog)
  OBVIOUS
<1>1. /\ pc = "accept" /\ backlog # <<>> /\ ctx' = h /\ backlog' = Tail(backlog)
      /\ request_size' = 0 /\ pc' = "recv"
      /\ UNCHANGED <<text, pushed, link, got, buffer, path, bytes_transferred, status, body,
                     aborted, closed, process>>
  BY <1>0 DEF Accept, clients, answer, closing
<1>2. TypeInv /\ TypeOK /\ QueueInv /\ CtxInv
  BY DEF IInv, TypeInv
<1>3. backlog \in Seq(Clients) /\ IsInjective(backlog) /\ ctx = NoClient
  BY <1>1, <1>2 DEF TypeOK, QueueInv
<1>4. /\ \A c : Queued(c) <=> Queued(c)' \/ c = h
      /\ IsInjective(Tail(backlog)) /\ ~ Queued(h)'
  <2>1. /\ \A c : (\E j \in DOMAIN backlog : backlog[j] = c)
                    <=> (\E j \in DOMAIN Tail(backlog) : Tail(backlog)[j] = c)
                        \/ c = Head(backlog)
        /\ IsInjective(Tail(backlog))
        /\ \A j \in DOMAIN Tail(backlog) : Tail(backlog)[j] # Head(backlog)
    BY <1>1, <1>3, TailElements
  <2>2. \A c : Queued(c)' <=> \E j \in DOMAIN Tail(backlog) : Tail(backlog)[j] = c
    BY <1>1 DEF Queued
  <2> QED
    BY <1>0, <2>1, <2>2 DEF Queued
<1>5. h \in Clients /\ h # NoClient /\ Tail(backlog) \in Seq(Clients)
  BY <1>0, <1>1, <1>3, HeadTailProperties, Constants
<1>6. h \notin closed /\ link[h] # "none" /\ got[h] = 0 /\ Unanswered(h)
  <2>1. Queued(h)
    BY <1>4
  <2>2. h \notin closed /\ link[h] # "none"
    BY <1>2, <1>5, <2>1 DEF QueueInv
  <2> QED
    BY <1>3, <1>5, <2>2 DEF IInv, ClientInv
<1>7. TypeInv'
  <2>1. Len(buffer) \in Nat
    BY <1>2, LenProperties DEF TypeInv
  <2>2. request_size' \in 0 .. Len(buffer')
    BY <1>1, <2>1
  <2> QED
    BY <1>1, <1>2, <1>5, <2>2 DEF TypeInv, TypeOK
<1>8. QueueInv'
  <2>1. \A c \in Clients : Queued(c)' => c # h /\ c \notin closed /\ link[c] # "none"
    BY <1>2, <1>4 DEF QueueInv
  <2> QED
    BY <1>1, <1>2, <1>4, <1>5, <1>6, <2>1 DEF QueueInv
<1>9. ASSUME NEW c \in Clients PROVE ClientInv(c)'
  <2>1. ClientInv(c) /\ c # ctx
    BY <1>3, Constants DEF IInv
  <2>2. /\ AnsweredOf(c)' <=> AnsweredOf(c)
        /\ Unanswered(c)' <=> Unanswered(c)
        /\ WholeOf(c)' <=> WholeOf(c)
    BY <1>1 DEF AnsweredOf, Unanswered, Beginning, WholeOf, Asked
  <2> QED
    BY <1>1, <2>1, <2>2 DEF ClientInv
<1>10. CtxInv'
  <2>1. Unanswered(ctx)'
    BY <1>1, <1>6 DEF Unanswered
  <2>2. got'[ctx'] = 0 /\ request_size' = Smaller(0, BUFSIZ)
    BY <1>1, <1>6, Constants DEF Smaller
  <2> QED
    BY <1>1, <2>1, <2>2 DEF CtxInv
<1> QED
  BY <1>7, <1>8, <1>9, <1>10 DEF IInv

LEMMA CloseStep ==
  ASSUME IInv, Close
  PROVE  IInv'
<1>1. /\ pc = "close" /\ closed' = closed \cup {ctx} /\ ctx' = NoClient /\ pc' = "accept"
      /\ UNCHANGED <<backlog, text, pushed, link, got, buffer, request_size, path,
                     bytes_transferred, status, body, aborted, process>>
  BY DEF Close, clients, request, answer
<1>2. TypeInv /\ TypeOK /\ QueueInv /\ CtxInv
  BY DEF IInv, TypeInv
<1>3. ctx \in Clients /\ ctx \notin closed /\ link[ctx] # "none"
  BY <1>1, <1>2 DEF TypeOK, QueueInv
<1>4. TypeInv'
  BY <1>1, <1>2, <1>3 DEF TypeInv, TypeOK
<1>5. QueueInv'
  <2>1. \A c \in Clients : c # ctx'
    BY <1>1, Constants
  <2>2. \A c \in Clients : Queued(c)' <=> Queued(c)
    BY <1>1 DEF Queued
  <2> QED
    BY <1>1, <1>2, <1>3, <2>1, <2>2, Constants DEF QueueInv
<1>6. ASSUME NEW c \in Clients PROVE ClientInv(c)'
  <2>1. ClientInv(c)
    BY DEF IInv
  <2>2. /\ AnsweredOf(c)' <=> AnsweredOf(c)
        /\ Unanswered(c)' <=> Unanswered(c)
        /\ WholeOf(c)' <=> WholeOf(c)
    BY <1>1 DEF AnsweredOf, Unanswered, Beginning, WholeOf, Asked
  <2>3. c = ctx => c \in aborted \/ WholeOf(c)
    BY <1>1, <1>2 DEF CtxInv
  <2> QED
    BY <1>1, <2>1, <2>2, <2>3 DEF ClientInv
<1>7. CtxInv'
  BY <1>1 DEF CtxInv
<1> QED
  BY <1>4, <1>5, <1>6, <1>7 DEF IInv

-----------------------------------------------------------------------------
(* Steps within a connection.                                              *)

LEMMA Served ==
  ASSUME IInv, pc \notin {"setup", "accept"}
  PROVE  /\ ctx \in Clients /\ link[ctx] # "none"
         /\ text[ctx] \in Seq(Tokens) /\ Len(text[ctx]) \in Nat
         /\ got[ctx] \in Nat /\ pushed[ctx] \in Nat
         /\ got[ctx] <= pushed[ctx] /\ pushed[ctx] <= Len(text[ctx])
         /\ buffer \in Seq(Tokens) /\ Len(buffer) \in Nat /\ request_size \in Nat
         /\ request_size <= Len(buffer) /\ Len(buffer) <= BUFSIZ
         /\ body[ctx] \in Seq(FileBytes)
<1>1. TypeInv /\ TypeOK
  BY DEF IInv, TypeInv
<1>2. ctx \in Clients /\ link[ctx] # "none"
  BY <1>1 DEF TypeOK, IInv, QueueInv
<1>3. text[ctx] \in Seq(Tokens) /\ Len(text[ctx]) \in Nat
  BY <1>1, <1>2, TextsAreTokens, LenProperties DEF TypeOK
<1>4. buffer \in Seq(Tokens) /\ Len(buffer) \in Nat
  BY <1>1, LenProperties DEF TypeInv
<1>5. request_size \in Nat /\ request_size <= Len(buffer)
  <2>1. request_size \in 0 .. Len(buffer)
    BY <1>1 DEF TypeOK
  <2> QED
    BY <1>4, <2>1
<1> QED
  BY <1>1, <1>2, <1>3, <1>4, <1>5 DEF TypeInv, TypeOK

(* While it is served, a connection is neither queued nor closed.          *)
LEMMA WithinInv ==
  ASSUME IInv, StepWithin, TypeInv', CtxInv', got'[ctx] > 0 => AnsweredOf(ctx)'
  PROVE  IInv'
<1>1. /\ QueueInv' /\ ctx \in Clients /\ ctx \notin closed
      /\ \A c \in Clients \ {ctx} : ClientInv(c)'
  BY OthersKept
<1>2. ctx' = ctx /\ closed' = closed
  BY DEF StepWithin
<1>3. ASSUME NEW c \in Clients, c = ctx PROVE ClientInv(c)'
  <2>1. got'[c] > 0 => AnsweredOf(c)'
    <3>1. AnsweredOf(ctx)' <=> AnsweredOf(c)'
      BY <1>2, <1>3 DEF AnsweredOf
    <3> QED
      BY <1>3, <3>1
  <2> QED
    BY <1>1, <1>2, <1>3, <2>1 DEF ClientInv
<1> QED
  BY <1>1, <1>3 DEF IInv

LEMMA RecvEndStep ==
  ASSUME IInv, RecvEnd
  PROVE  IInv'
<1>1. /\ pc = "recv" /\ pc' = "parse"
      /\ UNCHANGED <<backlog, text, pushed, link, got, ctx, buffer, request_size, path,
                     bytes_transferred, status, body, aborted, closed, process>>
  BY DEF RecvEnd, clients, request, answer, closing
<1>2. StepWithin
  BY <1>1 DEF StepWithin
<1>3. TypeInv'
  BY <1>1 DEF IInv, TypeInv, TypeOK
<1>4. CtxInv'
  BY <1>1 DEF IInv, CtxInv, Unanswered
<1>5. got'[ctx] > 0 => AnsweredOf(ctx)'
  <2>1. Unanswered(ctx) /\ body'[ctx'] = <<>> /\ status'[ctx'] = "none"
    BY <1>1 DEF IInv, CtxInv, Unanswered
  <2> QED
    BY <2>1, EmptySeq DEF AnsweredOf, Beginning
<1> QED
  BY <1>2, <1>3, <1>4, <1>5, WithinInv

LEMMA ParseStep ==
  ASSUME IInv, Parse
  PROVE  IInv'
<1>1. CASE End("crashed")
  BY <1>1, EndStep
<1>2. CASE ~ End("crashed")
  <2>1. /\ pc = "parse"
        /\ pc' = IF IsRequest(buffer) THEN "handler" ELSE "notfound"
        /\ path' = IF IsRequest(buffer) THEN buffer[3] ELSE path
        /\ UNCHANGED <<backlog, text, pushed, link, got, ctx, buffer, request_size,
                       bytes_transferred, status, body, aborted, closed, process>>
    BY <1>2 DEF Parse, clients, request, answer, closing
  <2>2. StepWithin
    BY <2>1 DEF StepWithin
  <2>3. TypeInv'
    BY <2>1 DEF IInv, TypeInv, TypeOK, IsRequest
  <2>4. Unanswered(ctx) /\ Unanswered(ctx)'
    BY <2>1 DEF IInv, CtxInv, Unanswered
  <2>5. got[ctx] > 0 => /\ IsRequest(buffer) <=> Asked(ctx)
                        /\ IsRequest(buffer) => buffer[3] = text[ctx][3]
    <3> SUFFICES ASSUME got[ctx] > 0
                 PROVE  /\ IsRequest(buffer) <=> Asked(ctx)
                        /\ IsRequest(buffer) => buffer[3] = text[ctx][3]
      OBVIOUS
    <3>1. /\ Len(buffer) = Smaller(got[ctx], BUFSIZ)
          /\ \A k \in 1 .. Len(buffer) : buffer[k] = text[ctx][k]
      BY <2>1 DEF IInv, CtxInv
    <3>2. /\ text[ctx] \in Seq(Tokens) /\ Len(text[ctx]) \in Nat /\ got[ctx] \in Nat
          /\ got[ctx] <= Len(text[ctx]) /\ buffer \in Seq(Tokens)
      <4>1. /\ text[ctx] \in Seq(Tokens) /\ Len(text[ctx]) \in Nat /\ got[ctx] \in Nat
            /\ buffer \in Seq(Tokens) /\ pushed[ctx] \in Nat
            /\ got[ctx] <= pushed[ctx] /\ pushed[ctx] <= Len(text[ctx])
        BY <2>1, Served
      <4> QED
        BY <4>1
    <3>3. Len(buffer) <= Len(text[ctx]) /\ (Len(buffer) > 2 <=> got[ctx] > 2)
      BY <3>1, <3>2, Constants DEF Smaller
    <3>4. /\ IsRequest(buffer) <=> Len(buffer) > 2 /\ IsRequest(text[ctx])
          /\ Len(buffer) > 2 => buffer[3] = text[ctx][3]
      BY <3>1, <3>2, <3>3, RequestOfPrefix
    <3> QED
      BY <3>3, <3>4 DEF Asked, IsRequest
  <2>6. CASE IsRequest(buffer)
    <3>1. CtxInv'
      <4>1. got'[ctx'] > 0 => IsRequest(text'[ctx']) /\ path' = text'[ctx'][3]
        BY <2>1, <2>5, <2>6 DEF Asked
      <4> QED
        BY <2>1, <2>4, <2>6, <4>1 DEF CtxInv
    <3>2. got'[ctx] > 0 => AnsweredOf(ctx)'
      BY <2>1, <2>4, EmptySeq DEF AnsweredOf, Beginning, Unanswered
    <3> QED
      BY <2>2, <2>3, <3>1, <3>2, WithinInv
  <2>7. CASE ~ IsRequest(buffer)
    <3>1. CtxInv'
      <4>1. ~ Asked(ctx)'
        <5>1. ~ Asked(ctx)
          <6>1. CASE got[ctx] > 0
            BY <2>5, <2>7, <6>1
          <6>2. CASE ~ (got[ctx] > 0)
            <7>1. got[ctx] \in Nat
              BY <2>1, Served
            <7> QED
              BY <6>2, <7>1 DEF Asked
          <6> QED
            BY <6>1, <6>2
        <5> QED
          BY <2>1, <5>1 DEF Asked
      <4> QED
        BY <2>1, <2>4, <2>7, <4>1 DEF CtxInv
    <3>2. got'[ctx] > 0 => AnsweredOf(ctx)'
      BY <2>1, <2>4, EmptySeq DEF AnsweredOf, Beginning, Unanswered
    <3> QED
      BY <2>2, <2>3, <3>1, <3>2, WithinInv
  <2> QED
    BY <2>6, <2>7
<1> QED
  BY <1>1, <1>2

LEMMA SendNotFoundStep ==
  ASSUME IInv, SendNotFound
  PROVE  IInv'
<1>1. CASE End("crashed")
  BY <1>1, EndStep
<1>2. CASE ~ End("crashed")
  <2>1. /\ pc = "notfound" \/ (pc = "handler" /\ path \notin DOMAIN FileLen)
        /\ Header("FILE_NOT_FOUND") \/ NoHeader
        /\ pc' = "close"
        /\ UNCHANGED <<backlog, text, pushed, got, ctx, buffer, request_size, path,
                       bytes_transferred, body, aborted, closed, process>>
    BY <1>2 DEF SendNotFound, Sigpipe, clients, request, closing
  <2>2. TypeOK /\ ctx \in Clients /\ got[ctx] \in Nat /\ link[ctx] # "none"
    BY <2>1, Served DEF IInv, TypeInv
  <2>3. Unanswered(ctx)
    BY <2>1 DEF IInv, CtxInv
  <2>4. \/ link' = link /\ status' = [status EXCEPT ![ctx] = "FILE_NOT_FOUND"]
        \/ link' = [link EXCEPT ![ctx] = "reset"] /\ status' = status
    BY <2>1 DEF Header, NoHeader, SendSucceeds, SendFails
  <2>5. /\ link \in [Clients -> {"none", "open", "shut", "full", "gone", "reset"}]
        /\ status \in [Clients -> {"none", "OK", "FILE_NOT_FOUND"}]
    BY <2>2 DEF TypeOK
  <2>6. /\ \A c \in Clients \ {ctx} : link'[c] = link[c] /\ status'[c] = status[c]
        /\ \/ link'[ctx] = link[ctx] /\ status'[ctx] = "FILE_NOT_FOUND"
           \/ link'[ctx] = "reset" /\ status'[ctx] = "none"
        /\ link' \in [Clients -> {"none", "open", "shut", "full", "gone", "reset"}]
        /\ status' \in [Clients -> {"none", "OK", "FILE_NOT_FOUND"}]
    BY <2>2, <2>3, <2>4, <2>5 DEF Unanswered
  <2>7. StepWithin
    BY <2>1, <2>6 DEF StepWithin
  <2>8. TypeInv'
    BY <2>1, <2>6 DEF IInv, TypeInv, TypeOK
  <2>9. body'[ctx'] = <<>> /\ status'[ctx'] # "OK" /\ ctx' = ctx
    BY <2>1, <2>3, <2>6 DEF Unanswered
  <2>10. got'[ctx] > 0 => AnsweredOf(ctx)'
    BY <2>9, EmptySeq DEF AnsweredOf, Beginning
  <2>11. CtxInv'
    <3>1. Asked(ctx)' => text'[ctx'][3] \notin DOMAIN FileLen
      <4>1. Asked(ctx)' <=> Asked(ctx)
        BY <2>1 DEF Asked
      <4>2. CASE pc = "notfound"
        BY <4>1, <4>2 DEF IInv, CtxInv
      <4>3. CASE pc = "handler" /\ path \notin DOMAIN FileLen
        <5>1. Asked(ctx) => got[ctx] > 0
          BY <2>2 DEF Asked
        <5>2. Asked(ctx) => path = text[ctx][3]
          BY <4>3, <5>1 DEF IInv, CtxInv
        <5> QED
          BY <2>1, <4>1, <4>3, <5>2
      <4> QED
        BY <2>1, <4>2, <4>3
    <3>2. WholeOf(ctx)'
      BY <2>6, <2>9, <3>1 DEF WholeOf
    <3> QED
      BY <2>1, <3>2 DEF CtxInv
  <2> QED
    BY <2>7, <2>8, <2>10, <2>11, WithinInv
<1> QED
  BY <1>1, <1>2

LEMMA SendOKStep ==
  ASSUME IInv, SendOK
  PROVE  IInv'
<1>1. CASE End("crashed")
  BY <1>1, EndStep
<1>2. CASE ~ End("crashed")
  <2>1. /\ pc = "handler" /\ path \in DOMAIN FileLen
        /\ Header("OK") \/ NoHeader
        /\ bytes_transferred' = 0 /\ pc' = "chunk"
        /\ UNCHANGED <<backlog, text, pushed, got, ctx, buffer, request_size, path,
                       body, aborted, closed, process>>
    BY <1>2 DEF SendOK, Sigpipe, clients, request, closing
  <2>2. TypeOK /\ ctx \in Clients /\ link[ctx] # "none"
    BY <2>1, Served DEF IInv, TypeInv
  <2>3. Unanswered(ctx)
    BY <2>1 DEF IInv, CtxInv
  <2>4. \/ link' = link /\ status' = [status EXCEPT ![ctx] = "OK"]
        \/ link' = [link EXCEPT ![ctx] = "reset"] /\ status' = status
    BY <2>1 DEF Header, NoHeader, SendSucceeds, SendFails
  <2>5. /\ link \in [Clients -> {"none", "open", "shut", "full", "gone", "reset"}]
        /\ status \in [Clients -> {"none", "OK", "FILE_NOT_FOUND"}]
    BY <2>2 DEF TypeOK
  <2>6. /\ \A c \in Clients \ {ctx} : link'[c] = link[c] /\ status'[c] = status[c]
        /\ \/ link'[ctx] = link[ctx] /\ status'[ctx] = "OK"
           \/ link'[ctx] = "reset" /\ status'[ctx] = "none"
        /\ link' \in [Clients -> {"none", "open", "shut", "full", "gone", "reset"}]
        /\ status' \in [Clients -> {"none", "OK", "FILE_NOT_FOUND"}]
    BY <2>2, <2>3, <2>4, <2>5 DEF Unanswered
  <2>7. StepWithin
    BY <2>1, <2>6 DEF StepWithin
  <2>8. TypeInv'
    BY <2>1, <2>6 DEF IInv, TypeInv, TypeOK
  <2>9. body'[ctx'] = <<>> /\ ctx' = ctx /\ Len(<<>>) = 0
    BY <2>1, <2>3 DEF Unanswered
  <2>10. got[ctx] > 0 => IsRequest(text[ctx]) /\ path = text[ctx][3]
    BY <2>1 DEF IInv, CtxInv
  <2>11. got'[ctx] > 0 => AnsweredOf(ctx)'
    BY <2>1, <2>9, <2>10, EmptySeq DEF AnsweredOf, Beginning
  <2>12. CtxInv'
    <3>1. Len(body'[ctx']) = bytes_transferred' /\ Beginning(body[ctx], path)'
      BY <2>1, <2>9 DEF Beginning
    <3>2. bytes_transferred' <= FileLen[path']
      BY <2>1, Constants
    <3>3. \/ status'[ctx'] = "OK"
          \/ status'[ctx'] = "none" /\ link'[ctx'] = "reset" /\ body'[ctx'] = <<>>
      BY <2>6, <2>9
    <3> QED
      BY <2>1, <2>10, <3>1, <3>2, <3>3 DEF CtxInv
  <2> QED
    BY <2>7, <2>8, <2>11, <2>12, WithinInv
<1> QED
  BY <1>1, <1>2

LEMMA ReadFailsStep ==
  ASSUME IInv, ReadFails
  PROVE  IInv'
<1>1. /\ pc = "chunk" /\ pc' = "abort"
      /\ UNCHANGED <<backlog, text, pushed, link, got, ctx, buffer, request_size, path,
                     bytes_transferred, status, body, aborted, closed, process>>
  BY DEF ReadFails, clients, request, answer, closing
<1>2. StepWithin
  BY <1>1 DEF StepWithin
<1>3. TypeInv'
  BY <1>1 DEF IInv, TypeInv, TypeOK
<1>4. got'[ctx] > 0 => AnsweredOf(ctx)'
  <2>1. ctx \in Clients /\ ClientInv(ctx)
    BY <1>1, Served DEF IInv
  <2>2. AnsweredOf(ctx)' <=> AnsweredOf(ctx)
    BY <1>1 DEF AnsweredOf, Beginning
  <2> QED
    BY <1>1, <2>1, <2>2 DEF ClientInv
<1>5. CtxInv'
  BY <1>1 DEF CtxInv
<1> QED
  BY <1>2, <1>3, <1>4, <1>5, WithinInv

LEMMA HandlerReturnsStep ==
  ASSUME IInv, HandlerReturns
  PROVE  IInv'
<1>1. /\ pc = "chunk" /\ bytes_transferred >= FileLen[path] /\ pc' = "close"
      /\ UNCHANGED <<backlog, text, pushed, link, got, ctx, buffer, request_size, path,
                     bytes_transferred, status, body, aborted, closed, process>>
  BY DEF HandlerReturns, AllSent, clients, request, answer, closing
<1>2. StepWithin
  BY <1>1 DEF StepWithin
<1>3. TypeInv'
  BY <1>1 DEF IInv, TypeInv, TypeOK
<1>4. ctx \in Clients /\ ClientInv(ctx) /\ got[ctx] \in Nat
  BY <1>1, Served DEF IInv
<1>5. got'[ctx] > 0 => AnsweredOf(ctx)'
  <2>1. AnsweredOf(ctx)' <=> AnsweredOf(ctx)
    BY <1>1 DEF AnsweredOf, Beginning
  <2> QED
    BY <1>1, <1>4, <2>1 DEF ClientInv
<1>6. WholeOf(ctx)
  <2> SUFFICES ASSUME link[ctx] \in {"open", "shut"}, Asked(ctx)
               PROVE  /\ text[ctx][3] \in DOMAIN FileLen
                      /\ status[ctx] = "OK" /\ Len(body[ctx]) = FileLen[text[ctx][3]]
    BY DEF WholeOf
  <2>1. /\ path \in DOMAIN FileLen /\ bytes_transferred <= FileLen[path]
        /\ Len(body[ctx]) = bytes_transferred /\ status[ctx] = "OK"
    BY <1>1 DEF IInv, CtxInv
  <2>2. path = text[ctx][3]
    <3>1. got[ctx] > 0
      BY <1>4 DEF Asked
    <3> QED
      BY <1>1, <3>1 DEF IInv, CtxInv
  <2>3. bytes_transferred \in Nat /\ FileLen[path] \in Nat
    BY <2>1, Constants DEF IInv, TypeInv, TypeOK
  <2> QED
    BY <1>1, <2>1, <2>2, <2>3
<1>7. CtxInv'
  <2>1. WholeOf(ctx)'
    BY <1>1, <1>6 DEF WholeOf, Asked
  <2> QED
    BY <1>1, <2>1 DEF CtxInv
<1> QED
  BY <1>2, <1>3, <1>5, <1>7, WithinInv

LEMMA AbortStep ==
  ASSUME IInv, Abort
  PROVE  IInv'
<1>1. /\ pc = "abort" /\ aborted' = aborted \cup {ctx} /\ pc' = "close"
      /\ UNCHANGED <<backlog, text, pushed, link, got, ctx, buffer, request_size, path,
                     bytes_transferred, status, body, closed, process>>
  BY DEF Abort, clients, request, answer
<1>2. StepWithin
  BY <1>1 DEF StepWithin
<1>3. ctx \in Clients /\ ClientInv(ctx)
  BY <1>1, Served DEF IInv
<1>4. TypeInv'
  BY <1>1, <1>3 DEF IInv, TypeInv, TypeOK
<1>5. got'[ctx] > 0 => AnsweredOf(ctx)'
  <2>1. AnsweredOf(ctx)' <=> AnsweredOf(ctx)
    BY <1>1 DEF AnsweredOf, Beginning
  <2> QED
    BY <1>1, <1>3, <2>1 DEF ClientInv
<1>6. CtxInv'
  BY <1>1 DEF CtxInv
<1> QED
  BY <1>2, <1>4, <1>5, <1>6, WithinInv

(* One gfs_send of content: the next bytes of the file, behind those sent. *)
LEMMA SentProperties ==
  ASSUME NEW sent \in Seq(FileBytes), NEW p \in Paths, NEW n \in Nat, Beginning(sent, p)
  PROVE  LET more == sent \o [b \in 1 .. n |-> <<p, Len(sent) + b>>]
         IN  more \in Seq(FileBytes) /\ Len(more) = Len(sent) + n /\ Beginning(more, p)
<1>1. Len(sent) \in Nat
  BY LenProperties
<1>0. PICK l \in Nat : l = Len(sent)
  BY <1>1
<1> DEFINE t == [b \in 1 .. n |-> <<p, l + b>>]
<1>2. t \in Seq(FileBytes) /\ Len(t) = n /\ \A b \in 1 .. n : t[b] = <<p, l + b>>
  <2>1. \A b \in 1 .. n : l + b \in Nat \ {0}
    OBVIOUS
  <2>2. \A b \in 1 .. n : <<p, l + b>> \in FileBytes
    BY <2>1 DEF FileBytes
  <2>3. t \in [1 .. n -> FileBytes] /\ DOMAIN t = 1 .. n
    BY <2>2
  <2> HIDE DEF t
  <2>4. t \in Seq(FileBytes)
    BY <2>3, SeqDef
  <2>5. Len(t) = n
    BY <2>3, <2>4, LenProperties
  <2> QED
    BY <2>4, <2>5 DEF t
<1> HIDE DEF t
<1> DEFINE more == sent \o t
<1>3. /\ more \in Seq(FileBytes) /\ Len(more) = Len(sent) + n
      /\ \A b \in 1 .. Len(sent) : more[b] = sent[b]
      /\ \A b \in Len(sent) + 1 .. Len(sent) + n : more[b] = t[b - Len(sent)]
  BY <1>2, JoinProperties
<1> HIDE DEF more
<1>4. \A b \in 1 .. l : more[b] = <<p, b>>
  BY <1>0, <1>3 DEF Beginning
<1>5. \A b \in l + 1 .. l + n : more[b] = <<p, b>>
  <2>1. \A b \in l + 1 .. l + n : b - l \in 1 .. n /\ l + (b - l) = b
    OBVIOUS
  <2>2. \A b \in l + 1 .. l + n : more[b] = t[b - l]
    BY <1>0, <1>3
  <2> QED
    BY <1>2, <2>1, <2>2
<1>6. Beginning(more, p)
  <2>1. \A b \in 1 .. l + n : b \in 1 .. l \/ b \in l + 1 .. l + n
    OBVIOUS
  <2> QED
    BY <1>0, <1>3, <1>4, <1>5, <2>1 DEF Beginning
<1> QED
  BY <1>0, <1>3, <1>6 DEF more, t

LEMMA SendChunkStep ==
  ASSUME IInv, SendChunk
  PROVE  IInv'
<1>1. /\ pc = "chunk" /\ bytes_transferred < FileLen[path]
      /\ UNCHANGED <<backlog, text, pushed, got, ctx, buffer, request_size, path, status,
                     aborted, closed, process>>
  BY DEF SendChunk, clients, request, closing
<1>2. TypeOK /\ ctx \in Clients /\ link[ctx] # "none" /\ ClientInv(ctx)
      /\ body[ctx] \in Seq(FileBytes)
  BY <1>1, Served DEF IInv, TypeInv
<1>3. /\ path \in DOMAIN FileLen /\ bytes_transferred <= FileLen[path]
      /\ Len(body[ctx]) = bytes_transferred /\ Beginning(body[ctx], path)
      /\ \/ status[ctx] = "OK"
         \/ status[ctx] = "none" /\ link[ctx] = "reset" /\ body[ctx] = <<>>
  BY <1>1 DEF IInv, CtxInv
<1>4. path \in Paths /\ FileLen[path] \in Nat /\ bytes_transferred \in Nat
  BY <1>2, <1>3, Constants DEF TypeOK
<1>5. CASE /\ SendFails /\ pc' = "abort" /\ UNCHANGED <<body, bytes_transferred>>
  <2>1. /\ link' \in [Clients -> {"none", "open", "shut", "full", "gone", "reset"}]
        /\ \A c \in Clients \ {ctx} : link'[c] = link[c]
        /\ link'[ctx] = "reset"
    BY <1>2, <1>5 DEF SendFails, TypeOK
  <2>2. StepWithin
    BY <1>1, <1>5, <2>1 DEF StepWithin
  <2>3. TypeInv'
    BY <1>1, <1>5, <2>1 DEF IInv, TypeInv, TypeOK
  <2>4. got'[ctx] > 0 => AnsweredOf(ctx)'
    <3>1. AnsweredOf(ctx)' <=> AnsweredOf(ctx)
      BY <1>1, <1>5 DEF AnsweredOf, Beginning
    <3> QED
      BY <1>1, <1>2, <3>1 DEF ClientInv
  <2>5. CtxInv'
    BY <1>5 DEF CtxInv
  <2> QED
    BY <2>2, <2>3, <2>4, <2>5, WithinInv
<1>6. ASSUME NEW n \in 1 .. Smaller(BUFFER_SIZE, FileLen[path] - bytes_transferred),
             SendSucceeds, pc' = pc, bytes_transferred' = bytes_transferred + n,
             body' = [body EXCEPT ![ctx] =
                         @ \o [b \in 1 .. n |-> <<path, bytes_transferred + b>>]]
      PROVE  IInv'
  <2>1. n \in Nat /\ n > 0 /\ bytes_transferred + n <= FileLen[path]
    BY <1>4, Constants DEF Smaller
  <2>2. UNCHANGED link /\ status[ctx] = "OK"
    BY <1>3, <1>6 DEF SendSucceeds
  <2>3. body \in [Clients -> Seq(FileBytes)]
    BY DEF IInv, TypeInv
  <2>4. /\ body'[ctx] = body[ctx] \o [b \in 1 .. n |-> <<path, Len(body[ctx]) + b>>]
        /\ \A c \in Clients \ {ctx} : body'[c] = body[c]
    BY <1>2, <1>3, <1>6, <2>3
  <2>5. /\ body'[ctx] \in Seq(FileBytes) /\ Len(body'[ctx]) = Len(body[ctx]) + n
        /\ Beginning(body'[ctx], path)
    <3> DEFINE Sent(sent) == sent \o [b \in 1 .. n |-> <<path, Len(sent) + b>>]
    <3>1. /\ Sent(body[ctx]) \in Seq(FileBytes)
          /\ Len(Sent(body[ctx])) = Len(body[ctx]) + n
          /\ Beginning(Sent(body[ctx]), path)
      BY <1>2, <1>3, <1>4, <2>1, SentProperties
    <3>2. body'[ctx] = Sent(body[ctx])
      BY <2>4
    <3> HIDE DEF Sent
    <3> QED
      BY <3>1, <3>2
  <2>6. body' \in [Clients -> Seq(FileBytes)]
    <3>1. body' = [c \in Clients |-> body'[c]]
      BY <1>6, <2>3
    <3>2. \A c \in Clients : body'[c] \in Seq(FileBytes)
      BY <2>3, <2>4, <2>5
    <3> QED
      BY <3>1, <3>2
  <2>7. StepWithin
    BY <1>1, <1>6, <2>2, <2>4 DEF StepWithin
  <2>8. TypeInv'
    <3>1. bytes_transferred' \in Nat
      BY <1>4, <1>6, <2>1
    <3>2. \A c \in Clients : body'[c] \in Seq(Paths \X (Nat \ {0}))
      BY <2>6 DEF FileBytes
    <3> QED
      BY <1>1, <1>6, <2>2, <2>6, <3>1, <3>2 DEF IInv, TypeInv, TypeOK
  <2>9. got[ctx] > 0 => IsRequest(text[ctx]) /\ path = text[ctx][3]
    BY <1>1 DEF IInv, CtxInv
  <2>10. got'[ctx] > 0 => AnsweredOf(ctx)'
    <3> SUFFICES ASSUME got[ctx] > 0 PROVE AnsweredOf(ctx)'
      BY <1>1
    <3>1. Beginning(body[ctx], text[ctx][3])'
      BY <1>1, <2>5, <2>9 DEF Beginning
    <3> QED
      BY <1>1, <1>3, <2>2, <2>9, <3>1 DEF AnsweredOf
  <2>11. CtxInv'
    <3>1. Beginning(body[ctx], path)'
      BY <1>1, <2>5 DEF Beginning
    <3>2. Len(body'[ctx']) = bytes_transferred'
      BY <1>1, <1>3, <1>6, <2>5
    <3> QED
      BY <1>1, <1>3, <1>6, <2>1, <2>2, <2>9, <3>1, <3>2 DEF CtxInv
  <2> QED
    BY <2>7, <2>8, <2>10, <2>11, WithinInv
<1> QED
  BY <1>5, <1>6 DEF SendChunk

-----------------------------------------------------------------------------
(* recv.                                                                   *)

LEMMA PieceProperties ==
  ASSUME NEW S, NEW s \in Seq(S), NEW a \in Nat, NEW k \in Nat, a + k <= Len(s)
  PROVE  /\ SubSeq(s, a + 1, a + k) \in Seq(S) /\ Len(SubSeq(s, a + 1, a + k)) = k
         /\ \A b \in 1 .. k : SubSeq(s, a + 1, a + k)[b] = s[a + b]
<1>1. Len(s) \in Nat
  BY LenProperties
<1>2. \A b \in a + 1 .. a + k : s[b] \in S
  BY <1>1, ElementOfSeq
<1>3. /\ SubSeq(s, a + 1, a + k) \in Seq(S)
      /\ Len(SubSeq(s, a + 1, a + k)) = IF a + 1 <= a + k THEN (a + k) - (a + 1) + 1 ELSE 0
      /\ \A b \in 1 .. (a + k) - (a + 1) + 1 :
            SubSeq(s, a + 1, a + k)[b] = s[(a + 1) + b - 1]
  <2>1. a + 1 \in Int /\ a + k \in Int
    OBVIOUS
  <2> QED
    BY <1>2, <2>1, SubSeqProperties
<1>4. (a + k) - (a + 1) + 1 = k /\ (a + 1 <= a + k <=> k > 0)
  OBVIOUS
<1>5. \A b \in 1 .. k : (a + 1) + b - 1 = a + b
  OBVIOUS
<1>6. Len(SubSeq(s, a + 1, a + k)) = k
  BY <1>3, <1>4
<1>7. \A b \in 1 .. k : SubSeq(s, a + 1, a + k)[b] = s[a + b]
  BY <1>3, <1>4, <1>5
<1> QED
  BY <1>3, <1>6, <1>7

(* What is in the buffer after n more tokens.                              *)
Now(n) == Before \o SubSeq(text[ctx], got[ctx] + 1, got[ctx] + Kept(n))

(* The buffer holds the beginning of the client's text, up to its own end. *)
LEMMA ReceivedProperties ==
  ASSUME IInv, pc = "recv",
         NEW n \in 1 .. Smaller(BUFSIZ, pushed[ctx] - got[ctx])
  PROVE  /\ n \in Nat /\ n > 0 /\ got[ctx] + n <= pushed[ctx]
         /\ Kept(n) \in Nat /\ Now(n) \in Seq(Tokens)
         /\ Len(Now(n)) = request_size + Kept(n)
         /\ Len(Now(n)) = Smaller(got[ctx] + n, BUFSIZ)
         /\ \A k \in 1 .. Len(Now(n)) : Now(n)[k] = text[ctx][k]
<1>1. /\ text[ctx] \in Seq(Tokens) /\ Len(text[ctx]) \in Nat
      /\ got[ctx] \in Nat /\ pushed[ctx] \in Nat
      /\ got[ctx] <= pushed[ctx] /\ pushed[ctx] <= Len(text[ctx])
      /\ buffer \in Seq(Tokens) /\ Len(buffer) \in Nat /\ request_size \in Nat
      /\ request_size <= Len(buffer)
  BY Served
<1>2. /\ request_size = Smaller(got[ctx], BUFSIZ)
      /\ got[ctx] > 0 => \A k \in 1 .. request_size : buffer[k] = text[ctx][k]
  BY DEF IInv, CtxInv
<1>3. n \in Nat /\ n > 0 /\ got[ctx] + n <= pushed[ctx]
  BY <1>1, Constants DEF Smaller
<1>4. /\ Kept(n) \in Nat /\ request_size + Kept(n) = Smaller(got[ctx] + n, BUFSIZ)
      /\ Kept(n) <= n /\ (Kept(n) > 0 => got[ctx] = request_size)
  BY <1>1, <1>2, <1>3, Constants DEF Kept, Smaller
<1>5. \A k \in 1 .. request_size : buffer[k] = text[ctx][k]
  <2>1. CASE got[ctx] > 0
    BY <1>2, <2>1
  <2>2. CASE got[ctx] = 0
    <3>1. request_size = 0
      BY <1>2, <2>2, Constants DEF Smaller
    <3> QED
      BY <3>1
  <2> QED
    BY <1>1, <2>1, <2>2
<1>6. /\ Before \in Seq(Tokens) /\ Len(Before) = request_size
      /\ \A k \in 1 .. request_size : Before[k] = buffer[k]
  <2>1. request_size \in 0 .. Len(buffer)
    BY <1>1
  <2> QED
    BY <1>1, <2>1, CutProperties DEF Before
<1>7. PICK piece : piece = SubSeq(text[ctx], got[ctx] + 1, got[ctx] + Kept(n))
  OBVIOUS
<1>8. /\ piece \in Seq(Tokens) /\ Len(piece) = Kept(n)
      /\ \A b \in 1 .. Kept(n) : piece[b] = text[ctx][got[ctx] + b]
  <2>1. PICK t \in Seq(Tokens), g \in Nat, k \in Nat :
                t = text[ctx] /\ g = got[ctx] /\ k = Kept(n)
    BY <1>1, <1>4
  <2>2. g + k <= Len(t)
    BY <1>1, <1>3, <1>4, <2>1
  <2>3. /\ SubSeq(t, g + 1, g + k) \in Seq(Tokens) /\ Len(SubSeq(t, g + 1, g + k)) = k
        /\ \A b \in 1 .. k : SubSeq(t, g + 1, g + k)[b] = t[g + b]
    BY <2>2, PieceProperties
  <2>4. piece = SubSeq(t, g + 1, g + k)
    BY <1>7, <2>1, Zenon
  <2> QED
    BY <2>1, <2>3, <2>4, Zenon
<1>9. /\ Before \o piece \in Seq(Tokens)
      /\ Len(Before \o piece) = request_size + Kept(n)
      /\ \A b \in 1 .. request_size : (Before \o piece)[b] = Before[b]
      /\ \A b \in request_size + 1 .. request_size + Kept(n) :
            (Before \o piece)[b] = piece[b - request_size]
  <2>1. /\ Before \o piece \in Seq(Tokens)
        /\ Len(Before \o piece) = Len(Before) + Len(piece)
        /\ \A b \in 1 .. Len(Before) : (Before \o piece)[b] = Before[b]
        /\ \A b \in Len(Before) + 1 .. Len(Before) + Len(piece) :
              (Before \o piece)[b] = piece[b - Len(Before)]
    BY <1>6, <1>8, JoinProperties, Zenon
  <2> QED
    BY <1>6, <1>8, <2>1, Zenon
<1>10. PICK now : now = Before \o piece
  OBVIOUS
<1>11. now = Now(n)
  BY <1>7, <1>10 DEF Now
<1>12. /\ now \in Seq(Tokens) /\ Len(now) = request_size + Kept(n)
       /\ \A b \in 1 .. request_size : now[b] = Before[b]
       /\ \A b \in request_size + 1 .. request_size + Kept(n) :
             now[b] = piece[b - request_size]
  BY <1>9, <1>10
<1>13. ASSUME NEW k \in 1 .. request_size + Kept(n) PROVE now[k] = text[ctx][k]
  <2>1. CASE k <= request_size
    BY <1>1, <1>5, <1>6, <1>12, <2>1
  <2>2. CASE k > request_size
    <3>1. /\ k \in request_size + 1 .. request_size + Kept(n)
          /\ k - request_size \in 1 .. Kept(n) /\ Kept(n) > 0
      BY <1>1, <1>4, <2>2
    <3>2. now[k] = text[ctx][got[ctx] + (k - request_size)]
      BY <1>8, <1>12, <3>1
    <3>3. got[ctx] + (k - request_size) = k
      BY <1>1, <1>4, <3>1
    <3> QED
      BY <3>2, <3>3
  <2> QED
    BY <1>1, <1>4, <2>1, <2>2
<1> QED
  BY <1>3, <1>4, <1>11, <1>12, <1>13

LEMMA RecvStep ==
  ASSUME IInv, Recv
  PROVE  IInv'
<1>1. CASE End("crashed")
  BY <1>1, EndStep
<1>2. ASSUME NEW n \in 1 .. Smaller(BUFSIZ, pushed[ctx] - got[ctx]), pc = "recv",
             got' = [got EXCEPT ![ctx] = @ + n], buffer' = Now(n),
             request_size' = request_size + Kept(n), pc' \in {"parse", "recv"},
             UNCHANGED <<backlog, text, pushed, link, ctx, path, bytes_transferred, status,
                         body, aborted, closed, process>>
      PROVE  IInv'
  <2>1. TypeOK /\ ctx \in Clients /\ got \in [Clients -> Nat] /\ got[ctx] \in Nat
        /\ request_size \in Nat
    BY <1>2, Served DEF IInv, TypeInv, TypeOK
  <2>2. /\ n \in Nat /\ n > 0 /\ got[ctx] + n <= pushed[ctx]
        /\ Kept(n) \in Nat /\ buffer' \in Seq(Tokens)
        /\ Len(buffer') = request_size'
        /\ Len(buffer') = Smaller(got[ctx] + n, BUFSIZ)
        /\ \A k \in 1 .. request_size' : buffer'[k] = text[ctx][k]
    BY <1>2, ReceivedProperties
  <2>3. /\ got' \in [Clients -> Nat] /\ got'[ctx] = got[ctx] + n
        /\ \A c \in Clients \ {ctx} : got'[c] = got[c]
    BY <1>2, <2>1, <2>2
  <2>4. StepWithin
    BY <1>2, <2>3 DEF StepWithin
  <2>5. TypeInv'
    <3>1. \A c \in Clients : got'[c] <= pushed[c] /\ pushed[c] <= Len(text[c])
      BY <2>1, <2>2, <2>3 DEF TypeOK
    <3>2. Len(buffer') <= BUFSIZ /\ request_size' \in 0 .. Len(buffer')
      BY <1>2, <2>1, <2>2, Constants DEF Smaller
    <3> QED
      BY <1>2, <2>1, <2>2, <2>3, <3>1, <3>2 DEF IInv, TypeInv, TypeOK
  <2>6. Unanswered(ctx)
    BY <1>2 DEF IInv, CtxInv
  <2>7. got'[ctx] > 0 => AnsweredOf(ctx)'
    BY <1>2, <2>6, EmptySeq DEF AnsweredOf, Beginning, Unanswered
  <2>8. CtxInv'
    <3>1. Unanswered(ctx)'
      BY <1>2, <2>6 DEF Unanswered
    <3>2. request_size' = Smaller(got'[ctx'], BUFSIZ)
      BY <1>2, <2>2, <2>3
    <3>3. \A k \in 1 .. request_size' : buffer'[k] = text'[ctx'][k]
      BY <1>2, <2>2
    <3>4. pc' # "notfound" /\ pc' # "handler" /\ pc' # "chunk" /\ pc' # "close"
      BY <1>2
    <3> QED
      BY <2>2, <3>1, <3>2, <3>3, <3>4 DEF CtxInv
  <2> QED
    BY <2>4, <2>5, <2>7, <2>8, WithinInv
<1>3. CASE ~ End("crashed")
  <2>1. pc = "recv"
    BY DEF Recv
  <2>2. PICK n \in 1 .. Smaller(BUFSIZ, pushed[ctx] - got[ctx]) :
           /\ got' = [got EXCEPT ![ctx] = @ + n] /\ buffer' = Now(n)
           /\ request_size' = request_size + Kept(n)
           /\ pc' = IF END \in Range(Now(n)) THEN "parse" ELSE "recv"
           /\ UNCHANGED <<backlog, text, pushed, link, ctx, path, bytes_transferred, status,
                          body, aborted, closed, process>>
    BY <1>3 DEF Recv, Now, clients, answer, closing
  <2>3. pc' \in {"parse", "recv"}
    BY <2>2
  <2> QED
    BY <1>2, <2>1, <2>2, <2>3
<1> QED
  BY <1>1, <1>3

-----------------------------------------------------------------------------
(* The inductive invariant holds, and what follows from it.                *)

LEMMA NextInv == IInv /\ [Next]_vars => IInv'
<1> SUFFICES ASSUME IInv, [Next]_vars PROVE IInv'
  OBVIOUS
<1>1. CASE ServerStep
  <2>1. CASE ChunkKills
    <3>1. End("crashed")
      BY <2>1 DEF ChunkKills, Sigpipe
    <3> QED
      BY <3>1, EndStep
  <2> QED
    BY <1>1, <2>1, ListenStep, AcceptStep, RecvStep, RecvEndStep, ParseStep,
       SendNotFoundStep,
       SendOKStep, SendChunkStep, ReadFailsStep, HandlerReturnsStep, AbortStep, CloseStep
       DEF ServerStep
<1>2. CASE SetupFails \/ AcceptFails
  BY <1>2, EndStep DEF SetupFails, AcceptFails
<1>3. ASSUME NEW c \in Clients, ClientStep(c) PROVE IInv'
  BY <1>3, ConnectStep, PushStep, ShutLeaveStep DEF ClientStep
<1>4. CASE UNCHANGED vars
  <2>1. UNCHANGED <<backlog, text, pushed, link, got, pc, ctx, buffer, request_size, path,
                    bytes_transferred, status, body, aborted, closed, process>>
    BY <1>4 DEF vars, clients, request, answer, closing
  <2>2. TypeInv'
    BY <2>1 DEF IInv, TypeInv, TypeOK
  <2>3. QueueInv'
    BY <2>1 DEF IInv, QueueInv, Queued
  <2>4. \A c \in Clients : ClientInv(c)'
    BY <2>1 DEF IInv, ClientInv, AnsweredOf, Unanswered, Beginning, WholeOf, Asked
  <2>5. CtxInv'
    BY <2>1 DEF IInv, CtxInv, Unanswered, Beginning, WholeOf, Asked
  <2> QED
    BY <2>2, <2>3, <2>4, <2>5 DEF IInv
<1> QED
  BY <1>1, <1>2, <1>3, <1>4 DEF Next

(* The inductive invariant, of every run of the loop and its clients.      *)
THEOREM Invariance == SafeSpec => []IInv
BY InitInv, NextInv, PTL DEF SafeSpec

(* Types, the bounds of the request buffer among them, are kept.           *)
THEOREM TypeCorrect == SafeSpec => []TypeOK
BY Invariance, PTL DEF IInv, TypeInv

LEMMA AnswersAreOwn == IInv => AnswersOwnRequest
<1> SUFFICES ASSUME IInv, NEW c \in Clients, got[c] > 0
             PROVE  Answered(c)
  BY DEF AnswersOwnRequest
<1>1. AnsweredOf(c)
  BY DEF IInv, ClientInv
<1>2. PICK s \in Seq(FileBytes) : s = body[c]
  BY DEF IInv, TypeInv
<1>3. PICK n \in Nat : n = Len(s)
  BY LenProperties
<1>4. s = [b \in 1 .. n |-> <<text[c][3], b>>]
  <2>1. DOMAIN s = 1 .. n /\ s = [b \in 1 .. n |-> s[b]]
    BY <1>3, LenProperties
  <2>2. \A b \in 1 .. n : s[b] = <<text[c][3], b>>
    BY <1>1, <1>2, <1>3 DEF AnsweredOf, Beginning
  <2> QED
    BY <2>1, <2>2
<1> QED
  BY <1>1, <1>2, <1>3, <1>4 DEF Answered, AnsweredOf

(* A client that was heard is sent an answer to its own request, though    *)
(* one buffer serves all connections and is never cleared between them.    *)
THEOREM OwnAnswers == SafeSpec => []AnswersOwnRequest
BY Invariance, AnswersAreOwn, PTL

LEMMA AnswersAreWhole == IInv => WholeAnswer
<1> SUFFICES ASSUME IInv, NEW c \in closed \ aborted,
                    link[c] \in {"open", "shut"}, IsRequest(SubSeq(text[c], 1, got[c]))
             PROVE  IF text[c][3] \in DOMAIN FileLen
                    THEN status[c] = "OK" /\ Len(body[c]) = FileLen[text[c][3]]
                    ELSE status[c] = "FILE_NOT_FOUND" /\ body[c] = <<>>
  BY DEF WholeAnswer
<1>1. TypeOK /\ c \in Clients
  BY DEF IInv, TypeInv, TypeOK
<1>2. /\ text[c] \in Seq(Tokens) /\ Len(text[c]) \in Nat /\ got[c] \in Nat
      /\ got[c] \in 0 .. Len(text[c])
  <2>1. text[c] \in Seq(Tokens) /\ Len(text[c]) \in Nat
    BY <1>1, TextsAreTokens, LenProperties DEF TypeOK
  <2>2. /\ got[c] \in Nat /\ pushed[c] \in Nat
        /\ got[c] <= pushed[c] /\ pushed[c] <= Len(text[c])
    BY <1>1 DEF TypeOK
  <2> QED
    BY <2>1, <2>2
<1>3. PICK s : s = SubSeq(text[c], 1, got[c])
  OBVIOUS
<1>4. s \in Seq(Tokens) /\ Len(s) = got[c] /\ \A k \in 1 .. got[c] : s[k] = text[c][k]
  BY <1>2, <1>3, CutProperties
<1>5. Asked(c)
  <2>1. IsRequest(s)
    BY <1>3
  <2>2. IsRequest(s) <=> Len(s) > 2 /\ IsRequest(text[c])
    <3>1. Len(s) <= Len(text[c]) /\ \A k \in 1 .. Len(s) : s[k] = text[c][k]
      BY <1>2, <1>4
    <3> QED
      BY <1>2, <1>4, <3>1, RequestOfPrefix
  <2> QED
    BY <1>4, <2>1, <2>2 DEF Asked
<1>6. WholeOf(c)
  BY <1>1 DEF IInv, ClientInv
<1> QED
  BY <1>5, <1>6 DEF WholeOf

(* A client that has made a proper request and waited for the answer has   *)
(* the whole file, or the news that there is none, when its connection is  *)
(* closed without gfs_abort.                                               *)
THEOREM WholeAnswers == SafeSpec => []WholeAnswer
BY Invariance, AnswersAreWhole, PTL

(* While the loop goes on receiving, what it has of this client holds no   *)
(* terminator.                                                             *)
NoTerminator ==
    pc = "recv" /\ got[ctx] > 0 => \A k \in 1 .. Len(buffer) : buffer[k] # END

LEMMA TerminatorStep == IInv /\ NoTerminator /\ [Next]_vars => NoTerminator'
<1> SUFFICES ASSUME IInv, NoTerminator, [Next]_vars, pc' = "recv", got'[ctx'] > 0
             PROVE  \A k \in 1 .. Len(buffer') : buffer'[k] # END
  BY DEF NoTerminator
<1>1. CASE UNCHANGED <<pc, ctx, got, buffer>>
  BY <1>1 DEF NoTerminator
<1>2. CASE Recv /\ ~ End("crashed")
  <2>1. PICK n \in 1 .. Smaller(BUFSIZ, pushed[ctx] - got[ctx]) :
          /\ buffer' = Now(n)
          /\ pc' = IF END \in Range(Now(n)) THEN "parse" ELSE "recv"
    BY <1>2 DEF Recv, Now
  <2>2. pc = "recv" /\ END \notin Range(Now(n))
    BY <1>2, <2>1 DEF Recv
  <2>3. Now(n) \in Seq(Tokens)
    BY <2>1, <2>2, ReceivedProperties
  <2>4. DOMAIN Now(n) = 1 .. Len(Now(n))
    BY <2>3, LenProperties
  <2> QED
    BY <2>1, <2>2, <2>4 DEF Range
<1>3. CASE Accept
  <2>1. PICK h : h = Head(backlog)
    OBVIOUS
  <2>2. backlog # <<>> /\ ctx = NoClient /\ ctx' = h /\ got' = got
    BY <1>3, <2>1 DEF Accept, IInv, QueueInv
  <2>3. backlog \in Seq(Clients)
    BY DEF IInv, TypeInv, TypeOK
  <2>4. h \in Clients /\ h = backlog[1] /\ 1 \in DOMAIN backlog
    BY <2>1, <2>2, <2>3, HeadTailProperties, EmptySeq, LenProperties
  <2>5. h \notin closed /\ h # ctx
    BY <2>2, <2>4, Constants DEF IInv, QueueInv, Queued
  <2>6. got[h] = 0
    BY <2>4, <2>5 DEF IInv, ClientInv
  <2> QED
    BY <2>2, <2>6
<1>4. CASE \/ Listen \/ SetupFails \/ RecvEnd \/ Parse \/ SendNotFound
           \/ SendOK \/ SendChunk \/ ReadFails
           \/ ChunkKills \/ HandlerReturns \/ Abort \/ Close \/ AcceptFails
           \/ End("crashed")
  <2>1. pc' # "recv" \/ UNCHANGED <<pc, ctx, got, buffer>>
    BY <1>4 DEF Listen, SetupFails, RecvEnd, Parse, SendNotFound, SendOK, SendChunk, ReadFails,
       ChunkKills, Sigpipe, HandlerReturns, Abort, Close, AcceptFails, End, request
  <2> QED
    BY <1>1, <2>1
<1>5. ASSUME NEW c \in Clients, ClientStep(c) PROVE UNCHANGED <<pc, ctx, got, buffer>>
  BY <1>5 DEF ClientStep, Connect, Push, Shut, Leave, StopReading, request
<1>6. CASE UNCHANGED vars
  BY <1>1, <1>6 DEF vars, request
<1> QED
  BY <1>1, <1>2, <1>3, <1>4, <1>5, <1>6 DEF Next, ServerStep

(* get_request does not wait for what it has: the end of a request is seen *)
(* in whatever parts it came.  A terminator that came behind a full buffer *)
(* is dropped, and is outside the range of the property.                   *)
THEOREM TerminatorSeen == SafeSpec => []StopsAtTerminator
<1>1. Init => NoTerminator
  BY DEF Init, NoTerminator
<1>2. IInv /\ NoTerminator => StopsAtTerminator
  <2> SUFFICES ASSUME IInv, NoTerminator, pc = "recv",
                      NEW n \in 1 .. Smaller(BUFSIZ, got[ctx])
               PROVE  text[ctx][n] # END
    BY DEF StopsAtTerminator
  <2>1. got[ctx] \in Nat /\ BUFSIZ \in Nat
    BY Served, Constants
  <2>2. got[ctx] > 0 /\ Smaller(BUFSIZ, got[ctx]) = Smaller(got[ctx], BUFSIZ)
    BY <2>1 DEF Smaller
  <2>3. n \in 1 .. Len(buffer) /\ buffer[n] = text[ctx][n]
    BY <2>2 DEF IInv, CtxInv
  <2> QED
    BY <2>2, <2>3 DEF NoTerminator
<1> QED
  BY <1>1, <1>2, TerminatorStep, Invariance, PTL DEF SafeSpec

-----------------------------------------------------------------------------
(* The loop implements RequestService.                                     *)

LEMMA RefineInit == Init => Service!Init
BY DEF Init, Service!Init

LEMMA RefineStep == IInv /\ [Next]_vars => [Service!Next]_(Service!vars)
<1> SUFFICES ASSUME IInv, [Next]_vars
             PROVE  Service!Next \/ UNCHANGED Service!vars
  OBVIOUS
<1>1. CASE UNCHANGED <<backlog, ctx, closed, process>>
  BY <1>1 DEF Service!vars
<1>2. ASSUME process = "running", NEW how \in {"exited", "crashed"}, End(how)
      PROVE  Service!Next
  BY <1>2 DEF End, closing, Service!Next, Service!Stop
<1>3. ASSUME process = "running", NEW c \in Clients, Connect(c) PROVE Service!Next
  <2>1. backlog \in Seq(Clients) /\ closed \subseteq Clients
    BY DEF IInv, TypeInv, TypeOK
  <2>2. ~ Queued(c) /\ c # ctx /\ c \notin closed
    BY <1>3, <2>1 DEF IInv, QueueInv, TypeInv, TypeOK, Connect
  <2>3. c \notin Service!Known
    BY <2>1, <2>2 DEF Service!Known, Service!Range, Queued
  <2>4. Service!Submit(c)
    BY <1>3, <2>3 DEF Connect, closing, Service!Submit
  <2> QED
    BY <2>4 DEF Service!Next
<1>4. ASSUME process = "running", Accept PROVE Service!Next
  <2>1. backlog # <<>> /\ ctx = NoClient
    BY <1>4 DEF IInv, QueueInv, Accept
  <2>2. Service!Start("gfserver_serve")
    BY <1>4, <2>1 DEF Accept, closing, Service!Start
  <2> QED
    BY <2>2 DEF Service!Next
<1>5. ASSUME process = "running", Close PROVE Service!Next
  <2>1. ctx # NoClient
    BY <1>5 DEF IInv, QueueInv, Close
  <2>2. Service!Finish("gfserver_serve")
    BY <1>5, <2>1 DEF Close, Service!Finish
  <2> QED
    BY <2>2 DEF Service!Next
<1>6. CASE process = "running" /\ ServerStep
  <2>1. \/ Accept \/ Close \/ End("crashed")
        \/ UNCHANGED <<backlog, ctx, closed, process>>
    BY <1>6 DEF ServerStep, Listen, Recv, RecvEnd, Parse, SendNotFound, SendOK, SendChunk,
                ReadFails, ChunkKills, Sigpipe, HandlerReturns, Abort, closing
  <2> QED
    BY <1>1, <1>2, <1>4, <1>5, <1>6, <2>1
<1>7. CASE process = "running" /\ (SetupFails \/ AcceptFails)
  BY <1>2, <1>7 DEF SetupFails, AcceptFails
<1>8. ASSUME process = "running", NEW c \in Clients, ClientStep(c)
      PROVE  Service!Next \/ UNCHANGED Service!vars
  BY <1>1, <1>3, <1>8 DEF ClientStep, Push, Shut, Leave, StopReading, closing
<1>9. CASE UNCHANGED vars
  BY <1>1, <1>9 DEF vars, closing
<1> QED
  BY <1>6, <1>7, <1>8, <1>9 DEF Next

(* Seen from outside, every run of the server is a run of the service that *)
(* the worker pool and the file transfer implement too: first come first   *)
(* served, each connection taken up once and finished once.                *)
THEOREM ServerImplementsService == SafeSpec => Service!SafeSpec
BY RefineInit, RefineStep, Invariance, PTL DEF SafeSpec, Service!SafeSpec
==============================================================================
