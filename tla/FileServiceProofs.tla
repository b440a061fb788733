-------------------------- MODULE FileServiceProofs --------------------------
(***************************************************************************)
(* Proofs about FileService for every number of workers and of requests,   *)
(* every set of names and files, every file length and every buffer size.  *)
(***************************************************************************)
EXTENDS FileService, SequenceTheorems, TLAPS

Chars == UNION {{n[i] : i \in DOMAIN n} : n \in Names \cup Leftovers}
FileBytes == Fildes \X (1 .. MaxSize)

(* TypeOK, and what its quantifiers leave open: that the variables are     *)
(* functions, and that item paths are strings.                             *)
TypeInv ==
    /\ TypeOK
    /\ chunk \in [Workers -> Seq(FileBytes)]
    /\ body \in [Requests -> Seq(FileBytes)]
    /\ asked \in [Requests -> Names]
    /\ path \in [Requests -> Seq(Chars)]

(* A request is in the hands of one worker.                                *)
OwnerInv ==
    /\ \A w \in Workers : IF pc[w] = "idle"
                          THEN req[w] = NoRequest
                          ELSE req[w] \in Requests /\ outcome[req[w]] = "busy"
    /\ \A v, w \in Workers : pc[v] # "idle" /\ req[v] = req[w] => v = w

(* Nothing has been sent for the request.                                  *)
Fresh(r) ==
    /\ status[r] = "none" /\ announced[r] = 0
    /\ body[r] = <<>> /\ sent[r] = 0
    /\ ctx[r] = "live" /\ link[r] \in {"open", "gone"}

(* Where a worker is in its service, its locals, the library's context and *)
(* the client's view of it fit together.  The worker compares its own      *)
(* count with file_len and the library its own with the announced length:  *)
(* they agree, which is why the one is done when the other has freed the   *)
(* context.  The header may have failed; then the link is reset and        *)
(* nothing more is sent.                                                   *)
ServiceInv(w) ==
    LET r == req[w]
        f == path[r]
    IN  /\ pc[w] \in {"notfound", "seek", "header"} => Fresh(r)
        /\ pc[w] \in {"header", "loop", "send"} /\ ~ grown[r] => size[f] <= file_len[w]
        /\ pc[w] \in {"loop", "send"} =>
              /\ bytes_transferred[w] = Len(body[r])
              /\ bytes_transferred[w] = sent[r]
              /\ \/ status[r] = "OK" /\ announced[r] = file_len[w]
                 \/ status[r] = "none" /\ announced[r] = 0 /\ body[r] = <<>>
                    /\ link[r] = "reset"
              /\ bytes_transferred[w] < file_len[w] => ctx[r] = "live" /\ link[r] # "closed"
        /\ pc[w] = "send" =>
              /\ bytes_transferred[w] < file_len[w]
              /\ chunk[w] # <<>> /\ Len(chunk[w]) <= BUFFER_SIZE
              /\ \A i \in 1 .. Len(chunk[w]) : chunk[w][i] = <<f, bytes_transferred[w] + i>>
              /\ bytes_transferred[w] + Len(chunk[w]) > file_len[w] => grown[r]
        /\ pc[w] = "abort" => ctx[r] = "live" /\ link[r] # "closed"

(* What BodyIsFilePrefix and AnnouncedLengthKept say of one request, and   *)
(* that nothing has been sent for it before a worker took it.              *)
Following(b, f, k) == \A i \in 1 .. Len(b) : b[i] = <<f, k + i>>
Beginning(a, f) == a = [i \in 1 .. Len(a) |-> <<f, i>>]
PrefixOf(r) == Beginning(body[r], path[r])

AnnouncedOf(r) ==
    /\ outcome[r] = "sent" /\ status[r] = "OK" => Len(body[r]) >= announced[r]
    /\ Len(body[r]) > announced[r] =>
          grown[r] /\ Len(body[r]) < announced[r] + BUFFER_SIZE

RequestInv(r) ==
    /\ outcome[r] \in {"none", "waiting"} => Fresh(r)
    /\ PrefixOf(r)
    /\ AnnouncedOf(r)

(* The string in a request's item begins with the name asked for, and is   *)
(* that name if the item's memory was empty; the header the client gets    *)
(* says whether a file of that string is stored, and so does the place of  *)
(* a worker that is to send it.                                            *)
NamedInv(r) ==
    /\ outcome[r] # "none" => Begins(path[r], asked[r])
    /\ outcome[r] # "none" /\ r \notin stale => path[r] = asked[r]
    /\ status[r] = "OK" => outcome[r] # "none" /\ path[r] \in Fildes
    /\ status[r] = "FILE_NOT_FOUND" => outcome[r] # "none" /\ path[r] \notin Fildes

NamesInv ==
    /\ \A r \in Requests : NamedInv(r)
    /\ \A w \in Workers : pc[w] = "notfound" => path[req[w]] \notin Fildes

IInv ==
    /\ TypeInv
    /\ OwnerInv
    /\ \A w \in Workers : ServiceInv(w)
    /\ \A r \in Requests : RequestInv(r)
    /\ NamesInv

-----------------------------------------------------------------------------
(* The constants, and the strings that names are.                          *)

LEMMA Sizes ==
    /\ BUFFER_SIZE \in Nat \ {0} /\ MaxSize \in Nat
    /\ NoRequest \notin Requests
BY SizesAssumption, NoRequestNotOne

LEMMA NamesAreStrings == \A n \in Names \cup Leftovers : n \in Seq(Chars)
<1> SUFFICES ASSUME NEW n \in Names \cup Leftovers PROVE n \in Seq(Chars)
  OBVIOUS
<1>1. n \in Seq({n[i] : i \in DOMAIN n})
  BY NamesAssumption, LeftoversAssumption
<1>2. {n[i] : i \in DOMAIN n} \subseteq Chars
  BY DEF Chars
<1> QED
  BY <1>1, <1>2, SeqMonotonic

(* What memcpy leaves in an item's memory: a string that begins with the   *)
(* name, and is the name if the memory held none.                          *)
LEMMA CopiedProperties ==
  ASSUME NEW a \in Seq(Chars), NEW rest \in Seq(Chars)
  PROVE  /\ Copied(a, rest) \in Seq(Chars)
         /\ Begins(Copied(a, rest), a)
         /\ rest = <<>> => Copied(a, rest) = a
<1>1. Len(a) \in Nat /\ Len(rest) \in Nat
  BY LenProperties
<1>2. /\ a \o rest \in Seq(Chars) /\ Len(a \o rest) = Len(a) + Len(rest)
      /\ \A i \in 1 .. Len(a) + Len(rest) :
            (a \o rest)[i] = IF i <= Len(a) THEN a[i] ELSE rest[i - Len(a)]
  BY ConcatProperties
<1>3. rest = <<>> => a \o rest = a
  BY ConcatEmptySeq
<1> QED
  BY <1>1, <1>2, <1>3 DEF Copied, Begins

(* A body that is a beginning of the file stays one when the bytes that    *)
(* come next in the file are sent.                                         *)
LEMMA PrefixGrows ==
  ASSUME NEW f, NEW a \in Seq(FileBytes), NEW b \in Seq(FileBytes),
         Beginning(a, f), Following(b, f, Len(a))
  PROVE  /\ a \o b \in Seq(FileBytes)
         /\ Len(a) \in Nat /\ Len(b) \in Nat /\ Len(a \o b) = Len(a) + Len(b)
         /\ Beginning(a \o b, f)
<1>1. Len(a) \in Nat /\ Len(b) \in Nat
  BY LenProperties
<1> DEFINE c == a \o b
<1>2. /\ c \in Seq(FileBytes) /\ Len(c) = Len(a) + Len(b)
      /\ \A i \in 1 .. Len(a) + Len(b) : c[i] = IF i <= Len(a) THEN a[i] ELSE b[i - Len(a)]
  BY ConcatProperties
<1> HIDE DEF c
<1>3. \A i \in 1 .. Len(c) : c[i] = <<f, i>>
  <2> SUFFICES ASSUME NEW i \in 1 .. Len(c) PROVE c[i] = <<f, i>>
    OBVIOUS
  <2>1. CASE i <= Len(a)
    <3>1. i \in 1 .. Len(a) /\ c[i] = a[i]
      BY <1>1, <1>2, <2>1
    <3> QED
      BY <3>1 DEF Beginning
  <2>2. CASE ~ (i <= Len(a))
    <3>1. i - Len(a) \in 1 .. Len(b) /\ c[i] = b[i - Len(a)] /\ Len(a) + (i - Len(a)) = i
      BY <1>1, <1>2, <2>2
    <3> QED
      BY <3>1 DEF Following
  <2> QED
    BY <2>1, <2>2
<1>4. c \in [1 .. Len(c) -> FileBytes]
  BY <1>2, LenProperties
<1>5. c = [i \in 1 .. Len(c) |-> <<f, i>>]
  BY <1>3, <1>4
<1> QED
  BY <1>1, <1>2, <1>5 DEF c, Beginning

(* A part of what comes next, likewise.                                    *)
LEMMA PrefixOfNext ==
  ASSUME NEW f, NEW b \in Seq(FileBytes), NEW n \in 0 .. Len(b) - 1, NEW k \in Nat,
         \A i \in 1 .. Len(b) : b[i] = <<f, k + i>>
  PROVE  /\ SubSeq(b, 1, n) \in Seq(FileBytes) /\ Len(SubSeq(b, 1, n)) = n
         /\ \A i \in 1 .. n : SubSeq(b, 1, n)[i] = <<f, k + i>>
<1>1. Len(b) \in Nat
  BY LenProperties
<1>2. \A i \in 1 .. n : b[i] \in FileBytes
  BY <1>1, ElementOfSeq
<1>3. /\ SubSeq(b, 1, n) \in Seq(FileBytes)
      /\ Len(SubSeq(b, 1, n)) = IF 1 <= n THEN n - 1 + 1 ELSE 0
      /\ \A i \in 1 .. n - 1 + 1 : SubSeq(b, 1, n)[i] = b[1 + i - 1]
  BY <1>1, <1>2, SubSeqProperties
<1>4. \A i \in 1 .. n : i \in 1 .. Len(b) /\ i \in 1 .. n - 1 + 1 /\ 1 + i - 1 = i
  BY <1>1
<1> QED
  BY <1>3, <1>4

LEMMA InitInv == Init => IInv
<1> SUFFICES ASSUME Init PROVE IInv
  OBVIOUS
<1> USE Sizes DEF Init
<1>1. TypeInv
  BY EmptySeq DEF TypeInv, TypeOK
<1>2. OwnerInv /\ \A w \in Workers : ServiceInv(w)
  BY DEF OwnerInv, ServiceInv
<1>3. \A r \in Requests : RequestInv(r)
  BY DEF RequestInv, Fresh, PrefixOf, Beginning, AnnouncedOf
<1>4. NamesInv
  BY DEF NamesInv, NamedInv
<1> QED
  BY <1>1, <1>2, <1>3, <1>4 DEF IInv

-----------------------------------------------------------------------------
(* What a step leaves alone.                                               *)

(* Worker w has request r, or is about to take it from the queue.          *)
Serves(w, r) == IF pc[w] = "idle" THEN outcome[r] = "waiting" ELSE req[w] = r

(* A step of w for r: the other workers and the other requests do not      *)
(* notice it, but for the offset of the descriptor.                        *)
StepFor(w, r) ==
    /\ \A v \in Workers \ {w} :
          /\ pc'[v] = pc[v] /\ req'[v] = req[v] /\ chunk'[v] = chunk[v]
          /\ file_len'[v] = file_len[v] /\ bytes_transferred'[v] = bytes_transferred[v]
    /\ \A q \in Requests \ {r} :
          /\ status'[q] = status[q] /\ announced'[q] = announced[q]
          /\ body'[q] = body[q] /\ sent'[q] = sent[q]
          /\ ctx'[q] = ctx[q] /\ link'[q] = link[q] /\ outcome'[q] = outcome[q]
    /\ UNCHANGED <<size, asked, path, grown>>

LEMMA OthersKept ==
  ASSUME IInv, NEW w \in Workers, NEW r \in Requests, Serves(w, r), StepFor(w, r)
  PROVE  /\ \A v \in Workers \ {w} : ServiceInv(v)'
         /\ \A q \in Requests \ {r} : RequestInv(q)'
<1>1. ASSUME NEW v \in Workers \ {w} PROVE ServiceInv(v)'
  <2>1. ServiceInv(v)
    BY DEF IInv
  <2>2. /\ pc'[v] = pc[v] /\ req'[v] = req[v] /\ chunk'[v] = chunk[v]
        /\ file_len'[v] = file_len[v] /\ bytes_transferred'[v] = bytes_transferred[v]
        /\ size' = size /\ path' = path /\ grown' = grown
    BY DEF StepFor
  <2>3. CASE pc[v] = "idle"
    BY <2>2, <2>3 DEF ServiceInv
  <2>4. CASE pc[v] # "idle"
    <3>1. req[v] \in Requests \ {r}
      BY <2>4 DEF IInv, OwnerInv, Serves
    <3>2. /\ status'[req[v]] = status[req[v]] /\ announced'[req[v]] = announced[req[v]]
          /\ body'[req[v]] = body[req[v]] /\ sent'[req[v]] = sent[req[v]]
          /\ ctx'[req[v]] = ctx[req[v]] /\ link'[req[v]] = link[req[v]]
      BY <3>1 DEF StepFor
    <3> QED
      BY <2>1, <2>2, <3>2 DEF ServiceInv, Fresh
  <2> QED
    BY <2>3, <2>4
<1>2. ASSUME NEW q \in Requests \ {r} PROVE RequestInv(q)'
  <2>1. RequestInv(q)
    BY DEF IInv
  <2> QED
    BY <2>1 DEF StepFor, RequestInv, Fresh, PrefixOf, AnnouncedOf
<1> QED
  BY <1>1, <1>2

(* A step that sends no header leaves the names as they are.               *)
LEMMA NamesKept ==
  ASSUME NamesInv, UNCHANGED <<asked, path, stale, status>>,
         \A q \in Requests : outcome'[q] = "none" <=> outcome[q] = "none",
         \A v \in Workers : pc'[v] = "notfound" => pc[v] = "notfound" /\ req'[v] = req[v]
  PROVE  NamesInv'
<1>1. \A q \in Requests : NamedInv(q)'
  BY DEF NamesInv, NamedInv, Begins
<1>2. \A v \in Workers : pc'[v] = "notfound" => path'[req'[v]] \notin Fildes
  BY DEF NamesInv
<1> QED
  BY <1>1, <1>2 DEF NamesInv

(* The header a worker sends for its request says whether the file of the  *)
(* item's string is stored.                                                *)
LEMMA NamesAnswered ==
  ASSUME NamesInv, UNCHANGED <<asked, path, stale>>,
         NEW w \in Workers, NEW r \in Requests, r = req[w], outcome[r] = "busy",
         \A q \in Requests : outcome'[q] = "none" <=> outcome[q] = "none",
         \A v \in Workers : pc'[v] = "notfound" => pc[v] = "notfound" /\ req'[v] = req[v],
         \A q \in Requests \ {r} : status'[q] = status[q],
         \/ status'[r] = status[r]
         \/ status'[r] = "OK" /\ path[r] \in Fildes
         \/ status'[r] = "FILE_NOT_FOUND" /\ path[r] \notin Fildes
  PROVE  NamesInv'
<1>1. ASSUME NEW q \in Requests \ {r} PROVE NamedInv(q)'
  BY DEF NamesInv, NamedInv, Begins
<1>2. NamedInv(r)'
  BY DEF NamesInv, NamedInv, Begins
<1>3. \A v \in Workers : pc'[v] = "notfound" => path'[req'[v]] \notin Fildes
  BY DEF NamesInv
<1> QED
  BY <1>1, <1>2, <1>3 DEF NamesInv

LEMMA OwnersKept ==
  ASSUME OwnerInv, UNCHANGED <<req, outcome>>,
         \A v \in Workers : pc'[v] = "idle" <=> pc[v] = "idle"
  PROVE  OwnerInv'
BY DEF OwnerInv

(* A worker that returns gives up its request, which has ended.            *)
LEMMA Returns ==
  ASSUME IInv, NEW w \in Workers, pc[w] # "idle", NEW how \in {"sent", "failed", "notfound"}, Return(w, how)
  PROVE  /\ OwnerInv'
         /\ pc' \in [Workers -> {"idle", "notfound", "seek", "header", "loop",
                                 "send", "abort"}]
         /\ req' \in [Workers -> Requests \cup {NoRequest}]
         /\ outcome' \in [Requests -> {"none", "waiting", "busy", "sent",
                                       "failed", "notfound"}]
         /\ req[w] \in Requests /\ outcome[req[w]] = "busy"
         /\ outcome'[req[w]] = how /\ pc'[w] = "idle"
         /\ \A v \in Workers \ {w} : pc'[v] = pc[v] /\ req'[v] = req[v]
         /\ \A q \in Requests \ {req[w]} : outcome'[q] = outcome[q]
         /\ \A q \in Requests : outcome'[q] = "none" <=> outcome[q] = "none"
<1>1. /\ pc \in [Workers -> {"idle", "notfound", "seek", "header", "loop",
                             "send", "abort"}]
      /\ req \in [Workers -> Requests \cup {NoRequest}]
      /\ outcome \in [Requests -> {"none", "waiting", "busy", "sent",
                                   "failed", "notfound"}]
  BY DEF IInv, TypeInv, TypeOK
<1>2. OwnerInv /\ req[w] \in Requests /\ outcome[req[w]] = "busy"
  BY DEF IInv, OwnerInv
<1>3. /\ pc' = [pc EXCEPT ![w] = "idle"] /\ req' = [req EXCEPT ![w] = NoRequest]
      /\ outcome' = [outcome EXCEPT ![req[w]] = how]
  BY DEF Return, Goto
<1>4. /\ pc'[w] = "idle" /\ req'[w] = NoRequest /\ outcome'[req[w]] = how
      /\ \A v \in Workers \ {w} : pc'[v] = pc[v] /\ req'[v] = req[v]
      /\ \A q \in Requests \ {req[w]} : outcome'[q] = outcome[q]
  BY <1>1, <1>2, <1>3
<1>6. /\ pc' \in [Workers -> {"idle", "notfound", "seek", "header", "loop",
                              "send", "abort"}]
      /\ req' \in [Workers -> Requests \cup {NoRequest}]
      /\ outcome' \in [Requests -> {"none", "waiting", "busy", "sent",
                                    "failed", "notfound"}]
  BY <1>1, <1>2, <1>3
<1>7. \A v \in Workers \ {w} : pc[v] # "idle" => req[v] \in Requests /\ req[v] # req[w]
  BY <1>2 DEF OwnerInv
<1>8. OwnerInv'
  <2>1. \A v \in Workers : IF pc'[v] = "idle"
                           THEN req'[v] = NoRequest
                           ELSE req'[v] \in Requests /\ outcome'[req'[v]] = "busy"
    <3> SUFFICES ASSUME NEW v \in Workers
                 PROVE  IF pc'[v] = "idle"
                        THEN req'[v] = NoRequest
                        ELSE req'[v] \in Requests /\ outcome'[req'[v]] = "busy"
      OBVIOUS
    <3>1. CASE v = w
      BY <1>4, <3>1
    <3>2. CASE v # w
      BY <1>2, <1>4, <1>7, <3>2 DEF OwnerInv
    <3> QED
      BY <3>1, <3>2
  <2>2. \A u, v \in Workers : pc'[u] # "idle" /\ req'[u] = req'[v] => u = v
    BY <1>2, <1>4, <2>1, Sizes DEF OwnerInv
  <2> QED
    BY <2>1, <2>2 DEF OwnerInv
<1> QED
  BY <1>2, <1>4, <1>6, <1>8

-----------------------------------------------------------------------------
(* The worker's steps, one lemma for each.                                 *)

LEMMA TakeStep ==
  ASSUME IInv, NEW w \in Workers, NEW r \in Requests, Take(w, r)
  PROVE  IInv'
<1>1. /\ pc[w] = "idle" /\ outcome[r] = "waiting"
      /\ req' = [req EXCEPT ![w] = r]
      /\ outcome' = [outcome EXCEPT ![r] = "busy"]
      /\ UNCHANGED <<size, file_len, bytes_transferred, chunk, asked, path, stale, status,
                     announced, body, link, ctx, sent, grown, alive>>
  BY DEF Take, items, wire, library
<1>2. \/ /\ path[r] \in Fildes /\ pc' = [pc EXCEPT ![w] = "seek"]
         /\ offset' = [offset EXCEPT ![path[r]] = 0]
      \/ /\ path[r] \notin Fildes /\ pc' = [pc EXCEPT ![w] = "notfound"]
         /\ offset' = offset
  BY DEF Take, Goto, Found
<1>3. TypeInv
  BY DEF IInv
<1>4. /\ pc \in [Workers -> {"idle", "notfound", "seek", "header", "loop", "send", "abort"}]
      /\ req \in [Workers -> Requests \cup {NoRequest}]
      /\ offset \in [Fildes -> 0 .. MaxSize]
      /\ outcome \in [Requests -> {"none", "waiting", "busy", "sent", "failed", "notfound"}]
      /\ \A v \in Workers : pc[v] \notin {"idle", "notfound"} => path[req[v]] \in Fildes
  BY <1>3 DEF TypeInv, TypeOK
<1>5. /\ pc'[w] \in {"seek", "notfound"} /\ req'[w] = r /\ outcome'[r] = "busy"
      /\ \A v \in Workers \ {w} : pc'[v] = pc[v] /\ req'[v] = req[v]
      /\ \A q \in Requests \ {r} : outcome'[q] = outcome[q]
      /\ pc'[w] = "seek" => path[r] \in Fildes
      /\ pc'[w] = "notfound" => path[r] \notin Fildes
  BY <1>1, <1>2, <1>4
<1>6. TypeInv'
  <2>1. /\ pc' \in [Workers -> {"idle", "notfound", "seek", "header", "loop",
                                "send", "abort"}]
        /\ req' \in [Workers -> Requests \cup {NoRequest}]
        /\ outcome' \in [Requests -> {"none", "waiting", "busy", "sent",
                                      "failed", "notfound"}]
    BY <1>1, <1>2, <1>4
  <2>2. offset' \in [Fildes -> 0 .. MaxSize]
    BY <1>2, <1>4, Sizes
  <2>3. \A v \in Workers : pc'[v] \notin {"idle", "notfound"} => path'[req'[v]] \in Fildes
    BY <1>1, <1>4, <1>5
  <2> QED
    BY <1>1, <1>3, <2>1, <2>2, <2>3 DEF TypeInv, TypeOK
<1>7. OwnerInv'
  <2>1. OwnerInv
    BY DEF IInv
  <2>2. \A v \in Workers : pc[v] # "idle" => req[v] # r
    BY <1>1, <2>1 DEF OwnerInv
  <2>3. r # NoRequest
    BY Sizes
  <2>4. \A v \in Workers : IF pc'[v] = "idle"
                           THEN req'[v] = NoRequest
                           ELSE req'[v] \in Requests /\ outcome'[req'[v]] = "busy"
    BY <1>5, <2>1, <2>2 DEF OwnerInv
  <2>5. \A u, v \in Workers : pc'[u] # "idle" /\ req'[u] = req'[v] => u = v
    BY <1>5, <2>1, <2>2, <2>3 DEF OwnerInv
  <2> QED
    BY <2>4, <2>5 DEF OwnerInv
<1>8. Fresh(r) /\ RequestInv(r)
  BY <1>1 DEF IInv, RequestInv
<1>9. ServiceInv(w)'
  BY <1>1, <1>5, <1>8 DEF ServiceInv, Fresh
<1>10. RequestInv(r)'
  BY <1>1, <1>5, <1>8 DEF RequestInv, PrefixOf, Beginning, AnnouncedOf
<1>11. Serves(w, r) /\ StepFor(w, r)
  BY <1>1, <1>5 DEF Serves, StepFor
<1>12. /\ \A v \in Workers \ {w} : ServiceInv(v)'
       /\ \A q \in Requests \ {r} : RequestInv(q)'
  BY <1>11, OthersKept
<1>13. NamesInv'
  <2>1. NamesInv
    BY DEF IInv
  <2>2. \A q \in Requests : NamedInv(q)'
    BY <1>1, <1>5, <2>1 DEF NamesInv, NamedInv, Begins
  <2>3. \A v \in Workers : pc'[v] = "notfound" => path'[req'[v]] \notin Fildes
    BY <1>1, <1>5, <2>1 DEF NamesInv
  <2> QED
    BY <2>2, <2>3 DEF NamesInv
<1> QED
  BY <1>6, <1>7, <1>9, <1>10, <1>12, <1>13 DEF IInv

LEMMA SendNotFoundStep ==
  ASSUME IInv, NEW w \in Workers, SendNotFound(w)
  PROVE  IInv'
<1> PICK r : r = req[w]
  OBVIOUS
<1>1. /\ pc[w] = "notfound" /\ Return(w, "notfound")
      /\ HeaderSent(r, "FILE_NOT_FOUND", 0) \/ HeaderFails(r)
      /\ UNCHANGED <<size, offset, file_len, bytes_transferred, chunk, asked, path, stale,
                     ctx, sent, grown, alive>>
  BY DEF SendNotFound, files, items
<1>2. TypeInv
  BY DEF IInv
<1>3. /\ OwnerInv'
      /\ pc' \in [Workers -> {"idle", "notfound", "seek", "header", "loop", "send", "abort"}]
      /\ req' \in [Workers -> Requests \cup {NoRequest}]
      /\ outcome' \in [Requests -> {"none", "waiting", "busy", "sent", "failed", "notfound"}]
      /\ r \in Requests /\ outcome'[r] = "notfound" /\ pc'[w] = "idle"
      /\ \A v \in Workers \ {w} : pc'[v] = pc[v] /\ req'[v] = req[v]
      /\ \A q \in Requests \ {r} : outcome'[q] = outcome[q]
      /\ \A q \in Requests : outcome'[q] = "none" <=> outcome[q] = "none"
  BY <1>1, Returns
<1>4. /\ body' = body
      /\ \/ /\ status' = [status EXCEPT ![r] = "FILE_NOT_FOUND"]
            /\ announced' = [announced EXCEPT ![r] = 0]
            /\ link' = link
         \/ /\ link' = [link EXCEPT ![r] = "reset"]
            /\ status' = status /\ announced' = announced
  BY <1>1 DEF HeaderSent, HeaderFails, wire
<1>5. /\ status \in [Requests -> {"none", "OK", "FILE_NOT_FOUND"}]
      /\ announced \in [Requests -> 0 .. MaxSize]
      /\ link \in [Requests -> {"open", "gone", "reset", "closed"}]
      /\ \A v \in Workers : pc[v] \notin {"idle", "notfound"} => path[req[v]] \in Fildes
  BY <1>2 DEF TypeInv, TypeOK
<1>6. /\ status'[r] \in {"none", "FILE_NOT_FOUND"} \cup {status[r]}
      /\ announced'[r] \in {0, announced[r]}
      /\ \A q \in Requests \ {r} : /\ status'[q] = status[q]
                                   /\ announced'[q] = announced[q] /\ link'[q] = link[q]
  BY <1>3, <1>4, <1>5
<1>7. TypeInv'
  <2>1. /\ status' \in [Requests -> {"none", "OK", "FILE_NOT_FOUND"}]
        /\ announced' \in [Requests -> 0 .. MaxSize]
        /\ link' \in [Requests -> {"open", "gone", "reset", "closed"}]
    BY <1>4, <1>5, Sizes
  <2>2. \A v \in Workers : pc'[v] \notin {"idle", "notfound"} => path'[req'[v]] \in Fildes
    BY <1>1, <1>3, <1>5
  <2> QED
    BY <1>1, <1>2, <1>3, <1>4, <2>1, <2>2 DEF TypeInv, TypeOK
<1>8. Fresh(r) /\ PrefixOf(r)
  BY <1>1, <1>3 DEF IInv, ServiceInv, RequestInv
<1>9. ServiceInv(w)'
  BY <1>3 DEF ServiceInv
<1>10. RequestInv(r)'
  <2>1. body'[r] = <<>> /\ announced'[r] = 0 /\ path' = path
    BY <1>1, <1>4, <1>6, <1>8 DEF Fresh
  <2> QED
    BY <1>3, <1>8, <2>1 DEF RequestInv, PrefixOf, Beginning, AnnouncedOf, Fresh
<1>11. Serves(w, r) /\ StepFor(w, r)
  BY <1>1, <1>3, <1>4, <1>6 DEF Serves, StepFor
<1>12. /\ \A v \in Workers \ {w} : ServiceInv(v)'
       /\ \A q \in Requests \ {r} : RequestInv(q)'
  BY <1>3, <1>11, OthersKept
<1>13. NamesInv'
  <2>1. NamesInv /\ outcome[r] = "busy" /\ path[r] \notin Fildes
    BY <1>1, <1>3 DEF IInv, OwnerInv, NamesInv
  <2>2. status'[r] = status[r] \/ status'[r] = "FILE_NOT_FOUND"
    BY <1>3, <1>4, <1>5
  <2> QED
    BY <1>1, <1>3, <1>6, <2>1, <2>2, NamesAnswered
<1> QED
  BY <1>3, <1>7, <1>9, <1>10, <1>12, <1>13 DEF IInv

LEMMA SeekEndStep ==
  ASSUME IInv, NEW w \in Workers, SeekEnd(w)
  PROVE  IInv'
<1> PICK r : r = req[w]
  OBVIOUS
<1>1. /\ pc[w] = "seek"
      /\ file_len' = [file_len EXCEPT ![w] = size[path[r]]]
      /\ offset' = [offset EXCEPT ![path[r]] = size[path[r]]]
      /\ pc' = [pc EXCEPT ![w] = "header"]
      /\ UNCHANGED <<size, req, bytes_transferred, chunk, asked, path, stale, status,
                     announced, body, link, ctx, sent, outcome, grown, alive>>
  BY DEF SeekEnd, Goto, items, wire, library
<1>2. TypeInv /\ OwnerInv
  BY DEF IInv
<1>3. /\ size \in [Fildes -> 0 .. MaxSize]
      /\ offset \in [Fildes -> 0 .. MaxSize]
      /\ pc \in [Workers -> {"idle", "notfound", "seek", "header", "loop", "send", "abort"}]
      /\ file_len \in [Workers -> 0 .. MaxSize]
      /\ \A v \in Workers : pc[v] \notin {"idle", "notfound"} => path[req[v]] \in Fildes
  BY <1>2 DEF TypeInv, TypeOK
<1>4. r \in Requests /\ outcome[r] = "busy" /\ path[r] \in Fildes /\ size[path[r]] \in 0 .. MaxSize
  BY <1>1, <1>2, <1>3 DEF OwnerInv
<1>5. /\ pc'[w] = "header" /\ file_len'[w] = size[path[r]]
      /\ \A v \in Workers \ {w} : pc'[v] = pc[v] /\ file_len'[v] = file_len[v]
  BY <1>1, <1>3
<1>6. TypeInv'
  <2>1. /\ pc' \in [Workers -> {"idle", "notfound", "seek", "header", "loop",
                                "send", "abort"}]
        /\ file_len' \in [Workers -> 0 .. MaxSize]
        /\ offset' \in [Fildes -> 0 .. MaxSize]
    BY <1>1, <1>3, <1>4
  <2>2. \A v \in Workers : pc'[v] \notin {"idle", "notfound"} => path'[req'[v]] \in Fildes
    BY <1>1, <1>3, <1>4, <1>5
  <2> QED
    BY <1>1, <1>2, <2>1, <2>2 DEF TypeInv, TypeOK
<1>7. OwnerInv'
  BY <1>1, <1>2, <1>5, OwnersKept
<1>8. ServiceInv(w)'
  <2>1. Fresh(r)
    BY <1>1 DEF IInv, ServiceInv
  <2>2. size'[path'[req'[w]]] <= file_len'[w]
    BY <1>1, <1>4, <1>5
  <2> QED
    BY <1>1, <1>5, <2>1, <2>2 DEF ServiceInv, Fresh
<1>9. RequestInv(r)'
  BY <1>1, <1>4 DEF IInv, RequestInv, PrefixOf, AnnouncedOf, Fresh
<1>10. Serves(w, r) /\ StepFor(w, r)
  BY <1>1, <1>5 DEF Serves, StepFor
<1>11. /\ \A v \in Workers \ {w} : ServiceInv(v)'
       /\ \A q \in Requests \ {r} : RequestInv(q)'
  BY <1>4, <1>10, OthersKept
<1>12. NamesInv'
  BY <1>1, NamesKept DEF IInv
<1> QED
  BY <1>6, <1>7, <1>8, <1>9, <1>11, <1>12 DEF IInv

LEMMA SendOKStep ==
  ASSUME IInv, NEW w \in Workers, SendOK(w)
  PROVE  IInv'
<1> PICK r : r = req[w]
  OBVIOUS
<1>1. /\ pc[w] = "header"
      /\ HeaderSent(r, "OK", file_len[w]) \/ HeaderFails(r)
      /\ bytes_transferred' = [bytes_transferred EXCEPT ![w] = 0]
      /\ pc' = [pc EXCEPT ![w] = "loop"]
      /\ UNCHANGED <<size, offset, req, file_len, chunk, asked, path, stale, ctx, sent,
                     outcome, grown, alive>>
  BY DEF SendOK, Goto, items, files
<1>2. TypeInv /\ OwnerInv
  BY DEF IInv
<1>3. /\ pc \in [Workers -> {"idle", "notfound", "seek", "header", "loop", "send", "abort"}]
      /\ file_len \in [Workers -> 0 .. MaxSize]
      /\ bytes_transferred \in [Workers -> 0 .. MaxSize]
      /\ status \in [Requests -> {"none", "OK", "FILE_NOT_FOUND"}]
      /\ announced \in [Requests -> 0 .. MaxSize]
      /\ link \in [Requests -> {"open", "gone", "reset", "closed"}]
      /\ \A v \in Workers : pc[v] \notin {"idle", "notfound"} => path[req[v]] \in Fildes
  BY <1>2 DEF TypeInv, TypeOK
<1>4. r \in Requests /\ outcome[r] = "busy" /\ path[r] \in Fildes /\ file_len[w] \in Nat
  BY <1>1, <1>2, <1>3, Sizes DEF OwnerInv
<1>5. Fresh(r)
  BY <1>1 DEF IInv, ServiceInv
<1>6. /\ body' = body
      /\ \/ /\ status' = [status EXCEPT ![r] = "OK"]
            /\ announced' = [announced EXCEPT ![r] = file_len[w]]
            /\ link' = link
         \/ /\ link' = [link EXCEPT ![r] = "reset"]
            /\ status' = status /\ announced' = announced
  BY <1>1 DEF HeaderSent, HeaderFails, wire
<1>7. /\ pc'[w] = "loop" /\ bytes_transferred'[w] = 0
      /\ \A v \in Workers \ {w} : /\ pc'[v] = pc[v]
                                  /\ bytes_transferred'[v] = bytes_transferred[v]
      /\ \A q \in Requests \ {r} : /\ status'[q] = status[q]
                                   /\ announced'[q] = announced[q] /\ link'[q] = link[q]
      /\ \/ status'[r] = "OK" /\ announced'[r] = file_len[w] /\ link'[r] = link[r]
         \/ status'[r] = status[r] /\ announced'[r] = announced[r] /\ link'[r] = "reset"
  BY <1>1, <1>3, <1>4, <1>6
<1>8. TypeInv'
  <2>1. /\ pc' \in [Workers -> {"idle", "notfound", "seek", "header", "loop",
                                "send", "abort"}]
        /\ bytes_transferred' \in [Workers -> 0 .. MaxSize]
    BY <1>1, <1>3, Sizes
  <2>2. /\ status' \in [Requests -> {"none", "OK", "FILE_NOT_FOUND"}]
        /\ announced' \in [Requests -> 0 .. MaxSize]
        /\ link' \in [Requests -> {"open", "gone", "reset", "closed"}]
    BY <1>3, <1>6
  <2>3. \A v \in Workers : pc'[v] \notin {"idle", "notfound"} => path'[req'[v]] \in Fildes
    BY <1>1, <1>3, <1>4, <1>7
  <2> QED
    BY <1>1, <1>2, <1>6, <2>1, <2>2, <2>3 DEF TypeInv, TypeOK
<1>9. OwnerInv'
  BY <1>1, <1>2, <1>7, OwnersKept
<1>10. ServiceInv(w)'
  <2>1. ~ grown'[r] => size'[path'[r]] <= file_len'[w]
    BY <1>1 DEF IInv, ServiceInv
  <2>2. /\ \/ status'[r] = "OK" /\ announced'[r] = file_len'[w]
           \/ /\ status'[r] = "none" /\ announced'[r] = 0 /\ body'[r] = <<>>
              /\ link'[r] = "reset"
        /\ ctx'[r] = "live" /\ link'[r] # "closed"
    BY <1>1, <1>5, <1>6, <1>7 DEF Fresh
  <2>3. bytes_transferred'[w] = Len(body'[r]) /\ bytes_transferred'[w] = sent'[r]
    BY <1>1, <1>5, <1>6, <1>7 DEF Fresh
  <2>4. req'[w] = r
    BY <1>1
  <2> QED
    BY <1>7, <2>1, <2>2, <2>3, <2>4 DEF ServiceInv
<1>11. RequestInv(r)'
  <2>1. body'[r] = <<>> /\ path' = path /\ outcome' = outcome
    BY <1>1, <1>5, <1>6 DEF Fresh
  <2>2. announced'[r] \in Nat
    BY <1>4, <1>5, <1>7 DEF Fresh
  <2> QED
    BY <1>4, <2>1, <2>2 DEF RequestInv, PrefixOf, Beginning, AnnouncedOf
<1>12. Serves(w, r) /\ StepFor(w, r)
  BY <1>1, <1>6, <1>7 DEF Serves, StepFor
<1>13. /\ \A v \in Workers \ {w} : ServiceInv(v)'
       /\ \A q \in Requests \ {r} : RequestInv(q)'
  BY <1>4, <1>12, OthersKept
<1>14. NamesInv'
  BY <1>1, <1>4, <1>7, NamesAnswered DEF IInv
<1> QED
  BY <1>8, <1>9, <1>10, <1>11, <1>13, <1>14 DEF IInv

LEMMA PReadStep ==
  ASSUME IInv, NEW w \in Workers, PRead(w)
  PROVE  IInv'
<1> PICK r : r = req[w]
  OBVIOUS
<1> PICK f : f = path[r]
  OBVIOUS
<1>1. /\ pc[w] = "loop" /\ bytes_transferred[w] < file_len[w]
      /\ UNCHANGED <<size, offset, file_len, bytes_transferred, asked, path, stale, status,
                     announced, body, link, ctx, sent, grown, alive, req, outcome>>
  BY DEF PRead, NothingRead, files, items, wire, library
<1>2. \/ \E n \in 1 .. Smaller(BUFFER_SIZE, size[f] - At(w)) :
            /\ chunk' = [chunk EXCEPT ![w] = [i \in 1 .. n |-> <<f, At(w) + i>>]]
            /\ pc' = [pc EXCEPT ![w] = "send"]
      \/ pc' = [pc EXCEPT ![w] = "abort"] /\ chunk' = chunk
  BY DEF PRead, NothingRead, Counts, Goto
<1>3. TypeInv /\ OwnerInv /\ ServiceInv(w)
  BY DEF IInv
<1>4. /\ pc \in [Workers -> {"idle", "notfound", "seek", "header", "loop", "send", "abort"}]
      /\ chunk \in [Workers -> Seq(FileBytes)]
      /\ \A v \in Workers : Len(chunk[v]) <= BUFFER_SIZE
      /\ size \in [Fildes -> 0 .. MaxSize]
      /\ bytes_transferred[w] \in Nat /\ file_len[w] \in Nat
      /\ \A v \in Workers : pc[v] \notin {"idle", "notfound"} => path[req[v]] \in Fildes
  BY <1>3, Sizes DEF TypeInv, TypeOK, FileBytes
<1>5. r \in Requests /\ outcome[r] = "busy" /\ f \in Fildes /\ size[f] \in 0 .. MaxSize
  BY <1>1, <1>3, <1>4 DEF OwnerInv
<1>6. \/ /\ pc' = [pc EXCEPT ![w] = "send"]
         /\ chunk' = [chunk EXCEPT ![w] = chunk'[w]]
         /\ chunk'[w] \in Seq(FileBytes)
         /\ Len(chunk'[w]) \in 1 .. BUFFER_SIZE
         /\ bytes_transferred[w] + Len(chunk'[w]) <= size[f]
         /\ \A i \in 1 .. Len(chunk'[w]) : chunk'[w][i] = <<f, bytes_transferred[w] + i>>
      \/ pc' = [pc EXCEPT ![w] = "abort"] /\ chunk' = chunk
  <2>1. ASSUME NEW n \in 1 .. Smaller(BUFFER_SIZE, size[f] - At(w)),
               chunk' = [chunk EXCEPT ![w] = [i \in 1 .. n |-> <<f, At(w) + i>>]]
        PROVE  /\ chunk' = [chunk EXCEPT ![w] = chunk'[w]]
               /\ chunk'[w] \in Seq(FileBytes)
               /\ Len(chunk'[w]) \in 1 .. BUFFER_SIZE
               /\ bytes_transferred[w] + Len(chunk'[w]) <= size[f]
               /\ \A i \in 1 .. Len(chunk'[w]) :
                     chunk'[w][i] = <<f, bytes_transferred[w] + i>>
    <3>1. n \in 1 .. BUFFER_SIZE /\ bytes_transferred[w] + n <= size[f] /\ n \in Nat
      BY <1>4, <1>5, Sizes DEF Smaller, At
    <3> PICK b : b = [i \in 1 .. n |-> <<f, bytes_transferred[w] + i>>]
      OBVIOUS
    <3>2. chunk'[w] = b /\ chunk' = [chunk EXCEPT ![w] = b]
      BY <1>4, <2>1 DEF At
    <3>3. \A i \in 1 .. n : <<f, bytes_transferred[w] + i>> \in FileBytes
      BY <1>4, <1>5, <3>1, Sizes DEF FileBytes
    <3>4. b \in Seq(FileBytes) /\ Len(b) = n
      BY <3>1, <3>3
    <3> QED
      BY <3>1, <3>2, <3>4
  <2> QED
    BY <1>2, <2>1
<1>7. /\ pc'[w] \in {"send", "abort"}
      /\ \A v \in Workers \ {w} : pc'[v] = pc[v] /\ chunk'[v] = chunk[v]
  BY <1>4, <1>6
<1>8. TypeInv'
  <2>1. pc' \in [Workers -> {"idle", "notfound", "seek", "header", "loop", "send", "abort"}]
    BY <1>4, <1>6
  <2>2. chunk' \in [Workers -> Seq(FileBytes)]
    BY <1>4, <1>6
  <2>3. \A v \in Workers : Len(chunk'[v]) <= BUFFER_SIZE
    BY <1>4, <1>6, <1>7, Sizes
  <2>4. \A v \in Workers : pc'[v] \notin {"idle", "notfound"} => path'[req'[v]] \in Fildes
    BY <1>1, <1>4, <1>5, <1>7
  <2> QED
    BY <1>1, <1>3, <2>1, <2>2, <2>3, <2>4 DEF TypeInv, TypeOK, FileBytes
<1>9. OwnerInv'
  BY <1>1, <1>3, <1>7, OwnersKept
<1>10. ServiceInv(w)'
  <2>1. /\ bytes_transferred[w] = Len(body[r]) /\ bytes_transferred[w] = sent[r]
        /\ \/ status[r] = "OK" /\ announced[r] = file_len[w]
           \/ /\ status[r] = "none" /\ announced[r] = 0 /\ body[r] = <<>>
              /\ link[r] = "reset"
        /\ ctx[r] = "live" /\ link[r] # "closed"
        /\ ~ grown[r] => size[f] <= file_len[w]
    BY <1>1, <1>3 DEF ServiceInv
  <2>2. CASE pc' = [pc EXCEPT ![w] = "abort"] /\ chunk' = chunk
    <3>1. pc'[w] = "abort"
      BY <1>4, <2>2
    <3> QED
      BY <1>1, <2>1, <3>1 DEF ServiceInv
  <2>3. CASE pc' # [pc EXCEPT ![w] = "abort"] \/ chunk' # chunk
    <3>1. /\ pc'[w] = "send"
          /\ Len(chunk'[w]) \in 1 .. BUFFER_SIZE
          /\ bytes_transferred[w] + Len(chunk'[w]) <= size[f]
          /\ \A i \in 1 .. Len(chunk'[w]) : chunk'[w][i] = <<f, bytes_transferred[w] + i>>
      BY <1>4, <1>6, <2>3
    <3>2. chunk'[w] # <<>> /\ Len(chunk'[w]) <= BUFFER_SIZE
      BY <3>1, Sizes
    <3>3. bytes_transferred[w] + Len(chunk'[w]) > file_len[w] => grown[r]
      BY <1>4, <1>5, <2>1, <3>1, Sizes
    <3>4. req' = req /\ path' = path
      BY <1>1
    <3> QED
      BY <1>1, <2>1, <3>1, <3>2, <3>3, <3>4 DEF ServiceInv
  <2> QED
    BY <2>2, <2>3
<1>11. RequestInv(r)'
  BY <1>1, <1>5 DEF IInv, RequestInv, PrefixOf, AnnouncedOf, Fresh
<1>12. Serves(w, r) /\ StepFor(w, r)
  BY <1>1, <1>7 DEF Serves, StepFor
<1>13. /\ \A v \in Workers \ {w} : ServiceInv(v)'
       /\ \A q \in Requests \ {r} : RequestInv(q)'
  BY <1>5, <1>12, OthersKept
<1>14. NamesInv'
  <2>1. NamesInv /\ \A v \in Workers : pc'[v] = "notfound" => pc[v] = "notfound"
    BY <1>7 DEF IInv
  <2> QED
    BY <1>1, <2>1, NamesKept
<1> QED
  BY <1>8, <1>9, <1>10, <1>11, <1>13, <1>14 DEF IInv

(* The bytes that go out are the next ones of the file, all of the chunk   *)
(* or a part of it; the service may send more than announced only when     *)
(* the file grew.                                                          *)
LEMMA SendStep ==
  ASSUME IInv, NEW w \in Workers, Send(w)
  PROVE  IInv'
<1> PICK r : r = req[w]
  OBVIOUS
<1> PICK f : f = path[r]
  OBVIOUS
<1> PICK b : b = chunk[w]
  OBVIOUS
<1>1. /\ pc[w] = "send"
      /\ chunk' = [chunk EXCEPT ![w] = <<>>]
      /\ UNCHANGED <<size, offset, req, file_len, asked, path, stale, outcome, grown, alive>>
  BY DEF Send, files, items
<1>2. \/ /\ DataSent(r, b, announced[r])
         /\ bytes_transferred' = [bytes_transferred EXCEPT ![w] = @ + Len(b)]
         /\ pc' = [pc EXCEPT ![w] = "loop"]
      \/ /\ DataFails(r, b)
         /\ pc' = [pc EXCEPT ![w] = "abort"]
         /\ bytes_transferred' = bytes_transferred
  BY DEF Send, Goto
<1>3. TypeInv /\ OwnerInv /\ ServiceInv(w)
  BY DEF IInv
<1>4. /\ pc \in [Workers -> {"idle", "notfound", "seek", "header", "loop", "send", "abort"}]
      /\ chunk \in [Workers -> Seq(FileBytes)]
      /\ \A v \in Workers : Len(chunk[v]) <= BUFFER_SIZE
      /\ body \in [Requests -> Seq(FileBytes)]
      /\ bytes_transferred \in [Workers -> 0 .. MaxSize]
      /\ sent \in [Requests -> 0 .. MaxSize]
      /\ link \in [Requests -> {"open", "gone", "reset", "closed"}]
      /\ ctx \in [Requests -> {"live", "freed"}]
      /\ \A v \in Workers : pc[v] \notin {"idle", "notfound"} => path[req[v]] \in Fildes
  BY <1>3 DEF TypeInv, TypeOK, FileBytes
<1>5. /\ r \in Requests /\ outcome[r] = "busy" /\ f \in Fildes
      /\ file_len[w] \in Nat
  BY <1>1, <1>3, <1>4, Sizes DEF OwnerInv, TypeInv, TypeOK
<1>6. /\ bytes_transferred[w] = Len(body[r]) /\ bytes_transferred[w] = sent[r]
      /\ \/ status[r] = "OK" /\ announced[r] = file_len[w]
         \/ link[r] = "reset"
      /\ ctx[r] = "live" /\ link[r] # "closed"
      /\ ~ grown[r] => size[f] <= file_len[w]
      /\ bytes_transferred[w] < file_len[w]
      /\ b # <<>> /\ Len(b) <= BUFFER_SIZE
      /\ \A i \in 1 .. Len(b) : b[i] = <<f, bytes_transferred[w] + i>>
      /\ bytes_transferred[w] + Len(b) > file_len[w] => grown[r]
  BY <1>1, <1>3 DEF ServiceInv
<1>7. /\ b \in Seq(FileBytes) /\ body[r] \in Seq(FileBytes)
      /\ bytes_transferred[w] \in 0 .. MaxSize
      /\ Len(b) \in Nat /\ Len(b) > 0
      /\ bytes_transferred[w] + Len(b) \in 0 .. MaxSize
  <2>1. b \in Seq(FileBytes) /\ body[r] \in Seq(FileBytes) /\ bytes_transferred[w] \in 0 .. MaxSize
    BY <1>4, <1>5
  <2>2. Len(b) \in Nat /\ Len(b) > 0
    BY <1>6, <2>1, EmptySeq, LenProperties
  <2>3. b[Len(b)] \in FileBytes
    BY <2>1, <2>2, ElementOfSeq
  <2>4. b[Len(b)] = <<f, bytes_transferred[w] + Len(b)>>
    BY <1>6, <2>2
  <2>5. bytes_transferred[w] + Len(b) \in 1 .. MaxSize
    BY <2>3, <2>4 DEF FileBytes
  <2> QED
    BY <2>1, <2>2, <2>5, Sizes
<1>8. Beginning(body[r], f)
  BY <1>5 DEF IInv, RequestInv, PrefixOf
(* A write that succeeds, and one that does not.                           *)
<1>9. \/ /\ body' = [body EXCEPT ![r] = body[r] \o b]
         /\ sent' = [sent EXCEPT ![r] = sent[r] + Len(b)]
         /\ bytes_transferred' = [bytes_transferred EXCEPT ![w] = bytes_transferred[w] + Len(b)]
         /\ pc' = [pc EXCEPT ![w] = "loop"]
         /\ status[r] = "OK" /\ announced[r] = file_len[w]
         /\ \/ /\ sent[r] + Len(b) >= announced[r]
               /\ link' = [link EXCEPT ![r] = "closed"] /\ ctx' = [ctx EXCEPT ![r] = "freed"]
            \/ ~ (sent[r] + Len(b) >= announced[r]) /\ link' = link /\ ctx' = ctx
         /\ status' = status /\ announced' = announced
      \/ /\ \E n \in 0 .. Len(b) - 1 : body' = [body EXCEPT ![r] = body[r] \o SubSeq(b, 1, n)]
         /\ link[r] = "gone"
         /\ link' = [link EXCEPT ![r] = "reset"]
         /\ pc' = [pc EXCEPT ![w] = "abort"]
         /\ bytes_transferred' = bytes_transferred
         /\ status' = status /\ announced' = announced /\ ctx' = ctx /\ sent' = sent
  <2>1. CASE /\ DataSent(r, b, announced[r])
             /\ bytes_transferred' = [bytes_transferred EXCEPT ![w] = @ + Len(b)]
             /\ pc' = [pc EXCEPT ![w] = "loop"]
    <3>1. /\ link[r] \in {"open", "gone"}
          /\ body' = [body EXCEPT ![r] = body[r] \o b]
          /\ sent' = [sent EXCEPT ![r] = sent[r] + Len(b)]
          /\ IF sent'[r] >= announced[r]
             THEN link' = [link EXCEPT ![r] = "closed"] /\ ctx' = [ctx EXCEPT ![r] = "freed"]
             ELSE link' = link /\ ctx' = ctx
          /\ status' = status /\ announced' = announced
      BY <2>1 DEF DataSent, Accepts
    <3>2. sent'[r] = sent[r] + Len(b)
      BY <1>4, <1>5, <3>1
    <3>3. /\ bytes_transferred' = [bytes_transferred EXCEPT ![w] = bytes_transferred[w] + Len(b)]
          /\ pc' = [pc EXCEPT ![w] = "loop"]
          /\ status[r] = "OK" /\ announced[r] = file_len[w]
      BY <1>6, <2>1, <3>1
    <3> QED
      BY <3>1, <3>2, <3>3
  <2>2. CASE /\ DataFails(r, b)
             /\ pc' = [pc EXCEPT ![w] = "abort"]
             /\ bytes_transferred' = bytes_transferred
    BY <2>2 DEF DataFails, Fails
  <2> QED
    BY <1>2, <2>1, <2>2
<1>10. /\ body' = [body EXCEPT ![r] = body'[r]] /\ body'[r] \in Seq(FileBytes)
       /\ Beginning(body'[r], f)
       /\ Len(body'[r]) <= bytes_transferred[w] + Len(b)
       /\ Len(body'[r]) \in Nat
       /\ pc'[w] = "loop" => Len(body'[r]) = bytes_transferred[w] + Len(b)
  <2>1. CASE body' = [body EXCEPT ![r] = body[r] \o b]
    <3>0. PICK d : d = body[r] \o b
      OBVIOUS
    <3>1. body'[r] = d
      BY <1>4, <1>5, <2>1, <3>0
    <3>2. Following(b, f, Len(body[r]))
      BY <1>6 DEF Following
    <3>3. /\ d \in Seq(FileBytes) /\ Len(body[r]) \in Nat
          /\ Len(d) = Len(body[r]) + Len(b)
          /\ Beginning(d, f)
      BY <1>7, <1>8, <3>0, <3>2, PrefixGrows, Zenon
    <3>4. bytes_transferred[w] = Len(body[r]) /\ Len(b) \in Nat
      BY <1>6, <1>7
    <3>5. Len(d) = bytes_transferred[w] + Len(b) /\ Len(d) \in Nat
      <4>1. Len(d) = Len(body[r]) + Len(b)
        BY <3>3
      <4>2. Len(d) = bytes_transferred[w] + Len(b)
        BY <3>4, <4>1
      <4>3. Len(d) \in Nat
        BY <3>3, LenProperties
      <4> QED
        BY <4>2, <4>3
    <3>6. Len(d) <= bytes_transferred[w] + Len(b)
      BY <3>5
    <3>7. body' = [body EXCEPT ![r] = d]
      BY <2>1, <3>0
    <3> QED
      BY <3>1, <3>3, <3>5, <3>6, <3>7
  <2>2. ASSUME NEW n \in 0 .. Len(b) - 1,
               body' = [body EXCEPT ![r] = body[r] \o SubSeq(b, 1, n)],
               pc' = [pc EXCEPT ![w] = "abort"]
        PROVE  <1>10!:
    <3> PICK c : c = SubSeq(b, 1, n)
      OBVIOUS
    <3>9. PICK d : d = body[r] \o c
      OBVIOUS
    <3>1. pc'[w] = "abort" /\ body'[r] = d
      BY <1>4, <1>5, <2>2, <3>9
    <3>2. bytes_transferred[w] \in Nat
      BY <1>7
    <3>3. c \in Seq(FileBytes) /\ Len(c) = n
          /\ \A i \in 1 .. n : c[i] = <<f, bytes_transferred[w] + i>>
      BY <1>6, <1>7, <3>2, PrefixOfNext
    <3>4. Following(c, f, Len(body[r]))
      BY <1>6, <3>3 DEF Following
    <3>5. /\ d \in Seq(FileBytes) /\ Len(body[r]) \in Nat
          /\ Len(d) = Len(body[r]) + Len(c)
          /\ Beginning(d, f)
      <4>1. c \in Seq(FileBytes) /\ body[r] \in Seq(FileBytes)
        BY <1>7, <3>3
      <4> QED
        BY <1>8, <3>4, <3>9, <4>1, PrefixGrows, Zenon
    <3>6. bytes_transferred[w] = Len(body[r]) /\ Len(b) \in Nat
      BY <1>6, <1>7
    <3>7. Len(d) <= bytes_transferred[w] + Len(b) /\ Len(d) \in Nat
      BY <3>3, <3>5, <3>6
    <3>8. body' = [body EXCEPT ![r] = d]
      BY <2>2, <3>9
    <3> QED
      BY <3>1, <3>5, <3>7, <3>8
  <2> QED
    BY <1>9, <2>1, <2>2
<1>11. /\ pc'[w] \in {"loop", "abort"} /\ chunk'[w] = <<>>
       /\ \A v \in Workers \ {w} :
             /\ pc'[v] = pc[v] /\ chunk'[v] = chunk[v]
             /\ bytes_transferred'[v] = bytes_transferred[v]
       /\ \A q \in Requests \ {r} :
             /\ body'[q] = body[q] /\ sent'[q] = sent[q]
             /\ ctx'[q] = ctx[q] /\ link'[q] = link[q]
       /\ status' = status /\ announced' = announced
  <2>1. /\ pc'[w] \in {"loop", "abort"} /\ chunk'[w] = <<>>
        /\ \A v \in Workers \ {w} :
             /\ pc'[v] = pc[v] /\ chunk'[v] = chunk[v]
             /\ bytes_transferred'[v] = bytes_transferred[v]
    BY <1>1, <1>4, <1>9
  <2>2. \A q \in Requests \ {r} : body'[q] = body[q] /\ sent'[q] = sent[q]
    BY <1>4, <1>9, <1>10
  <2>3. \A q \in Requests \ {r} : ctx'[q] = ctx[q] /\ link'[q] = link[q]
    BY <1>4, <1>9
  <2> QED
    BY <1>9, <2>1, <2>2, <2>3
<1>12. TypeInv'
  <2>1. /\ pc' \in [Workers -> {"idle", "notfound", "seek", "header", "loop",
                                "send", "abort"}]
        /\ chunk' \in [Workers -> Seq(FileBytes)]
    BY <1>1, <1>4, <1>9, EmptySeq
  <2>2. /\ bytes_transferred' \in [Workers -> 0 .. MaxSize]
        /\ sent' \in [Requests -> 0 .. MaxSize]
    <3> PICK k : k = bytes_transferred[w] + Len(b)
      OBVIOUS
    <3>1. /\ \/ bytes_transferred' = [bytes_transferred EXCEPT ![w] = k]
             \/ bytes_transferred' = bytes_transferred
          /\ sent' = [sent EXCEPT ![r] = k] \/ sent' = sent
      BY <1>6, <1>9
    <3>2. k \in 0 .. MaxSize
      BY <1>7
    <3> QED
      BY <1>4, <3>1, <3>2
  <2>3. body' \in [Requests -> Seq(FileBytes)]
    BY <1>4, <1>10
  <2>4. /\ link' \in [Requests -> {"open", "gone", "reset", "closed"}]
        /\ ctx' \in [Requests -> {"live", "freed"}]
    BY <1>4, <1>9
  <2>5. \A v \in Workers : Len(chunk'[v]) <= BUFFER_SIZE
    BY <1>4, <1>11, Sizes, EmptySeq
  <2>6. \A v \in Workers : pc'[v] \notin {"idle", "notfound"} => path'[req'[v]] \in Fildes
    BY <1>1, <1>4, <1>5, <1>11
  <2> QED
    BY <1>1, <1>3, <1>11, <2>1, <2>2, <2>3, <2>4, <2>5, <2>6 DEF TypeInv, TypeOK, FileBytes
<1>13. OwnerInv'
  BY <1>1, <1>3, <1>11, OwnersKept
<1>14. ServiceInv(w)'
  <2>1. CASE pc'[w] = "loop"
    <3>1. /\ sent'[r] = sent[r] + Len(b)
          /\ bytes_transferred'[w] = bytes_transferred[w] + Len(b)
          /\ status[r] = "OK" /\ announced[r] = file_len[w]
          /\ sent[r] + Len(b) >= announced[r] \/ (link' = link /\ ctx' = ctx)
      BY <1>4, <1>5, <1>9, <2>1
    <3>2. /\ bytes_transferred'[w] = Len(body'[r]) /\ bytes_transferred'[w] = sent'[r]
          /\ bytes_transferred'[w] < file_len[w] => ctx'[r] = "live" /\ link'[r] # "closed"
      BY <1>5, <1>6, <1>7, <1>10, <2>1, <3>1
    <3> QED
      BY <1>1, <1>6, <1>11, <2>1, <3>1, <3>2 DEF ServiceInv
  <2>2. CASE pc'[w] = "abort"
    <3>1. ctx'[r] = "live" /\ link'[r] # "closed"
      BY <1>4, <1>5, <1>6, <1>9, <2>2
    <3> QED
      BY <1>1, <2>2, <3>1 DEF ServiceInv
  <2> QED
    BY <1>11, <2>1, <2>2
<1>15. RequestInv(r)'
  <2>1. PrefixOf(r)'
    BY <1>1, <1>10 DEF PrefixOf
  <2>2. Len(body'[r]) > announced'[r] => grown'[r] /\ Len(body'[r]) < announced'[r] + BUFFER_SIZE
    <3>1. announced'[r] = file_len[w]
      BY <1>6, <1>9, <1>11
    <3> QED
      BY <1>1, <1>5, <1>6, <1>7, <1>10, <3>1, Sizes
  <2> QED
    BY <1>1, <1>5, <2>1, <2>2 DEF RequestInv, AnnouncedOf
<1>16. Serves(w, r) /\ StepFor(w, r)
  BY <1>1, <1>11 DEF Serves, StepFor
<1>17. /\ \A v \in Workers \ {w} : ServiceInv(v)'
       /\ \A q \in Requests \ {r} : RequestInv(q)'
  BY <1>5, <1>16, OthersKept
<1>18. NamesInv'
  <2>1. status' = status
    BY <1>9
  <2>2. NamesInv /\ \A v \in Workers : pc'[v] = "notfound" => pc[v] = "notfound"
    BY <1>11 DEF IInv
  <2> QED
    BY <1>1, <2>1, <2>2, NamesKept
<1> QED
  BY <1>12, <1>13, <1>14, <1>15, <1>17, <1>18 DEF IInv

LEMMA AbortStep ==
  ASSUME IInv, NEW w \in Workers, Abort(w)
  PROVE  IInv'
<1> PICK r : r = req[w]
  OBVIOUS
<1>1. /\ pc[w] = "abort" /\ Return(w, "failed")
      /\ link' = [link EXCEPT ![r] = "closed"]
      /\ UNCHANGED <<size, offset, file_len, bytes_transferred, chunk, asked, path, stale,
                     status, announced, body, ctx, sent, grown, alive>>
  BY DEF Abort, files, items, wire
<1>2. TypeInv
  BY DEF IInv
<1>3. /\ OwnerInv'
      /\ pc' \in [Workers -> {"idle", "notfound", "seek", "header", "loop", "send", "abort"}]
      /\ req' \in [Workers -> Requests \cup {NoRequest}]
      /\ outcome' \in [Requests -> {"none", "waiting", "busy", "sent", "failed", "notfound"}]
      /\ r \in Requests /\ outcome'[r] = "failed" /\ pc'[w] = "idle"
      /\ \A v \in Workers \ {w} : pc'[v] = pc[v] /\ req'[v] = req[v]
      /\ \A q \in Requests \ {r} : outcome'[q] = outcome[q]
      /\ \A q \in Requests : outcome'[q] = "none" <=> outcome[q] = "none"
  BY <1>1, Returns
<1>4. /\ link \in [Requests -> {"open", "gone", "reset", "closed"}]
      /\ \A v \in Workers : pc[v] \notin {"idle", "notfound"} => path[req[v]] \in Fildes
  BY <1>2 DEF TypeInv, TypeOK
<1>5. TypeInv'
  <2>1. link' \in [Requests -> {"open", "gone", "reset", "closed"}]
    BY <1>1, <1>4
  <2>2. \A v \in Workers : pc'[v] \notin {"idle", "notfound"} => path'[req'[v]] \in Fildes
    BY <1>1, <1>3, <1>4
  <2> QED
    BY <1>1, <1>2, <1>3, <2>1, <2>2 DEF TypeInv, TypeOK
<1>6. ServiceInv(w)'
  BY <1>3 DEF ServiceInv
<1>7. RequestInv(r)'
  BY <1>1, <1>3 DEF IInv, RequestInv, PrefixOf, AnnouncedOf
<1>8. Serves(w, r) /\ StepFor(w, r)
  BY <1>1, <1>3, <1>4 DEF Serves, StepFor
<1>9. /\ \A v \in Workers \ {w} : ServiceInv(v)'
      /\ \A q \in Requests \ {r} : RequestInv(q)'
  BY <1>3, <1>8, OthersKept
<1>10. NamesInv'
  BY <1>1, <1>3, NamesKept DEF IInv
<1> QED
  BY <1>3, <1>5, <1>6, <1>7, <1>9, <1>10 DEF IInv

(* The service ends well only with its own count at file_len, which is the *)
(* announced length unless the header was never sent.                      *)
LEMMA FinishStep ==
  ASSUME IInv, NEW w \in Workers, Finish(w)
  PROVE  IInv'
<1> PICK r : r = req[w]
  OBVIOUS
<1>1. /\ pc[w] = "loop" /\ bytes_transferred[w] >= file_len[w] /\ Return(w, "sent")
      /\ UNCHANGED <<size, offset, file_len, bytes_transferred, chunk, asked, path, stale,
                     status, announced, body, link, ctx, sent, grown, alive>>
  BY DEF Finish, files, items, wire, library
<1>2. TypeInv
  BY DEF IInv
<1>3. /\ OwnerInv'
      /\ pc' \in [Workers -> {"idle", "notfound", "seek", "header", "loop", "send", "abort"}]
      /\ req' \in [Workers -> Requests \cup {NoRequest}]
      /\ outcome' \in [Requests -> {"none", "waiting", "busy", "sent", "failed", "notfound"}]
      /\ r \in Requests /\ outcome'[r] = "sent" /\ pc'[w] = "idle"
      /\ \A v \in Workers \ {w} : pc'[v] = pc[v] /\ req'[v] = req[v]
      /\ \A q \in Requests \ {r} : outcome'[q] = outcome[q]
      /\ \A q \in Requests : outcome'[q] = "none" <=> outcome[q] = "none"
  BY <1>1, Returns
<1>4. \A v \in Workers : pc[v] \notin {"idle", "notfound"} => path[req[v]] \in Fildes
  BY <1>2 DEF TypeInv, TypeOK
<1>5. TypeInv'
  <2>1. \A v \in Workers : pc'[v] \notin {"idle", "notfound"} => path'[req'[v]] \in Fildes
    BY <1>1, <1>3, <1>4
  <2> QED
    BY <1>1, <1>2, <1>3, <2>1 DEF TypeInv, TypeOK
<1>6. ServiceInv(w)'
  BY <1>3 DEF ServiceInv
<1>7. RequestInv(r)'
  <2>1. RequestInv(r)
    BY <1>3 DEF IInv
  <2>2. status[r] = "OK" => Len(body[r]) >= announced[r]
    BY <1>1 DEF IInv, ServiceInv
  <2> QED
    BY <1>1, <1>3, <2>1, <2>2 DEF RequestInv, PrefixOf, AnnouncedOf
<1>8. Serves(w, r) /\ StepFor(w, r)
  BY <1>1, <1>3 DEF Serves, StepFor
<1>9. /\ \A v \in Workers \ {w} : ServiceInv(v)'
      /\ \A q \in Requests \ {r} : RequestInv(q)'
  BY <1>3, <1>8, OthersKept
<1>10. NamesInv'
  BY <1>1, <1>3, NamesKept DEF IInv
<1> QED
  BY <1>3, <1>5, <1>6, <1>7, <1>9, <1>10 DEF IInv

LEMMA KilledStep ==
  ASSUME IInv, NEW w \in Workers, Killed(w)
  PROVE  IInv'
<1>1. /\ UNCHANGED <<size, offset, pc, req, file_len, bytes_transferred, chunk, asked, path,
                     stale, status, announced, body, link, ctx, sent, outcome, grown>>
      /\ alive' = FALSE
  BY DEF Killed, KilledBySigpipe, files, locals, items, wire, library
<1>2. TypeInv'
  BY <1>1 DEF IInv, TypeInv, TypeOK
<1>3. OwnerInv'
  BY <1>1, OwnersKept DEF IInv
<1>4. \A v \in Workers : ServiceInv(v)'
  BY <1>1 DEF IInv, ServiceInv, Fresh
<1>5. \A q \in Requests : RequestInv(q)'
  BY <1>1 DEF IInv, RequestInv, Fresh, PrefixOf, AnnouncedOf
<1>6. NamesInv'
  BY <1>1, NamesKept DEF IInv
<1> QED
  BY <1>2, <1>3, <1>4, <1>5, <1>6 DEF IInv

-----------------------------------------------------------------------------
(* The boss and the environment.                                           *)

(* The memory of the item holds a string of Leftovers.                     *)
LEMMA QueueStep ==
  ASSUME IInv, NEW r \in Requests, Queue(r)
  PROVE  IInv'
<1>1. /\ outcome[r] = "none"
      /\ outcome' = [outcome EXCEPT ![r] = "waiting"]
      /\ UNCHANGED <<size, offset, pc, req, file_len, bytes_transferred, chunk, asked, status,
                     announced, body, link, ctx, sent, grown, alive>>
  BY DEF Queue, files, locals, wire, library
<1>2. PICK rest \in Leftovers :
         /\ path' = [path EXCEPT ![r] = Copied(asked[r], rest)]
         /\ stale' = IF rest = <<>> THEN stale ELSE stale \cup {r}
  BY DEF Queue
<1>3. /\ TypeInv /\ OwnerInv /\ RequestInv(r)
      /\ outcome \in [Requests -> {"none", "waiting", "busy", "sent", "failed", "notfound"}]
      /\ path \in [Requests -> Seq(Chars)]
      /\ stale \subseteq Requests
      /\ \A v \in Workers : pc[v] \notin {"idle", "notfound"} => path[req[v]] \in Fildes
  BY DEF IInv, TypeInv, TypeOK
<1>4. /\ outcome'[r] = "waiting"
      /\ \A q \in Requests \ {r} : outcome'[q] = outcome[q]
  BY <1>1, <1>3
<1>5. asked[r] \in Seq(Chars) /\ rest \in Seq(Chars)
  BY <1>3, NamesAreStrings DEF TypeInv
<1>7. /\ Copied(asked[r], rest) \in Seq(Chars)
      /\ Begins(Copied(asked[r], rest), asked[r])
      /\ rest = <<>> => Copied(asked[r], rest) = asked[r]
  BY <1>5, CopiedProperties
<1>8. /\ path'[r] = Copied(asked[r], rest)
      /\ \A q \in Requests \ {r} : path'[q] = path[q]
  BY <1>2, <1>3
<1>9. \A v \in Workers : pc[v] # "idle" => req[v] \in Requests \ {r}
  BY <1>1, <1>3 DEF OwnerInv
<1>10. TypeInv'
  <2>1. path' \in [Requests -> Seq(Chars)]
    BY <1>2, <1>3, <1>7
  <2>2. outcome' \in [Requests -> {"none", "waiting", "busy", "sent", "failed", "notfound"}]
    BY <1>1, <1>3
  <2>3. stale' \subseteq Requests
    BY <1>2, <1>3
  <2>4. \A v \in Workers : pc'[v] \notin {"idle", "notfound"} => path'[req'[v]] \in Fildes
    BY <1>1, <1>3, <1>8, <1>9
  <2> QED
    BY <1>1, <1>3, <2>1, <2>2, <2>3, <2>4 DEF TypeInv, TypeOK
<1>11. OwnerInv'
  <2>1. \A v \in Workers : IF pc'[v] = "idle"
                           THEN req'[v] = NoRequest
                           ELSE req'[v] \in Requests /\ outcome'[req'[v]] = "busy"
    BY <1>1, <1>3, <1>4, <1>9 DEF OwnerInv
  <2>2. \A u, v \in Workers : pc'[u] # "idle" /\ req'[u] = req'[v] => u = v
    BY <1>1, <1>3 DEF OwnerInv
  <2> QED
    BY <2>1, <2>2 DEF OwnerInv
<1>12. ASSUME NEW v \in Workers PROVE ServiceInv(v)'
  <2>1. ServiceInv(v)
    BY DEF IInv
  <2>2. pc[v] # "idle" => path'[req[v]] = path[req[v]]
    BY <1>8, <1>9
  <2>3. CASE pc[v] = "idle"
    BY <1>1, <2>3 DEF ServiceInv
  <2>4. CASE pc[v] # "idle"
    BY <1>1, <2>1, <2>2, <2>4 DEF ServiceInv, Fresh
  <2> QED
    BY <2>3, <2>4
<1>13. ASSUME NEW q \in Requests PROVE RequestInv(q)'
  <2>1. RequestInv(q)
    BY DEF IInv
  <2>2. CASE q # r
    BY <1>1, <1>4, <1>8, <2>1, <2>2 DEF RequestInv, Fresh, PrefixOf, AnnouncedOf
  <2>3. CASE q = r
    <3>1. Fresh(r)
      BY <1>1, <1>3 DEF RequestInv
    <3> QED
      BY <1>1, <1>4, <2>3, <3>1 DEF RequestInv, Fresh, PrefixOf, Beginning, AnnouncedOf
  <2> QED
    BY <2>2, <2>3
<1>14. NamesInv'
  <2>1. NamesInv /\ status[r] = "none"
    BY <1>1, <1>3 DEF IInv, RequestInv, Fresh
  <2>2. ASSUME NEW q \in Requests \ {r} PROVE NamedInv(q)'
    <3>1. q \in stale' <=> q \in stale
      BY <1>2
    <3> QED
      BY <1>1, <1>4, <1>8, <2>1, <3>1 DEF NamesInv, NamedInv, Begins
  <2>3. NamedInv(r)'
    <3>1. Begins(path[r], asked[r])'
      BY <1>1, <1>7, <1>8
    <3>2. r \notin stale' => path'[r] = asked'[r]
      BY <1>1, <1>2, <1>7, <1>8
    <3> QED
      BY <1>1, <2>1, <3>1, <3>2 DEF NamedInv
  <2>4. \A v \in Workers : pc'[v] = "notfound" => path'[req'[v]] \notin Fildes
    BY <1>1, <1>8, <1>9, <2>1 DEF NamesInv
  <2> QED
    BY <2>2, <2>3, <2>4 DEF NamesInv
<1> QED
  BY <1>10, <1>11, <1>12, <1>13, <1>14 DEF IInv

LEMMA LeaveStep ==
  ASSUME IInv, NEW r \in Requests, Leave(r)
  PROVE  IInv'
<1>1. /\ link[r] = "open" /\ link' = [link EXCEPT ![r] = "gone"]
      /\ UNCHANGED <<size, offset, pc, req, file_len, bytes_transferred, chunk, asked, path,
                     stale, status, announced, body, ctx, sent, outcome, grown, alive>>
  BY DEF Leave, files, locals, items, wire
<1>2. TypeInv /\ link \in [Requests -> {"open", "gone", "reset", "closed"}]
  BY DEF IInv, TypeInv, TypeOK
<1>3. /\ link' \in [Requests -> {"open", "gone", "reset", "closed"}]
      /\ \A q \in Requests : \/ link'[q] = link[q]
                             \/ link[q] = "open" /\ link'[q] = "gone"
  BY <1>1, <1>2
<1>4. TypeInv'
  BY <1>1, <1>2, <1>3 DEF TypeInv, TypeOK
<1>5. OwnerInv'
  BY <1>1, OwnersKept DEF IInv
<1>6. ASSUME NEW v \in Workers PROVE ServiceInv(v)'
  <2>1. CASE pc[v] = "idle"
    BY <1>1, <2>1 DEF ServiceInv
  <2>2. CASE pc[v] # "idle"
    <3>1. ServiceInv(v) /\ req[v] \in Requests
      BY <2>2 DEF IInv, OwnerInv
    <3>2. \/ link'[req[v]] = link[req[v]]
          \/ link[req[v]] = "open" /\ link'[req[v]] = "gone"
      BY <1>3, <3>1
    <3> QED
      BY <1>1, <3>1, <3>2 DEF ServiceInv, Fresh
  <2> QED
    BY <2>1, <2>2
<1>7. \A q \in Requests : RequestInv(q)'
  BY <1>1, <1>3 DEF IInv, RequestInv, Fresh, PrefixOf, AnnouncedOf
<1>8. NamesInv'
  BY <1>1, NamesKept DEF IInv
<1> QED
  BY <1>4, <1>5, <1>6, <1>7, <1>8 DEF IInv

(* A file that grows under a service is noted for it.                      *)
LEMMA ResizeStep ==
  ASSUME IInv, NEW f \in Fildes, NEW n \in 0 .. MaxSize, Resize(f, n)
  PROVE  IInv'
<1>1. /\ size' = [size EXCEPT ![f] = n]
      /\ grown' = [r \in Requests |->
                      grown[r] \/ (outcome[r] = "busy" /\ path[r] = f /\ n > size[f])]
      /\ UNCHANGED <<offset, pc, req, file_len, bytes_transferred, chunk, asked, path,
                     stale, status, announced, body, link, ctx, sent, outcome, alive>>
  BY DEF Resize, locals, items, wire, library
<1>2. /\ TypeInv /\ OwnerInv
      /\ size \in [Fildes -> 0 .. MaxSize]
      /\ grown \in [Requests -> BOOLEAN]
      /\ \A v \in Workers : pc[v] \notin {"idle", "notfound"} => path[req[v]] \in Fildes
  BY DEF IInv, TypeInv, TypeOK
<1>3. /\ size' \in [Fildes -> 0 .. MaxSize]
      /\ grown' \in [Requests -> BOOLEAN]
  BY <1>1, <1>2
<1>4. \A q \in Requests : /\ grown[q] => grown'[q]
                          /\ outcome[q] = "busy" /\ path[q] = f /\ n > size[f] => grown'[q]
  BY <1>1
<1>5. TypeInv'
  BY <1>1, <1>2, <1>3 DEF TypeInv, TypeOK
<1>6. OwnerInv'
  BY <1>1, OwnersKept DEF IInv
<1>7. ASSUME NEW v \in Workers PROVE ServiceInv(v)'
  <2>1. CASE pc[v] = "idle"
    BY <1>1, <2>1 DEF ServiceInv
  <2>2. CASE pc[v] # "idle"
    <3>1. ServiceInv(v) /\ req[v] \in Requests /\ outcome[req[v]] = "busy"
      BY <2>2 DEF IInv, OwnerInv
    <3>2. /\ grown[req[v]] => grown'[req[v]]
          /\ path[req[v]] = f /\ n > size[f] => grown'[req[v]]
      BY <1>4, <3>1
    <3>3. pc[v] \in {"header", "loop", "send"} /\ ~ grown'[req[v]]
             => size'[path[req[v]]] <= file_len[v]
      <4> SUFFICES ASSUME pc[v] \in {"header", "loop", "send"}, ~ grown'[req[v]]
                   PROVE  size'[path[req[v]]] <= file_len[v]
        OBVIOUS
      <4>1. size[path[req[v]]] <= file_len[v] /\ path[req[v]] \in Fildes
        BY <1>2, <3>1, <3>2 DEF ServiceInv
      <4>2. file_len[v] \in Nat /\ size[path[req[v]]] \in Nat /\ n \in Nat
        BY <1>2, <4>1, Sizes DEF TypeInv, TypeOK
      <4>3. CASE path[req[v]] = f
        BY <1>1, <1>2, <3>2, <4>1, <4>2, <4>3
      <4>4. CASE path[req[v]] # f
        BY <1>1, <1>2, <4>1, <4>4
      <4> QED
        BY <4>3, <4>4
    <3> QED
      BY <1>1, <3>1, <3>2, <3>3 DEF ServiceInv, Fresh
  <2> QED
    BY <2>1, <2>2
<1>8. \A q \in Requests : RequestInv(q)'
  BY <1>1, <1>4 DEF IInv, RequestInv, Fresh, PrefixOf, AnnouncedOf
<1>9. NamesInv'
  BY <1>1, NamesKept DEF IInv
<1> QED
  BY <1>5, <1>6, <1>7, <1>8, <1>9 DEF IInv

-----------------------------------------------------------------------------
(* The theorems.                                                           *)

LEMMA NextInv == IInv /\ [Next]_vars => IInv'
<1> SUFFICES ASSUME IInv, [Next]_vars PROVE IInv'
  OBVIOUS
<1>1. CASE UNCHANGED vars
  <2>1. UNCHANGED <<size, offset, pc, req, file_len, bytes_transferred, chunk, asked, path,
                    stale, status, announced, body, link, ctx, sent, outcome, grown, alive>>
    BY <1>1 DEF vars, files, locals, items, wire, library
  <2>2. TypeInv'
    BY <2>1 DEF IInv, TypeInv, TypeOK
  <2>3. OwnerInv' /\ NamesInv'
    BY <2>1, OwnersKept, NamesKept DEF IInv
  <2>4. \A w \in Workers : ServiceInv(w)'
    BY <2>1 DEF IInv, ServiceInv, Fresh
  <2>5. \A r \in Requests : RequestInv(r)'
    BY <2>1 DEF IInv, RequestInv, Fresh, PrefixOf, AnnouncedOf
  <2> QED
    BY <2>2, <2>3, <2>4, <2>5 DEF IInv
<1>2. ASSUME NEW w \in Workers, WorkerStep(w) PROVE IInv'
  <2>1. ASSUME NEW r \in Requests, Take(w, r) PROVE IInv'
    BY <2>1, TakeStep
  <2>2. CASE SendNotFound(w)
    BY <2>2, SendNotFoundStep
  <2>3. CASE SeekEnd(w)
    BY <2>3, SeekEndStep
  <2>4. CASE SendOK(w)
    BY <2>4, SendOKStep
  <2>5. CASE PRead(w)
    BY <2>5, PReadStep
  <2>6. CASE Send(w)
    BY <2>6, SendStep
  <2>7. CASE Killed(w)
    BY <2>7, KilledStep
  <2>8. CASE Abort(w)
    BY <2>8, AbortStep
  <2>9. CASE Finish(w)
    BY <2>9, FinishStep
  <2> QED
    BY <1>2, <2>1, <2>2, <2>3, <2>4, <2>5, <2>6, <2>7, <2>8, <2>9 DEF WorkerStep
<1>3. ASSUME NEW r \in Requests, Queue(r) PROVE IInv'
  BY <1>3, QueueStep
<1>4. ASSUME NEW r \in Requests, Leave(r) PROVE IInv'
  BY <1>4, LeaveStep
<1>5. ASSUME NEW f \in Fildes, NEW n \in 0 .. MaxSize, Resize(f, n) PROVE IInv'
  BY <1>5, ResizeStep
<1> QED
  BY <1>1, <1>2, <1>3, <1>4, <1>5 DEF Next

(* The inductive invariant, of every run of the workers, the boss, the     *)
(* clients and the files.                                                  *)
THEOREM Invariance == SafeSpec => []IInv
BY InitInv, NextInv, PTL DEF SafeSpec

(* The types; among them, that a worker past the look-up has a stored      *)
(* file, and that no count of bytes exceeds the longest file.              *)
THEOREM TypesKept == SafeSpec => []TypeOK
<1>1. IInv => TypeOK
  BY DEF IInv, TypeInv
<1> QED
  BY <1>1, Invariance, PTL

(* pread at the worker's own position is enough: what a client is sent is  *)
(* a beginning of the file, although workers share the descriptor.         *)
THEOREM BodiesRight == SafeSpec => []BodyIsFilePrefix
<1>1. IInv => BodyIsFilePrefix
  BY DEF IInv, RequestInv, PrefixOf, Beginning, BodyIsFilePrefix
<1> QED
  BY <1>1, Invariance, PTL

(* The unterminated memcpy of handler_get: whatever malloc'ed memory holds *)
(* behind the name, the client is sent a file whose name begins with the   *)
(* one asked for, and exactly that name's answer if it held nothing.       *)
THEOREM NamesRight == SafeSpec => []OwnNameFirst
<1>1. IInv => OwnNameFirst
  <2> SUFFICES ASSUME IInv, NEW r \in Requests
               PROVE  /\ status[r] = "OK" =>
                            \E f \in Fildes : Begins(f, asked[r]) /\ SentOf(r, f)
                      /\ r \notin stale =>
                            /\ status[r] = "OK" => SentOf(r, asked[r])
                            /\ status[r] = "FILE_NOT_FOUND" => asked[r] \notin Fildes
    BY DEF OwnNameFirst
  <2>1. NamedInv(r)
    BY DEF IInv, NamesInv
  <2>2. \A i \in 1 .. Len(body[r]) : body[r][i] = <<path[r], i>>
    BY DEF IInv, RequestInv, PrefixOf, Beginning
  <2>3. path[r] \in Fildes => SentOf(r, path[r])
    BY <2>2 DEF SentOf
  <2> QED
    BY <2>1, <2>3 DEF NamedInv
<1> QED
  BY <1>1, Invariance, PTL

(* The header's length is kept, unless the file grew meanwhile.            *)
THEOREM LengthsKept == SafeSpec => []AnnouncedLengthKept
<1>1. IInv => AnnouncedLengthKept
  BY DEF IInv, RequestInv, AnnouncedOf, AnnouncedLengthKept
<1> QED
  BY <1>1, Invariance, PTL

(* execute_thread calls the library only with a context it has not freed   *)
(* and a connection it has not closed: both count the same bytes.          *)
THEOREM ContextsLive == SafeSpec => []NoUseAfterFree
<1>1. IInv => NoUseAfterFree
  BY DEF IInv, ServiceInv, Fresh, NoUseAfterFree
<1> QED
  BY <1>1, Invariance, PTL

-----------------------------------------------------------------------------
(* A service comes to its end: the part of EveryServiceEnds that needs no  *)
(* fairness.                                                               *)

(* StepsLeft place by place, now and after a step.                         *)
LEMMA StepsCounted ==
  ASSUME NEW w
  PROVE  /\ pc[w] = "idle" => StepsLeft(w) = 0
         /\ pc[w] \in {"notfound", "abort"} => StepsLeft(w) = 1
         /\ pc[w] = "loop" => StepsLeft(w) = 2 * Unsent(w) + 2
         /\ pc[w] = "send" => StepsLeft(w) = 2 * Unsent(w) + 1
         /\ pc[w] = "header" => StepsLeft(w) = 2 * file_len[w] + 3
         /\ pc[w] = "seek" => StepsLeft(w) = 2 * MaxSize + 4
BY DEF StepsLeft

LEMMA StepsCountedNext ==
  ASSUME NEW w
  PROVE  /\ pc'[w] = "idle" => StepsLeft(w)' = 0
         /\ pc'[w] \in {"notfound", "abort"} => StepsLeft(w)' = 1
         /\ pc'[w] = "loop" => StepsLeft(w)' = 2 * Unsent(w)' + 2
         /\ pc'[w] = "send" => StepsLeft(w)' = 2 * Unsent(w)' + 1
         /\ pc'[w] = "header" => StepsLeft(w)' = 2 * file_len'[w] + 3
         /\ pc'[w] = "seek" => StepsLeft(w)' = 2 * MaxSize + 4
BY DEF StepsLeft

LEMMA StepsAreANumber ==
  ASSUME IInv, NEW w \in Workers
  PROVE  StepsLeft(w) \in Nat
<1>1. /\ MaxSize \in Nat
      /\ pc[w] \in {"idle", "notfound", "seek", "header", "loop", "send", "abort"}
      /\ file_len[w] \in Nat /\ bytes_transferred[w] \in Nat
  BY Sizes DEF IInv, TypeInv, TypeOK
<1>2. Unsent(w) \in Nat
  BY <1>1 DEF Unsent
<1>3. CASE pc[w] \in {"idle", "notfound", "abort"}
  BY <1>3, StepsCounted
<1>4. CASE pc[w] \in {"loop", "send"}
  <2>1. StepsLeft(w) = 2 * Unsent(w) + 2 \/ StepsLeft(w) = 2 * Unsent(w) + 1
    BY <1>4, StepsCounted
  <2> QED
    BY <1>2, <2>1
<1>5. CASE pc[w] \in {"header", "seek"}
  <2>1. StepsLeft(w) = 2 * file_len[w] + 3 \/ StepsLeft(w) = 2 * MaxSize + 4
    BY <1>5, StepsCounted
  <2> QED
    BY <1>1, <2>1
<1> QED
  BY <1>1, <1>3, <1>4, <1>5

(* Each step of its worker brings a service closer to its end: the chunk   *)
(* that a send takes out of what is left is never empty.                   *)
LEMMA OwnStepShrinks ==
  ASSUME IInv, NEW w \in Workers, pc[w] # "idle", alive', WorkerStep(w)
  PROVE  StepsLeft(w)' < StepsLeft(w) /\ StepsLeft(w)' \in Nat
<1>1. /\ TypeInv /\ ServiceInv(w)
      /\ MaxSize \in Nat
  BY Sizes DEF IInv
<1>2. /\ pc \in [Workers -> {"idle", "notfound", "seek", "header", "loop", "send", "abort"}]
      /\ file_len \in [Workers -> 0 .. MaxSize]
      /\ bytes_transferred \in [Workers -> 0 .. MaxSize]
      /\ size \in [Fildes -> 0 .. MaxSize]
      /\ \A v \in Workers : pc[v] \notin {"idle", "notfound"} => path[req[v]] \in Fildes
      /\ chunk[w] \in Seq(FileBytes)
  BY <1>1 DEF TypeInv, TypeOK
<1>3. /\ file_len[w] \in Nat /\ file_len[w] <= MaxSize
      /\ bytes_transferred[w] \in Nat
      /\ Unsent(w) \in Nat
  BY <1>1, <1>2 DEF Unsent
<1>4. /\ \A x : (pc' = [pc EXCEPT ![w] = x] => pc'[w] = x)
      /\ \A x : (file_len' = [file_len EXCEPT ![w] = x] => file_len'[w] = x)
      /\ \A x : (bytes_transferred' = [bytes_transferred EXCEPT ![w] = x]
                    => bytes_transferred'[w] = x)
  BY <1>2
<1>5. CASE SendNotFound(w) \/ Abort(w) \/ Finish(w)
  <2>1. pc'[w] = "idle" /\ StepsLeft(w)' = 0
    BY <1>4, <1>5, StepsCountedNext DEF SendNotFound, Abort, Finish, Return, Goto
  <2>2. pc[w] \in {"notfound", "abort", "loop"}
    BY <1>5 DEF SendNotFound, Abort, Finish
  <2>3. StepsLeft(w) \in Nat /\ StepsLeft(w) > 0
    <3>1. CASE pc[w] = "loop"
      <4>1. StepsLeft(w) = 2 * Unsent(w) + 2
        BY <3>1, StepsCounted
      <4> QED
        BY <1>3, <4>1
    <3>2. CASE pc[w] # "loop"
      BY <2>2, <3>2, StepsCounted
    <3> QED
      BY <3>1, <3>2
  <2> QED
    BY <2>1, <2>3
<1>6. CASE SeekEnd(w)
  <2>1. /\ pc[w] = "seek" /\ pc'[w] = "header"
        /\ file_len'[w] = size[path[req[w]]] /\ path[req[w]] \in Fildes
    BY <1>2, <1>4, <1>6 DEF SeekEnd, Goto
  <2>2. /\ StepsLeft(w) = 2 * MaxSize + 4
        /\ StepsLeft(w)' = 2 * file_len'[w] + 3
    BY <2>1, StepsCounted, StepsCountedNext
  <2>3. file_len'[w] \in Nat /\ file_len'[w] <= MaxSize
    BY <1>1, <1>2, <2>1
  <2> QED
    BY <1>1, <2>2, <2>3
<1>7. CASE SendOK(w)
  <2>1. /\ pc[w] = "header" /\ pc'[w] = "loop"
        /\ file_len' = file_len /\ bytes_transferred'[w] = 0
    BY <1>4, <1>7 DEF SendOK, Goto
  <2>2. /\ StepsLeft(w) = 2 * file_len[w] + 3
        /\ StepsLeft(w)' = 2 * Unsent(w)' + 2
    BY <2>1, StepsCounted, StepsCountedNext
  <2>3. Unsent(w)' = file_len[w]
    BY <1>3, <2>1 DEF Unsent
  <2> QED
    BY <1>3, <2>2, <2>3
<1>8. CASE PRead(w)
  <2>1. /\ pc[w] = "loop" /\ pc'[w] \in {"send", "abort"}
        /\ file_len' = file_len /\ bytes_transferred' = bytes_transferred
    BY <1>4, <1>8 DEF PRead, NothingRead, Goto
  <2>2. Unsent(w)' = Unsent(w)
    BY <2>1 DEF Unsent
  <2>3. /\ StepsLeft(w) = 2 * Unsent(w) + 2
        /\ StepsLeft(w)' \in {1, 2 * Unsent(w) + 1}
    BY <2>1, <2>2, StepsCounted, StepsCountedNext
  <2> QED
    BY <1>3, <2>3
<1>9. CASE Send(w)
  <2>1. /\ pc[w] = "send" /\ file_len' = file_len
        /\ \/ /\ pc'[w] = "loop"
              /\ bytes_transferred' =
                    [bytes_transferred EXCEPT ![w] = bytes_transferred[w] + Len(chunk[w])]
           \/ pc'[w] = "abort"
    BY <1>4, <1>9 DEF Send, Goto
  <2>2. /\ bytes_transferred[w] < file_len[w]
        /\ Len(chunk[w]) \in Nat /\ Len(chunk[w]) > 0
    <3>1. bytes_transferred[w] < file_len[w] /\ chunk[w] # <<>>
      BY <1>1, <2>1 DEF ServiceInv
    <3> QED
      BY <1>2, <3>1, EmptySeq, LenProperties
  <2>3. /\ StepsLeft(w) = 2 * Unsent(w) + 1
        /\ Unsent(w) = file_len[w] - bytes_transferred[w]
    BY <2>1, <2>2, StepsCounted DEF Unsent
  <2>4. CASE pc'[w] = "abort"
    <3>1. StepsLeft(w)' = 1
      BY <2>4, StepsCountedNext
    <3> QED
      BY <1>3, <2>2, <2>3, <3>1
  <2>5. CASE pc'[w] # "abort"
    <3>1. /\ pc'[w] = "loop"
          /\ bytes_transferred'[w] = bytes_transferred[w] + Len(chunk[w])
      BY <1>4, <2>1, <2>5
    <3>2. StepsLeft(w)' = 2 * Unsent(w)' + 2
      BY <3>1, StepsCountedNext
    <3>3. Unsent(w)' \in Nat /\ Unsent(w)' + 1 <= Unsent(w)
      BY <1>3, <2>1, <2>2, <2>3, <3>1 DEF Unsent
    <3> QED
      BY <1>3, <2>3, <3>2, <3>3
  <2> QED
    BY <2>4, <2>5
<1>10. ~ Killed(w) /\ \A r \in Requests : ~ Take(w, r)
  BY DEF Killed, KilledBySigpipe, Take
<1> QED
  BY <1>5, <1>6, <1>7, <1>8, <1>9, <1>10 DEF WorkerStep

(* No other step throws a service back.                                    *)
LEMMA OtherStepKeeps ==
  ASSUME IInv, Next, NEW w \in Workers, pc[w] # "idle", alive', ~ WorkerStep(w)
  PROVE  StepsLeft(w)' = StepsLeft(w)
<1>1. /\ DOMAIN pc = Workers /\ DOMAIN file_len = Workers
      /\ DOMAIN bytes_transferred = Workers
  BY DEF IInv, TypeInv, TypeOK
<1>2. /\ pc'[w] = pc[w] /\ file_len'[w] = file_len[w]
      /\ bytes_transferred'[w] = bytes_transferred[w]
  <2>1. ASSUME NEW v \in Workers, WorkerStep(v)
        PROVE  /\ pc'[w] = pc[w] /\ file_len'[w] = file_len[w]
               /\ bytes_transferred'[w] = bytes_transferred[w]
    <3>1. v # w
      BY <2>1
    <3>2. /\ \/ pc' = pc \/ \E x : pc' = [pc EXCEPT ![v] = x]
          /\ \/ file_len' = file_len \/ \E x : file_len' = [file_len EXCEPT ![v] = x]
          /\ \/ bytes_transferred' = bytes_transferred
             \/ \E x : bytes_transferred' = [bytes_transferred EXCEPT ![v] = x]
      BY <2>1
      DEF WorkerStep, Take, SendNotFound, SeekEnd, SendOK, PRead, NothingRead, Send, Killed,
          KilledBySigpipe, Abort, Finish, Return, Goto, locals
    <3> QED
      BY <1>1, <3>1, <3>2
  <2> QED
    BY <2>1 DEF Next, Queue, Leave, Resize, locals
<1> QED
  BY <1>2 DEF StepsLeft, Unsent

(* With a bound on what is left, a service cannot go on for ever, however  *)
(* files and clients change under it; that it also goes on is fairness.    *)
THEOREM ServicesShrink == SafeSpec => ServiceShrinks
<1>1. ASSUME IInv, [Next]_vars
      PROVE  [\A w \in Workers : pc[w] # "idle" /\ alive' =>
                 /\ StepsLeft(w)' <= StepsLeft(w)
                 /\ WorkerStep(w) => StepsLeft(w)' < StepsLeft(w)]_vars
  <2> SUFFICES ASSUME Next, NEW w \in Workers, pc[w] # "idle", alive'
               PROVE  /\ StepsLeft(w)' <= StepsLeft(w)
                      /\ WorkerStep(w) => StepsLeft(w)' < StepsLeft(w)
    BY <1>1
  <2>1. StepsLeft(w) \in Nat
    BY <1>1, StepsAreANumber
  <2>2. CASE WorkerStep(w)
    <3>1. StepsLeft(w)' < StepsLeft(w) /\ StepsLeft(w)' \in Nat
      BY <1>1, <2>2, OwnStepShrinks
    <3> QED
      BY <2>1, <3>1
  <2>3. CASE ~ WorkerStep(w)
    <3>1. StepsLeft(w)' = StepsLeft(w)
      BY <1>1, <2>3, OtherStepKeeps
    <3>2. StepsLeft(w)' <= StepsLeft(w)
      BY <2>1, <3>1
    <3> QED
      BY <2>3, <3>2
  <2> QED
    BY <2>2, <2>3
<1> QED
  BY <1>1, Invariance, PTL DEF SafeSpec, ServiceShrinks
==============================================================================
