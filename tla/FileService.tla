----------------------------- MODULE FileService -----------------------------
(***************************************************************************)
(* What the multithreaded server does with a request: handler_get's item,  *)
(* execute_thread of pr1/mtgf/handler.c, content_get of content.c, and the *)
(* three calls of the prebuilt library pr1/mtgf/gfserver.o that it makes.  *)
(*                                                                         *)
(* content_init opens each file once, so all workers that serve a file     *)
(* share one descriptor and its offset.  A request is taken by one worker, *)
(* once: that is WorkerPool's promise, and Take stands for it.  Names are  *)
(* sequences of characters; a descriptor is the name of its file, and a    *)
(* byte of a file is its descriptor and position.                          *)
(***************************************************************************)
EXTENDS Integers, Sequences

CONSTANTS Workers, Requests,
          Names,         \* the names clients ask for
          Fildes,        \* the names in the content store
          Leftovers,     \* what malloc'ed memory may hold behind a name in it
          BUFFER_SIZE,   \* bytes per pread
          MaxSize,       \* bound: files are at most this long
          NoRequest

ASSUME NamesAssumption   == \A n \in Names : n \in Seq({n[i] : i \in DOMAIN n})
ASSUME LeftoversAssumption == \A s \in Leftovers : s \in Seq({s[i] : i \in DOMAIN s})
ASSUME SizesAssumption   == BUFFER_SIZE \in Nat \ {0} /\ MaxSize \in Nat
ASSUME NoRequestNotOne   == NoRequest \notin Requests

VARIABLES
    size,       \* the length of each file on disk
    offset,     \* the shared file offset of each descriptor
    pc, req,    \* each worker's place in execute_thread and its request
    file_len, bytes_transferred,   \* its locals
    chunk,      \* the bytes the last pread put in its buffer
    asked,      \* the name each client asks for
    path,       \* the string in the request's item
    stale,      \* history: requests whose item's memory held text already
    status, announced,   \* the header the client was sent
    body,       \* the bytes after it
    link,       \* the state of the connection
    ctx,        \* the library's gfcontext_t: "live" or "freed"
    sent,       \* ctx->bytes_transferred, counted by the library
    outcome,    \* how execute_thread ended for the request
    grown,      \* history: the file grew while the request was served
    alive       \* the process has not been killed

files   == <<size, offset>>
locals  == <<req, file_len, bytes_transferred, chunk>>
wire    == <<status, announced, body>>
library == <<link, ctx, sent>>
items   == <<asked, path, stale>>
vars == <<files, pc, locals, items, wire, library, outcome, grown, alive>>

Smaller(a, b) == IF a < b THEN a ELSE b

TypeOK ==
    /\ size \in [Fildes -> 0 .. MaxSize]
    /\ offset \in [Fildes -> 0 .. MaxSize]
    /\ pc \in [Workers -> {"idle", "notfound", "seek", "header", "loop",
                           "send", "abort"}]
    /\ req \in [Workers -> Requests \cup {NoRequest}]
    /\ file_len \in [Workers -> 0 .. MaxSize]
    /\ bytes_transferred \in [Workers -> 0 .. MaxSize]
    /\ \A w \in Workers : /\ chunk[w] \in Seq(Fildes \X (1 .. MaxSize))
                          /\ Len(chunk[w]) <= BUFFER_SIZE
    /\ stale \subseteq Requests
    /\ \A w \in Workers : pc[w] \notin {"idle", "notfound"} => path[req[w]] \in Fildes
    /\ status \in [Requests -> {"none", "OK", "FILE_NOT_FOUND"}]
    /\ announced \in [Requests -> 0 .. MaxSize]
    /\ \A r \in Requests : body[r] \in Seq(Fildes \X (1 .. MaxSize))
    /\ link \in [Requests -> {"open", "gone", "reset", "closed"}]
    /\ ctx \in [Requests -> {"live", "freed"}]
    /\ sent \in [Requests -> 0 .. MaxSize]
    /\ outcome \in [Requests -> {"none", "waiting", "busy", "sent",
                                 "failed", "notfound"}]
    /\ grown \in [Requests -> BOOLEAN]
    /\ alive \in BOOLEAN

Init ==
    /\ size \in [Fildes -> 0 .. MaxSize]
    /\ offset = [f \in Fildes |-> 0]
    /\ pc = [w \in Workers |-> "idle"]
    /\ req = [w \in Workers |-> NoRequest]
    /\ file_len = [w \in Workers |-> 0]
    /\ bytes_transferred = [w \in Workers |-> 0]
    /\ chunk = [w \in Workers |-> <<>>]
    /\ asked \in [Requests -> Names]
    /\ path = [r \in Requests |-> <<>>]
    /\ stale = {}
    /\ status = [r \in Requests |-> "none"]
    /\ announced = [r \in Requests |-> 0]
    /\ body = [r \in Requests |-> <<>>]
    /\ link = [r \in Requests |-> "open"]
    /\ ctx = [r \in Requests |-> "live"]
    /\ sent = [r \in Requests |-> 0]
    /\ outcome = [r \in Requests |-> "none"]
    /\ grown = [r \in Requests |-> FALSE]
    /\ alive = TRUE

Goto(w, place) == pc' = [pc EXCEPT ![w] = place]

(* execute_thread returns and worker_thread frees the item.                *)
Return(w, how) ==
    /\ Goto(w, "idle")
    /\ req' = [req EXCEPT ![w] = NoRequest]
    /\ outcome' = [outcome EXCEPT ![req[w]] = how]

-----------------------------------------------------------------------------
(* The library: pr1/mtgf/gfserver.o.  It writes until everything is out or *)
(* a write fails.  After the peer has left, a write may still be buffered, *)
(* fail, or raise SIGPIPE, which nobody handles; once one has failed every *)
(* later one raises SIGPIPE.                                               *)

Accepts(r) == link[r] \in {"open", "gone"}
Fails(r)   == link[r] = "gone"
Kills(r)   == link[r] \in {"gone", "reset"}

KilledBySigpipe ==
    /\ alive' = FALSE
    /\ UNCHANGED <<files, pc, locals, items, wire, library, outcome, grown>>

(* gfs_sendheader, when it can be sent.                                    *)
HeaderSent(r, st, len) ==
    /\ Accepts(r)
    /\ status' = [status EXCEPT ![r] = st]
    /\ announced' = [announced EXCEPT ![r] = len]
    /\ UNCHANGED <<body, link>>

HeaderFails(r) ==
    /\ Fails(r)
    /\ link' = [link EXCEPT ![r] = "reset"]
    /\ UNCHANGED wire

(* gfs_send: when the announced length is reached it waits for the client  *)
(* to finish reading, closes the connection and frees the context.         *)
DataSent(r, data, len) ==
    /\ Accepts(r)
    /\ body' = [body EXCEPT ![r] = @ \o data]
    /\ sent' = [sent EXCEPT ![r] = @ + Len(data)]
    /\ IF sent'[r] >= len
       THEN /\ link' = [link EXCEPT ![r] = "closed"]
            /\ ctx' = [ctx EXCEPT ![r] = "freed"]
       ELSE UNCHANGED <<link, ctx>>
    /\ UNCHANGED <<status, announced>>

DataFails(r, data) ==
    /\ Fails(r)
    /\ link' = [link EXCEPT ![r] = "reset"]
    /\ \E n \in 0 .. Len(data) - 1 : body' = [body EXCEPT ![r] = @ \o SubSeq(data, 1, n)]
    /\ UNCHANGED <<status, announced, ctx, sent>>

-----------------------------------------------------------------------------
(* The boss: handler_get *)

(* Faulty variant: the last character is not copied.                       *)
CopiedShort(name, rest) == SubSeq(name, 1, Len(name) - 1) \o rest

(* memcpy of strlen(path) bytes, without the terminator: the string goes   *)
(* on with what the memory holds behind them, up to its first zero.        *)
Copied(name, rest) == name \o rest

(* The item comes from malloc: its memory holds anything, be it of items   *)
(* freed before or of whatever else the process has freed.                 *)
Queue(r) ==
    /\ outcome[r] = "none"
    /\ \E rest \in Leftovers :
          /\ path' = [path EXCEPT ![r] = Copied(asked[r], rest)]
          /\ stale' = IF rest = <<>> THEN stale ELSE stale \cup {r}
    /\ outcome' = [outcome EXCEPT ![r] = "waiting"]
    /\ UNCHANGED <<files, pc, locals, asked, wire, library, grown, alive>>

-----------------------------------------------------------------------------
(* The worker's steps *)

Found(r) == path[r] \in Fildes

(* worker_thread got an item; content_get looks its path up and rewinds    *)
(* the shared descriptor.                                                  *)
Take(w, r) ==
    /\ pc[w] = "idle"
    /\ outcome[r] = "waiting"
    /\ req' = [req EXCEPT ![w] = r]
    /\ outcome' = [outcome EXCEPT ![r] = "busy"]
    /\ IF Found(r)
       THEN /\ Goto(w, "seek")
            /\ offset' = [offset EXCEPT ![path[r]] = 0]
       ELSE /\ Goto(w, "notfound")
            /\ UNCHANGED offset
    /\ UNCHANGED <<size, file_len, bytes_transferred, chunk, items, wire, library,
                   grown, alive>>

SendNotFound(w) ==
    /\ pc[w] = "notfound"
    /\ HeaderSent(req[w], "FILE_NOT_FOUND", 0) \/ HeaderFails(req[w])
    /\ Return(w, "notfound")
    /\ UNCHANGED <<files, file_len, bytes_transferred, chunk, items, ctx, sent, grown,
                   alive>>

(* lseek to the end, for the length; it leaves the shared offset there.    *)
SeekEnd(w) ==
    LET f == path[req[w]]
    IN  /\ pc[w] = "seek"
        /\ file_len' = [file_len EXCEPT ![w] = size[f]]
        /\ offset' = [offset EXCEPT ![f] = size[f]]
        /\ Goto(w, "header")
        /\ UNCHANGED <<size, req, bytes_transferred, chunk, items, wire, library,
                       outcome, grown, alive>>

(* The result of gfs_sendheader is not looked at.                          *)
SendOK(w) ==
    /\ pc[w] = "header"
    /\ HeaderSent(req[w], "OK", file_len[w]) \/ HeaderFails(req[w])
    /\ bytes_transferred' = [bytes_transferred EXCEPT ![w] = 0]
    /\ Goto(w, "loop")
    /\ UNCHANGED <<files, req, file_len, chunk, items, ctx, sent, outcome, grown,
                   alive>>

(* Faulty variant: the shared offset.                                      *)
AtOffset(w) == offset[path[req[w]]]

(* Where a worker reads: its own position.                                 *)
At(w) == bytes_transferred[w]

(* Faulty variant: a read that returns nothing is taken for the end.       *)
NothingReadIsEnd(w) == Return(w, "sent")

(* Faulty variant: a read that fails is tried again.                       *)
NothingReadRetried(w) == UNCHANGED <<pc, req, outcome>>

NothingRead(w) == Goto(w, "abort") /\ UNCHANGED <<req, outcome>>

(* Faulty variant: a read of no byte is sent like any other ("< 0" for     *)
(* "<= 0").                                                                *)
CountsWithZero(w) == 0 .. Smaller(BUFFER_SIZE, size[path[req[w]]] - At(w))

Counts(w) == 1 .. Smaller(BUFFER_SIZE, size[path[req[w]]] - At(w))

(* pread: some bytes, or none at or past the end of the file or after an   *)
(* error.                                                                  *)
PRead(w) ==
    LET f == path[req[w]]
    IN  /\ pc[w] = "loop"
        /\ bytes_transferred[w] < file_len[w]
        /\ \/ \E n \in Counts(w) :
                 /\ chunk' = [chunk EXCEPT ![w] = [i \in 1 .. n |-> <<f, At(w) + i>>]]
                 /\ Goto(w, "send") /\ UNCHANGED <<req, outcome>>
           \/ NothingRead(w) /\ UNCHANGED chunk
        /\ UNCHANGED <<files, file_len, bytes_transferred, items, wire, library, grown,
                       alive>>

(* A chunk that is not sent whole is the end of the service.               *)
Send(w) ==
    LET r == req[w]
    IN  /\ pc[w] = "send"
        /\ \/ /\ DataSent(r, chunk[w], announced[r])
              /\ bytes_transferred' = [bytes_transferred EXCEPT ![w] = @ + Len(chunk[w])]
              /\ Goto(w, "loop")
           \/ /\ DataFails(r, chunk[w])
              /\ Goto(w, "abort")
              /\ UNCHANGED bytes_transferred
        /\ chunk' = [chunk EXCEPT ![w] = <<>>]
        /\ UNCHANGED <<files, req, file_len, items, outcome, grown, alive>>

Killed(w) ==
    /\ pc[w] \in {"notfound", "header", "send"}
    /\ Kills(req[w])
    /\ KilledBySigpipe

(* gfs_abort closes the connection; the context is not freed.              *)
Abort(w) ==
    /\ pc[w] = "abort"
    /\ link' = [link EXCEPT ![req[w]] = "closed"]
    /\ Return(w, "failed")
    /\ UNCHANGED <<files, file_len, bytes_transferred, chunk, items, wire, ctx, sent, grown,
                   alive>>

(* Faulty variant: "<=" in the loop's test.                                *)
FinishPastEnd(w) ==
    /\ pc[w] = "loop"
    /\ bytes_transferred[w] >= file_len[w]
    /\ Goto(w, "abort")
    /\ UNCHANGED <<files, locals, items, wire, library, outcome, grown, alive>>

Finish(w) ==
    /\ pc[w] = "loop"
    /\ bytes_transferred[w] >= file_len[w]
    /\ Return(w, "sent")
    /\ UNCHANGED <<files, file_len, bytes_transferred, chunk, items, wire, library, grown,
                   alive>>

-----------------------------------------------------------------------------
(* The environment: a client leaves; a file changes length on disk.        *)
Leave(r) ==
    /\ link[r] = "open"
    /\ link' = [link EXCEPT ![r] = "gone"]
    /\ UNCHANGED <<files, pc, locals, items, wire, ctx, sent, outcome, grown, alive>>

Resize(f, n) ==
    /\ size' = [size EXCEPT ![f] = n]
    /\ grown' = [r \in Requests |->
                    grown[r] \/ (outcome[r] = "busy" /\ path[r] = f /\ n > size[f])]
    /\ UNCHANGED <<offset, pc, locals, items, wire, library, outcome, alive>>

WorkerStep(w) ==
    \/ \E r \in Requests : Take(w, r)
    \/ SendNotFound(w)
    \/ SeekEnd(w)
    \/ SendOK(w)
    \/ PRead(w)
    \/ Send(w)
    \/ Killed(w)
    \/ Abort(w)
    \/ Finish(w)

Next ==
    /\ alive
    /\ \/ \E w \in Workers : WorkerStep(w)
       \/ \E r \in Requests : Queue(r) \/ Leave(r)
       \/ \E f \in Fildes, n \in 0 .. MaxSize : Resize(f, n)

SafeSpec == Init /\ [][Next]_vars

(* Workers run; a send returns because the client reads or leaves.         *)
Spec == SafeSpec /\ \A w \in Workers : WF_vars(alive /\ WorkerStep(w))

-----------------------------------------------------------------------------
(* Each client is sent the bytes of the file it asked for, in order and    *)
(* without a gap, whatever the other workers do to the shared descriptor.  *)
BodyIsFilePrefix ==
    \A r \in Requests :
        body[r] = [i \in 1 .. Len(body[r]) |-> <<path[r], i>>]

(* A client that is answered OK is sent a stored file, one file only,     *)
(* whose name begins with the one it asked for.  It is answered for        *)
(* exactly its own name, OK with that file's bytes or FILE_NOT_FOUND for   *)
(* one that is not stored, unless the memory its item was given held text  *)
(* behind the name (handler.c l. 136-139), whatever other workers do.      *)
Begins(f, name) == Len(name) <= Len(f) /\ \A i \in 1 .. Len(name) : f[i] = name[i]
SentOf(r, f)    == f \in Fildes /\ \A i \in 1 .. Len(body[r]) : body[r][i][1] = f

OwnNameFirst ==
    \A r \in Requests :
        /\ status[r] = "OK" => \E f \in Fildes : Begins(f, asked[r]) /\ SentOf(r, f)
        /\ r \notin stale =>
              /\ status[r] = "OK" => SentOf(r, asked[r])
              /\ status[r] = "FILE_NOT_FOUND" => asked[r] \notin Fildes

(* A service that ends well has sent what its header announced, and no     *)
(* service sends more, unless the file grew after its length was taken;    *)
(* then less than one buffer more is sent.                                 *)
AnnouncedLengthKept ==
    \A r \in Requests :
        /\ (outcome[r] = "sent" /\ status[r] = "OK") => Len(body[r]) >= announced[r]
        /\ Len(body[r]) > announced[r] =>
              grown[r] /\ Len(body[r]) < announced[r] + BUFFER_SIZE

(* The library frees the context inside the gfs_send that reaches the      *)
(* announced length, by its own count: execute_thread, by its count, makes *)
(* no further call, neither gfs_send nor gfs_abort.                        *)
NoUseAfterFree ==
    \A w \in Workers :
        pc[w] \in {"notfound", "header", "send", "abort"} =>
            ctx[req[w]] = "live" /\ link[req[w]] # "closed"

(* What is left of a service, in steps at most.                            *)
Unsent(w) == IF bytes_transferred[w] < file_len[w] THEN file_len[w] - bytes_transferred[w] ELSE 0
StepsLeft(w) ==
    CASE pc[w] = "idle"   -> 0
      [] pc[w] \in {"notfound", "abort"} -> 1
      [] pc[w] = "loop"   -> 2 * Unsent(w) + 2
      [] pc[w] = "send"   -> 2 * Unsent(w) + 1
      [] pc[w] = "header" -> 2 * file_len[w] + 3
      [] pc[w] = "seek"   -> 2 * MaxSize + 4

(* However files shrink and grow under it and whatever the other workers   *)
(* do to its descriptor, a service comes closer to its end with each step  *)
(* of its worker and is never thrown back (handler.c l. 62-95).            *)
ServiceShrinks ==
    [][\A w \in Workers : pc[w] # "idle" /\ alive' =>
          /\ StepsLeft(w)' <= StepsLeft(w)
          /\ WorkerStep(w) => StepsLeft(w)' < StepsLeft(w)]_vars

(* Every request a worker takes comes to an end, and a failed one has its  *)
(* connection closed, unless the process is killed.                        *)
EveryServiceEnds ==
    \A r \in Requests :
        (outcome[r] = "busy") ~>
            \/ outcome[r] \in {"sent", "notfound"}
            \/ outcome[r] = "failed" /\ link[r] = "closed"
            \/ ~ alive
=============================================================================
