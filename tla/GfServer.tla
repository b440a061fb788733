------------------------------ MODULE GfServer ------------------------------
(***************************************************************************)
(* The single-threaded server: gfserver_serve and get_request of           *)
(* pr1/gflib/gfserver.c with the handler of pr1/gflib/handler.c, which it  *)
(* calls in line, one connection after the other.                          *)
(*                                                                         *)
(* A request is a sequence of tokens; a token that is cut by TCP or by the *)
(* client is another token.  The request buffer is one for all             *)
(* connections and is cleared only when the server starts.                 *)
(***************************************************************************)
EXTENDS Integers, Sequences, Functions

CONSTANTS Clients,
          Stalled,     \* clients that may stop sending, or reading, for ever
          Texts,       \* what clients set out to send
          Paths,       \* the tokens that begin with '/'
          FileLen,     \* the keys of the content store, with their lengths
          BUFSIZ,      \* tokens the request buffer holds
          BUFFER_SIZE, \* bytes per pread
          Rude,        \* clients may leave without waiting for the answer
          NoClient

ASSUME KeysArePaths  == DOMAIN FileLen \subseteq Paths /\ FileLen \in [DOMAIN FileLen -> Nat]
ASSUME TextsAssumption == \A t \in Texts : t \in Seq(Range(t))
(* A request's three tokens fit: C demands 256 bytes of BUFSIZ at least.   *)
ASSUME SizesPositive == BUFSIZ \in Nat /\ BUFSIZ > 2 /\ BUFFER_SIZE \in Nat \ {0}
ASSUME ClientsAssumption == NoClient \notin Clients /\ Stalled \subseteq Clients
ASSUME RudeAssumption == Rude \in BOOLEAN

END == "\r\n\r\n"

VARIABLES
    backlog,    \* connections not yet accepted, in order
    text, pushed, link,   \* each client: its text, how much of it is sent,
                          \* and the state of its end of the connection
                          \* ("full": it no longer reads, and a send blocks)
    got,        \* tokens recv has taken from it
    pc, ctx,    \* where gfserver_serve is, and for which connection
    buffer, request_size,
    path, bytes_transferred,
    status, body,   \* what the client was sent
    aborted, closed,    \* connections gfs_abort, and the loop, closed
    process

clients == <<text, pushed>>
request == <<buffer, request_size>>
answer  == <<status, body>>
closing == <<aborted, closed>>
vars == <<backlog, clients, link, got, pc, ctx, request, path, bytes_transferred,
          answer, closing, process>>

TypeOK ==
    /\ backlog \in Seq(Clients)
    /\ text \in [Clients -> Texts]
    /\ pushed \in [Clients -> Nat]
    /\ got \in [Clients -> Nat]
    /\ \A c \in Clients : got[c] <= pushed[c] /\ pushed[c] <= Len(text[c])
    /\ link \in [Clients -> {"none", "open", "shut", "full", "gone", "reset"}]
    /\ pc \in {"setup", "accept", "recv", "parse", "notfound", "handler", "chunk",
               "abort", "close"}
    /\ ctx \in Clients \cup {NoClient}
    /\ Len(buffer) <= BUFSIZ /\ request_size \in 0 .. Len(buffer)
    /\ path \in Paths \cup {""}
    /\ bytes_transferred \in Nat
    /\ status \in [Clients -> {"none", "OK", "FILE_NOT_FOUND"}]
    /\ \A c \in Clients : body[c] \in Seq(Paths \X (Nat \ {0}))
    /\ aborted \subseteq Clients /\ closed \subseteq Clients
    /\ process \in {"running", "exited", "crashed"}

Init ==
    /\ backlog = <<>>
    /\ text \in [Clients -> Texts]
    /\ pushed = [c \in Clients |-> 0]
    /\ got = [c \in Clients |-> 0]
    /\ link = [c \in Clients |-> "none"]
    /\ pc = "setup" /\ ctx = NoClient
    /\ buffer = <<>> /\ request_size = 0
    /\ path = "" /\ bytes_transferred = 0
    /\ status = [c \in Clients |-> "none"]
    /\ body = [c \in Clients |-> <<>>]
    /\ aborted = {} /\ closed = {}
    /\ process = "running"

End(how) ==
    /\ process' = how
    /\ UNCHANGED <<backlog, clients, link, got, pc, ctx, request, path,
                   bytes_transferred, answer, closing>>

-----------------------------------------------------------------------------
(* The clients.                                                            *)
Connect(c) ==
    /\ pc # "setup"
    /\ link[c] = "none"
    /\ link' = [link EXCEPT ![c] = "open"]
    /\ backlog' = Append(backlog, c)
    /\ UNCHANGED <<clients, got, pc, ctx, request, path, bytes_transferred, answer,
                   closing, process>>

Push(c) ==
    /\ link[c] = "open"
    /\ pushed[c] < Len(text[c])
    /\ pushed' = [pushed EXCEPT ![c] = @ + 1]
    /\ UNCHANGED <<backlog, text, link, got, pc, ctx, request, path,
                   bytes_transferred, answer, closing, process>>

(* The client ends its half of the connection and waits for the answer.    *)
Shut(c) ==
    /\ link[c] = "open"
    /\ link' = [link EXCEPT ![c] = "shut"]
    /\ UNCHANGED <<backlog, clients, got, pc, ctx, request, path, bytes_transferred,
                   answer, closing, process>>

Leave(c) ==
    /\ Rude
    /\ link[c] \in {"open", "shut", "full"}
    /\ link' = [link EXCEPT ![c] = "gone"]
    /\ UNCHANGED <<backlog, clients, got, pc, ctx, request, path, bytes_transferred,
                   answer, closing, process>>

(* The client reads no more, and the server sits in send with full socket  *)
(* buffers until it leaves.                                                *)
StopReading(c) ==
    /\ c \in Stalled /\ c = ctx
    /\ pc = "chunk" /\ bytes_transferred < FileLen[path]
    /\ link[c] \in {"open", "shut"}
    /\ link' = [link EXCEPT ![c] = "full"]
    /\ UNCHANGED <<backlog, clients, got, pc, ctx, request, path, bytes_transferred,
                   answer, closing, process>>

-----------------------------------------------------------------------------
(* Setting up, and get_request.  socket (in gfserver_create), bind and     *)
(* listen may fail; no connection is made before listen has succeeded.     *)

Listen ==
    /\ pc = "setup"
    /\ pc' = "accept"
    /\ UNCHANGED <<backlog, clients, link, got, ctx, request, path,
                   bytes_transferred, answer, closing, process>>

SetupFails == pc = "setup" /\ End("exited")

Accept ==
    /\ pc = "accept" /\ backlog # <<>>
    /\ ctx' = Head(backlog)
    /\ backlog' = Tail(backlog)
    /\ request_size' = 0
    /\ pc' = "recv"
    /\ UNCHANGED <<clients, link, got, buffer, path, bytes_transferred, answer,
                   closing, process>>

AcceptFails == pc = "accept" /\ End("exited")

Smaller(a, b) == IF a < b THEN a ELSE b

(* Faulty variant: what was received goes behind what is in the buffer.    *)
BeforeOld == buffer

(* What this request has put in the buffer.                                *)
Before == SubSeq(buffer, 1, request_size)

(* Faulty variant: n is not cut down to what fits.                         *)
KeptAll(n) == n

Kept(n) == Smaller(n, BUFSIZ - request_size)

(* recv takes n tokens; those that do not fit are dropped.  The string in  *)
(* the buffer ends after the last one kept, or, when the buffer is full,   *)
(* one byte past it, which a build with checks does not survive.           *)
Recv ==
    /\ pc = "recv"
    /\ \E n \in 1 .. Smaller(BUFSIZ, pushed[ctx] - got[ctx]) :
       LET now == Before \o SubSeq(text[ctx], got[ctx] + 1, got[ctx] + Kept(n))
       IN  \/ /\ got' = [got EXCEPT ![ctx] = @ + n]
              /\ buffer' = now
              /\ request_size' = request_size + Kept(n)
              /\ pc' = IF END \in Range(now) THEN "parse" ELSE "recv"
              /\ UNCHANGED <<backlog, clients, link, ctx, path, bytes_transferred,
                             answer, closing, process>>
           \/ request_size + Kept(n) = BUFSIZ /\ End("crashed")

(* Faulty variant: the loop goes on when recv returns 0.                   *)
RecvEndOnError ==
    /\ pc = "recv"
    /\ got[ctx] = pushed[ctx]
    /\ link[ctx] = "gone"
    /\ pc' = "parse"
    /\ UNCHANGED <<backlog, clients, link, got, ctx, request, path,
                   bytes_transferred, answer, closing, process>>

(* recv returns 0 or -1: whatever the buffer holds is parsed.              *)
RecvEnd ==
    /\ pc = "recv"
    /\ got[ctx] = pushed[ctx]
    /\ link[ctx] \in {"shut", "gone"}
    /\ pc' = "parse"
    /\ UNCHANGED <<backlog, clients, link, got, ctx, request, path,
                   bytes_transferred, answer, closing, process>>

-----------------------------------------------------------------------------
(* gfserver_serve's parsing with strtok, which returns NULL when there is  *)
(* no further token; NULL goes into strcmp, or is dereferenced.            *)

IsRequest(t) ==
    Len(t) > 2 /\ t[1] = "GETFILE" /\ t[2] = "GET" /\ t[3] \in Paths

(* Before the terminator a blank makes the difference.                     *)
NullToken(t) ==
    t \in {<<>>, <<"GETFILE">>, <<"GETFILE", "GET">>, <<"GETFILE", "GET", END>>}

Parse ==
    /\ pc = "parse"
    /\ \/ NullToken(buffer) /\ End("crashed")
       \/ /\ ~ NullToken(buffer) \/ END \in Range(buffer)
          /\ pc' = IF IsRequest(buffer) THEN "handler" ELSE "notfound"
          /\ path' = IF IsRequest(buffer) THEN buffer[3] ELSE path
          /\ UNCHANGED <<backlog, clients, link, got, ctx, request,
                         bytes_transferred, answer, closing, process>>

-----------------------------------------------------------------------------
(* Sending, and the handler.  While the client does not read, a send       *)
(* blocks when the buffers are full; after it has left, a send is still    *)
(* buffered, fails, or raises SIGPIPE; after one has failed it raises      *)
(* SIGPIPE, for which no handler is installed.                             *)

SendSucceeds == link[ctx] \in {"open", "shut", "gone"} /\ UNCHANGED link
SendFails    == link[ctx] = "gone" /\ link' = [link EXCEPT ![ctx] = "reset"]
Sigpipe      == link[ctx] \in {"gone", "reset"} /\ End("crashed")

Header(st) == SendSucceeds /\ status' = [status EXCEPT ![ctx] = st]
NoHeader   == SendFails /\ UNCHANGED status

SendNotFound ==
    /\ pc = "notfound" \/ (pc = "handler" /\ path \notin DOMAIN FileLen)
    /\ \/ /\ Header("FILE_NOT_FOUND") \/ NoHeader
          /\ pc' = "close"
          /\ UNCHANGED <<backlog, clients, got, ctx, request, path,
                         bytes_transferred, body, closing, process>>
       \/ Sigpipe

SendOK ==
    /\ pc = "handler" /\ path \in DOMAIN FileLen
    /\ \/ /\ Header("OK") \/ NoHeader
          /\ bytes_transferred' = 0
          /\ pc' = "chunk"
          /\ UNCHANGED <<backlog, clients, got, ctx, request, path, body, closing,
                         process>>
       \/ Sigpipe

(* One pread and one gfs_send.                                             *)
SendChunk ==
    /\ pc = "chunk" /\ bytes_transferred < FileLen[path]
    /\ \/ /\ SendSucceeds
          /\ \E n \in 1 .. Smaller(BUFFER_SIZE, FileLen[path] - bytes_transferred) :
             /\ body' = [body EXCEPT ![ctx] =
                            @ \o [b \in 1 .. n |-> <<path, bytes_transferred + b>>]]
             /\ bytes_transferred' = bytes_transferred + n
          /\ UNCHANGED pc
       \/ SendFails /\ pc' = "abort" /\ UNCHANGED <<body, bytes_transferred>>
    /\ UNCHANGED <<backlog, clients, got, ctx, request, path, status, closing, process>>

ReadFails ==
    /\ pc = "chunk" /\ bytes_transferred < FileLen[path]
    /\ link[ctx] # "full"
    /\ pc' = "abort"
    /\ UNCHANGED <<backlog, clients, link, got, ctx, request, path,
                   bytes_transferred, answer, closing, process>>

ChunkKills == pc = "chunk" /\ bytes_transferred < FileLen[path] /\ Sigpipe

(* Faulty variant: a last, partial buffer is not sent.                     *)
AllSentNearly == bytes_transferred + BUFFER_SIZE > FileLen[path]

AllSent == bytes_transferred >= FileLen[path]

HandlerReturns ==
    /\ pc = "chunk" /\ AllSent
    /\ pc' = "close"
    /\ UNCHANGED <<backlog, clients, link, got, ctx, request, path,
                   bytes_transferred, answer, closing, process>>

(* gfs_abort closes the connection; gfserver_serve will close it again.    *)
Abort ==
    /\ pc = "abort"
    /\ aborted' = aborted \cup {ctx}
    /\ pc' = "close"
    /\ UNCHANGED <<backlog, clients, link, got, ctx, request, path,
                   bytes_transferred, answer, closed, process>>

Close ==
    /\ pc = "close"
    /\ closed' = closed \cup {ctx}
    /\ ctx' = NoClient
    /\ pc' = "accept"
    /\ UNCHANGED <<backlog, clients, link, got, request, path, bytes_transferred,
                   answer, aborted, process>>

ServerStep ==
    \/ Listen \/ Accept \/ Recv \/ RecvEnd \/ Parse
    \/ SendNotFound \/ SendOK \/ SendChunk \/ ReadFails \/ ChunkKills
    \/ HandlerReturns \/ Abort \/ Close

ClientStep(c) ==
    Connect(c) \/ Push(c) \/ Shut(c) \/ Leave(c) \/ StopReading(c)

Next ==
    /\ process = "running"
    /\ ServerStep \/ SetupFails \/ AcceptFails \/ \E c \in Clients : ClientStep(c)

SafeSpec == Init /\ [][Next]_vars

(* A client that does not stall sends all it set out to send, and ends its *)
(* half of the connection when that was not a request the server can see   *)
(* the end of.                                                             *)
Fits(c) == \E n \in 1 .. Smaller(BUFSIZ, Len(text[c])) : text[c][n] = END

Spec ==
    /\ SafeSpec
    /\ WF_vars(process = "running" /\ ServerStep)
    /\ \A c \in Clients \ Stalled :
          /\ WF_vars(process = "running" /\ Push(c))
          /\ WF_vars(process = "running" /\ Shut(c) /\ ~ Fits(c))

-----------------------------------------------------------------------------
(* What a client is sent answers what it asked itself, though the buffer   *)
(* still holds what earlier clients asked: content only for the path in    *)
(* its own text, in order; if it sent anything at all.                     *)
Answered(c) ==
    /\ status[c] = "OK" => IsRequest(text[c]) /\ text[c][3] \in DOMAIN FileLen
    /\ body[c] # <<>> => status[c] = "OK"
    /\ body[c] = [b \in 1 .. Len(body[c]) |-> <<text[c][3], b>>]

AnswersOwnRequest == \A c \in Clients : got[c] > 0 => Answered(c)

(* The server waits for more of a request only until its terminator came,  *)
(* in however many parts; but one that comes behind a full buffer is never *)
(* seen, and a client that then waits, waits for ever (gfserver.c l. 119-  *)
(* 135).                                                                   *)
StopsAtTerminator ==
    pc = "recv" =>
        \A n \in 1 .. Smaller(BUFSIZ, got[ctx]) : text[ctx][n] # END

(* The loop implements the service that the worker pool implements too,    *)
(* with the listen queue for its queue and itself for its one worker:      *)
(* every connection is taken up in order, once, and finished, unless its   *)
(* client stalls or the process ends.                                      *)
Service == INSTANCE RequestService
             WITH Workers <- {"gfserver_serve"}, Requests <- Clients,
                  NoRequest <- NoClient,
                  pending <- backlog, serving <- [w \in {"gfserver_serve"} |-> ctx],
                  done <- closed,
                  up <- process = "running"

ServiceSpec == Service!Spec

(* A client with a proper request that waits for the answer gets the whole *)
(* file, or is told that there is none, before its connection is closed;   *)
(* unless the file cannot be read.                                         *)
WholeAnswer ==
    \A c \in closed \ aborted :
        link[c] \in {"open", "shut"} /\ IsRequest(SubSeq(text[c], 1, got[c])) =>
            IF text[c][3] \in DOMAIN FileLen
            THEN status[c] = "OK" /\ Len(body[c]) = FileLen[text[c][3]]
            ELSE status[c] = "FILE_NOT_FOUND" /\ body[c] = <<>>
=============================================================================
