-------------------------------- MODULE Proxy --------------------------------
(***************************************************************************)
(* The proxy of pr3: webproxy.c starts the worker threads of the prebuilt  *)
(* library gfserver.o, and each answers requests with one of the handlers  *)
(* handle_with_curl, handle_with_file and handle_with_cache.               *)
(*                                                                         *)
(* The workers share the process's descriptors.  A reply is a header and   *)
(* what follows it: the bytes 1, 2, ... of the file, 0 for a byte the      *)
(* library fills in, ErrText for the text of an error header sent late.    *)
(***************************************************************************)
EXTENDS Integers, Sequences, FiniteSets

CONSTANTS nworkerthreads, Requests,
          MaxSize,      \* bound: files are at most this long
          BUFFER_SIZE,  \* bytes per read
          OPEN_MAX,     \* descriptors left when the server listens
          NoRequest

ASSUME ThreadsAssumption == nworkerthreads \in Nat
ASSUME SizesAssumption   == MaxSize \in Nat /\ BUFFER_SIZE \in Nat \ {0}
ASSUME LimitAssumption   == OPEN_MAX \in Nat
ASSUME NoRequestNotOne   == NoRequest \notin Requests

Workers  == 1 .. nworkerthreads
Absent   == -1
ErrText  == -1
NoHeader == [st |-> "none", len |-> 0]

VARIABLES
    worker_func, nargs, serving,  \* main: the handler, the workers it was set for
    size,               \* the length of the file each request names, as opened
    conn, client,       \* the two ends of each connection
    header, body,       \* what was sent on it
    pc, req,            \* each worker's place and request
    len, pos,           \* its response.size or file_len; its bytes_transferred
    null,               \* response.memory is NULL after a failed realloc
    holds,              \* it has a file or a transfer open
    owed,               \* the library's file_len - bytes_transferred
    lost,               \* descriptors nobody will close
    why,                \* history: what went wrong with each request
    alive

main  == <<worker_func, nargs, serving>>
wire  == <<header, body, owed>>
local == <<len, pos, null>>
env   == <<main, size, conn, client, alive>>
desc  == <<holds, lost>>
vars  == <<main, size, conn, client, wire, pc, req, local, holds, lost, why, alive>>

Smaller(a, b) == IF a < b THEN a ELSE b

Init ==
    /\ worker_func \in {"curl", "file", "cache"} /\ nargs = 0 /\ serving = FALSE
    /\ size \in [Requests -> {Absent} \cup (0 .. MaxSize)]
    /\ conn = [r \in Requests |-> "none"] /\ client = [r \in Requests |-> "waiting"]
    /\ header = [r \in Requests |-> NoHeader] /\ body = [r \in Requests |-> <<>>]
    /\ pc = [w \in Workers |-> "idle"] /\ req = [w \in Workers |-> NoRequest]
    /\ len = [w \in Workers |-> 0] /\ pos = [w \in Workers |-> 0]
    /\ null = [w \in Workers |-> FALSE] /\ holds = [w \in Workers |-> FALSE]
    /\ owed = [w \in Workers |-> 0]
    /\ lost = 0 /\ why = [r \in Requests |-> {}] /\ alive = TRUE

InUse == lost + Cardinality({w \in Workers : holds[w]})
              + Cardinality({r \in Requests : conn[r] \in {"queued", "busy"}})

Goto(w, place)   == pc' = [pc EXCEPT ![w] = place]
Blame(w, reason) == why' = [why EXCEPT ![req[w]] = @ \cup {reason}]

-----------------------------------------------------------------------------
(* main of webproxy.c: a handler, an argument for each worker, the loop.   *)
SetWorkerArg ==
    /\ ~ serving /\ nargs < nworkerthreads
    /\ nargs' = nargs + 1
    /\ UNCHANGED <<worker_func, serving, size, conn, client, wire, pc, req, local, desc, why, alive>>

Serve ==
    /\ ~ serving /\ nargs = nworkerthreads
    /\ serving' = TRUE
    /\ UNCHANGED <<worker_func, nargs, size, conn, client, wire, pc, req, local, desc, why, alive>>

(* _sig_handler: a signal ends the process.                                *)
Signal ==
    /\ alive' = FALSE
    /\ UNCHANGED <<main, size, conn, client, wire, pc, req, local, desc, why>>

-----------------------------------------------------------------------------
(* The library, gfserver.o.                                                *)

(* accept needs a descriptor; without one it is tried again later.         *)
Accept(r) ==
    /\ serving /\ conn[r] = "none" /\ InUse < OPEN_MAX
    /\ conn' = [conn EXCEPT ![r] = "queued"]
    /\ UNCHANGED <<main, size, client, wire, pc, req, local, desc, why, alive>>

(* A worker pops a request, reads it and calls the handler.                *)
Call(w, r) ==
    /\ pc[w] = "idle" /\ conn[r] = "queued"
    /\ conn' = [conn EXCEPT ![r] = "busy"]
    /\ req' = [req EXCEPT ![w] = r]
    /\ len' = [len EXCEPT ![w] = 0] /\ pos' = [pos EXCEPT ![w] = 0]
    /\ null' = [null EXCEPT ![w] = FALSE]
    /\ Goto(w, IF worker_func = "curl" THEN "init" ELSE "open")
    /\ UNCHANGED <<main, size, client, wire, desc, why, alive>>

(* A header; a second one lands among the bytes that follow the first.     *)
Header(w, st, n) ==
    /\ IF header[req[w]] = NoHeader
       THEN header' = [header EXCEPT ![req[w]] = [st |-> st, len |-> n]] /\ UNCHANGED body
       ELSE body' = [body EXCEPT ![req[w]] = Append(@, ErrText)] /\ UNCHANGED header
    /\ owed' = [owed EXCEPT ![w] = n]

Data(w, bytes) ==
    /\ body' = [body EXCEPT ![req[w]] = @ \o bytes]
    /\ owed' = [owed EXCEPT ![w] = @ - Len(bytes)]
    /\ UNCHANGED header

(* A client that left: what is written may vanish, fail, or raise SIGPIPE. *)
Gone(w) == client[req[w]] = "gone"

Killed(w) ==
    /\ pc[w] \in {"connect", "fetch", "open", "header", "send", "error"} /\ Gone(w)
    /\ Signal

(* A negative result of the handler makes the library send an error.       *)
SendError(w) ==
    /\ pc[w] = "error"
    /\ Header(w, "ERROR", 0)
    /\ Goto(w, "close")
    /\ UNCHANGED <<env, req, local, desc, why>>

(* _close fills with zeros what the handler did not send, nothing if it    *)
(* sent too much, waits until the client has closed its end, and closes    *)
(* the connection.                                                         *)
Fill(w) ==
    /\ pc[w] = "close"
    /\ Data(w, [i \in 1 .. owed[w] |-> 0])
    /\ Goto(w, "drain")
    /\ UNCHANGED <<env, req, local, desc, why>>

Close(w) ==
    /\ pc[w] = "drain" /\ client[req[w]] # "waiting"
    /\ conn' = [conn EXCEPT ![req[w]] = "closed"]
    /\ req' = [req EXCEPT ![w] = NoRequest]
    /\ Goto(w, "idle")
    /\ UNCHANGED <<main, size, client, wire, local, desc, why, alive>>

-----------------------------------------------------------------------------
(* The handlers *)

(* The handler returns with its file or transfer still open, or having     *)
(* closed it.                                                              *)
Return(w, place, leaves) ==
    /\ Goto(w, place)
    /\ holds' = [holds EXCEPT ![w] = FALSE]
    /\ lost' = IF holds[w] /\ leaves THEN lost + 1 ELSE lost

(* curl_easy_init fails: 0 is returned and nothing was sent.               *)
CurlInit(w) ==
    /\ pc[w] = "init"
    /\ \/ Goto(w, "connect") /\ UNCHANGED why
       \/ Goto(w, "close") /\ Blame(w, "mute")
    /\ UNCHANGED <<env, wire, req, local, desc>>

(* gfs_sendheader's result is the handler's: a failure makes it an error.  *)
NotFoundSent(w) == {"close"} \cup IF Gone(w) THEN {"error"} ELSE {}

(* A status other than 200 is answered with FILE_NOT_FOUND; the handle is  *)
(* not cleaned up, and the connection it keeps may stay open.              *)
NotOK(w) ==
    /\ Header(w, "FILE_NOT_FOUND", 0)
    /\ \E leaves \in BOOLEAN, place \in NotFoundSent(w) : Return(w, place, leaves)
    /\ UNCHANGED <<env, req, local>>

(* No descriptor or no server: the status stays 0.                         *)
Unreachable(w) ==
    /\ pc[w] = "connect"
    /\ NotOK(w) /\ Blame(w, IF InUse >= OPEN_MAX THEN "full" ELSE "fetch")

Connect(w) ==
    /\ pc[w] = "connect" /\ InUse < OPEN_MAX
    /\ holds' = [holds EXCEPT ![w] = TRUE]
    /\ Goto(w, "fetch")
    /\ UNCHANGED <<env, wire, req, local, lost, why>>

(* write_memory_callback: the response grows, or realloc fails, which ends *)
(* the transfer and forgets the memory but not the size.                   *)
WriteMemory(w) ==
    /\ pc[w] = "fetch" /\ len[w] < size[req[w]]
    /\ \/ /\ \E n \in 1 .. size[req[w]] - len[w] : len' = [len EXCEPT ![w] = @ + n]
          /\ UNCHANGED <<null, pc, why>>
       \/ /\ null' = [null EXCEPT ![w] = TRUE]
          /\ Goto(w, "header") /\ Blame(w, "fetch")
          /\ UNCHANGED len
    /\ UNCHANGED <<env, wire, req, pos, desc>>

(* Faulty variant: the status is not looked at.                            *)
PerformedAnyStatus(w) ==
    /\ pc[w] = "fetch"
    /\ Goto(w, "header")
    /\ UNCHANGED <<env, wire, req, local, desc, why>>

(* curl_easy_perform returns.  Its error is only logged: what counts is    *)
(* the status, which has come before the first byte; that of a file which  *)
(* is there may be another than 200 too.                                   *)
Performed(w) ==
    /\ pc[w] = "fetch"
    /\ \/ /\ NotOK(w)
          /\ IF size[req[w]] = Absent THEN UNCHANGED why ELSE Blame(w, "status")
       \/ /\ size[req[w]] # Absent
          /\ IF len[w] = size[req[w]] THEN UNCHANGED why ELSE Blame(w, "fetch")
          /\ Goto(w, "header")
          /\ UNCHANGED <<env, wire, req, local, desc>>

(* open and lseek of the file handlers: a missing file is told apart from  *)
(* every other failure, such as no descriptor or no permission.            *)
OpenFile(w) ==
    /\ pc[w] = "open"
    /\ \/ /\ Goto(w, "error") /\ Blame(w, IF InUse < OPEN_MAX THEN "denied" ELSE "full")
          /\ UNCHANGED <<wire, len, holds>>
       \/ /\ InUse < OPEN_MAX /\ size[req[w]] = Absent
          /\ Header(w, "FILE_NOT_FOUND", 0)
          /\ \E place \in NotFoundSent(w) : Goto(w, place)
          /\ UNCHANGED <<len, holds, why>>
       \/ /\ InUse < OPEN_MAX /\ size[req[w]] # Absent
          /\ len' = [len EXCEPT ![w] = size[req[w]]]
          /\ holds' = [holds EXCEPT ![w] = TRUE]
          /\ Goto(w, "header") /\ UNCHANGED <<wire, why>>
    /\ UNCHANGED <<env, req, pos, null, lost>>

(* Faulty variant: no header.                                              *)
SendOKForgotten(w) ==
    /\ pc[w] = "header"
    /\ Goto(w, "send")
    /\ UNCHANGED <<env, wire, req, local, desc, why>>

(* gfs_sendheader; its result is not looked at.                            *)
SendOK(w) ==
    /\ pc[w] = "header"
    /\ Header(w, "OK", len[w])
    /\ Goto(w, "send")
    /\ UNCHANGED <<env, req, local, desc, why>>

(* Both loops give up when a read or a send falls short; nothing is        *)
(* cleaned up then.                                                        *)
GiveUp(w) ==
    /\ Blame(w, "quit")
    /\ \E leaves \in IF worker_func = "curl" THEN BOOLEAN ELSE {TRUE} :
           Return(w, "error", leaves)
    /\ UNCHANGED <<wire, pos>>

Chunk(w, n) ==
    /\ Data(w, [i \in 1 .. n |-> pos[w] + i])
    /\ pos' = [pos EXCEPT ![w] = @ + n]
    /\ UNCHANGED <<pc, desc>>

(* handle_with_curl's loop sends the whole response with one call; memory  *)
(* that is NULL cannot be sent.                                            *)
SendResponse(w) ==
    /\ worker_func = "curl" /\ pc[w] = "send" /\ pos[w] < len[w]
    /\ \/ ~ null[w] /\ Chunk(w, len[w]) /\ UNCHANGED why
       \/ (null[w] \/ Gone(w)) /\ GiveUp(w)
    /\ UNCHANGED <<env, req, len, null>>

(* A read is as long as the buffer, whatever is left of file_len: of a     *)
(* file that has grown since, it brings more.                              *)
ReadAndSend(w) ==
    /\ worker_func # "curl" /\ pc[w] = "send" /\ pos[w] < len[w]
    /\ \/ \E n \in 1 .. Smaller(BUFFER_SIZE, MaxSize - pos[w]) :
             /\ Chunk(w, n)
             /\ IF pos[w] + n > len[w] THEN Blame(w, "grown") ELSE UNCHANGED why
       \/ GiveUp(w)
    /\ UNCHANGED <<env, req, len, null>>

(* Faulty variant: curl's handle is kept.                                  *)
FinishKeeps(w) ==
    /\ pc[w] = "send" /\ pos[w] >= len[w]
    /\ Return(w, "close", TRUE)
    /\ UNCHANGED <<env, wire, req, local, why>>

(* curl's handle and memory are given back; a file is never closed.        *)
Finish(w) ==
    /\ pc[w] = "send" /\ pos[w] >= len[w]
    /\ Return(w, "close", worker_func # "curl")
    /\ UNCHANGED <<env, wire, req, local, why>>

-----------------------------------------------------------------------------
(* A client closes when it has all that the header promised, or leaves.    *)
HasAll(r) == header[r].st # "none"
             /\ (header[r].st = "OK" => Len(body[r]) >= header[r].len)

ClientCloses(r) ==
    /\ conn[r] = "busy" /\ client[r] = "waiting" /\ HasAll(r)
    /\ client' = [client EXCEPT ![r] = "done"]
    /\ UNCHANGED <<main, size, conn, wire, pc, req, local, desc, why, alive>>

Leave(r) ==
    /\ conn[r] = "busy" /\ client[r] = "waiting"
    /\ client' = [client EXCEPT ![r] = "gone"]
    /\ UNCHANGED <<main, size, conn, wire, pc, req, local, desc, why, alive>>

HandleWithCurl(w) ==
    \/ CurlInit(w) \/ Unreachable(w) \/ Connect(w) \/ WriteMemory(w) \/ Performed(w)
    \/ worker_func = "curl" /\ (SendOK(w) \/ Finish(w))
    \/ SendResponse(w)

HandleWithFile(w) ==
    \/ OpenFile(w) \/ ReadAndSend(w)
    \/ worker_func = "file" /\ (SendOK(w) \/ Finish(w))

(* The same text under another name.                                       *)
HandleWithCache(w) ==
    worker_func = "cache" /\ (OpenFile(w) \/ SendOK(w) \/ ReadAndSend(w) \/ Finish(w))

WorkerStep(w) ==
    \/ HandleWithCurl(w) \/ HandleWithFile(w) \/ HandleWithCache(w)
    \/ SendError(w) \/ Fill(w) \/ Close(w)
    \/ \E r \in Requests : Call(w, r)

Next ==
    /\ alive
    /\ \/ SetWorkerArg \/ Serve \/ Signal
       \/ \E w \in Workers : WorkerStep(w) \/ Killed(w)
       \/ \E r \in Requests : Accept(r) \/ ClientCloses(r) \/ Leave(r)

SafeSpec == Init /\ [][Next]_vars

(* Threads run, and a client that has everything closes its end.           *)
Spec ==
    /\ SafeSpec
    /\ \A w \in Workers : WF_vars(alive /\ WorkerStep(w))
    /\ \A r \in Requests : WF_vars(alive /\ ClientCloses(r))

-----------------------------------------------------------------------------
(* What a client that received all it was promised was told and sent.  OK  *)
(* is said of a file that is there, with its length, or less if curl's     *)
(* transfer broke off; FILE_NOT_FOUND of one that is there only behind     *)
(* curl, when it got no status 200; ERROR only if the file could not be    *)
(* opened.  What follows the header is the file from its start, as long as *)
(* announced, or longer by less than a buffer if the file grew meanwhile,  *)
(* unless the handler gave up behind the header.                           *)
ClientHasTheFile ==
    \A r \in Requests : client[r] = "done" =>
        LET st == header[r].st
            n  == header[r].len
        IN  /\ \/ /\ st = "OK" /\ size[r] # Absent
                  /\ n = size[r] \/ (n < size[r] /\ worker_func = "curl" /\ "fetch" \in why[r])
               \/ /\ st = "FILE_NOT_FOUND" /\ n = 0
                  /\ \/ size[r] = Absent
                     \/ worker_func = "curl" /\ why[r] \cap {"full", "fetch", "status"} # {}
               \/ st = "ERROR" /\ n = 0 /\ why[r] \cap {"full", "denied"} # {}
            /\ "quit" \notin why[r] =>
                  /\ body[r] = [i \in 1 .. Len(body[r]) |-> i]
                  /\ \/ Len(body[r]) = n
                     \/ "grown" \in why[r] /\ Len(body[r]) \in n + 1 .. n + BUFFER_SIZE - 1

(* What is lost for good: a descriptor for each file a handler opened, and *)
(* with curl at most one for each request that was not sent on whole.      *)
OpenedFile(r) == size[r] # Absent /\ why[r] \cap {"full", "denied"} = {}
LostIsAccountedFor ==
    LET Over == {r \in Requests : conn[r] = "closed"}
        Busy == {r \in Requests : conn[r] = "busy"}
    IN  IF worker_func = "curl"
        THEN lost <= Cardinality({r \in Over \cup Busy : size[r] = Absent \/ why[r] # {}})
        ELSE /\ lost >= Cardinality({r \in Over : OpenedFile(r)})
             /\ lost <= Cardinality({r \in Over \cup Busy : OpenedFile(r)})

(* Library and client wait for one another only if the handler returned    *)
(* without a header or gave up behind one: else a client that is drained   *)
(* has all that it waits for.                                              *)
NoMutualWait ==
    \A w \in Workers :
        /\ pc[w] = "drain" /\ client[req[w]] = "waiting"
        /\ why[req[w]] \cap {"mute", "quit"} = {}
        => HasAll(req[w])

(* The library waits for the client to close and the client for what it    *)
(* was promised: both wait for ever only if a handler gave up behind an OK *)
(* header, or returned without having sent one.                            *)
EveryRequestEnds ==
    \A r \in Requests :
        conn[r] = "busy" ~> \/ conn[r] = "closed" \/ ~ alive
                            \/ why[r] \cap {"mute", "quit"} # {}
=============================================================================
