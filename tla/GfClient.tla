------------------------------ MODULE GfClient ------------------------------
(***************************************************************************)
(* A single-threaded download client: main of                              *)
(* pr1/gflib/gfclient_download.c, which makes nrequests requests one after *)
(* the other with the library pr1/gflib/gfclient.c, against a server that  *)
(* may answer anything and stop anywhere.                                  *)
(*                                                                         *)
(* The reply is a stream: a header, told apart only into whole and cut,    *)
(* then body bytes 1, 2, ...  recv returns any part of what has arrived.   *)
(* The local file is the sequence of the bytes written to it; 0 is a byte  *)
(* that was never received.                                                *)
(***************************************************************************)
EXTENDS Integers, Sequences

CONSTANTS nrequests,     \* -n
          MaxLen,        \* bound: files on the server are at most this long
          BUFFER_SIZE,   \* what one recv may return; a header counts as one
          INT_MAX,       \* int is -INT_MAX - 1 .. INT_MAX
          SIZE_MAX,      \* size_t is 0 .. SIZE_MAX
          Faults         \* what may go wrong beside a close of the connection

FaultKinds == {"no socket", "refused", "send fails", "split", "reset", "malformed",
               "extra byte"}

ASSUME CountsAssumption == nrequests \in Nat /\ MaxLen \in Nat
ASSUME BufferAssumption == BUFFER_SIZE \in Nat /\ BUFFER_SIZE > 1
(* A length beyond int that comes out negative is larger than any file.    *)
ASSUME SizeAssumption   ==
    {INT_MAX, SIZE_MAX} \subseteq Nat /\ SIZE_MAX > MaxLen + INT_MAX + 1
ASSUME FaultsAssumption == Faults \subseteq FaultKinds

Valid == {"OK", "FILE_NOT_FOUND", "ERROR"}

VARIABLES
    i, pc,        \* the driver's request number; where the program is
    status, filelen, bytesrecv, response, sockfd,   \* the gfcrequest_t
    returncode,   \* of gfc_perform
    file, exists, \* the local file and whether it is in the directory
    stale,        \* the stack holds an earlier reply
    reply, hdr,   \* what the server answers, and how far its header got
    sent, read,   \* body bytes the server sent, and recv returned
    peer,         \* the server's end of the connection
    failed,       \* recv has returned -1 on this connection
    process

gfr    == <<status, filelen, bytesrecv, response, sockfd>>
local  == <<file, exists>>
server == <<reply, sent, peer>>
stream == <<hdr, read, failed>>
vars   == <<i, pc, gfr, returncode, local, stale, server, stream, process>>

NoReply == [st |-> "none", len |-> 0]

(* Replies other than OK name no length.                                   *)
Replies == [st : {"OK"}, len : 0 .. MaxLen]
           \cup [st : {"FILE_NOT_FOUND", "ERROR", "INVALID"}, len : {0}]
           \cup IF "malformed" \in Faults THEN [st : {"MALFORMED"}, len : {0}] ELSE {}

Init ==
    /\ i = 0 /\ pc = "next"
    /\ status = "INVALID" /\ filelen = 0 /\ bytesrecv = 0
    /\ response = "null" /\ sockfd = "closed"
    /\ returncode = "none"
    /\ file = <<>> /\ exists = FALSE
    /\ stale = FALSE
    /\ reply = NoReply /\ hdr = "unsent" /\ sent = 0 /\ read = 0
    /\ peer = "none" /\ failed = FALSE
    /\ process = "running"

Crash ==
    /\ process' = "crashed"
    /\ UNCHANGED <<i, pc, gfr, returncode, local, stale, server, stream>>

-----------------------------------------------------------------------------
(* gfc_create leaves sockfd and response as malloc found them.             *)
Create ==
    /\ status' = "INVALID" /\ filelen' = 0 /\ bytesrecv' = 0
    /\ response' \in {"null", "wild"}
    /\ sockfd' = "wild"

(* The driver opens a new local file and creates the request.              *)
Begin ==
    /\ pc = "next" /\ i < nrequests
    /\ i' = i + 1
    /\ file' = <<>> /\ exists' = TRUE
    /\ Create
    /\ returncode' = "none"
    /\ reply' = NoReply /\ hdr' = "unsent" /\ sent' = 0 /\ read' = 0
    /\ peer' = "none" /\ failed' = FALSE
    /\ pc' = "socket"
    /\ UNCHANGED <<stale, process>>

Return(code) ==
    /\ returncode' = code
    /\ pc' = "returned"

OpenSocket ==
    /\ pc = "socket"
    /\ \/ sockfd' = "open" /\ pc' = "connect" /\ UNCHANGED returncode
       \/ "no socket" \in Faults /\ Return("error") /\ UNCHANGED sockfd
    /\ UNCHANGED <<i, status, filelen, bytesrecv, response, local, stale, server,
                   stream, process>>

Connect ==
    /\ pc = "connect"
    /\ peer' = "open"
    /\ pc' = "send"
    /\ UNCHANGED <<i, gfr, returncode, local, stale, reply, sent, stream, process>>

(* A failed connect cleans the request up and leaves the program.          *)
ConnectFails ==
    /\ pc = "connect"
    /\ "refused" \in Faults
    /\ IF response = "wild"
       THEN Crash
       ELSE /\ sockfd' = "closed"
            /\ process' = "exited"
            /\ UNCHANGED <<i, pc, status, filelen, bytesrecv, response, returncode,
                           local, stale, server, stream>>

SendRequest ==
    /\ pc = "send"
    /\ \/ pc' = "header" /\ UNCHANGED returncode
       \/ "send fails" \in Faults /\ Return("error")
    /\ UNCHANGED <<i, gfr, local, stale, server, stream, process>>

(* Faulty variant: a length that does not fit is cut to the largest int.   *)
Announced(len) == IF len <= INT_MAX THEN len ELSE INT_MAX

(* A length goes through an int (the server's "%d", the client's atoi) and *)
(* becomes a size_t again: the upper half of the ints, as negative, are    *)
(* the largest sizes, and behind them the count begins anew.               *)
AsSize(len) ==
    LET int == len % (2 * INT_MAX + 2)
    IN  IF int <= INT_MAX THEN int ELSE SIZE_MAX + 1 - (2 * INT_MAX + 2 - int)

(* parse_response allocates the response before it looks at anything.      *)
ParseResponse ==
    /\ response' = "live"
    /\ status' = reply.st
    /\ filelen' = IF reply.st \in Valid THEN AsSize(reply.len) ELSE filelen

(* The one recv for the header brings it whole, with k bytes of the body.  *)
RecvHeader ==
    /\ pc = "header" /\ hdr = "sent"
    /\ IF reply.st = "MALFORMED"
       THEN Crash
       ELSE \E k \in 0 .. sent :
            /\ k < BUFFER_SIZE
            /\ hdr' = "read"
            /\ read' = k
            /\ ParseResponse
            /\ stale' = TRUE
            /\ IF reply.st \in Valid
               THEN /\ file' = [b \in 1 .. k |-> b]
                    /\ bytesrecv' = k
                    /\ pc' = "body"
                    /\ UNCHANGED returncode
               ELSE /\ Return("error")
                    /\ UNCHANGED <<file, bytesrecv>>
            /\ UNCHANGED <<i, sockfd, exists, server, failed, process>>

(* It brings a part of the header.  strstr runs on past what recv wrote:   *)
(* it finds no terminator, or that of an earlier reply on the stack, and   *)
(* then a mixture of the two is parsed and the length left over for the    *)
(* first write is negative.                                                *)
RecvHeaderCut ==
    /\ pc = "header" /\ hdr = "sent"
    /\ "split" \in Faults
    /\ hdr' = "cut"
    /\ \/ /\ Return("error")
          /\ UNCHANGED <<gfr, file, stale>>
       \/ /\ stale
          /\ \E len \in 0 .. MaxLen : filelen' = AsSize(len)
          /\ status' \in Valid
          /\ response' = "live"
          /\ file' = <<0>>
          /\ bytesrecv' = SIZE_MAX
          /\ pc' = "body"
          /\ UNCHANGED <<stale, sockfd, returncode>>
    /\ UNCHANGED <<i, exists, server, read, failed, process>>

(* The connection ended before a header: recv returns 0 or -1.             *)
RecvNoHeader ==
    /\ pc = "header" /\ hdr = "unsent"
    /\ peer \in {"closed", "reset"}
    /\ Return("error")
    /\ UNCHANGED <<i, gfr, local, stale, server, stream, process>>

RecvBody ==
    /\ pc = "body" /\ bytesrecv < filelen
    /\ \E n \in 1 .. sent - read :
       /\ n <= BUFFER_SIZE
       /\ file' = file \o [b \in 1 .. n |-> read + b]
       /\ bytesrecv' = bytesrecv + n
       /\ read' = read + n
    /\ UNCHANGED <<i, pc, status, filelen, response, sockfd, returncode, exists,
                   stale, server, hdr, failed, process>>

(* recv returns 0: all was read and the peer closed, or a reset was        *)
(* reported before.                                                        *)
RecvEnd ==
    /\ pc = "body" /\ bytesrecv < filelen
    /\ read = sent
    /\ peer = "closed" \/ (peer = "reset" /\ failed)
    /\ sockfd' = "closed"
    /\ Return("error")
    /\ UNCHANGED <<i, status, filelen, bytesrecv, response, local, stale, server,
                   stream, process>>

(* recv returns -1, which is not tested for: the write callback is given   *)
(* SIZE_MAX bytes, of which fwrite writes what memory there is unless the  *)
(* build traps it, and the count of received bytes goes down by one.       *)
RecvFails ==
    /\ pc = "body" /\ bytesrecv < filelen
    /\ read = sent
    /\ peer = "reset" /\ ~ failed
    /\ \/ Crash
       \/ /\ failed' = TRUE
          /\ file' = Append(file, 0)
          /\ bytesrecv' = (bytesrecv + SIZE_MAX) % (SIZE_MAX + 1)
          /\ UNCHANGED <<i, pc, status, filelen, response, sockfd, returncode,
                         exists, stale, server, hdr, read, process>>

(* Faulty variant: one more recv than the length asks for.                 *)
EnoughLate == bytesrecv > filelen

Enough == bytesrecv >= filelen

LoopEnds ==
    /\ pc = "body" /\ Enough
    /\ sockfd' = "closed"
    /\ Return("ok")
    /\ UNCHANGED <<i, status, filelen, bytesrecv, response, local, stale, server,
                   stream, process>>

(* main closes the file and unlinks it after an error and after a status   *)
(* other than OK.                                                          *)
KeepOrUnlink ==
    /\ pc = "returned"
    /\ exists' = (returncode = "ok" /\ status = "OK")
    /\ pc' = "cleanup"
    /\ UNCHANGED <<i, gfr, returncode, file, stale, server, stream, process>>

(* Faulty variant: gfc_perform is trusted to have closed the socket.       *)
ClosedBefore(fd) == fd

Closed(fd) == IF fd = "open" THEN "closed" ELSE fd

(* gfc_cleanup closes the socket once more, or for the first time, and     *)
(* frees the response, which may never have been allocated.                *)
Cleanup ==
    /\ pc = "cleanup"
    /\ IF response = "wild"
       THEN Crash
       ELSE /\ sockfd' = Closed(sockfd)
            /\ response' = "null"
            /\ pc' = "next"
            /\ UNCHANGED <<i, status, filelen, bytesrecv, returncode, local, stale,
                           server, stream, process>>

ClientStep ==
    \/ Begin \/ OpenSocket \/ Connect \/ ConnectFails \/ SendRequest
    \/ RecvHeader \/ RecvHeaderCut \/ RecvNoHeader
    \/ RecvBody \/ RecvEnd \/ RecvFails \/ LoopEnds
    \/ KeepOrUnlink \/ Cleanup

-----------------------------------------------------------------------------
(* The server: any that speaks GETFILE.                                    *)
Receiving == pc \in {"header", "body"} /\ peer = "open"

Answer ==
    /\ Receiving /\ hdr = "unsent"
    /\ reply' \in Replies
    /\ hdr' = "sent"
    /\ UNCHANGED <<i, pc, gfr, returncode, local, stale, sent, peer, read, failed,
                   process>>

(* The body, and perhaps a byte more: a server may have announced a length *)
(* its file has outgrown.                                                  *)
SendBody ==
    /\ Receiving /\ hdr # "unsent"
    /\ \/ sent < reply.len
       \/ sent = reply.len /\ reply.st = "OK" /\ "extra byte" \in Faults
    /\ sent' = sent + 1
    /\ UNCHANGED <<i, pc, gfr, returncode, local, stale, reply, peer, stream, process>>

(* A close, or a reset, at any moment.                                     *)
EndConnection ==
    /\ Receiving
    /\ peer' \in {"closed"} \cup (IF "reset" \in Faults THEN {"reset"} ELSE {})
    /\ UNCHANGED <<i, pc, gfr, returncode, local, stale, reply, sent, stream, process>>

Next ==
    /\ process = "running"
    /\ ClientStep \/ Answer \/ SendBody \/ EndConnection

SafeSpec == Init /\ [][Next]_vars

(* The client runs; the server answers and sends what it announced, or     *)
(* ends the connection.  It need not ever close it.                        *)
Spec ==
    /\ SafeSpec
    /\ WF_vars(process = "running" /\ ClientStep)
    /\ WF_vars(process = "running" /\ (Answer \/ SendBody))

-----------------------------------------------------------------------------
Ended == pc = "cleanup" /\ process = "running"

(* The local file is kept when the whole body of an OK reply was received, *)
(* and only then, and it holds those bytes in order, however recv cut the  *)
(* stream; unless recv failed or cut the header.  A length beyond int is   *)
(* announced wrong: such a file is thrown away though all of it came, or,  *)
(* where the length wraps to a small one, a part of it is kept.            *)
FileKeptExactlyWhenComplete ==
    Ended /\ hdr # "cut" /\ ~ failed =>
        /\ reply.len <= INT_MAX =>
              (exists <=> hdr = "read" /\ reply.st = "OK" /\ read >= reply.len)
        /\ reply.len > INT_MAX /\ exists => reply.len > 2 * INT_MAX + 1
        /\ exists => file = [b \in 1 .. read |-> b]

(* No request leaves its socket open, whichever way gfc_perform returned.  *)
NoSocketLeft == pc = "next" => sockfd # "open"

(* While the connection is up, the loop waits for bytes of the body only   *)
(* when the server still owes some, in spite of the count that -1 lowers   *)
(* and of a header cut by recv; a length beyond int may ask for more.      *)
WaitsOnlyForTheRest ==
    pc = "body" /\ bytesrecv < filelen /\ read = sent /\ peer = "open" =>
        sent < reply.len \/ reply.len > INT_MAX

(* Every request ends: the loop waits only for bytes the server has, but   *)
(* after a length beyond int for more, until the server closes.            *)
EveryRequestEnds ==
    \A n \in 1 .. nrequests :
        (i = n) ~> (i = n /\ pc = "next") \/ process # "running" \/ reply.len > INT_MAX
=============================================================================
