------------------------------ MODULE Transfer ------------------------------
(***************************************************************************)
(* The file transfer of pr1/transfer: a server that sends one file to      *)
(* every client that connects, one after the other, and clients that save  *)
(* what they receive.  The file's bytes are 1 .. FileLen; 0 stands for a   *)
(* byte a client's local file held before.                                 *)
(***************************************************************************)
EXTENDS Integers, Sequences, Functions

CONSTANTS Clients,
          FileLen,    \* bytes in the served file
          OldLens,    \* lengths a local file may have before
          BUFSIZE,    \* bytes per read, send and recv
          Faults,     \* which system calls may fail
          NoClient

FaultKinds == {"bind", "accept", "open", "read", "send", "short send", "socket", "create",
               "recv", "write", "short write"}

ASSUME LengthsAssumption == FileLen \in Nat /\ OldLens \subseteq Nat
ASSUME BufsizeAssumption == BUFSIZE \in Nat \ {0}
ASSUME NoClientAssumption == NoClient \notin Clients
ASSUME FaultsAssumption == Faults \subseteq FaultKinds

VARIABLES
    backlog, connfd,    \* connections not yet accepted; the accepted one
    pc,                 \* where the server is
    pos, chunk,         \* read's offset, and the bytes read and not yet sent
    stream, fin,        \* sent to each client and not yet received; all sent
    closed,             \* connections the server has closed
    unread,             \* history: transfers a failed read cut short
    server,             \* the server's process
    client,             \* each client's process
    recv_size,          \* bytes it received
    saved, local,       \* bytes it has written, to its local file
    unsaved             \* history: clients a write of which failed or fell short

sending   == <<pc, pos, chunk>>
clients   == <<client, recv_size, saved, local, unsaved>>
vars == <<backlog, connfd, sending, stream, fin, closed, unread, server, clients>>

Init ==
    /\ backlog = <<>> /\ connfd = NoClient
    /\ pc = "bind" /\ pos = 0 /\ chunk = <<>>
    /\ stream = [c \in Clients |-> <<>>]
    /\ fin = {} /\ closed = {} /\ unread = {}
    /\ server = "running"
    /\ client = [c \in Clients |-> "new"]
    /\ recv_size = [c \in Clients |-> 0]
    /\ saved = [c \in Clients |-> 0] /\ unsaved = {}
    /\ \E old \in [Clients -> OldLens] :
          local = [c \in Clients |-> [b \in 1 .. old[c] |-> 0]]

Smaller(a, b) == IF a < b THEN a ELSE b
Bytes(from, n) == [b \in 1 .. n |-> from + b]

(* The process ends; the kernel closes its connections.                    *)
ServerExits ==
    /\ server' = "exited"
    /\ fin' = Clients
    /\ UNCHANGED <<backlog, connfd, sending, stream, closed, unread, clients>>

-----------------------------------------------------------------------------
(* transferserver.c *)

(* The results of socket, bind and listen are not looked at: when the port *)
(* is taken the server listens at another one, where nobody calls.         *)
Bind ==
    /\ pc = "bind"
    /\ \/ pc' = "accept"
       \/ "bind" \in Faults /\ pc' = "elsewhere"
    /\ UNCHANGED <<backlog, connfd, pos, chunk, stream, fin, closed, unread, server,
                   clients>>

Accept ==
    /\ pc = "accept" /\ backlog # <<>>
    /\ connfd' = Head(backlog)
    /\ backlog' = Tail(backlog)
    /\ pc' = "open"
    /\ UNCHANGED <<pos, chunk, stream, fin, closed, unread, server, clients>>

(* accept's -1 is used as a connection, and the first send to it fails.    *)
AcceptFails == "accept" \in Faults /\ pc = "accept" /\ ServerExits

(* Faulty variant: the file is opened once and not read from its start.    *)
StartKept == pos

Start == 0

OpenFile ==
    /\ pc = "open"
    /\ pos' = Start
    /\ pc' = "read"
    /\ UNCHANGED <<backlog, connfd, chunk, stream, fin, closed, unread, server,
                   clients>>

OpenFails == "open" \in Faults /\ pc = "open" /\ ServerExits

Read ==
    /\ pc = "read" /\ pos < FileLen
    /\ \E n \in 1 .. Smaller(BUFSIZE, FileLen - pos) :
          /\ chunk' = Bytes(pos, n)
          /\ pos' = pos + n
    /\ pc' = "send"
    /\ UNCHANGED <<backlog, connfd, stream, fin, closed, unread, server, clients>>

(* read returns 0, or -1, which is taken for the end of the file too.      *)
ReadEnds ==
    /\ pc = "read"
    /\ \/ pos = FileLen /\ UNCHANGED unread
       \/ pos < FileLen /\ "read" \in Faults /\ unread' = unread \cup {connfd}
    /\ pc' = "close"
    /\ UNCHANGED <<backlog, connfd, pos, chunk, stream, fin, closed, server, clients>>

(* What is sent to a client that has left is lost, and the send after that *)
(* raises SIGPIPE.                                                         *)
Send ==
    /\ pc = "send"
    /\ stream' = [stream EXCEPT ![connfd] = @ \o chunk]
    /\ chunk' = <<>>
    /\ pc' = "read"
    /\ UNCHANGED <<backlog, connfd, pos, fin, closed, unread, server, clients>>

(* A send that fails, or sends less than it was given, ends the server, as *)
(* SIGPIPE does.                                                           *)
SendFails ==
    /\ pc = "send"
    /\ \/ "send" \in Faults /\ ServerExits
       \/ client[connfd] # "receiving" /\ ServerExits
       \/ /\ "short send" \in Faults
          /\ \E n \in 1 .. Len(chunk) - 1 :
                stream' = [stream EXCEPT ![connfd] = @ \o SubSeq(chunk, 1, n)]
          /\ server' = "exited"
          /\ fin' = Clients
          /\ UNCHANGED <<backlog, connfd, sending, closed, unread, clients>>

(* Faulty variant: the server serves one client.                           *)
AfterOnce == "returned"

After == "accept"

Close ==
    /\ pc = "close"
    /\ fin' = fin \cup {connfd}
    /\ closed' = closed \cup {connfd}
    /\ connfd' = NoClient
    /\ pc' = After
    /\ UNCHANGED <<backlog, pos, chunk, stream, unread, server, clients>>

ServerStep ==
    /\ server = "running"
    /\ \/ Bind \/ Accept \/ OpenFile \/ Read \/ ReadEnds \/ Send \/ Close
       \/ OpenFails \/ SendFails

-----------------------------------------------------------------------------
(* transferclient.c *)

Listening == server = "running" /\ pc \notin {"bind", "elsewhere"}

(* No socket, or nobody listens.                                           *)
ConnectFails(c) ==
    /\ client[c] = "new"
    /\ "socket" \in Faults \/ ~ Listening
    /\ client' = [client EXCEPT ![c] = "failed"]
    /\ UNCHANGED <<backlog, connfd, sending, stream, fin, closed, unread, server,
                   recv_size, saved, local, unsaved>>

(* It connects, and opens its local file without emptying it; if that      *)
(* fails main does not look at it either.                                  *)
Connect(c) ==
    /\ Listening
    /\ client[c] = "new"
    /\ \/ client' = [client EXCEPT ![c] = "receiving"]
       \/ "create" \in Faults /\ client' = [client EXCEPT ![c] = "succeeded"]
    /\ backlog' = Append(backlog, c)
    /\ UNCHANGED <<connfd, sending, stream, fin, closed, unread, server, recv_size,
                   saved, local, unsaved>>

(* What write leaves in a file that held more.                             *)
Overwritten(old, from, bytes) ==
    SubSeq(old, 1, from) \o bytes \o SubSeq(old, from + Len(bytes) + 1, Len(old))

(* Faulty variant: each part is written to the start of the file.          *)
AtStart(c) == 0

(* Where write puts the next part: behind the last.                        *)
At(c) == saved[c]

(* recv takes n bytes, which are counted before they are written.          *)
Taken(c, n) ==
    /\ recv_size' = [recv_size EXCEPT ![c] = @ + n]
    /\ stream' = [stream EXCEPT ![c] = SubSeq(@, n + 1, Len(@))]

(* A write of m of the n bytes; that it may be fewer is not looked at.     *)
Recv(c) ==
    /\ client[c] = "receiving"
    /\ \E n \in 1 .. Smaller(BUFSIZE, Len(stream[c])) : \E m \in 0 .. n :
          /\ m = n \/ "short write" \in Faults
          /\ Taken(c, n)
          /\ local' = [local EXCEPT
                ![c] = Overwritten(@, At(c), SubSeq(stream[c], 1, m))]
          /\ saved' = [saved EXCEPT ![c] = @ + m]
          /\ unsaved' = IF m = n THEN unsaved ELSE unsaved \cup {c}
    /\ UNCHANGED <<backlog, connfd, sending, fin, closed, unread, server, client>>

(* recv returns 0, or -1, which is taken for the end too; the program      *)
(* exits with EXIT_SUCCESS.                                                *)
RecvEnds(c) ==
    /\ client[c] = "receiving"
    /\ (stream[c] = <<>> /\ c \in fin) \/ "recv" \in Faults
    /\ client' = [client EXCEPT ![c] = "succeeded"]
    /\ UNCHANGED <<backlog, connfd, sending, stream, fin, closed, unread, server,
                   recv_size, saved, local, unsaved>>

(* So it does when a write has failed: main does not look at recv_file's   *)
(* result.                                                                 *)
WriteFails(c) ==
    /\ "write" \in Faults
    /\ client[c] = "receiving"
    /\ \E n \in 1 .. Smaller(BUFSIZE, Len(stream[c])) : Taken(c, n)
    /\ client' = [client EXCEPT ![c] = "succeeded"]
    /\ unsaved' = unsaved \cup {c}
    /\ UNCHANGED <<backlog, connfd, sending, fin, closed, unread, server, saved, local>>

ClientStep(c) == Recv(c) \/ RecvEnds(c) \/ WriteFails(c)

Next ==
    \/ ServerStep
    \/ server = "running" /\ AcceptFails
    \/ \E c \in Clients : Connect(c) \/ ConnectFails(c) \/ ClientStep(c)

SafeSpec == Init /\ [][Next]_vars

(* Server and clients run.                                                 *)
Spec ==
    /\ SafeSpec
    /\ WF_vars(ServerStep)
    /\ \A c \in Clients : WF_vars(ClientStep(c))

-----------------------------------------------------------------------------
(* However the stream is cut and whatever the local file held, a client    *)
(* writes no byte twice or out of order and nothing behind what it wrote,  *)
(* even after a write that fell short, which it does not notice; without   *)
(* one its file begins with all it received.                               *)
SavedInOrder ==
    \A c \in Clients :
        LET n == saved[c]
        IN  /\ n <= Len(local[c])
            /\ \A b \in 1 .. n : local[c][b] \in 1 .. recv_size[c]
            /\ \A a, b \in 1 .. n : a < b => local[c][a] < local[c][b]
            /\ c \notin unsaved =>
                  n = recv_size[c] /\ SubSeq(local[c], 1, n) = Bytes(0, n)
            /\ \A b \in n + 1 .. Len(local[c]) : local[c][b] = 0

(* Bytes are missing from a local file only after a failure: when a client *)
(* has read up to the server's own close, none of its writes failed or     *)
(* fell short, and no read of the server failed, it has the whole file.    *)
WholeFileSaved ==
    \A c \in closed \ (unread \cup unsaved) :
        stream[c] = <<>> => /\ FileLen <= Len(local[c])
                            /\ SubSeq(local[c], 1, FileLen) = Bytes(0, FileLen)

(* A client waits only for a server that runs and will come to it: while   *)
(* its connection has not ended, it is queued or being served.             *)
WaitingIsServed ==
    \A c \in Clients \ fin : client[c] = "receiving" =>
        server = "running" /\ (connfd = c \/ \E n \in DOMAIN backlog : backlog[n] = c)

(* The server is the abstract service with one worker.                     *)
Service == INSTANCE RequestService
             WITH Workers <- {"main"}, Requests <- Clients, Stalled <- {},
                  NoRequest <- NoClient, pending <- backlog,
                  serving <- [w \in {"main"} |-> connfd], done <- closed,
                  up <- server = "running"

ServiceSpec == Service!Spec
=============================================================================
