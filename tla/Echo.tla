-------------------------------- MODULE Echo --------------------------------
(***************************************************************************)
(* echoserver.c and echoclient.c: a server that answers one connection at  *)
(* a time with the bytes of its first recv, and clients that send one      *)
(* message and print the bytes of their first recv.                        *)
(*                                                                         *)
(* The i-th byte of c's message is <<c, i>>.  A recv returns any part of   *)
(* what was sent: TCP keeps the order of the bytes, not their grouping.    *)
(***************************************************************************)
EXTENDS Integers, Sequences

CONSTANTS Clients,
          MAXSTRING,     \* the most one recv reads; BUFSIZE - 1
          maxnpending,   \* echoserver -n
          MaxLen,        \* bound: messages are at most this long
          NoClient

ASSUME SizesAssumption == MAXSTRING \in Nat \ {0} /\ maxnpending \in Nat /\ MaxLen \in Nat
ASSUME NoClientNotOne  == NoClient \notin Clients

VARIABLES
    spc, connfd, buffer,  \* the server's place, connection, bytes received
    queue,                \* connections the kernel holds for accept
    message,              \* the length of each client's message
    cpc,                  \* each client's place
    printed,              \* what it has put on its standard output
    status,               \* its exit status, or why it has none
    sent, reply,          \* bytes on their way to the server, to the client
    conn                  \* the server's end: "open", "closed" or "reset"

server == <<spc, connfd, buffer>>
wire   == <<sent, reply, conn>>
client == <<message, cpc, printed, status>>
vars   == <<server, queue, client, wire>>

Garbage == << <<NoClient, 0>> >>   \* memory nothing was written to

Init ==
    /\ spc = "bind" /\ connfd = NoClient /\ buffer = <<>> /\ queue = <<>>
    /\ message \in [Clients -> 0 .. MaxLen]
    /\ cpc = [c \in Clients |-> "connect"]
    /\ printed = [c \in Clients |-> <<>>] /\ status = [c \in Clients |-> "none"]
    /\ sent = [c \in Clients |-> <<>>] /\ reply = [c \in Clients |-> <<>>]
    /\ conn = [c \in Clients |-> "none"]

-----------------------------------------------------------------------------
(* The server *)

(* socket, bind and listen, their results not looked at: when the port is  *)
(* taken the server listens at another one, where nobody calls.            *)
Bind ==
    /\ spc = "bind"
    /\ spc' \in {"accept", "elsewhere"}
    /\ UNCHANGED <<connfd, buffer, queue, client, wire>>

(* accept and memset *)
Accept ==
    /\ spc = "accept" /\ queue # <<>>
    /\ spc' = "recv" /\ connfd' = Head(queue) /\ queue' = Tail(queue)
    /\ buffer' = <<>>
    /\ UNCHANGED <<client, wire>>

(* Faulty variant: the server waits for a full buffer.                     *)
ReceiveAll ==
    /\ spc = "recv" /\ Len(sent[connfd]) >= MAXSTRING
    /\ buffer' = SubSeq(sent[connfd], 1, MAXSTRING)
    /\ sent' = [sent EXCEPT ![connfd] = SubSeq(@, MAXSTRING + 1, Len(@))]
    /\ spc' = "send"
    /\ UNCHANGED <<connfd, queue, client, reply, conn>>

(* One recv of at most MAXSTRING bytes; 0 when the client has closed.      *)
Receive ==
    /\ spc = "recv"
    /\ \/ \E n \in 1 .. Len(sent[connfd]) :
            /\ n <= MAXSTRING
            /\ buffer' = SubSeq(sent[connfd], 1, n)
            /\ sent' = [sent EXCEPT ![connfd] = SubSeq(@, n + 1, Len(@))]
            /\ spc' = "send"
       \/ /\ sent[connfd] = <<>> /\ cpc[connfd] = "exit"
          /\ spc' = "close" /\ UNCHANGED <<buffer, sent>>
    /\ UNCHANGED <<connfd, queue, client, reply, conn>>

(* A failed accept leaves -1 for recv, which fails as well; a failed recv  *)
(* ends the server, and with it every connection.                          *)
ReadError ==
    /\ spc \in {"accept", "recv"}
    /\ spc' = "exit" /\ connfd' = NoClient /\ queue' = <<>>
    /\ conn' = [c \in Clients |-> IF conn[c] = "open" THEN "reset" ELSE conn[c]]
    /\ UNCHANGED <<buffer, client, sent, reply>>

Send ==
    /\ spc = "send"
    /\ reply' = [reply EXCEPT ![connfd] = buffer]
    /\ spc' = "close"
    /\ UNCHANGED <<connfd, buffer, queue, client, sent, conn>>

(* close; bytes that were not read make it a reset.                        *)
Close ==
    /\ spc = "close"
    /\ conn' = [conn EXCEPT ![connfd] = IF sent[connfd] = <<>> THEN "closed" ELSE "reset"]
    /\ spc' = "accept" /\ connfd' = NoClient
    /\ UNCHANGED <<buffer, queue, client, sent, reply>>

-----------------------------------------------------------------------------
(* The clients *)

Exit(c, code) ==
    /\ cpc' = [cpc EXCEPT ![c] = "exit"]
    /\ status' = [status EXCEPT ![c] = code]

(* connect waits while the kernel holds as many connections as it may;     *)
(* it is refused when no server listens there.                             *)
Connect(c) ==
    /\ cpc[c] = "connect"
    /\ \/ /\ spc \notin {"bind", "elsewhere", "exit"} /\ Len(queue) <= maxnpending
          /\ queue' = Append(queue, c)
          /\ conn' = [conn EXCEPT ![c] = "open"]
          /\ cpc' = [cpc EXCEPT ![c] = "send"]
          /\ UNCHANGED status
       \/ /\ spc \in {"bind", "elsewhere", "exit"}
          /\ Exit(c, "3") /\ UNCHANGED <<queue, conn>>
    /\ UNCHANGED <<server, message, printed, sent, reply>>

(* A failed socket or getaddrinfo, whose result is not looked at.          *)
NoSocket(c) ==
    /\ cpc[c] = "connect"
    /\ \E code \in {"1", "crash"} : Exit(c, code)
    /\ UNCHANGED <<server, queue, message, printed, wire>>

SendMessage(c) ==
    /\ cpc[c] = "send"
    /\ IF conn[c] = "reset"
       THEN (\E code \in {"4", "signal"} : Exit(c, code)) /\ UNCHANGED sent
       ELSE /\ sent' = [sent EXCEPT ![c] = [i \in 1 .. message[c] |-> <<c, i>>]]
            /\ cpc' = [cpc EXCEPT ![c] = "recv"] /\ UNCHANGED status
    /\ UNCHANGED <<server, queue, message, printed, reply, conn>>

(* What recv can give: a part of the reply, 0, or -1.                      *)
Received(c) ==
    (1 .. Len(reply[c]))
      \cup (IF reply[c] = <<>> /\ conn[c] = "closed" THEN {0} ELSE {})
      \cup (IF conn[c] = "reset" THEN {-1} ELSE {})

(* Faulty variant: no terminator is written behind the bytes.              *)
ReceiveLineUnterminated(c) ==
    /\ cpc[c] = "recv"
    /\ \E n \in Received(c) :
         /\ printed' = [printed EXCEPT ![c] = IF n < 0 THEN Garbage
                                              ELSE SubSeq(reply[c], 1, n) \o Garbage]
         /\ Exit(c, IF n < 0 THEN "unread" ELSE "0")
    /\ UNCHANGED <<server, queue, message, wire>>

(* recv, the terminator at recvline[n], fputs, close, exit(0).  A failed   *)
(* recv writes it before the array and prints what the stack held; a full  *)
(* one writes it behind the array.                                         *)
ReceiveLine(c) ==
    /\ cpc[c] = "recv"
    /\ \E n \in Received(c) :
         /\ printed' = [printed EXCEPT ![c] = IF n < 0 THEN Garbage
                                              ELSE SubSeq(reply[c], 1, n)]
         /\ Exit(c, IF n < 0 THEN "unread" ELSE "0")
    /\ UNCHANGED <<server, queue, message, wire>>

(* A client is stopped by its user.                                        *)
Interrupt(c) ==
    /\ cpc[c] \in {"send", "recv"}
    /\ Exit(c, "signal")
    /\ UNCHANGED <<server, queue, message, printed, wire>>

-----------------------------------------------------------------------------
ServerStep == Bind \/ Accept \/ Receive \/ Send \/ Close
ClientStep(c) == Connect(c) \/ SendMessage(c) \/ ReceiveLine(c)

Next ==
    \/ ServerStep \/ ReadError
    \/ \E c \in Clients : ClientStep(c) \/ NoSocket(c) \/ Interrupt(c)

SafeSpec == Init /\ [][Next]_vars

(* Both programs run on; nothing has to fail.                              *)
Spec == SafeSpec /\ WF_vars(ServerStep) /\ \A c \in Clients : WF_vars(ClientStep(c))

-----------------------------------------------------------------------------
(* A client that could read prints the beginning of its own message, never *)
(* more than one buffer of it, and nothing only if the server read nothing *)
(* from it (echoserver.c:114-127, echoclient.c:103-107).                   *)
PrintsOwnBeginning ==
    \A c \in Clients : status[c] = "0" =>
        /\ printed[c] = [i \in 1 .. Len(printed[c]) |-> <<c, i>>]
        /\ Len(printed[c]) \in 1 .. MAXSTRING /\ Len(printed[c]) <= message[c]

(* The server and its clients never wait for one another, however the      *)
(* backlog fills and whoever was stopped, but for an empty message: as     *)
(* long as a client is there, one of them can go on.                       *)
ServerMoves ==
    \/ spc \in {"bind", "send", "close"}
    \/ spc = "accept" /\ queue # <<>>
    \/ spc = "recv" /\ (sent[connfd] # <<>> \/ cpc[connfd] = "exit")

ClientMoves(c) ==
    \/ cpc[c] = "send"
    \/ cpc[c] = "connect" /\ (Len(queue) <= maxnpending \/ spc \in {"elsewhere", "exit"})
    \/ cpc[c] = "recv" /\ Received(c) # {}

NeverStuck ==
    (\E c \in Clients : cpc[c] # "exit") =>
        \/ ServerMoves \/ \E c \in Clients : ClientMoves(c)
        \/ spc = "recv" /\ message[connfd] = 0

(* Every client ends, unless the server waits for the first byte of an     *)
(* empty message: then it and all behind it wait for ever.                 *)
EveryClientEnds ==
    \A c \in Clients :
        (cpc[c] # "exit") ~> \/ cpc[c] = "exit"
                             \/ spc = "recv" /\ message[connfd] = 0
=============================================================================
