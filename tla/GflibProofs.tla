---------------------------- MODULE GflibProofs ----------------------------
(***************************************************************************)
(* Proofs about three parts of pr1.  Content, for every set of keys, every *)
(* length of the file and every first capacity: no step writes outside the *)
(* table, and the search of content_get is right.  GfClient, for every     *)
(* file, every width of int and size_t and every choice of faults: what    *)
(* stays on the disk, and no socket open.  And Startup, for every command  *)
(* line and every file: what the programs start with, the table's lines    *)
(* among it.                                                               *)
(***************************************************************************)
EXTENDS Content, FiniteSetTheorems, SequenceTheorems, WellFoundedInduction, TLAPS

Lines == [key : Keys, fildes : 1 .. MaxLines]

(* What the search rests on: once qsort is done the table stays in order,  *)
(* and before that nobody has asked for a key.                             *)
Ordered ==
    /\ phase \in {"ready", "search"} => Sorted(items)
    /\ phase = "init" => key = NoKey

IInv == TypeOK /\ Ordered /\ KeyInRange /\ SearchRight

(* The length of the table is a number, and what a slot holds is a line.   *)
LEMMA Table ==
  ASSUME TypeOK
  PROVE  /\ nitems \in Nat
         /\ \A n \in 1 .. nitems : items[n] \in Lines /\ items[n].key \in Int
<1>1. items \in Seq(Lines)
  BY DEF TypeOK, Lines
<1>2. nitems \in Nat /\ \A n \in 1 .. nitems : items[n] \in Lines
  BY <1>1, LenProperties, ElementOfSeq DEF nitems
<1> QED
  BY <1>2, KeysAssumption DEF Lines

(* The middle of a range that is not empty lies in it.                     *)
LEMMA Middle ==
  ASSUME NEW a \in Int, NEW b \in Int, a <= b
  PROVE  /\ a + (b - a) \div 2 \in Int
         /\ a <= a + (b - a) \div 2 /\ a + (b - a) \div 2 <= b
OBVIOUS

LEMMA InitInv == Init => IInv
<1> SUFFICES ASSUME Init PROVE IInv
  OBVIOUS
<1>1. items = <<>> /\ nitems = 0
  BY DEF Init, nitems
<1>2. TypeOK
  BY <1>1, CapacityAssumption DEF Init, TypeOK
<1> QED
  BY <1>2 DEF Init, IInv, Ordered, KeyInRange, SearchRight

-----------------------------------------------------------------------------
(* The table while it is filled and sorted.                                *)

(* The table has a slot for the next line, because it doubles in the step  *)
(* that fills its last but one.                                            *)
LEMMA ReadLineStep ==
  ASSUME IInv, NEW k \in Keys, ReadLine(k)
  PROVE  IInv'
<1> DEFINE line == [key |-> k, fildes |-> nitems + 1]
<1>1. TypeOK /\ Ordered /\ nitems \in Nat
  BY Table DEF IInv
<1>2. items \in Seq(Lines) /\ line \in Lines
  BY <1>1, LinesAssumption DEF TypeOK, ReadLine, Lines
<1>3. items' \in Seq(Lines) /\ nitems' = nitems + 1
  BY <1>2, AppendProperties DEF ReadLine, nitems
<1>4. nitems' < capacity'
  BY <1>1, <1>3 DEF ReadLine, TypeOK, Full
<1>5. TypeOK'
  BY <1>1, <1>3, <1>4 DEF ReadLine, TypeOK, Lines
<1> QED
  BY <1>1, <1>5 DEF ReadLine, IInv, Ordered, KeyInRange, SearchRight

LEMMA SortStep ==
  ASSUME IInv, Sort
  PROVE  IInv'
<1>1. TypeOK /\ Ordered /\ nitems \in Nat /\ \A n \in 1 .. nitems : items[n] \in Lines
  BY Table DEF IInv
<1>2. PICK p \in Bijection(1 .. nitems, 1 .. nitems) :
         items' = [n \in 1 .. nitems |-> items[p[n]]] /\ Sorted(items')
  BY DEF Sort
<1>3. p \in [1 .. nitems -> 1 .. nitems]
  BY <1>2 DEF Bijection, Injection, Surjection
<1>4. items' \in Seq(Lines) /\ nitems' = nitems
  BY <1>1, <1>2, <1>3 DEF nitems
<1>5. TypeOK'
  BY <1>1, <1>4 DEF Sort, TypeOK, Lines
<1>6. Ordered' /\ KeyInRange' /\ SearchRight'
  BY <1>1, <1>2 DEF Sort, Ordered, KeyInRange, SearchRight, NoKey
<1> QED
  BY <1>5, <1>6 DEF IInv

-----------------------------------------------------------------------------
(* The search.                                                             *)

LEMMA GetStep ==
  ASSUME IInv, NEW k \in Keys, Get(k)
  PROVE  IInv'
<1>1. TypeOK /\ Ordered /\ nitems \in Nat
  BY Table DEF IInv
<1>2. nitems' = nitems /\ UNCHANGED items
  BY DEF Get, nitems
<1>3. TypeOK'
  BY <1>1, <1>2 DEF Get, TypeOK
<1> QED
  BY <1>1, <1>2, <1>3 DEF Get, IInv, Ordered, KeyInRange, SearchRight

(* The half of the range a round leaves out holds no line with the key,    *)
(* for the table is sorted.                                                *)
LEMMA ProbeStep ==
  ASSUME IInv, Probe
  PROVE  IInv'
<1>1. TypeOK /\ Ordered /\ KeyInRange /\ nitems \in Nat
      /\ \A n \in 1 .. nitems : items[n] \in Lines /\ items[n].key \in Int
  BY Table DEF IInv
<1>2. Sorted(items) /\ phase = "search" /\ key' = key /\ items' = items /\ nitems' = nitems
  BY <1>1 DEF Probe, Ordered, nitems
<1>3. lo \in Int /\ hi \in Int /\ lo <= hi /\ 0 <= lo /\ hi <= nitems - 1
  BY <1>1 DEF Probe, TypeOK
<1>4. mid \in Int /\ lo <= mid /\ mid <= hi /\ mid + 1 \in 1 .. nitems
  BY <1>1, <1>3, Middle DEF mid
<1> DEFINE k == items[mid + 1].key
<1>5. k \in Int /\ \A n \in 1 .. nitems : /\ n <= mid + 1 => items[n].key <= k
                                          /\ mid + 1 <= n => k <= items[n].key
  BY <1>1, <1>2, <1>4 DEF Sorted, nitems
<1>6. key \in Int
  BY <1>1, KeysAssumption DEF TypeOK, NoKey
<1>7. CASE key < k /\ hi' = mid - 1 /\ UNCHANGED <<phase, lo, answer>>
  <2>1. TypeOK'
    BY <1>1, <1>2, <1>3, <1>4, <1>7 DEF Probe, TypeOK
  <2>2. KeyInRange'
    <3> SUFFICES ASSUME NEW n \in 1 .. nitems, items[n].key = key
                 PROVE  lo <= n - 1 /\ n - 1 <= mid - 1
      BY <1>2, <1>7 DEF KeyInRange
    <3>1. lo <= n - 1
      BY <1>1, <1>2 DEF KeyInRange
    <3>2. ~ (mid + 1 <= n)
      BY <1>5, <1>6, <1>7
    <3> QED
      BY <1>1, <1>4, <3>1, <3>2
  <2> QED
    BY <1>1, <1>2, <1>7, <2>1, <2>2 DEF IInv, Ordered, SearchRight
<1>8. CASE key > k /\ lo' = mid + 1 /\ UNCHANGED <<phase, hi, answer>>
  <2>1. TypeOK'
    BY <1>1, <1>2, <1>3, <1>4, <1>8 DEF Probe, TypeOK
  <2>2. KeyInRange'
    <3> SUFFICES ASSUME NEW n \in 1 .. nitems, items[n].key = key
                 PROVE  mid + 1 <= n - 1 /\ n - 1 <= hi
      BY <1>2, <1>8 DEF KeyInRange
    <3>1. n - 1 <= hi
      BY <1>1, <1>2 DEF KeyInRange
    <3>2. ~ (n <= mid + 1)
      BY <1>5, <1>6, <1>8
    <3> QED
      BY <1>1, <1>4, <3>1, <3>2
  <2> QED
    BY <1>1, <1>2, <1>8, <2>1, <2>2 DEF IInv, Ordered, SearchRight
<1>9. CASE /\ key = k /\ answer' = items[mid + 1].fildes
           /\ phase' = "ready" /\ UNCHANGED <<lo, hi>>
  <2>1. answer' \in 1 .. MaxLines
    BY <1>1, <1>4, <1>9 DEF Lines
  <2>2. TypeOK'
    BY <1>1, <1>2, <1>9, <2>1 DEF Probe, TypeOK
  <2>3. SearchRight'
    BY <1>2, <1>4, <1>9 DEF SearchRight
  <2> QED
    BY <1>2, <1>9, <2>2, <2>3 DEF IInv, Ordered, KeyInRange
<1> QED
  BY <1>7, <1>8, <1>9 DEF Probe, Below

(* An empty range and a key that can only be in it: the key is not there.  *)
LEMMA NotThereStep ==
  ASSUME IInv, NotThere
  PROVE  IInv'
<1>1. TypeOK /\ Ordered /\ KeyInRange /\ nitems \in Nat
  BY Table DEF IInv
<1>2. nitems' = nitems /\ items' = items /\ key' = key /\ phase' = "ready" /\ answer' = -1
  BY DEF NotThere, nitems
<1>3. lo \in Int /\ hi \in Int /\ lo > hi /\ phase = "search"
  BY <1>1 DEF NotThere, TypeOK
<1>4. \A n \in 1 .. nitems : items[n].key # key
  BY <1>1, <1>3 DEF KeyInRange
<1>5. TypeOK'
  BY <1>1, <1>2 DEF NotThere, TypeOK
<1> QED
  BY <1>1, <1>2, <1>3, <1>4, <1>5 DEF IInv, Ordered, KeyInRange, SearchRight

-----------------------------------------------------------------------------
LEMMA InvStep == IInv /\ [Next]_vars => IInv'
<1> SUFFICES ASSUME IInv, [Next]_vars PROVE IInv'
  OBVIOUS
<1>1. ASSUME UNCHANGED <<items, capacity, key, lo, hi, answer>>,
             phase' \in {"closed", "exited"} \/ phase' = phase
      PROVE  IInv'
  <2>1. nitems' = nitems
    BY <1>1 DEF nitems
  <2> QED
    BY <1>1, <2>1 DEF IInv, TypeOK, Ordered, KeyInRange, SearchRight
<1>2. CASE OpenFails
  BY <1>1, <1>2 DEF OpenFails
<1>3. CASE Destroy
  BY <1>1, <1>3 DEF Destroy
<1>4. CASE UNCHANGED vars
  BY <1>1, <1>4 DEF vars
<1> QED
  BY <1>2, <1>3, <1>4, ReadLineStep, SortStep, GetStep, ProbeStep, NotThereStep DEF Next

(* The inductive invariant, from reading the file to the last search.      *)
THEOREM Invariance == SafeSpec => []IInv
BY InitInv, InvStep, PTL DEF SafeSpec

(* Every index is inside the table: fgets always has a slot, and lo and hi *)
(* never leave it by more than one.                                        *)
THEOREM TableBounds == SafeSpec => []TypeOK
<1>1. IInv => TypeOK
  BY DEF IInv
<1> QED
  BY <1>1, Invariance, PTL

(* content.c l. 68: "Key is in items[lo..hi] or not present."              *)
THEOREM SearchLoopInvariant == SafeSpec => []KeyInRange
<1>1. IInv => KeyInRange
  BY DEF IInv
<1> QED
  BY <1>1, Invariance, PTL

(* content_get returns the descriptor of a line with the key, and -1 only  *)
(* if no line has it.                                                      *)
THEOREM SearchIsRight == SafeSpec => []SearchRight
<1>1. IInv => SearchRight
  BY DEF IInv
<1> QED
  BY <1>1, Invariance, PTL

(* What a round of the search leaves of a range that is not empty.         *)
LEMMA HalfOfRange ==
  ASSUME NEW a \in Int, NEW b \in Int, a <= b
  PROVE  /\ 2 * (((a + (b - a) \div 2) - 1) - a + 1) <= b - a + 1
         /\ 2 * (b - ((a + (b - a) \div 2) + 1) + 1) <= b - a + 1
<1>1. PICK d \in Int : d = (b - a) \div 2
  OBVIOUS
<1>2. 2 * d <= b - a /\ b - a <= 2 * d + 1
  BY <1>1
<1> QED
  BY <1>1, <1>2

(* The search has as many rounds at most as nitems has binary digits: that *)
(* it ends is this, and that the rounds go on.                             *)
THEOREM SearchIsShort == SafeSpec => SearchHalves
<1>1. ASSUME IInv, [Next]_vars
      PROVE  [phase = "search" /\ phase' = "search" => 2 * Remaining' <= Remaining]_vars
  <2> SUFFICES ASSUME Next, phase = "search", phase' = "search"
               PROVE  2 * Remaining' <= Remaining
    BY <1>1
  <2>1. Probe
    BY DEF Next, ReadLine, Get, OpenFails, Sort, NotThere, Destroy
  <2>2. lo \in Int /\ hi \in Int /\ lo <= hi
    BY <1>1, <2>1 DEF Probe, IInv, TypeOK
  <2>3. CASE hi' = mid - 1 /\ lo' = lo
    BY <2>2, <2>3, HalfOfRange DEF Remaining, mid
  <2>4. CASE lo' = mid + 1 /\ hi' = hi
    BY <2>2, <2>4, HalfOfRange DEF Remaining, mid
  <2> QED
    BY <2>1, <2>3, <2>4 DEF Probe, Below
<1> QED
  BY <1>1, Invariance, PTL DEF SafeSpec, SearchHalves

-----------------------------------------------------------------------------
(* The client, with its own constants and variables.  An instance leaves   *)
(* GfClient's assumptions to its theorems, as hypotheses.                  *)
CONSTANTS nrequests, MaxLen, BUFFER_SIZE, INT_MAX, SIZE_MAX, Faults
VARIABLES i, pc, status, filelen, bytesrecv, response, sockfd, returncode,
    file, exists, stale, reply, hdr, sent, read, peer, failed, process

Client == INSTANCE GfClient

ClientConstants ==
    /\ Client!CountsAssumption /\ Client!BufferAssumption
    /\ Client!SizeAssumption /\ Client!FaultsAssumption

(* What recv has told apart: a whole header, and no failure since.         *)
Good == hdr # "cut" /\ ~ failed

(* What came of the body is in the local file, and the struct counts it.   *)
Filed ==
    /\ hdr = "read" /\ reply.st \in Client!Valid
    /\ status = reply.st /\ filelen = Client!AsSize(reply.len)
    /\ bytesrecv = read /\ file = [b \in 1 .. read |-> b]

ClientInv ==
    /\ reply \in Client!Replies \cup {Client!NoReply}
    /\ exists \in BOOLEAN
    /\ read \in Nat /\ sent \in Nat /\ read <= sent
    /\ sent <= reply.len + IF reply.st = "OK" THEN 1 ELSE 0
    /\ hdr = "unsent" => reply = Client!NoReply
    /\ pc \in {"socket", "connect", "send"} => hdr = "unsent"
    /\ pc \in {"socket", "connect", "send", "header"} =>
          hdr \in {"unsent", "sent"} /\ read = 0
    /\ pc = "body" => hdr \in {"read", "cut"}
    /\ pc = "body" /\ Good => Filed
    /\ pc = "returned" /\ Good =>
          \/ returncode = "ok" /\ Filed /\ read >= filelen
          \/ /\ returncode = "error"
             /\ \/ hdr # "read" \/ reply.st \notin Client!Valid
                \/ Filed /\ read < filelen
    /\ Client!FileKeptExactlyWhenComplete

(* A length an int can hold is read as it is; one beyond it, and not       *)
(* beyond the whole range of int, as one larger than any file.             *)
LEMMA SizesRead ==
  ASSUME ClientConstants, NEW len \in 0 .. MaxLen
  PROVE  /\ len <= INT_MAX => Client!AsSize(len) = len
         /\ INT_MAX < len /\ len <= 2 * INT_MAX + 1 =>
               Client!AsSize(len) \in Nat /\ Client!AsSize(len) > len + 1
<1>1. INT_MAX \in Nat /\ SIZE_MAX \in Nat /\ MaxLen \in Nat /\ SIZE_MAX > MaxLen + INT_MAX + 1
  BY DEF ClientConstants, Client!CountsAssumption, Client!SizeAssumption
<1>2. PICK k \in Nat : k = 2 * INT_MAX + 2
  BY <1>1
<1>3. len < k => len % k = len
  BY <1>1, <1>2
<1>4. len <= 2 * INT_MAX + 1 => len % (2 * INT_MAX + 2) = len
  BY <1>1, <1>2, <1>3
<1>5. len <= INT_MAX => Client!AsSize(len) = len
  BY <1>1, <1>4 DEF Client!AsSize
<1>6. INT_MAX < len /\ len <= 2 * INT_MAX + 1 =>
         Client!AsSize(len) = SIZE_MAX + 1 - (2 * INT_MAX + 2 - len)
  BY <1>1, <1>4 DEF Client!AsSize
<1> QED
  BY <1>1, <1>5, <1>6

LEMMA ClientInitInv ==
  ASSUME ClientConstants, Client!Init
  PROVE  ClientInv
<1>1. /\ pc = "next" /\ read = 0 /\ sent = 0 /\ exists = FALSE
      /\ reply = [st |-> "none", len |-> 0]
  BY DEF Client!Init, Client!NoReply
<1>2. reply.st = "none" /\ reply.len = 0
  BY <1>1
<1>3. Client!FileKeptExactlyWhenComplete
  BY <1>1 DEF Client!FileKeptExactlyWhenComplete, Client!Ended
<1>4. sent <= reply.len + IF reply.st = "OK" THEN 1 ELSE 0
  BY <1>1, <1>2
<1>5. read \in Nat /\ sent \in Nat /\ read <= sent
  BY <1>1
<1>6. reply = Client!NoReply
  BY <1>1 DEF Client!NoReply
<1> QED
  BY <1>1, <1>3, <1>4, <1>5, <1>6 DEF ClientInv

LEMMA ClientBeginStep ==
  ASSUME ClientConstants, ClientInv, Client!Begin
  PROVE  ClientInv'
BY DEF ClientInv, Client!Begin, Client!Create, Client!NoReply,
       Client!FileKeptExactlyWhenComplete, Client!Ended

(* The process is over.                                                    *)
LEMMA ClientCrashStep ==
  ASSUME ClientInv, process' = "crashed" \/ process' = "exited",
         UNCHANGED <<pc, status, filelen, bytesrecv, returncode, file, exists,
                     reply, sent, hdr, read, failed>>
  PROVE  ClientInv'
BY DEF ClientInv, Good, Filed, Client!FileKeptExactlyWhenComplete, Client!Ended

(* Steps before the header, and the server's.                              *)
LEMMA ClientEarlySteps ==
  ASSUME ClientConstants, ClientInv,
         \/ Client!OpenSocket \/ Client!Connect \/ Client!ConnectFails
         \/ Client!SendRequest \/ Client!RecvNoHeader
  PROVE  ClientInv'
<1>1. CASE Client!OpenSocket
  BY <1>1 DEF Client!OpenSocket, Client!Return, Client!local, Client!server, Client!stream,
     ClientInv, Good, Client!FileKeptExactlyWhenComplete, Client!Ended
<1>2. CASE Client!Connect
  BY <1>2 DEF Client!Connect, Client!gfr, Client!local, Client!stream,
     ClientInv, Good, Client!FileKeptExactlyWhenComplete, Client!Ended
<1>3. CASE Client!ConnectFails
  BY <1>3, ClientCrashStep DEF Client!ConnectFails, Client!Crash, Client!gfr, Client!local,
     Client!server, Client!stream
<1>4. CASE Client!SendRequest
  BY <1>4 DEF Client!SendRequest, Client!Return, Client!gfr, Client!local, Client!server,
     Client!stream, ClientInv, Good, Client!FileKeptExactlyWhenComplete, Client!Ended
<1>5. CASE Client!RecvNoHeader
  BY <1>5 DEF Client!RecvNoHeader, Client!Return, Client!gfr, Client!local, Client!server,
     Client!stream, ClientInv, Good, Client!FileKeptExactlyWhenComplete, Client!Ended
<1> QED
  BY <1>1, <1>2, <1>3, <1>4, <1>5

LEMMA ServerSteps ==
  ASSUME ClientConstants, ClientInv, Client!Answer \/ Client!SendBody \/ Client!EndConnection
  PROVE  ClientInv'
<1>0. MaxLen \in Nat
  BY DEF ClientConstants, Client!CountsAssumption
<1>1. CASE Client!Answer
  <2>1. reply'.len \in Nat
    BY <1>0, <1>1 DEF Client!Answer, Client!Replies
  <2>2. pc = "header" /\ sent = 0 /\ sent' = 0
    <3>1. /\ pc \in {"header", "body"} /\ reply = Client!NoReply /\ sent' = sent
          /\ sent \in Nat /\ sent <= reply.len + IF reply.st = "OK" THEN 1 ELSE 0
          /\ hdr = "unsent" /\ (pc = "body" => hdr \in {"read", "cut"})
      BY <1>1 DEF Client!Answer, Client!Receiving, ClientInv
    <3>2. reply.len = 0 /\ reply.st = "none"
      BY <3>1 DEF Client!NoReply
    <3> QED
      BY <3>1, <3>2
  <2>3. /\ hdr' = "sent" /\ reply' \in Client!Replies
        /\ UNCHANGED <<pc, exists, sent, read, process>>
    BY <1>1 DEF Client!Answer, Client!local
  <2>4. sent' <= reply'.len + IF reply'.st = "OK" THEN 1 ELSE 0
    BY <2>1, <2>2
  <2>5. read = 0 /\ exists \in BOOLEAN
    BY <2>2 DEF ClientInv
  <2>6. pc' = "header" /\ read' = 0 /\ sent' = 0 /\ exists' \in BOOLEAN
    BY <2>2, <2>3, <2>5
  <2>7. Client!FileKeptExactlyWhenComplete'
    BY <2>6 DEF Client!FileKeptExactlyWhenComplete, Client!Ended
  <2> QED
    BY <2>3, <2>4, <2>6, <2>7 DEF ClientInv, Client!Replies
<1>2. CASE Client!SendBody
  <2>1. reply.len \in Nat
    BY <1>0 DEF ClientInv, Client!Replies, Client!NoReply
  <2>2. /\ pc \in {"header", "body"} /\ sent' = sent + 1
        /\ sent < reply.len \/ (sent = reply.len /\ reply.st = "OK")
        /\ UNCHANGED <<pc, status, filelen, bytesrecv, returncode, file, exists, reply,
                       hdr, read, failed, process>>
    BY <1>2 DEF Client!SendBody, Client!Receiving, Client!gfr, Client!local, Client!stream
  <2>3. /\ sent' \in Nat /\ read' <= sent'
        /\ sent' <= reply'.len + IF reply'.st = "OK" THEN 1 ELSE 0
    BY <2>1, <2>2 DEF ClientInv
  <2> QED
    BY <2>2, <2>3 DEF ClientInv, Good, Filed, Client!FileKeptExactlyWhenComplete, Client!Ended
<1>3. CASE Client!EndConnection
  BY <1>3 DEF Client!EndConnection, Client!gfr, Client!local, Client!stream,
     ClientInv, Good, Filed, Client!FileKeptExactlyWhenComplete, Client!Ended
<1> QED
  BY <1>1, <1>2, <1>3

LEMMA ClientHeaderSteps ==
  ASSUME ClientConstants, ClientInv, Client!RecvHeader \/ Client!RecvHeaderCut
  PROVE  ClientInv'
<1>1. CASE Client!RecvHeader /\ reply.st = "MALFORMED"
  BY <1>1, ClientCrashStep DEF Client!RecvHeader, Client!Crash, Client!gfr, Client!local,
     Client!server, Client!stream
<1>2. CASE Client!RecvHeader /\ reply.st # "MALFORMED"
  <2>1. PICK k \in 0 .. sent :
          /\ hdr' = "read" /\ read' = k /\ Client!ParseResponse
          /\ IF reply.st \in Client!Valid
             THEN /\ file' = [b \in 1 .. k |-> b] /\ bytesrecv' = k /\ pc' = "body"
             ELSE Client!Return("error")
          /\ UNCHANGED <<exists, reply, sent, failed, process>>
    BY <1>2 DEF Client!RecvHeader, Client!server
  <2>2. k \in Nat /\ k <= sent
    BY DEF ClientInv
  <2> QED
    BY <2>1, <2>2 DEF Client!ParseResponse, Client!Return,
       ClientInv, Good, Filed, Client!FileKeptExactlyWhenComplete, Client!Ended
<1>3. CASE Client!RecvHeaderCut
  BY <1>3 DEF Client!RecvHeaderCut, Client!Return, Client!server,
     ClientInv, Good, Filed, Client!FileKeptExactlyWhenComplete, Client!Ended
<1> QED
  BY <1>1, <1>2, <1>3

LEMMA ClientBodySteps ==
  ASSUME ClientConstants, ClientInv,
         \/ Client!RecvBody \/ Client!RecvEnd \/ Client!RecvFails \/ Client!LoopEnds
  PROVE  ClientInv'
<1>1. CASE Client!RecvBody
  <2>1. PICK n \in 1 .. sent - read :
          /\ file' = file \o [b \in 1 .. n |-> read + b]
          /\ bytesrecv' = bytesrecv + n /\ read' = read + n
    BY <1>1 DEF Client!RecvBody
  <2>2. /\ pc = "body" /\ pc' = "body"
        /\ UNCHANGED <<status, filelen, returncode, exists, reply, sent, hdr, failed, process>>
    BY <1>1 DEF Client!RecvBody, Client!server
  <2>3. read \in Nat /\ sent \in Nat /\ n \in Nat /\ read + n \in Nat /\ read + n <= sent
    BY DEF ClientInv
  <2>4. file = [b \in 1 .. read |-> b] => file' = [b \in 1 .. read + n |-> b]
    <3>1. [b \in 1 .. read |-> b] \o [b \in 1 .. n |-> read + b] = [b \in 1 .. read + n |-> b]
      BY <2>3, SMTT(30)
    <3> QED
      BY <2>1, <3>1
  <2>5. Filed => Filed'
    BY <2>1, <2>2, <2>3, <2>4 DEF Filed
  <2> QED
    BY <2>1, <2>2, <2>3, <2>5 DEF ClientInv, Good, Client!FileKeptExactlyWhenComplete,
       Client!Ended
<1>2. CASE Client!RecvEnd
  <2>1. /\ pc = "body" /\ bytesrecv < filelen /\ pc' = "returned" /\ returncode' = "error"
        /\ UNCHANGED <<status, filelen, bytesrecv, file, exists, reply, sent, hdr, read,
                       failed, process>>
    BY <1>2 DEF Client!RecvEnd, Client!Return, Client!local, Client!server, Client!stream
  <2> QED
    BY <2>1 DEF ClientInv, Good, Filed, Client!FileKeptExactlyWhenComplete, Client!Ended
<1>3. CASE Client!RecvFails
  <2>1. CASE Client!Crash
    BY <2>1, ClientCrashStep DEF Client!Crash, Client!gfr, Client!local, Client!server,
       Client!stream
  <2>2. CASE failed' = TRUE /\ UNCHANGED <<pc, exists, reply, sent, hdr, read>>
    BY <1>3, <2>2 DEF Client!RecvFails, ClientInv, Good, Client!FileKeptExactlyWhenComplete,
       Client!Ended
  <2> QED
    BY <1>3, <2>1, <2>2 DEF Client!RecvFails, Client!server
<1>4. CASE Client!LoopEnds
  <2>1. /\ pc = "body" /\ bytesrecv >= filelen /\ pc' = "returned" /\ returncode' = "ok"
        /\ UNCHANGED <<status, filelen, bytesrecv, file, exists, reply, sent, hdr, read,
                       failed, process>>
    BY <1>4 DEF Client!LoopEnds, Client!Enough, Client!Return, Client!local, Client!server,
       Client!stream
  <2> QED
    BY <2>1 DEF ClientInv, Good, Filed, Client!FileKeptExactlyWhenComplete, Client!Ended
<1> QED
  BY <1>1, <1>2, <1>3, <1>4

(* What is kept is decided here: the whole of the argument on lengths.     *)
LEMMA ClientKeepStep ==
  ASSUME ClientConstants, ClientInv, Client!KeepOrUnlink
  PROVE  ClientInv'
<1>0. exists' = (returncode = "ok" /\ status = "OK")
  BY DEF Client!KeepOrUnlink
<1>1. /\ pc = "returned" /\ pc' = "cleanup" /\ exists' \in BOOLEAN
      /\ exists' <=> returncode = "ok" /\ status = "OK"
      /\ UNCHANGED <<status, filelen, bytesrecv, returncode, file, reply, sent, hdr, read,
                     failed, process>>
  BY <1>0 DEF Client!KeepOrUnlink, Client!gfr, Client!server, Client!stream
<1>2. reply.len \in 0 .. MaxLen /\ INT_MAX \in Nat /\ MaxLen \in Nat
  BY DEF ClientConstants, Client!CountsAssumption, Client!SizeAssumption,
         ClientInv, Client!Replies, Client!NoReply
<1>3. read \in Nat /\ sent \in Nat /\ read <= sent
      /\ sent <= reply.len + IF reply.st = "OK" THEN 1 ELSE 0
  BY DEF ClientInv
<1>4. read <= reply.len + 1
  BY <1>2, <1>3
<1>5. /\ reply.len <= INT_MAX => Client!AsSize(reply.len) = reply.len
      /\ INT_MAX < reply.len /\ reply.len <= 2 * INT_MAX + 1 =>
            ~ (read >= Client!AsSize(reply.len))
  BY <1>2, <1>3, <1>4, SizesRead
<1>6. ASSUME Good PROVE
        /\ reply.len <= INT_MAX =>
              (exists' <=> hdr = "read" /\ reply.st = "OK" /\ read >= reply.len)
        /\ reply.len > INT_MAX /\ exists' => reply.len > 2 * INT_MAX + 1
        /\ exists' => file = [b \in 1 .. read |-> b]
  <2>1. CASE returncode = "ok" /\ Filed /\ read >= filelen
    BY <1>1, <1>2, <1>3, <1>5, <2>1 DEF Filed
  <2>2. CASE returncode = "error" /\ (hdr # "read" \/ reply.st \notin Client!Valid)
    BY <1>1, <2>2 DEF Client!Valid
  <2>3. CASE returncode = "error" /\ Filed /\ read < filelen
    BY <1>1, <1>2, <1>3, <1>5, <2>3 DEF Filed
  <2> QED
    BY <1>1, <1>6, <2>1, <2>2, <2>3 DEF ClientInv
<1>7. Client!FileKeptExactlyWhenComplete'
  BY <1>1, <1>6 DEF Good, Client!FileKeptExactlyWhenComplete
<1> QED
  BY <1>1, <1>7 DEF ClientInv

LEMMA ClientNextInv ==
  ASSUME ClientConstants
  PROVE  ClientInv /\ [Client!Next]_(Client!vars) => ClientInv'
<1> SUFFICES ASSUME ClientInv, [Client!Next]_(Client!vars) PROVE ClientInv'
  OBVIOUS
<1>1. CASE UNCHANGED Client!vars
  BY <1>1 DEF Client!vars, Client!gfr, Client!local, Client!server, Client!stream,
     ClientInv, Good, Filed, Client!FileKeptExactlyWhenComplete, Client!Ended
<1>2. CASE Client!Cleanup
  <2>1. CASE Client!Crash
    BY <2>1, ClientCrashStep DEF Client!Crash, Client!gfr, Client!local, Client!server,
       Client!stream
  <2>2. CASE /\ pc' = "next"
             /\ UNCHANGED <<exists, reply, sent, hdr, read>>
    BY <2>2 DEF ClientInv, Client!FileKeptExactlyWhenComplete, Client!Ended
  <2> QED
    BY <1>2, <2>1, <2>2 DEF Client!Cleanup, Client!local, Client!server, Client!stream
<1> QED
  BY <1>1, <1>2, ClientBeginStep, ClientEarlySteps, ServerSteps, ClientHeaderSteps,
     ClientBodySteps, ClientKeepStep DEF Client!Next, Client!ClientStep

(* The inductive invariant of the client.                                  *)
THEOREM ClientInvariance ==
  ASSUME ClientConstants
  PROVE  Client!SafeSpec => []ClientInv
BY ClientInitInv, ClientNextInv, PTL DEF Client!SafeSpec

(* Whatever the server sends and wherever the stream is cut, the local     *)
(* file stays exactly when it is whole (gfclient_download.c:158-171).      *)
THEOREM FileKept ==
  ASSUME ClientConstants
  PROVE  Client!SafeSpec => []Client!FileKeptExactlyWhenComplete
<1>1. ClientInv => Client!FileKeptExactlyWhenComplete
  BY DEF ClientInv
<1> QED
  BY <1>1, ClientInvariance, PTL

(* No request leaves its socket open, whichever way gfc_perform returned:  *)
(* gfc_cleanup is what every way leads to (gfclient.c:272-276).            *)
THEOREM SocketsClosed ==
  ASSUME ClientConstants
  PROVE  Client!SafeSpec => []Client!NoSocketLeft
<1>1. Client!Init => Client!NoSocketLeft
  BY DEF Client!Init, Client!NoSocketLeft
<1>2. Client!NoSocketLeft /\ [Client!Next]_(Client!vars) => Client!NoSocketLeft'
  <2> SUFFICES ASSUME Client!NoSocketLeft, [Client!Next]_(Client!vars)
               PROVE  Client!NoSocketLeft'
    OBVIOUS
  <2>1. CASE Client!Cleanup
    BY <2>1 DEF Client!NoSocketLeft, Client!Cleanup, Client!Closed, Client!Crash, Client!gfr
  <2>2. CASE \/ Client!Begin \/ Client!OpenSocket \/ Client!Connect \/ Client!ConnectFails
             \/ Client!SendRequest \/ Client!KeepOrUnlink
    BY <2>2 DEF Client!NoSocketLeft, Client!Begin, Client!OpenSocket, Client!Connect,
       Client!ConnectFails, Client!Crash, Client!SendRequest, Client!KeepOrUnlink,
       Client!Return, Client!gfr
  <2>3. CASE \/ Client!RecvHeader \/ Client!RecvHeaderCut \/ Client!RecvNoHeader
    BY <2>3 DEF Client!NoSocketLeft, Client!RecvHeader, Client!RecvHeaderCut,
       Client!RecvNoHeader, Client!Return, Client!Crash, Client!gfr
  <2>4. CASE Client!RecvBody \/ Client!RecvEnd \/ Client!RecvFails \/ Client!LoopEnds
    BY <2>4 DEF Client!NoSocketLeft, Client!RecvBody, Client!RecvEnd, Client!RecvFails,
       Client!LoopEnds, Client!Return, Client!Crash, Client!gfr
  <2>5. CASE Client!Answer \/ Client!SendBody \/ Client!EndConnection
    BY <2>5 DEF Client!NoSocketLeft, Client!Answer, Client!SendBody, Client!EndConnection,
       Client!gfr
  <2>6. CASE UNCHANGED Client!vars
    BY <2>6 DEF Client!NoSocketLeft, Client!vars, Client!gfr
  <2> QED
    BY <2>1, <2>2, <2>3, <2>4, <2>5, <2>6 DEF Client!Next, Client!ClientStep
<1> QED
  BY <1>1, <1>2, PTL DEF Client!SafeSpec

(* A failed recv is that of a connection that was reset, and a header cut  *)
(* by recv leaves a count no length exceeds: in neither case is there a    *)
(* loop that goes on waiting.                                              *)
WaitInv ==
    /\ failed => peer = "reset"
    /\ pc \in {"socket", "connect"} => ~ failed
    /\ pc = "body" /\ hdr = "cut" => ~ (bytesrecv < filelen)

LEMMA SizesAreSizes ==
  ASSUME ClientConstants, NEW len \in 0 .. MaxLen
  PROVE  ~ (SIZE_MAX < Client!AsSize(len))
<1>1. INT_MAX \in Nat /\ SIZE_MAX \in Nat /\ MaxLen \in Nat /\ SIZE_MAX > MaxLen + INT_MAX + 1
  BY DEF ClientConstants, Client!CountsAssumption, Client!SizeAssumption
<1>2. PICK n \in Int : n = len % (2 * INT_MAX + 2) /\ n < 2 * INT_MAX + 2
  BY <1>1
<1>3. Client!AsSize(len) = IF n <= INT_MAX THEN n ELSE SIZE_MAX + 1 - (2 * INT_MAX + 2 - n)
  BY <1>2 DEF Client!AsSize
<1> QED
  BY <1>1, <1>2, <1>3

LEMMA WaitStep ==
  ASSUME ClientConstants
  PROVE  WaitInv /\ [Client!Next]_(Client!vars) => WaitInv'
<1> SUFFICES ASSUME WaitInv, [Client!Next]_(Client!vars) PROVE WaitInv'
  OBVIOUS
<1>1. CASE Client!RecvHeaderCut
  <2>1. /\ pc = "header" /\ UNCHANGED <<peer, failed>>
        /\ \/ pc' = "returned"
           \/ /\ bytesrecv' = SIZE_MAX
              /\ \E len \in 0 .. MaxLen : filelen' = Client!AsSize(len)
    BY <1>1 DEF Client!RecvHeaderCut, Client!Return, Client!server
  <2>2. pc' = "returned" \/ ~ (bytesrecv' < filelen')
    BY <2>1, SizesAreSizes
  <2>3. pc' \notin {"socket", "connect"}
    BY <1>1 DEF Client!RecvHeaderCut, Client!Return
  <2> QED
    BY <2>1, <2>2, <2>3 DEF WaitInv
<1>2. CASE Client!RecvBody \/ Client!RecvFails \/ Client!RecvEnd
  <2>1. hdr # "cut"
    <3>1. pc = "body" /\ bytesrecv < filelen
      BY <1>2 DEF Client!RecvBody, Client!RecvFails, Client!RecvEnd
    <3> QED
      BY <3>1 DEF WaitInv
  <2> QED
    BY <1>2, <2>1 DEF WaitInv, Client!RecvBody, Client!RecvFails, Client!RecvEnd,
       Client!Crash, Client!Return, Client!gfr, Client!server, Client!stream
<1>3. CASE Client!Begin
  BY <1>3 DEF WaitInv, Client!Begin
<1>4. CASE Client!SendRequest
  BY <1>4, Zenon DEF WaitInv, Client!SendRequest, Client!Return, Client!gfr,
     Client!server, Client!stream
<1>5. CASE Client!RecvNoHeader
  BY <1>5 DEF WaitInv, Client!RecvNoHeader, Client!Return, Client!gfr,
     Client!server, Client!stream
<1>6. CASE Client!OpenSocket \/ Client!Connect \/ Client!ConnectFails
  BY <1>6 DEF WaitInv, Client!OpenSocket, Client!Connect, Client!ConnectFails, Client!Crash,
     Client!Return, Client!gfr, Client!server, Client!stream
<1>7. CASE Client!RecvHeader
  BY <1>7 DEF WaitInv, Client!RecvHeader, Client!Crash, Client!Return, Client!gfr,
     Client!server, Client!stream
<1>8. CASE Client!LoopEnds \/ Client!KeepOrUnlink
  BY <1>8 DEF WaitInv, Client!LoopEnds, Client!KeepOrUnlink,
     Client!Return, Client!gfr, Client!server, Client!stream
<1>9. CASE Client!Cleanup
  BY <1>9 DEF WaitInv, Client!Cleanup, Client!Crash, Client!gfr, Client!server, Client!stream
<1>10. CASE Client!Answer \/ Client!EndConnection
  BY <1>10 DEF WaitInv, Client!Answer, Client!EndConnection, Client!Receiving, Client!gfr,
     Client!server, Client!stream
<1>11. CASE Client!SendBody
  BY <1>11, Zenon DEF WaitInv, Client!SendBody, Client!gfr, Client!stream
<1>12. CASE UNCHANGED Client!vars
  BY <1>12 DEF WaitInv, Client!vars, Client!gfr, Client!server, Client!stream
<1> QED
  BY <1>1, <1>2, <1>3, <1>4, <1>5, <1>6, <1>7, <1>8, <1>9, <1>10, <1>11, <1>12
  DEF Client!Next, Client!ClientStep

(* gfc_perform and a server that keeps the connection open do not wait on  *)
(* one another, unless the length announced was beyond int.                *)
THEOREM NoVainWait ==
  ASSUME ClientConstants
  PROVE  Client!SafeSpec => []Client!WaitsOnlyForTheRest
<1>1. Client!Init => WaitInv
  BY DEF Client!Init, WaitInv
<1>2. ClientInv /\ WaitInv => Client!WaitsOnlyForTheRest
  <2> SUFFICES ASSUME ClientInv, WaitInv, pc = "body", bytesrecv < filelen, read = sent,
                      peer = "open", ~ (reply.len > INT_MAX)
               PROVE  sent < reply.len
    BY DEF Client!WaitsOnlyForTheRest
  <2>1. hdr # "cut" /\ ~ failed
    BY DEF WaitInv
  <2>2. Filed
    BY <2>1 DEF ClientInv, Good
  <2>3. reply.len \in 0 .. MaxLen /\ INT_MAX \in Nat
    BY DEF ClientConstants, Client!CountsAssumption, Client!SizeAssumption,
       ClientInv, Client!Replies, Client!NoReply
  <2>4. filelen = reply.len
    BY <2>2, <2>3, SizesRead DEF Filed
  <2> QED
    BY <2>2, <2>4 DEF Filed
<1> QED
  BY <1>1, <1>2, ClientInvariance, WaitStep, PTL DEF Client!SafeSpec

-----------------------------------------------------------------------------
(* Command lines and input files, with variables of their own.             *)
CONSTANTS Texts, Word, None, MaxArgs, MaxFile, MAX_KEYLEN, MAX_WORD, MAX_PATHS
VARIABLES prog, argv, optind, val, stage, chars, at, table

Startup == INSTANCE Startup WITH phase <- stage, file <- chars

StartupConstants ==
    /\ Startup!TextsAssumption /\ Startup!SizesAssumption

(* What l was told by the first n options.                                 *)
Given(l, n) == {j \in 1 .. n : argv[j].letter = l}
ToldBy(l, n) == IF Given(l, n) = {} THEN prog.default[l]
                ELSE Startup!Convert(prog.cases[l], argv[Startup!Max(Given(l, n))].text)

(* The server and the cache daemon that check their number of threads.     *)
Counting == {Startup!mtgfserver, Startup!simplecached}

Threads  == 1 .. 1024

OptionInv ==
    /\ prog \in Startup!Programs /\ argv \in Seq(Startup!Arguments)
    /\ val \in [DOMAIN prog.default -> Int] /\ optind \in 1 .. Len(argv) + 1
    /\ stage = "options" =>
          \A n \in Nat : n + 1 = optind => \A l \in DOMAIN val : val[l] = ToldBy(l, n)
    /\ stage \in {"open", "read", "ready", "overrun"} => optind = Len(argv) + 1
    /\ stage \in {"open", "read", "ready"} =>
          /\ prog \in Counting => val["t"] >= 1
          /\ \A n \in Nat : n = Len(argv) => \A l \in DOMAIN val :
                val[l] # ToldBy(l, n) =>
                    l = "t" /\ val["t"] = 1 /\ ToldBy(l, n) \notin Threads
    /\ stage = "exit" /\ optind <= Len(argv) => Startup!Stops(argv[optind])
    /\ stage \in {"options", "open", "read", "ready", "overrun", "exit"}

(* What is needed of the ten programs.                                     *)
LEMMA CountingHasThreads ==
  ASSUME NEW P \in Counting
  PROVE  "t" \in DOMAIN P.default
<1>1. CASE P = Startup!mtgfserver
  BY <1>1 DEF Startup!mtgfserver
<1>2. CASE P = Startup!simplecached
  BY <1>2 DEF Startup!simplecached
<1> QED
  BY <1>1, <1>2 DEF Counting

LEMMA DefaultsAreNumbers ==
  ASSUME StartupConstants, NEW P \in Startup!Programs
  PROVE  P.default \in [DOMAIN P.default -> Int]
<1>1. Word \in Int
  BY DEF StartupConstants, Startup!TextsAssumption
<1>2. CASE P = Startup!echoserver
  BY <1>1, <1>2 DEF Startup!echoserver
<1>3. CASE P = Startup!echoclient
  BY <1>1, <1>3 DEF Startup!echoclient
<1>4. CASE P = Startup!transferserver
  BY <1>1, <1>4 DEF Startup!transferserver
<1>5. CASE P = Startup!transferclient
  BY <1>1, <1>5 DEF Startup!transferclient
<1>6. CASE P = Startup!gfserver
  BY <1>1, <1>6 DEF Startup!gfserver
<1>7. CASE P = Startup!mtgfserver
  BY <1>1, <1>7 DEF Startup!mtgfserver
<1>8. CASE P = Startup!gfclient
  BY <1>1, <1>8 DEF Startup!gfclient
<1>9. CASE P = Startup!mtgfclient
  BY <1>1, <1>9 DEF Startup!mtgfclient
<1>10. CASE P = Startup!webproxy
  BY <1>1, <1>10 DEF Startup!webproxy
<1>11. CASE P = Startup!simplecached
  BY <1>1, <1>11 DEF Startup!simplecached
<1> QED
  BY <1>2, <1>3, <1>4, <1>5, <1>6, <1>7, <1>8, <1>9, <1>10, <1>11 DEF Startup!Programs

(* What USAGE documents, each program accepts, but for three cases.        *)
DocumentedFor(P, a) ==
    \/ a.letter \notin P.usage \/ a.letter = "h" \/ a.text = None
    \/ P = Startup!gfserver /\ a.letter = "c"
    \/ P = Startup!webproxy /\ a.letter = "d"
    \/ P = Startup!gfclient /\ a.letter = "t" /\ Startup!Atoi(a.text) # 1

LEMMA StopsDocumented ==
  ASSUME prog \in Startup!Programs, NEW a, Startup!Stops(a)
  PROVE  DocumentedFor(prog, a)
<1> SUFFICES ASSUME a.letter \in prog.usage \ {"h"}, a.text # None
             PROVE  \/ prog = Startup!gfserver /\ a.letter = "c"
                    \/ prog = Startup!webproxy /\ a.letter = "d"
                    \/ prog = Startup!gfclient /\ a.letter = "t" /\ Startup!Atoi(a.text) # 1
  BY DEF DocumentedFor
<1>1. \/ a.letter \notin prog.opts \cap DOMAIN prog.cases
      \/ prog.cases[a.letter] = "help"
      \/ prog.cases[a.letter] = "one" /\ Startup!Atoi(a.text) # 1
  BY DEF Startup!Stops
<1>2. CASE prog = Startup!echoserver
  BY <1>1, <1>2 DEF Startup!echoserver
<1>3. CASE prog = Startup!echoclient
  BY <1>1, <1>3 DEF Startup!echoclient
<1>4. CASE prog = Startup!transferserver
  BY <1>1, <1>4 DEF Startup!transferserver
<1>5. CASE prog = Startup!transferclient
  BY <1>1, <1>5 DEF Startup!transferclient
<1>6. CASE prog = Startup!gfserver
  <2>1. prog.usage \ {"h"} = {"p", "c"} /\ "p" \in prog.opts /\ prog.cases["p"] = "short"
        /\ "p" \in DOMAIN prog.cases
    BY <1>6 DEF Startup!gfserver
  <2> QED
    BY <1>1, <1>6, <2>1
<1>7. CASE prog = Startup!mtgfserver
  BY <1>1, <1>7 DEF Startup!mtgfserver, Startup!mtserverUsage
<1>8. CASE prog = Startup!gfclient
  <2>1. /\ prog.usage \ {"h"} = {"s", "p", "w", "t", "n"}
        /\ {"s", "p", "w", "t", "n"} \subseteq prog.opts \cap DOMAIN prog.cases
        /\ prog.cases["s"] = "name" /\ prog.cases["p"] = "short" /\ prog.cases["w"] = "name"
        /\ prog.cases["n"] = "int" /\ prog.cases["t"] = "one"
    BY <1>8 DEF Startup!gfclient, Startup!clientUsage
  <2> QED
    BY <1>1, <1>8, <2>1
<1>9. CASE prog = Startup!mtgfclient
  BY <1>1, <1>9 DEF Startup!mtgfclient, Startup!mtclientUsage
<1>10. CASE prog = Startup!webproxy
  <2>1. /\ prog.usage \ {"h"} = {"p", "t", "s", "d"}
        /\ {"p", "t", "s"} \subseteq prog.opts \cap DOMAIN prog.cases
        /\ prog.cases["s"] = "name" /\ prog.cases["p"] = "short" /\ prog.cases["t"] = "short"
    BY <1>10 DEF Startup!webproxy, Startup!proxyUsage
  <2> QED
    BY <1>1, <1>10, <2>1
<1>11. CASE prog = Startup!simplecached
  BY <1>1, <1>11 DEF Startup!simplecached
<1> QED
  BY <1>2, <1>3, <1>4, <1>5, <1>6, <1>7, <1>8, <1>9, <1>10, <1>11 DEF Startup!Programs

LEMMA ConvertedIsNumber ==
  ASSUME StartupConstants, NEW a \in Startup!Arguments, NEW type
  PROVE  Startup!Convert(type, a.text) \in Int
<1>1. a.text \in Int
  BY DEF StartupConstants, Startup!TextsAssumption, Startup!Arguments
<1>2. Startup!Atoi(a.text) \in Int
  BY <1>1 DEF Startup!Atoi
<1>3. Startup!Atoi(a.text) % 65536 \in Int
  BY <1>2
<1> QED
  BY <1>1, <1>2, <1>3 DEF Startup!Convert

(* The last argument of its letter counts.                                 *)
LEMMA GivenGrows ==
  ASSUME NEW n \in Nat, NEW l
  PROVE  /\ Given(l, 0) = {}
         /\ argv[n + 1].letter # l => ToldBy(l, n + 1) = ToldBy(l, n)
         /\ argv[n + 1].letter = l =>
               ToldBy(l, n + 1) = Startup!Convert(prog.cases[l], argv[n + 1].text)
<1>1. Given(l, 0) = {}
  BY DEF Given
<1>2. ASSUME argv[n + 1].letter # l PROVE ToldBy(l, n + 1) = ToldBy(l, n)
  <2>1. Given(l, n + 1) = Given(l, n)
    BY <1>2 DEF Given
  <2> QED
    BY <2>1 DEF ToldBy
<1>3. ASSUME argv[n + 1].letter = l
      PROVE  ToldBy(l, n + 1) = Startup!Convert(prog.cases[l], argv[n + 1].text)
  <2>1. n + 1 \in Given(l, n + 1) /\ \A j \in Given(l, n + 1) : j \in Int /\ n + 1 >= j
    BY <1>3 DEF Given
  <2>2. Startup!Max(Given(l, n + 1)) \in Given(l, n + 1)
        /\ \A j \in Given(l, n + 1) : Startup!Max(Given(l, n + 1)) >= j
    BY <2>1 DEF Startup!Max
  <2>3. Startup!Max(Given(l, n + 1)) = n + 1
    BY <2>1, <2>2
  <2> QED
    BY <2>1, <2>3 DEF ToldBy
<1> QED
  BY <1>1, <1>2, <1>3

LEMMA ToldKept ==
  ASSUME UNCHANGED <<prog, argv>>, NEW l, NEW n
  PROVE  ToldBy(l, n)' = ToldBy(l, n)
<1>1. Given(l, n)' = Given(l, n)
  BY DEF Given
<1>2. PICK S : S = Given(l, n)
  OBVIOUS
<1>3. PICK m : m = Startup!Max(S)
  OBVIOUS
<1> QED
  BY <1>1, <1>2, <1>3 DEF ToldBy, Startup!Max, Startup!Convert, Startup!Atoi

LEMMA OptionStep ==
  ASSUME StartupConstants, OptionInv, Startup!Option
  PROVE  OptionInv'
<1>1. /\ stage = "options" /\ optind <= Len(argv) /\ UNCHANGED <<prog, argv>>
      /\ prog \in Startup!Programs /\ argv \in Seq(Startup!Arguments)
      /\ val \in [DOMAIN prog.default -> Int] /\ optind \in 1 .. Len(argv) + 1
      /\ \A n \in Nat : n + 1 = optind => \A l \in DOMAIN val : val[l] = ToldBy(l, n)
  BY DEF OptionInv, Startup!Option
<1>2. PICK k \in Nat : k + 1 = optind /\ k + 1 \in 1 .. Len(argv) /\ k + 2 \in 1 .. Len(argv) + 1
  <2>1. Len(argv) \in Nat
    BY <1>1, LenProperties
  <2>2. PICK k \in Nat : k = optind - 1
    BY <1>1
  <2> QED
    BY <1>1, <2>1, <2>2
<1>3. PICK a \in Startup!Arguments : a = argv[k + 1]
  BY <1>1, <1>2, ElementOfSeq
<1>4. CASE Startup!Stops(a)
  <2>1. stage' = "exit" /\ UNCHANGED <<optind, val>>
    BY <1>2, <1>3, <1>4 DEF Startup!Option
  <2>2. Startup!Stops(a)' /\ argv'[optind'] = a
    BY <1>1, <1>2, <1>3, <1>4, <2>1 DEF Startup!Stops, Startup!Atoi
  <2>3. Startup!Stops(argv[optind])'
    BY <2>2
  <2> QED
    BY <1>1, <1>2, <2>1, <2>3 DEF OptionInv
<1>5. CASE ~ Startup!Stops(a)
  <2>1. /\ val' = [val EXCEPT ![a.letter] = Startup!Convert(prog.cases[a.letter], a.text)]
        /\ optind' = optind + 1 /\ stage' = stage
    BY <1>2, <1>3, <1>5 DEF Startup!Option
  <2>2. val' \in [DOMAIN prog.default -> Int]
    BY <1>1, <2>1, ConvertedIsNumber
  <2>3. ASSUME NEW l \in DOMAIN val' PROVE val'[l] = ToldBy(l, k + 1)
    <3>1. l \in DOMAIN val /\ val[l] = ToldBy(l, k)
      BY <1>1, <1>2, <2>2, <2>3
    <3>2. CASE l = a.letter
      <4>1. ToldBy(l, k + 1) = Startup!Convert(prog.cases[l], a.text)
        BY <1>2, <1>3, <3>2, GivenGrows
      <4> QED
        BY <1>1, <2>1, <3>1, <3>2, <4>1
    <3>3. CASE l # a.letter
      <4>1. ToldBy(l, k + 1) = ToldBy(l, k)
        BY <1>2, <1>3, <3>3, GivenGrows
      <4> QED
        BY <1>1, <2>1, <3>1, <3>3, <4>1
    <3> QED
      BY <3>2, <3>3
  <2>4. ASSUME NEW n \in Nat, n + 1 = optind', NEW l \in DOMAIN val'
        PROVE  val'[l] = ToldBy(l, n)'
    <3>1. n = k + 1
      BY <1>2, <2>1, <2>4
    <3> QED
      BY <1>1, <2>3, <3>1, ToldKept
  <2>5. optind' \in 1 .. Len(argv) + 1
    BY <1>2, <2>1
  <2> QED
    BY <1>1, <2>1, <2>2, <2>4, <2>5 DEF OptionInv
<1> QED
  BY <1>4, <1>5

LEMMA CheckedStep ==
  ASSUME StartupConstants, OptionInv, Startup!Checked
  PROVE  OptionInv'
<1>1. /\ stage = "options" /\ optind > Len(argv) /\ UNCHANGED <<prog, argv, optind>>
      /\ prog \in Startup!Programs /\ argv \in Seq(Startup!Arguments)
      /\ val \in [DOMAIN prog.default -> Int] /\ optind \in 1 .. Len(argv) + 1
      /\ \A n \in Nat : n + 1 = optind => \A l \in DOMAIN val : val[l] = ToldBy(l, n)
      /\ stage' \in {"ready", "open"}
  BY DEF OptionInv, Startup!Checked
<1>2. Len(argv) \in Nat /\ Len(argv) + 1 = optind
  <2>1. Len(argv) \in Nat
    BY <1>1, LenProperties
  <2> QED
    BY <1>1, <2>1
<1>3. \A l \in DOMAIN val : val[l] = ToldBy(l, Len(argv))
  BY <1>1, <1>2
<1>4. prog \in Counting => "t" \in DOMAIN val /\ val["t"] \in Int
  BY <1>1, CountingHasThreads
<1>5. CASE Startup!TooFewOrMany
  <2>1. val' = [val EXCEPT !["t"] = 1]
    BY <1>5 DEF Startup!Checked
  <2>2. prog \in Counting /\ val["t"] \notin Threads
    BY <1>5 DEF Startup!TooFewOrMany, Counting, Threads
  <2>3. val' \in [DOMAIN prog.default -> Int] /\ val'["t"] = 1
        /\ \A l \in DOMAIN val : l # "t" => val'[l] = val[l]
    <3>1. PICK D : D = DOMAIN prog.default
      OBVIOUS
    <3>2. val \in [D -> Int] /\ "t" \in D
      BY <1>1, <1>4, <2>2, <3>1
    <3>3. val' \in [D -> Int] /\ val'["t"] = 1 /\ \A l \in D : l # "t" => val'[l] = val[l]
      BY <2>1, <3>2
    <3> QED
      BY <3>1, <3>2, <3>3
  <2>4. ASSUME NEW n \in Nat, n = Len(argv'), NEW l \in DOMAIN val', val'[l] # ToldBy(l, n)'
        PROVE  l = "t" /\ ToldBy(l, n)' \notin Threads
    <3>1. n = Len(argv) /\ l \in DOMAIN val /\ ToldBy(l, n)' = ToldBy(l, n)
      BY <1>1, <2>3, <2>4, ToldKept
    <3>2. ToldBy(l, n)' = val[l]
      BY <1>3, <3>1
    <3>3. l = "t"
      BY <2>3, <2>4, <3>1, <3>2
    <3> QED
      BY <2>2, <3>2, <3>3
  <2> QED
    BY <1>1, <1>2, <2>3, <2>4 DEF OptionInv
<1>6. CASE ~ Startup!TooFewOrMany
  <2>1. val' = val
    BY <1>6 DEF Startup!Checked
  <2>2. prog \in Counting => val["t"] >= 1
    BY <1>4, <1>6 DEF Startup!TooFewOrMany, Counting
  <2>3. ASSUME NEW n \in Nat, n = Len(argv'), NEW l \in DOMAIN val'
        PROVE  val'[l] = ToldBy(l, n)'
    <3>1. n = Len(argv) /\ l \in DOMAIN val /\ ToldBy(l, n)' = ToldBy(l, n)
      BY <1>1, <2>1, <2>3, ToldKept
    <3> QED
      BY <1>3, <2>1, <3>1
  <2> QED
    BY <1>1, <1>2, <2>1, <2>2, <2>3 DEF OptionInv
<1> QED
  BY <1>5, <1>6

LEMMA OptionsKept ==
  ASSUME OptionInv, UNCHANGED <<prog, argv, optind, val>>,
         \/ stage' = stage
         \/ stage \in {"open", "read"} /\ stage' \in {"read", "ready", "overrun", "exit"}
  PROVE  OptionInv'
<1>1. Startup!Stops(argv[optind])' <=> Startup!Stops(argv[optind])
  BY DEF Startup!Stops, Startup!Atoi
<1>2. Len(argv) \in Nat /\ optind \in 1 .. Len(argv) + 1
  BY LenProperties DEF OptionInv
<1>3. stage' # stage => optind = Len(argv) + 1 /\ ~ (optind <= Len(argv))
  BY <1>2 DEF OptionInv
<1>4. ASSUME stage' = "options", NEW n \in Nat, n + 1 = optind, NEW l \in DOMAIN val
      PROVE  val[l] = ToldBy(l, n)'
  BY <1>4, ToldKept DEF OptionInv
<1>5. ASSUME stage' \in {"open", "read", "ready"}
      PROVE  /\ stage \in {"open", "read", "ready"} /\ (prog \in Counting => val["t"] >= 1)
             /\ optind = Len(argv) + 1
  BY <1>5 DEF OptionInv
<1>6. ASSUME stage' \in {"open", "read", "ready"}, NEW n \in Nat, n = Len(argv),
             NEW l \in DOMAIN val, val[l] # ToldBy(l, n)'
      PROVE  l = "t" /\ val["t"] = 1 /\ ToldBy(l, n)' \notin Threads
  <2>1. ToldBy(l, n)' = ToldBy(l, n)
    BY ToldKept
  <2>2. val[l] # ToldBy(l, n)
    BY <1>6, <2>1
  <2>3. l = "t" /\ val["t"] = 1 /\ ToldBy(l, n) \notin Threads
    <3>1. \A k \in Nat : k = Len(argv) => \A m \in DOMAIN val :
             val[m] # ToldBy(m, k) => m = "t" /\ val["t"] = 1 /\ ToldBy(m, k) \notin Threads
      BY <1>5, <1>6 DEF OptionInv
    <3> QED
      BY <1>6, <2>2, <3>1, Zenon
  <2> QED
    BY <2>1, <2>3
<1>7. stage' = "exit" /\ optind <= Len(argv) => Startup!Stops(argv[optind])'
  BY <1>1, <1>3 DEF OptionInv
<1>8. /\ prog' \in Startup!Programs /\ argv' \in Seq(Startup!Arguments)
      /\ val' \in [DOMAIN prog'.default -> Int] /\ optind' \in 1 .. Len(argv') + 1
      /\ stage' \in {"options", "open", "read", "ready", "overrun", "exit"}
      /\ stage' = "overrun" => optind' = Len(argv') + 1
  BY <1>3 DEF OptionInv
<1> QED
  BY <1>4, <1>5, <1>6, <1>7, <1>8 DEF OptionInv, Counting

LEMMA OptionsTold == ASSUME OptionInv PROVE Startup!OptionsAsTold
<1>1. prog \in Startup!Programs /\ Len(argv) \in Nat
  BY LenProperties DEF OptionInv
<1>2. Startup!StartsAsTold
  <2> SUFFICES ASSUME stage \in {"open", "ready"}
               PROVE  /\ prog \in Counting => val.t >= 1
                      /\ \A l \in DOMAIN val :
                            val[l] # ToldBy(l, Len(argv)) =>
                                l = "t" /\ val.t = 1 /\ ToldBy(l, Len(argv)) \notin Threads
    BY DEF Startup!StartsAsTold, Counting, ToldBy, Given, Threads
  <2> QED
    BY <1>1 DEF OptionInv
<1>3. Startup!DocumentedIsAccepted
  <2> SUFFICES ASSUME stage = "exit", optind <= Len(argv)
               PROVE  DocumentedFor(prog, argv[optind])
    BY DEF Startup!DocumentedIsAccepted, DocumentedFor
  <2> QED
    BY <1>1, StopsDocumented DEF OptionInv
<1> QED
  BY <1>2, <1>3 DEF Startup!OptionsAsTold


(* What the command line and the file are made of.                         *)
LEMMA UptoIsSeq ==
  ASSUME NEW n \in Nat, NEW S, NEW s \in Startup!Upto(n, S)
  PROVE  s \in Seq(S)
<1>1. PICK k \in 0 .. n : s \in [1 .. k -> S]
  BY DEF Startup!Upto
<1>2. k \in Nat
  BY <1>1
<1> QED
  BY <1>1, <1>2, SeqDef

LEMMA OptionInit ==
  ASSUME StartupConstants, Startup!Init
  PROVE  OptionInv
<1>1. /\ prog \in Startup!Programs /\ optind = 1 /\ val = prog.default /\ stage = "options"
      /\ argv \in Startup!Upto(MaxArgs, Startup!Arguments) \/ argv = <<>>
  BY DEF Startup!Init
<1>2. argv \in Seq(Startup!Arguments)
  <2>1. MaxArgs \in Nat
    BY DEF StartupConstants, Startup!SizesAssumption
  <2> QED
    BY <1>1, <2>1, UptoIsSeq, EmptySeq
<1>3. val \in [DOMAIN prog.default -> Int]
  BY <1>1, DefaultsAreNumbers
<1>4. ASSUME NEW n \in Nat, n + 1 = optind, NEW l \in DOMAIN val
      PROVE  val[l] = ToldBy(l, n)
  <2>1. n = 0
    BY <1>1, <1>4
  <2>2. Given(l, n) = {}
    BY <2>1, GivenGrows
  <2> QED
    BY <1>1, <2>2 DEF ToldBy
<1>5. optind \in 1 .. Len(argv) + 1
  <2>1. Len(argv) \in Nat
    BY <1>2, LenProperties
  <2> QED
    BY <1>1, <2>1
<1> QED
  BY <1>1, <1>2, <1>3, <1>4, <1>5 DEF OptionInv

LEMMA OptionNext ==
  ASSUME StartupConstants, OptionInv, [Startup!Next]_(Startup!vars)
  PROVE  OptionInv'
<1>1. CASE Startup!Option
  BY <1>1, OptionStep
<1>2. CASE Startup!Checked
  BY <1>2, CheckedStep
<1>3. CASE Startup!Open
  BY <1>3, OptionsKept DEF Startup!Open, Startup!opts
<1>4. CASE Startup!ReadLine
  BY <1>4, OptionsKept DEF Startup!ReadLine, Startup!opts
<1>5. CASE Startup!ReadWord
  BY <1>5, OptionsKept DEF Startup!ReadWord, Startup!opts
<1>6. CASE Startup!EndOfFile
  BY <1>6, OptionsKept DEF Startup!EndOfFile, Startup!opts
<1>7. CASE UNCHANGED Startup!vars
  BY <1>7, OptionsKept DEF Startup!vars
<1> QED
  BY <1>1, <1>2, <1>3, <1>4, <1>5, <1>6, <1>7
  DEF Startup!Next, Startup!content_init, Startup!gfcontent_init, Startup!simplecache_init,
      Startup!workload_init, Startup!gfworkload_init

(* Every program that starts does so with the last text of each option, as *)
(* far as its type holds it, or the default, and stops only for what USAGE *)
(* does not document: for any texts and command lines of any length.       *)
THEOREM OptionsKeptAsTold ==
  ASSUME StartupConstants
  PROVE  Startup!Spec => []Startup!OptionsAsTold
<1>1. Startup!Init => OptionInv
  BY OptionInit
<1>2. OptionInv /\ [Startup!Next]_(Startup!vars) => OptionInv'
  BY OptionNext
<1>3. OptionInv => Startup!OptionsAsTold
  BY OptionsTold
<1> QED
  BY <1>1, <1>2, <1>3, PTL DEF Startup!Spec

(* Every set of natural numbers that is not empty has a smallest element.  *)
Less == {ss \in Nat \X Nat : ss[1] < ss[2]}

LEMMA LessWellFounded == IsWellFoundedOn(Less, Nat)
BY NatLessThanWellFounded DEF OpToRel, Less

LEMMA SmallestIn ==
  ASSUME NEW S \in SUBSET Nat, S # {}
  PROVE  /\ Startup!Min(S) \in S /\ Startup!Min(S) \in Nat
         /\ \A y \in S : Startup!Min(S) <= y
<1>1. PICK x \in S : \A y \in S : <<y, x>> \notin Less
  BY LessWellFounded, WFMin, Zenon
<1>2. ASSUME NEW y \in S PROVE x <= y
  <2>1. x \in Nat /\ y \in Nat
    BY <1>2
  <2>2. y < x => <<y, x>> \in Less
    BY <2>1 DEF Less
  <2> QED
    BY <1>1, <2>1, <2>2
<1>3. \E z \in S : \A y \in S : z <= y
  BY <1>2
<1> QED
  BY <1>3 DEF Startup!Min

LEMMA IntervalEnds ==
  ASSUME NEW a \in Nat, NEW b \in Nat, a <= b
  PROVE  Startup!Max(a .. b) = b /\ Startup!Min(a .. b) = a
<1>1. b \in a .. b /\ \A y \in a .. b : b >= y
  OBVIOUS
<1>2. Startup!Max(a .. b) \in a .. b /\ \A y \in a .. b : Startup!Max(a .. b) >= y
  BY <1>1 DEF Startup!Max
<1>3. a \in a .. b /\ \A y \in a .. b : a <= y
  OBVIOUS
<1>4. Startup!Min(a .. b) \in a .. b /\ \A y \in a .. b : Startup!Min(a .. b) <= y
  BY <1>3 DEF Startup!Min
<1> QED
  BY <1>1, <1>2, <1>3, <1>4

(* Up to here the words have been read, each as it stands in the file.     *)
Characters == {"letter", "sep", "newline"}
LettersTo(n) == {j \in 1 .. Len(chars) : chars[j] = "letter" /\ j < n}
WordsApart(s, t) ==
    \E j \in 1 .. Len(chars) : /\ chars[j] # "letter"
                               /\ (\A x \in s : x < j) /\ (\A y \in t : j < y)

WordInv ==
    /\ at \in 1 .. Len(chars) + 1 /\ table \in Seq(SUBSET Nat)
    /\ \A n \in 1 .. Len(table) : \E a \in Nat, b \in Nat : a <= b /\ table[n] = a .. b
    /\ UNION {table[n] : n \in 1 .. Len(table)} = LettersTo(at)
    /\ table # <<>> /\ at <= Len(chars) => chars[at] # "letter"
    /\ \A n \in 1 .. Len(table) : n + 1 <= Len(table) => WordsApart(table[n], table[n + 1])

(* The next word: it begins at the next letter and ends before the next    *)
(* character that is none.                                                 *)
LEMMA NextWord ==
  ASSUME chars \in Seq(Characters), at \in 1 .. Len(chars) + 1,
         \E j \in Startup!Rest : chars[j] = "letter",
         NEW first, first = Startup!Min({j \in Startup!Rest : chars[j] = "letter"}),
         NEW last, last = Startup!WordEnd(first)
  PROVE  /\ first \in at .. Len(chars) /\ last \in first .. Len(chars)
         /\ \A j \in at .. first - 1 : chars[j] # "letter"
         /\ \A j \in first .. last : chars[j] = "letter"
         /\ last + 1 \in 1 .. Len(chars) => chars[last + 1] # "letter"
<1>1. Len(chars) \in Nat /\ Startup!Rest = at .. Len(chars) /\ at \in Nat /\ at >= 1
  BY LenProperties DEF Startup!Rest
<1>2. PICK S \in SUBSET Nat : S = {j \in Startup!Rest : chars[j] = "letter"}
  <2>1. {j \in Startup!Rest : chars[j] = "letter"} \in SUBSET Nat
    BY <1>1
  <2> QED
    BY <2>1
<1>3. first \in S /\ first \in Nat /\ \A y \in S : first <= y
  <2>1. S # {}
    BY <1>2
  <2>2. first = Startup!Min(S)
    BY <1>2, Zenon
  <2> QED
    BY <1>2, <2>1, <2>2, SmallestIn
<1>4. first \in at .. Len(chars) /\ chars[first] = "letter"
  BY <1>1, <1>2, <1>3
<1>5. \A j \in at .. first - 1 : chars[j] # "letter"
  BY <1>1, <1>2, <1>3, <1>4
<1>6. PICK T \in SUBSET Nat : T = {j \in Startup!Rest : j > first /\ chars[j] # "letter"}
                                    \cup {Len(chars) + 1}
  <2>1. {j \in Startup!Rest : j > first /\ chars[j] # "letter"} \cup {Len(chars) + 1} \in SUBSET Nat
    BY <1>1
  <2> QED
    BY <2>1
<1>7. PICK e \in Nat : e = Startup!Min(T) /\ e \in T /\ \A y \in T : e <= y
  <2>1. T # {}
    BY <1>6
  <2> QED
    BY <2>1, SmallestIn
<1>8. last = e - 1
  BY <1>6, <1>7 DEF Startup!WordEnd, Startup!FirstIn
<1>9. first < e /\ e <= Len(chars) + 1 /\ (e <= Len(chars) => chars[e] # "letter")
  BY <1>1, <1>4, <1>6, <1>7
<1>10. \A j \in first .. e - 1 : chars[j] = "letter"
  <2> SUFFICES ASSUME NEW j \in first .. e - 1, chars[j] # "letter" PROVE FALSE
    OBVIOUS
  <2>1. j # first /\ j > first /\ j \in at .. Len(chars)
    BY <1>1, <1>4, <1>9
  <2>2. j \in T
    BY <1>1, <1>6, <2>1
  <2> QED
    BY <1>7, <2>2
<1>11. last + 1 = e /\ last \in first .. Len(chars) /\ first .. last = first .. e - 1
  BY <1>1, <1>4, <1>7, <1>8, <1>9
<1>12. e \in 1 .. Len(chars) => chars[e] # "letter"
  BY <1>1, <1>7, <1>9
<1> QED
  BY <1>4, <1>5, <1>10, <1>11, <1>12

LEMMA WordStep ==
  ASSUME chars \in Seq(Characters), WordInv, Startup!ReadWord, stage' = "read"
  PROVE  WordInv'
<1>1. Len(chars) \in Nat /\ at \in 1 .. Len(chars) + 1 /\ chars' = chars
      /\ \E j \in Startup!Rest : chars[j] = "letter"
  BY LenProperties DEF WordInv, Startup!ReadWord
<1>2. PICK first : first = Startup!Min({j \in Startup!Rest : chars[j] = "letter"})
  OBVIOUS
<1>3. PICK last : last = Startup!WordEnd(first)
  OBVIOUS
<1>4. /\ first \in at .. Len(chars) /\ last \in first .. Len(chars)
      /\ \A j \in at .. first - 1 : chars[j] # "letter"
      /\ \A j \in first .. last : chars[j] = "letter"
      /\ last + 1 \in 1 .. Len(chars) => chars[last + 1] # "letter"
  BY <1>1, <1>2, <1>3, NextWord
<1>5. at' = last + 1 /\ table' = Append(table, first .. last)
  BY <1>2, <1>3 DEF Startup!ReadWord
<1>6. first \in Nat /\ last \in Nat /\ at \in Nat /\ first <= last
  BY <1>1, <1>4
<1>7. PICK L \in Nat : L = Len(table)
  BY LenProperties DEF WordInv
<1>8. /\ table' \in Seq(SUBSET Nat) /\ Len(table') = L + 1 /\ table'[L + 1] = first .. last
      /\ \A n \in 1 .. L : table'[n] = table[n]
  <2>1. first .. last \in SUBSET Nat /\ table \in Seq(SUBSET Nat)
    BY <1>6 DEF WordInv
  <2> QED
    BY <1>5, <1>7, <2>1, AppendProperties
<1>9. \A n \in 1 .. L : \E a \in Nat, b \in Nat : a <= b /\ table[n] = a .. b
  BY <1>7 DEF WordInv
<1>10. \A n \in 1 .. L + 1 : \E a \in Nat, b \in Nat : a <= b /\ table'[n] = a .. b
  <2> TAKE n \in 1 .. L + 1
  <2>1. CASE n \in 1 .. L
    BY <1>8, <1>9, <2>1
  <2>2. CASE n = L + 1
    BY <1>6, <1>8, <2>2
  <2> QED
    BY <2>1, <2>2
<1>11. UNION {table[n] : n \in 1 .. L} = LettersTo(at)
  BY <1>7 DEF WordInv
<1>12. UNION {table'[n] : n \in 1 .. L + 1} = LettersTo(at) \cup (first .. last)
  <2>1. 1 .. L + 1 = (1 .. L) \cup {L + 1}
    OBVIOUS
  <2>2. \A n \in 1 .. L + 1 : n \in 1 .. L \/ n = L + 1
    BY <2>1
  <2>3. ASSUME NEW x \in UNION {table'[n] : n \in 1 .. L + 1}
        PROVE  x \in LettersTo(at) \cup (first .. last)
    <3>1. PICK n \in 1 .. L + 1 : x \in table'[n]
      BY <2>3
    <3> QED
      BY <1>8, <1>11, <2>2, <3>1
  <2>4. ASSUME NEW x \in LettersTo(at) \cup (first .. last)
        PROVE  x \in UNION {table'[n] : n \in 1 .. L + 1}
    <3>1. CASE x \in first .. last
      <4>1. x \in table'[L + 1] /\ L + 1 \in 1 .. L + 1
        BY <1>8, <3>1
      <4> QED
        BY <4>1
    <3>2. CASE x \in LettersTo(at)
      <4>1. PICK n \in 1 .. L : x \in table[n]
        BY <1>11, <3>2
      <4>2. x \in table'[n] /\ n \in 1 .. L + 1
        BY <1>8, <2>1, <4>1
      <4> QED
        BY <4>2
    <3> QED
      BY <2>4, <3>1, <3>2
  <2> QED
    BY <2>3, <2>4
<1>13. LettersTo(at) \cup (first .. last) = LettersTo(last + 1)
  BY <1>1, <1>4, <1>6 DEF LettersTo
<1>14. ASSUME NEW n \in 1 .. L + 1, n + 1 <= L + 1
       PROVE  WordsApart(table'[n], table'[n + 1])
  <2>1. CASE n + 1 <= L
    <3>1. n \in 1 .. L /\ n + 1 \in 1 .. L
      BY <2>1
    <3>2. WordsApart(table[n], table[n + 1])
      BY <1>7, <2>1, <3>1 DEF WordInv
    <3> QED
      BY <1>8, <3>1, <3>2
  <2>2. CASE n = L
    <3>1. L \in 1 .. L /\ table'[n] = table[L] /\ table'[n + 1] = first .. last
      BY <1>8, <1>14, <2>2
    <3>2. table # <<>> /\ at <= Len(chars)
      BY <1>1, <1>4, <1>7, <3>1
    <3>3. chars[at] # "letter"
      BY <3>2 DEF WordInv
    <3>4. at < first
      BY <1>4, <1>6, <3>3
    <3>5. table[L] \subseteq LettersTo(at)
      BY <1>11, <3>1
    <3>6. (\A x \in table[L] : x < at) /\ (\A y \in first .. last : at < y)
      BY <1>6, <3>4, <3>5 DEF LettersTo
    <3>7. at \in 1 .. Len(chars)
      BY <1>1, <3>2
    <3> QED
      BY <3>1, <3>3, <3>6, <3>7 DEF WordsApart
  <2> QED
    BY <1>14, <2>1, <2>2
<1>15. last + 1 \in 1 .. Len(chars) + 1 /\ (last + 1 <= Len(chars) => chars[last + 1] # "letter")
  BY <1>1, <1>4, <1>6
<1> QED
  BY <1>1, <1>5, <1>8, <1>10, <1>12, <1>13, <1>14, <1>15 DEF WordInv, LettersTo, WordsApart

LEMMA WordsWritten ==
  ASSUME chars \in Seq(Characters), WordInv, \A j \in at .. Len(chars) : chars[j] # "letter"
  PROVE  /\ UNION {table[n] : n \in 1 .. Len(table)}
               = {j \in 1 .. Len(chars) : chars[j] = "letter"}
         /\ \A n \in 1 .. Len(table) - 1 :
               \E j \in 1 .. Len(chars) :
                  /\ chars[j] # "letter"
                  /\ Startup!Max(table[n]) < j /\ j < Startup!Min(table[n + 1])
<1>1. Len(chars) \in Nat /\ Len(table) \in Nat /\ at \in 1 .. Len(chars) + 1
  BY LenProperties DEF WordInv
<1>2. LettersTo(at) = {j \in 1 .. Len(chars) : chars[j] = "letter"}
  BY <1>1 DEF LettersTo
<1>3. ASSUME NEW n \in 1 .. Len(table) - 1
      PROVE  \E j \in 1 .. Len(chars) :
                /\ chars[j] # "letter"
                /\ Startup!Max(table[n]) < j /\ j < Startup!Min(table[n + 1])
  <2>1. n \in 1 .. Len(table) /\ n + 1 \in 1 .. Len(table) /\ n + 1 <= Len(table)
    BY <1>1
  <2>2. PICK j \in 1 .. Len(chars) :
           chars[j] # "letter" /\ (\A x \in table[n] : x < j) /\ (\A y \in table[n + 1] : j < y)
    BY <2>1 DEF WordInv, WordsApart
  <2>3. PICK a \in Nat, b \in Nat : a <= b /\ table[n] = a .. b
    BY <2>1 DEF WordInv
  <2>4. PICK c \in Nat, d \in Nat : c <= d /\ table[n + 1] = c .. d
    BY <2>1 DEF WordInv
  <2>5. Startup!Max(table[n]) = b /\ Startup!Min(table[n + 1]) = c
    BY <2>3, <2>4, IntervalEnds
  <2>6. b \in table[n] /\ c \in table[n + 1]
    BY <2>3, <2>4
  <2>7. b < j /\ j < c
    BY <2>2, <2>6, Zenon
  <2> QED
    BY <2>2, <2>5, <2>7
<1> QED
  BY <1>2, <1>3 DEF WordInv

(* Lines are counted by the newlines before a character.                   *)
Newlines(k) == {j \in 1 .. k - 1 : chars[j] = "newline"}

LEMMA CardinalityIsTheSame == ASSUME NEW S PROVE Startup!Cardinality(S) = Cardinality(S)
BY Zenon DEF Startup!Cardinality, Cardinality

LEMMA LineCounted ==
  ASSUME NEW k
  PROVE  Startup!LineOf(k) = Cardinality(Newlines(k)) + 1
BY CardinalityIsTheSame DEF Startup!LineOf, Newlines

LEMMA NewlinesCounted ==
  ASSUME NEW k \in Nat
  PROVE  IsFiniteSet(Newlines(k)) /\ Cardinality(Newlines(k)) \in Nat
<1>1. IsFiniteSet(1 .. k - 1)
  BY FS_Interval
<1>2. Newlines(k) \in SUBSET (1 .. k - 1)
  BY DEF Newlines
<1>3. IsFiniteSet(Newlines(k))
  BY <1>1, <1>2, FS_Subset
<1> QED
  BY <1>3, FS_CardinalityType

LEMMA LinesGrow ==
  ASSUME NEW a \in Nat \ {0}, NEW b \in Nat, a <= b
  PROVE  /\ Startup!LineOf(a) \in Nat /\ Startup!LineOf(a) >= 1
         /\ Startup!LineOf(b) \in Nat /\ Startup!LineOf(a) <= Startup!LineOf(b)
         /\ (\A j \in a .. b - 1 : chars[j] # "newline") => Startup!LineOf(b) = Startup!LineOf(a)
         /\ chars[a] = "newline" => Startup!LineOf(a + 1) = Startup!LineOf(a) + 1
<1>1. /\ IsFiniteSet(Newlines(a)) /\ Cardinality(Newlines(a)) \in Nat
      /\ IsFiniteSet(Newlines(b)) /\ Cardinality(Newlines(b)) \in Nat
  BY NewlinesCounted
<1>2. Cardinality(Newlines(a)) <= Cardinality(Newlines(b))
  <2>1. Newlines(a) \in SUBSET Newlines(b)
    BY DEF Newlines
  <2> QED
    BY <1>1, <2>1, FS_Subset
<1>3. (\A j \in a .. b - 1 : chars[j] # "newline") => Newlines(b) = Newlines(a)
  BY DEF Newlines
<1>4. ASSUME chars[a] = "newline" PROVE Cardinality(Newlines(a + 1)) = Cardinality(Newlines(a)) + 1
  <2>1. Newlines(a + 1) = Newlines(a) \cup {a} /\ a \notin Newlines(a)
    BY <1>4 DEF Newlines
  <2> QED
    BY <1>1, <2>1, FS_AddElement
<1> QED
  BY <1>1, <1>2, <1>3, <1>4, LineCounted

(* The line that begins at the next character, as fgets reads it.          *)
LineHere(last) ==
    /\ at \in 1 .. Len(chars) /\ last \in at .. Len(chars)
    /\ at > 1 => chars[at - 1] = "newline"
    /\ \A j \in at .. last - 1 : chars[j] # "newline"
    /\ chars[last] = "newline" \/ last = Len(chars)

LEMMA LineStartsHere ==
  ASSUME Len(chars) \in Nat, at \in 1 .. Len(chars), at > 1 => chars[at - 1] = "newline",
         NEW x \in Nat, at <= x, \A j \in at .. x - 1 : chars[j] # "newline"
  PROVE  Startup!LineStart(x) = at
<1>1. PICK S : S = {0} \cup {j \in 1 .. x - 1 : chars[j] = "newline"}
  OBVIOUS
<1>2. at \in Nat /\ at - 1 \in S
  BY <1>1
<1>3. \A y \in S : at - 1 >= y
  BY <1>1
<1>4. Startup!Max(S) \in S /\ \A y \in S : Startup!Max(S) >= y
  BY <1>2, <1>3 DEF Startup!Max
<1>5. S \subseteq Int
  BY <1>1
<1>6. Startup!Max(S) = at - 1
  <2>1. PICK m : m = Startup!Max(S)
    OBVIOUS
  <2>2. m \in Int /\ at - 1 >= m /\ m >= at - 1
    BY <1>2, <1>3, <1>4, <1>5, <2>1, Zenon
  <2> QED
    BY <1>2, <2>1, <2>2
<1> QED
  BY <1>1, <1>2, <1>6 DEF Startup!LineStart

LEMMA LineOfPiece ==
  ASSUME Len(chars) \in Nat, NEW last, LineHere(last)
  PROVE  /\ \A x \in 1 .. Len(chars) : Startup!LineOf(x) = Startup!LineOf(at) <=> x \in at .. last
         /\ \A x \in at .. last : Startup!LineStart(x) = at
         /\ Startup!LineOf(at) \in Nat /\ Startup!LineOf(at) >= 1
         /\ chars[last] = "newline" => Startup!LineOf(last + 1) = Startup!LineOf(at) + 1
<1>1. at \in Nat \ {0} /\ last \in Nat \ {0} /\ at <= last /\ last <= Len(chars)
  BY DEF LineHere
<1>2. \A x \in at .. last : Startup!LineStart(x) = at
  <2> TAKE x \in at .. last
  <2>1. x \in Nat /\ at <= x /\ \A j \in at .. x - 1 : chars[j] # "newline"
    BY <1>1 DEF LineHere
  <2> QED
    BY <2>1, LineStartsHere DEF LineHere
<1>3. ASSUME NEW x \in at .. last PROVE Startup!LineOf(x) = Startup!LineOf(at)
  <2>1. x \in Nat /\ at <= x /\ \A j \in at .. x - 1 : chars[j] # "newline"
    BY <1>1 DEF LineHere
  <2> QED
    BY <1>1, <2>1, LinesGrow
<1>4. Startup!LineOf(at) \in Nat /\ Startup!LineOf(at) >= 1
  BY <1>1, LinesGrow
<1>5. chars[last] = "newline" => Startup!LineOf(last + 1) = Startup!LineOf(at) + 1
  <2>1. last \in at .. last
    BY <1>1
  <2>2. Startup!LineOf(last) = Startup!LineOf(at)
    BY <1>3, <2>1
  <2> QED
    BY <1>1, <2>2, LinesGrow
<1>6. ASSUME NEW x \in 1 .. Len(chars), x < at PROVE Startup!LineOf(x) # Startup!LineOf(at)
  <2>1. PICK a \in Nat \ {0} : a = at - 1
    <3>1. at - 1 \in Nat \ {0}
      BY <1>1, <1>6
    <3> QED
      BY <3>1
  <2>2. chars[a] = "newline" /\ x \in Nat \ {0} /\ x <= a /\ a + 1 = at
    BY <1>1, <1>6, <2>1 DEF LineHere
  <2>3. Startup!LineOf(x) <= Startup!LineOf(a) /\ Startup!LineOf(x) \in Nat
    BY <2>2, LinesGrow
  <2>4. Startup!LineOf(at) = Startup!LineOf(a) + 1 /\ Startup!LineOf(a) \in Nat
    BY <2>2, LinesGrow
  <2> QED
    BY <2>3, <2>4
<1>7. ASSUME NEW x \in 1 .. Len(chars), x > last PROVE Startup!LineOf(x) # Startup!LineOf(at)
  <2>1. chars[last] = "newline" /\ last + 1 \in Nat \ {0} /\ x \in Nat /\ last + 1 <= x
    BY <1>1, <1>7 DEF LineHere
  <2>2. Startup!LineOf(last + 1) <= Startup!LineOf(x) /\ Startup!LineOf(x) \in Nat
    BY <2>1, LinesGrow
  <2> QED
    BY <1>4, <1>5, <2>1, <2>2
<1>8. \A x \in 1 .. Len(chars) : x \in at .. last \/ x < at \/ x > last
  BY <1>1
<1> QED
  BY <1>2, <1>3, <1>4, <1>5, <1>6, <1>7, <1>8

(* What the current line holds: its first and its second field.            *)
Seps(a, b) == {j \in a .. b : chars[j] = "sep"}

LEMMA FieldCounted ==
  ASSUME NEW x \in Nat, NEW a \in Nat, Startup!LineStart(x) = a
  PROVE  /\ Startup!Field(x) = 1 <=> Seps(a, x - 1) = {}
         /\ Startup!Field(x) = 2 <=> \E y : Seps(a, x - 1) = {y}
<1>1. IsFiniteSet(a .. x - 1)
  BY FS_Interval
<1>2. Seps(a, x - 1) \in SUBSET (a .. x - 1)
  BY DEF Seps
<1>3. IsFiniteSet(Seps(a, x - 1))
  BY <1>1, <1>2, FS_Subset
<1>4. Cardinality(Seps(a, x - 1)) \in Nat
  BY <1>3, FS_CardinalityType
<1>5. Startup!Field(x) = Cardinality(Seps(a, x - 1)) + 1
  BY CardinalityIsTheSame DEF Startup!Field, Seps
<1>6. Cardinality(Seps(a, x - 1)) = 0 <=> Seps(a, x - 1) = {}
  BY <1>3, FS_EmptySet
<1>7. Cardinality(Seps(a, x - 1)) = 1 <=> \E y : Seps(a, x - 1) = {y}
  BY <1>3, FS_Singleton
<1>8. Startup!Field(x) = 1 <=> Cardinality(Seps(a, x - 1)) = 0
  BY <1>4, <1>5
<1>9. Startup!Field(x) = 2 <=> Cardinality(Seps(a, x - 1)) = 1
  BY <1>4, <1>5
<1> QED
  BY <1>6, <1>7, <1>8, <1>9, Zenon

Lost == IF chars # <<>> /\ chars[Len(chars)] # "newline" THEN {Len(chars)} ELSE {}

(* FirstIn of a set of positions: no earlier one, or the end.              *)
LEMMA FirstFound ==
  ASSUME NEW S \in SUBSET Nat, NEW end \in Nat, NEW f, f = Startup!FirstIn(S, end)
  PROVE  /\ f \in Nat /\ (f \in S \/ f = end) /\ f <= end
         /\ \A y \in S : f <= y
<1>1. PICK T \in SUBSET Nat : T = S \cup {end}
  <2>1. S \cup {end} \in SUBSET Nat
    OBVIOUS
  <2> QED
    BY <2>1
<1>2. T # {} /\ f = Startup!Min(T)
  BY <1>1 DEF Startup!FirstIn
<1>3. f \in T /\ f \in Nat /\ \A y \in T : f <= y
  BY <1>1, <1>2, SmallestIn
<1> QED
  BY <1>1, <1>3

LEMMA LettersOfPiece ==
  ASSUME chars \in Seq(Characters), NEW last, LineHere(last), NEW k
  PROVE  \A x : x \in Startup!Part(Startup!LineOf(at), k) \ Lost <=>
                    x \in at .. last - 1 /\ chars[x] = "letter" /\ Startup!Field(x) = k
<1>1. /\ Len(chars) \in Nat /\ at \in 1 .. Len(chars) /\ last \in at .. Len(chars)
      /\ chars[last] = "newline" \/ last = Len(chars)
  BY LenProperties DEF LineHere
<1>2. \A x \in 1 .. Len(chars) : Startup!LineOf(x) = Startup!LineOf(at) <=> x \in at .. last
  BY <1>1, LineOfPiece
<1>3. \A x : x \in Startup!Part(Startup!LineOf(at), k) <=>
                x \in at .. last /\ chars[x] = "letter" /\ Startup!Field(x) = k
  <2>1. at .. last \subseteq 1 .. Len(chars)
    BY <1>1
  <2> QED
    BY <1>2, <2>1 DEF Startup!Part
<1>4. ASSUME NEW x \in at .. last, chars[x] = "letter"
      PROVE  x \notin Lost <=> x \in at .. last - 1
  <2>1. x \in at .. last - 1 <=> x # last
    BY <1>1
  <2>2. CASE chars[last] = "newline"
    <3>1. x # last
      BY <1>4, <2>2
    <3>2. x \notin Lost
      <4>1. last = Len(chars) => Lost = {}
        BY <2>2 DEF Lost
      <4>2. last < Len(chars) => x # Len(chars)
        BY <1>1
      <4> QED
        BY <1>1, <4>1, <4>2 DEF Lost
    <3> QED
      BY <2>1, <3>1, <3>2
  <2>3. CASE chars[last] # "newline"
    <3>1. last = Len(chars) /\ chars # <<>>
      BY <1>1, <2>3
    <3>2. Lost = {last}
      BY <2>3, <3>1 DEF Lost
    <3> QED
      BY <2>1, <3>2
  <2> QED
    BY <2>2, <2>3
<1>5. at .. last - 1 \subseteq at .. last
  BY <1>1
<1> QED
  BY <1>3, <1>4, <1>5

LEMMA PieceIsLine ==
  ASSUME chars \in Seq(Characters), NEW last, LineHere(last),
         NEW seps, seps = Seps(at, last - 1),
         NEW sep, sep = Startup!FirstIn(seps, last),
         NEW next, next = Startup!FirstIn(seps \ {sep}, last)
  PROVE  /\ {x \in at .. last - 1 : x < sep} = Startup!Part(Startup!LineOf(at), 1) \ Lost
         /\ {x \in at .. last - 1 : x > sep /\ x < next}
               = Startup!Part(Startup!LineOf(at), 2) \ Lost
<1>1. /\ Len(chars) \in Nat /\ at \in 1 .. Len(chars) /\ last \in at .. Len(chars)
      /\ at \in Nat /\ last \in Nat /\ \A x \in at .. last - 1 : chars[x] # "newline"
  BY LenProperties DEF LineHere
<1>2. seps \in SUBSET Nat /\ \A x \in seps : x \in at .. last - 1 /\ chars[x] = "sep"
  BY <1>1 DEF Seps
<1>3. /\ sep \in Nat /\ (sep \in seps \/ sep = last) /\ sep <= last
      /\ \A y \in seps : sep <= y
  BY <1>1, <1>2, FirstFound
<1>4. /\ next \in Nat /\ (next \in seps \ {sep} \/ next = last) /\ next <= last
      /\ \A y \in seps \ {sep} : next <= y
  <2>1. seps \ {sep} \in SUBSET Nat
    BY <1>2
  <2> QED
    BY <1>1, <2>1, FirstFound
<1>5. ASSUME NEW x \in at .. last - 1
      PROVE  /\ chars[x] \in Characters /\ chars[x] # "newline" /\ x \in Nat
             /\ Startup!Field(x) = 1 <=> Seps(at, x - 1) = {}
             /\ Startup!Field(x) = 2 <=> \E y : Seps(at, x - 1) = {y}
             /\ Seps(at, x - 1) = {y \in seps : y < x}
  <2>1. x \in 1 .. Len(chars) /\ x \in Nat /\ x \in at .. last
    BY <1>1
  <2>2. chars[x] \in Characters
    BY <2>1, ElementOfSeq
  <2>3. Startup!LineStart(x) = at
    BY <1>1, <2>1, LineOfPiece
  <2>4. Seps(at, x - 1) = {y \in seps : y < x}
    BY <1>1, <2>1 DEF Seps
  <2> QED
    BY <1>1, <2>1, <2>2, <2>3, <2>4, FieldCounted
<1>6. ASSUME NEW x \in at .. last - 1
      PROVE  x < sep <=> chars[x] = "letter" /\ Startup!Field(x) = 1
  <2>1. ASSUME x < sep PROVE chars[x] = "letter" /\ Seps(at, x - 1) = {}
    <3>1. x \notin seps /\ \A y \in seps : ~ (y < x)
      BY <1>2, <1>3, <1>5, <2>1
    <3>2. chars[x] # "sep"
      BY <3>1 DEF Seps
    <3>3. chars[x] \in Characters /\ chars[x] # "newline"
      BY <1>5
    <3>4. Seps(at, x - 1) = {}
      BY <1>5, <3>1
    <3> QED
      BY <3>2, <3>3, <3>4 DEF Characters
  <2>2. ASSUME chars[x] = "letter", Seps(at, x - 1) = {} PROVE x < sep
    <3>1. \A y \in seps : ~ (y < x) /\ y # x
      BY <1>2, <1>5, <2>2
    <3>2. CASE sep \in seps
      BY <1>3, <1>5, <3>1, <3>2
    <3>3. CASE sep = last
      BY <1>1, <3>3
    <3> QED
      BY <1>3, <3>2, <3>3
  <2>3. Startup!Field(x) = 1 <=> Seps(at, x - 1) = {}
    BY <1>5
  <2> QED
    BY <2>1, <2>2, <2>3, Zenon
<1>7. ASSUME NEW x \in at .. last - 1
      PROVE  x > sep /\ x < next <=> chars[x] = "letter" /\ Startup!Field(x) = 2
  <2>1. ASSUME x > sep, x < next PROVE chars[x] = "letter" /\ Seps(at, x - 1) = {sep}
    <3>1. sep \in seps
      BY <1>1, <1>3, <2>1
    <3>2. x \notin seps /\ \A y \in seps : y < x => y = sep
      <4>1. x \in Nat /\ x # sep
        BY <1>3, <1>5, <2>1
      <4>2. ASSUME NEW y \in seps \ {sep} PROVE x < y
        <5>1. y \in Nat /\ next <= y
          BY <1>2, <1>4
        <5> QED
          BY <1>4, <2>1, <4>1, <5>1
      <4>3. ASSUME NEW y \in seps, y # sep PROVE ~ (y < x) /\ y # x
        <5>1. y \in Nat /\ x < y
          BY <1>2, <4>2, <4>3
        <5> QED
          BY <4>1, <5>1
      <4> QED
        BY <4>1, <4>3
    <3>3. chars[x] # "sep"
      BY <3>2 DEF Seps
    <3>4. chars[x] \in Characters /\ chars[x] # "newline"
      BY <1>5
    <3>5. {y \in seps : y < x} = {sep}
      BY <2>1, <3>1, <3>2
    <3> QED
      BY <1>5, <3>3, <3>4, <3>5 DEF Characters
  <2>2. ASSUME chars[x] = "letter", NEW z, Seps(at, x - 1) = {z} PROVE x > sep /\ x < next
    <3>1. z \in seps /\ z < x /\ (\A y \in seps : y < x => y = z) /\ x \notin seps
      BY <1>2, <1>5, <2>2
    <3>2. sep <= z /\ z \in Nat /\ sep < x
      BY <1>2, <1>3, <1>5, <3>1
    <3>3. sep # last
      BY <1>1, <3>2
    <3>4. sep = z
      BY <1>3, <3>1, <3>2, <3>3
    <3>5. CASE next \in seps \ {sep}
      <4>1. next # x /\ ~ (next < x)
        BY <3>1, <3>4, <3>5
      <4> QED
        BY <1>4, <1>5, <3>2, <4>1
    <3>6. CASE next = last
      BY <1>1, <3>2, <3>6
    <3> QED
      BY <1>4, <3>5, <3>6
  <2>3. Startup!Field(x) = 2 <=> \E y : Seps(at, x - 1) = {y}
    BY <1>5
  <2> QED
    BY <2>1, <2>2, <2>3, Zenon
<1>8. \A x : x \in Startup!Part(Startup!LineOf(at), 1) \ Lost <=>
                x \in at .. last - 1 /\ chars[x] = "letter" /\ Startup!Field(x) = 1
  BY LettersOfPiece
<1>9. \A x : x \in Startup!Part(Startup!LineOf(at), 2) \ Lost <=>
                x \in at .. last - 1 /\ chars[x] = "letter" /\ Startup!Field(x) = 2
  BY LettersOfPiece
<1>10. {x \in at .. last - 1 : x < sep} = Startup!Part(Startup!LineOf(at), 1) \ Lost
  BY <1>6, <1>8, Zenon
<1>11. {x \in at .. last - 1 : x > sep /\ x < next}
          = Startup!Part(Startup!LineOf(at), 2) \ Lost
  BY <1>7, <1>9, Zenon
<1> QED
  BY <1>10, <1>11

(* Up to here the lines have been read, each as it stands in the file.     *)
Positions == [key : SUBSET Nat, path : SUBSET Nat]

LineInv ==
    /\ at \in 1 .. Len(chars) + 1 /\ table \in Seq(Positions)
    /\ at > 1 /\ at <= Len(chars) => chars[at - 1] = "newline"
    /\ at <= Len(chars) => Len(table) + 1 = Startup!LineOf(at)
    /\ at = Len(chars) + 1 /\ chars # <<>> => Len(table) = Startup!LineOf(Len(chars))
    /\ \A n \in 1 .. Len(table) : /\ table[n].key = Startup!Part(n, 1) \ Lost
                                  /\ table[n].path = Startup!Part(n, 2) \ Lost

(* A line that is not too long is read in one piece.                       *)
LEMMA NextLine ==
  ASSUME StartupConstants, chars \in Seq(Characters), Startup!LinesFit,
         at \in 1 .. Len(chars), at > 1 => chars[at - 1] = "newline",
         NEW last, last = Startup!Min({j \in Startup!Rest : chars[j] = "newline"}
                                        \cup {at + MAX_KEYLEN - 2, Len(chars)})
  PROVE  LineHere(last)
<1>1. Len(chars) \in Nat /\ Startup!Rest = at .. Len(chars) /\ at \in Nat /\ at >= 1
      /\ at <= Len(chars) /\ MAX_KEYLEN \in Nat /\ MAX_KEYLEN > 2
  BY LenProperties DEF Startup!Rest, StartupConstants, Startup!SizesAssumption
<1>2. PICK S \in SUBSET Nat : S = {j \in Startup!Rest : chars[j] = "newline"}
                                    \cup {at + MAX_KEYLEN - 2, Len(chars)}
  <2>1. {j \in Startup!Rest : chars[j] = "newline"}
           \cup {at + MAX_KEYLEN - 2, Len(chars)} \in SUBSET Nat
    BY <1>1
  <2> QED
    BY <2>1
<1>3. last \in S /\ last \in Nat /\ \A y \in S : last <= y
  <2>1. S # {}
    BY <1>2
  <2>2. last = Startup!Min(S)
    BY <1>2, Zenon
  <2> QED
    BY <1>2, <2>1, <2>2, SmallestIn
<1>4. last \in at .. Len(chars)
  BY <1>1, <1>2, <1>3
<1>5. \A j \in at .. last - 1 : chars[j] # "newline"
  <2> SUFFICES ASSUME NEW j \in at .. last - 1, chars[j] = "newline" PROVE FALSE
    OBVIOUS
  <2>1. j \in S /\ j < last
    BY <1>1, <1>2, <1>4
  <2> QED
    BY <1>2, <1>3, <2>1
<1>6. chars[last] = "newline" \/ last = Len(chars)
  <2> SUFFICES ASSUME chars[last] # "newline", last # Len(chars) PROVE FALSE
    OBVIOUS
  <2>1. last = at + MAX_KEYLEN - 2
    BY <1>2, <1>3
  <2>2. last + 1 \in 1 .. Len(chars) /\ last + 1 \in Nat /\ at <= last + 1
    BY <1>1, <1>4
  <2>3. \A j \in at .. (last + 1) - 1 : chars[j] # "newline"
    <3>1. \A j \in at .. (last + 1) - 1 : j \in at .. last - 1 \/ j = last
      BY <1>1, <1>3
    <3> QED
      BY <1>5, <3>1
  <2>4. Startup!LineStart(last + 1) = at
    BY <1>1, <2>2, <2>3, LineStartsHere
  <2>5. PICK x : x = last + 1
    OBVIOUS
  <2>6. x \in 1 .. Len(chars) /\ Startup!LineStart(x) = at
    BY <2>2, <2>4, <2>5
  <2>7. x - Startup!LineStart(x) < MAX_KEYLEN - 1
    BY <2>6, Zenon DEF Startup!LinesFit
  <2>8. x - at < MAX_KEYLEN - 1
    BY <2>6, <2>7
  <2> QED
    BY <1>1, <2>1, <2>5, <2>8
<1> QED
  BY <1>1, <1>4, <1>5, <1>6 DEF LineHere

(* The file does not change while it is read.                              *)
LEMMA FileStays ==
  ASSUME chars' = chars, NEW n, NEW k
  PROVE  /\ Startup!Part(n, k)' = Startup!Part(n, k) /\ Startup!LineOf(n)' = Startup!LineOf(n)
         /\ Lost' = Lost /\ (Startup!LinesFit' <=> Startup!LinesFit)
<1>1. Startup!Part(n, k)' = Startup!Part(n, k)
  BY DEF Startup!Part, Startup!LineOf, Startup!Field, Startup!LineStart
<1>2. Startup!LineOf(n)' = Startup!LineOf(n)
  BY DEF Startup!LineOf
<1>3. Lost' = Lost
  BY DEF Lost
<1>4. Startup!LinesFit' <=> Startup!LinesFit
  BY DEF Startup!LinesFit, Startup!LineStart
<1> QED
  BY <1>1, <1>2, <1>3, <1>4

LEMMA LineStep ==
  ASSUME StartupConstants, chars \in Seq(Characters), Startup!LinesFit, LineInv,
         Startup!ReadLine, stage' = "read"
  PROVE  LineInv'
<1>1. /\ Len(chars) \in Nat /\ at \in 1 .. Len(chars) /\ chars' = chars /\ at \in Nat
      /\ at > 1 => chars[at - 1] = "newline"
  <2>1. Len(chars) \in Nat /\ at \in 1 .. Len(chars) + 1 /\ Startup!Rest # {} /\ chars' = chars
    BY LenProperties DEF LineInv, Startup!ReadLine
  <2>2. at <= Len(chars)
    BY <2>1 DEF Startup!Rest
  <2> QED
    BY <2>1, <2>2 DEF LineInv
<1>2. PICK last : last = Startup!Min({j \in Startup!Rest : chars[j] = "newline"}
                                        \cup {at + MAX_KEYLEN - 2, Len(chars)})
  OBVIOUS
<1>3. LineHere(last)
  BY <1>1, <1>2, NextLine
<1>4. last \in at .. Len(chars) /\ last \in Nat /\ last - 1 + 1 = last
  BY <1>1, <1>3 DEF LineHere
<1>5. PICK seps : seps = Seps(at, last - 1)
  OBVIOUS
<1>6. PICK sep : sep = Startup!FirstIn(seps, last)
  OBVIOUS
<1>7. PICK next : next = Startup!FirstIn(seps \ {sep}, last)
  OBVIOUS
<1>8. PICK keyPart : keyPart = {x \in at .. last - 1 : x < sep}
  OBVIOUS
<1>9. PICK pathPart : pathPart = {x \in at .. last - 1 : x > sep /\ x < next}
  OBVIOUS
<1>10. at' = last + 1 /\ table' = Append(table, [key |-> keyPart, path |-> pathPart])
  BY <1>2, <1>4, <1>5, <1>6, <1>7, <1>8, <1>9
  DEF Startup!ReadLine, Startup!Cut, Startup!Before, Seps
<1>11. PICK L \in Nat : L = Len(table)
  BY LenProperties DEF LineInv
<1>12. L + 1 = Startup!LineOf(at)
  BY <1>1, <1>11 DEF LineInv
<1>13. keyPart = Startup!Part(L + 1, 1) \ Lost /\ pathPart = Startup!Part(L + 1, 2) \ Lost
  BY <1>3, <1>5, <1>6, <1>7, <1>8, <1>9, <1>12, PieceIsLine
<1>14. keyPart \in SUBSET Nat /\ pathPart \in SUBSET Nat
  BY <1>1, <1>8, <1>9
<1>15. /\ table' \in Seq(Positions) /\ Len(table') = L + 1
       /\ table'[L + 1] = [key |-> keyPart, path |-> pathPart]
       /\ \A n \in 1 .. L : table'[n] = table[n]
  <2>1. [key |-> keyPart, path |-> pathPart] \in Positions /\ table \in Seq(Positions)
    BY <1>14 DEF LineInv, Positions
  <2> QED
    BY <1>10, <1>11, <2>1, AppendProperties
<1>16. ASSUME NEW n \in 1 .. L + 1
       PROVE  /\ table'[n].key = Startup!Part(n, 1) \ Lost
              /\ table'[n].path = Startup!Part(n, 2) \ Lost
  <2>1. CASE n \in 1 .. L
    <3>1. table[n].key = Startup!Part(n, 1) \ Lost /\ table[n].path = Startup!Part(n, 2) \ Lost
      BY <1>11, <2>1 DEF LineInv
    <3> QED
      BY <1>15, <2>1, <3>1
  <2>2. CASE n = L + 1
    BY <1>13, <1>15, <2>2
  <2> QED
    BY <2>1, <2>2
<1>17. ASSUME last + 1 <= Len(chars)
       PROVE  /\ chars[last] = "newline"
              /\ L + 2 = Startup!LineOf(last + 1)
  <2>1. chars[last] = "newline"
    BY <1>1, <1>3, <1>4, <1>17 DEF LineHere
  <2>2. Startup!LineOf(last + 1) = Startup!LineOf(at) + 1
    BY <1>1, <1>3, <2>1, LineOfPiece
  <2> QED
    BY <1>12, <2>1, <2>2
<1>18. ASSUME last + 1 = Len(chars) + 1 PROVE L + 1 = Startup!LineOf(Len(chars))
  <2>1. last = Len(chars) /\ last \in 1 .. Len(chars) /\ last \in at .. last
    BY <1>1, <1>4, <1>18
  <2>2. Startup!LineOf(last) = Startup!LineOf(at)
    BY <1>1, <1>3, <2>1, LineOfPiece
  <2> QED
    BY <1>12, <2>1, <2>2
<1>19. ASSUME NEW n \in 1 .. L + 1
       PROVE  /\ table'[n].key = Startup!Part(n, 1)' \ Lost'
              /\ table'[n].path = Startup!Part(n, 2)' \ Lost'
  <2>1. Startup!Part(n, 1)' = Startup!Part(n, 1) /\ Lost' = Lost
    BY <1>1, FileStays
  <2>2. Startup!Part(n, 2)' = Startup!Part(n, 2)
    BY <1>1, FileStays
  <2> QED
    BY <1>16, <2>1, <2>2
<1>20. /\ at' \in 1 .. Len(chars') + 1
       /\ at' > 1 /\ at' <= Len(chars') => chars'[at' - 1] = "newline"
  <2>1. last + 1 \in 1 .. Len(chars) + 1 /\ last + 1 - 1 = last
    BY <1>1, <1>4
  <2>2. at' = last + 1 /\ chars' = chars
    BY <1>1, <1>10
  <2>3. at' - 1 = last
    BY <1>4, <2>2
  <2>4. at' <= Len(chars') => chars'[at' - 1] = "newline"
    BY <1>17, <2>2, <2>3
  <2> QED
    BY <2>1, <2>2, <2>4
<1>21. at' <= Len(chars') => Len(table') + 1 = Startup!LineOf(at)'
  <2> SUFFICES ASSUME last + 1 <= Len(chars) PROVE L + 1 + 1 = Startup!LineOf(at)'
    BY <1>1, <1>10, <1>15
  <2>1. Startup!LineOf(last + 1)' = Startup!LineOf(last + 1)
    BY <1>1, FileStays
  <2>2. Startup!LineOf(at)' = Startup!LineOf(last + 1)
    BY <1>1, <1>10 DEF Startup!LineOf
  <2> QED
    BY <1>17, <2>2
<1>22. at' = Len(chars') + 1 /\ chars' # <<>> => Len(table') = Startup!LineOf(Len(chars))'
  <2> SUFFICES ASSUME last + 1 = Len(chars) + 1 PROVE L + 1 = Startup!LineOf(Len(chars))'
    BY <1>1, <1>10, <1>15
  <2>1. Startup!LineOf(Len(chars))' = Startup!LineOf(Len(chars))
    BY <1>1 DEF Startup!LineOf
  <2> QED
    BY <1>18, <2>1
<1> QED
  BY <1>15, <1>19, <1>20, <1>21, <1>22 DEF LineInv, Positions

LEMMA LineBegins ==
  ASSUME chars \in Seq(Characters), at = 1, table = <<>>
  PROVE  LineInv /\ WordInv
<1>1. Len(chars) \in Nat /\ Len(table) = 0 /\ table \in Seq(Positions)
      /\ table \in Seq(SUBSET Nat)
  BY LenProperties, EmptySeq
<1>2. Startup!LineOf(1) = 1
  <2>1. Newlines(1) = {}
    BY DEF Newlines
  <2>2. Cardinality(Newlines(1)) = 0
    BY <2>1, FS_EmptySet
  <2> QED
    BY <2>2, LineCounted
<1>3. at = Len(chars) + 1 => chars = <<>>
  BY <1>1, EmptySeq
<1>4. UNION {table[n] : n \in 1 .. Len(table)} = {} /\ LettersTo(at) = {}
  BY <1>1 DEF LettersTo
<1>5. 1 .. Len(table) = {} /\ at \in 1 .. Len(chars) + 1
  BY <1>1
<1>6. LineInv
  BY <1>1, <1>2, <1>3, <1>5 DEF LineInv
<1>7. WordInv
  BY <1>1, <1>4, <1>5 DEF WordInv
<1> QED
  BY <1>6, <1>7

LEMMA Unmoved ==
  ASSUME UNCHANGED <<chars, at, table>>
  PROVE  (LineInv => LineInv') /\ (WordInv => WordInv')
<1>1. WordInv => WordInv'
  BY DEF WordInv, LettersTo, WordsApart
<1>2. ASSUME LineInv PROVE LineInv'
  <2>1. Startup!LineOf(at)' = Startup!LineOf(at)
        /\ Startup!LineOf(Len(chars))' = Startup!LineOf(Len(chars))
    BY DEF Startup!LineOf
  <2>2. ASSUME NEW n \in 1 .. Len(table')
        PROVE  /\ table'[n].key = Startup!Part(n, 1)' \ Lost'
               /\ table'[n].path = Startup!Part(n, 2)' \ Lost'
    <3>1. Startup!Part(n, 1)' = Startup!Part(n, 1) /\ Lost' = Lost
      BY FileStays
    <3>2. Startup!Part(n, 2)' = Startup!Part(n, 2)
      BY FileStays
    <3>3. table[n].key = Startup!Part(n, 1) \ Lost /\ table[n].path = Startup!Part(n, 2) \ Lost
      BY <1>2, <2>2 DEF LineInv
    <3> QED
      BY <3>1, <3>2, <3>3
  <2> QED
    BY <1>2, <2>1, <2>2 DEF LineInv, Positions
<1> QED
  BY <1>1, <1>2

LEMMA Readers ==
  /\ prog \in {Startup!gfserver, Startup!mtgfserver, Startup!simplecached} =>
        prog.reads = "content"
  /\ prog \in {Startup!gfclient, Startup!mtgfclient} => prog.reads = "workload"
<1>1. Startup!gfserver.reads = "content"
  BY DEF Startup!gfserver
<1>2. Startup!mtgfserver.reads = "content"
  BY DEF Startup!mtgfserver
<1>3. Startup!simplecached.reads = "content"
  BY DEF Startup!simplecached
<1>4. Startup!gfclient.reads = "workload"
  BY DEF Startup!gfclient
<1>5. Startup!mtgfclient.reads = "workload"
  BY DEF Startup!mtgfclient
<1> QED
  BY <1>1, <1>2, <1>3, <1>4, <1>5

FileInv ==
    /\ chars \in Seq(Characters)
    /\ stage \in {"options", "open"} => at = 1 /\ table = <<>>
    /\ stage \in {"read", "ready"} =>
          /\ prog.reads = "workload" => WordInv
          /\ prog.reads = "content" /\ Startup!LinesFit => LineInv
    /\ stage = "ready" /\ prog.reads = "workload" =>
          \A j \in at .. Len(chars) : chars[j] # "letter"
    /\ stage = "ready" /\ prog.reads = "content" => at .. Len(chars) = {}

LEMMA FileInit ==
  ASSUME StartupConstants, Startup!Init
  PROVE  FileInv
<1>1. /\ chars = <<>> \/ chars \in Startup!Upto(MaxFile, Characters)
      /\ stage = "options" /\ at = 1 /\ table = <<>>
  BY DEF Startup!Init, Characters
<1>2. chars \in Seq(Characters)
  <2>1. MaxFile \in Nat
    BY DEF StartupConstants, Startup!SizesAssumption
  <2> QED
    BY <1>1, <2>1, UptoIsSeq, EmptySeq
<1> QED
  BY <1>1, <1>2 DEF FileInv

LEMMA FileUnmoved ==
  ASSUME FileInv, UNCHANGED <<prog, chars, at, table>>,
         \/ stage' = stage
         \/ stage' = "exit"
         \/ stage' = "open" /\ stage = "options"
         \/ stage' = "ready" /\ prog.reads = "nothing"
         \/ stage' = "read" /\ stage = "open"
         \/ stage' = "ready" /\ stage = "read" /\ Startup!EndOfFile
  PROVE  FileInv'
<1>1. (LineInv => LineInv') /\ (WordInv => WordInv') /\ (Startup!LinesFit' <=> Startup!LinesFit)
  BY Unmoved, FileStays
<1>2. chars \in Seq(Characters) /\ chars' \in Seq(Characters)
  BY DEF FileInv
<1>3. CASE stage' = stage
  BY <1>1, <1>3 DEF FileInv
<1>4. CASE stage' = "exit"
  BY <1>2, <1>4 DEF FileInv
<1>5. CASE stage' = "open" /\ stage = "options"
  BY <1>2, <1>5 DEF FileInv
<1>6. CASE stage' = "ready" /\ prog.reads = "nothing"
  BY <1>2, <1>6 DEF FileInv
<1>7. CASE stage' = "read" /\ stage = "open"
  <2>1. LineInv' /\ WordInv'
    BY <1>1, <1>2, <1>7, LineBegins DEF FileInv
  <2> QED
    BY <1>2, <1>7, <2>1 DEF FileInv
<1>8. CASE stage' = "ready" /\ stage = "read" /\ Startup!EndOfFile
  <2>1. /\ prog.reads = "content" => at .. Len(chars) = {}
        /\ prog.reads = "workload" => \A j \in at .. Len(chars) : chars[j] # "letter"
    BY <1>8 DEF Startup!EndOfFile, Startup!Rest
  <2>2. /\ prog.reads = "workload" => WordInv'
        /\ prog.reads = "content" /\ Startup!LinesFit => LineInv'
    BY <1>1, <1>8 DEF FileInv
  <2> QED
    BY <1>1, <1>2, <1>8, <2>1, <2>2 DEF FileInv
<1> QED
  BY <1>3, <1>4, <1>5, <1>6, <1>7, <1>8

LEMMA FileNext ==
  ASSUME StartupConstants, FileInv, [Startup!Next]_(Startup!vars)
  PROVE  FileInv'
<1>1. CASE Startup!Option
  BY <1>1, FileUnmoved DEF Startup!Option, Startup!input
<1>2. CASE Startup!Checked
  BY <1>2, FileUnmoved DEF Startup!Checked, Startup!input
<1>3. CASE Startup!Open
  BY <1>3, FileUnmoved DEF Startup!Open, Startup!input
<1>4. CASE Startup!ReadLine /\ prog.reads = "content"
  <2>1. /\ stage = "read" /\ stage' \in {"read", "exit"} /\ prog' = prog /\ chars' = chars
        /\ chars \in Seq(Characters)
    BY <1>4 DEF Startup!ReadLine, FileInv
  <2>2. Startup!LinesFit /\ stage' = "read" => LineInv'
    BY <1>4, <2>1, LineStep DEF FileInv
  <2>3. Startup!LinesFit' <=> Startup!LinesFit
    BY <2>1, FileStays
  <2> QED
    BY <1>4, <2>1, <2>2, <2>3 DEF FileInv
<1>5. CASE Startup!ReadWord /\ prog.reads = "workload"
  <2>1. /\ stage = "read" /\ stage' \in {"read", "overrun"} /\ prog' = prog /\ chars' = chars
        /\ chars \in Seq(Characters)
    BY <1>5 DEF Startup!ReadWord, FileInv
  <2>2. stage' = "read" => WordInv'
    BY <1>5, <2>1, WordStep DEF FileInv
  <2> QED
    BY <1>5, <2>1, <2>2 DEF FileInv
<1>6. CASE Startup!EndOfFile
  BY <1>6, FileUnmoved DEF Startup!EndOfFile, Startup!input
<1>7. CASE UNCHANGED Startup!vars
  BY <1>7, FileUnmoved DEF Startup!vars
<1> QED
  BY <1>1, <1>2, <1>3, <1>4, <1>5, <1>6, <1>7, Readers
  DEF Startup!Next, Startup!content_init, Startup!gfcontent_init, Startup!simplecache_init,
      Startup!workload_init, Startup!gfworkload_init

LEMMA FileWritten == ASSUME FileInv PROVE Startup!ReadAsWritten
<1>1. Startup!ContentAsWritten
  <2> SUFFICES ASSUME stage = "ready", prog.reads = "content", Startup!LinesFit
               PROVE  /\ chars # <<>> => Len(table) = Startup!LineOf(Len(chars))
                      /\ \A n \in 1 .. Len(table) :
                            /\ table[n].key = Startup!Part(n, 1) \ Lost
                            /\ table[n].path = Startup!Part(n, 2) \ Lost
    BY DEF Startup!ContentAsWritten, Lost
  <2>1. LineInv /\ at .. Len(chars) = {} /\ Len(chars) \in Nat
    BY LenProperties DEF FileInv
  <2>2. at = Len(chars) + 1
    <3>1. at \in 1 .. Len(chars) + 1
      BY <2>1 DEF LineInv
    <3> QED
      BY <2>1, <3>1
  <2> QED
    BY <2>1, <2>2 DEF LineInv
<1>2. Startup!WorkloadAsWritten
  <2> SUFFICES ASSUME stage = "ready", prog.reads = "workload"
               PROVE  /\ UNION {table[n] : n \in 1 .. Len(table)}
                            = {j \in 1 .. Len(chars) : chars[j] = "letter"}
                      /\ \A n \in 1 .. Len(table) - 1 :
                            \E j \in 1 .. Len(chars) :
                               /\ chars[j] # "letter"
                               /\ Startup!Max(table[n]) < j /\ j < Startup!Min(table[n + 1])
    BY DEF Startup!WorkloadAsWritten
  <2> QED
    BY WordsWritten DEF FileInv
<1> QED
  BY <1>1, <1>2 DEF Startup!ReadAsWritten

(* What a program reads is what its file says: each line of the content    *)
(* file its key and path, the workload its words, none lost, none twice:   *)
(* for files of any length and any MAX_KEYLEN and MAX_WORD.                *)
THEOREM FileReadAsWritten ==
  ASSUME StartupConstants
  PROVE  Startup!Spec => []Startup!ReadAsWritten
<1>1. Startup!Init => FileInv
  BY FileInit
<1>2. FileInv /\ [Startup!Next]_(Startup!vars) => FileInv'
  BY FileNext
<1>3. FileInv => Startup!ReadAsWritten
  BY FileWritten
<1> QED
  BY <1>1, <1>2, <1>3, PTL DEF Startup!Spec
=============================================================================
