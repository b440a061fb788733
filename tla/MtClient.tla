------------------------------ MODULE MtClient ------------------------------
(***************************************************************************)
(* The multithreaded download client, pr1/mtgf/gfclient_download.c with    *)
(* workload.c: main starts nthreads threads, each makes nrequests          *)
(* requests, and main joins them.  The library pr1/mtgf/gfclient.o that    *)
(* performs a request is not part of the source; it delivers any number of *)
(* bytes and an outcome.                                                   *)
(*                                                                         *)
(* The file system is modelled as far as two threads can meet in it: names *)
(* in the directory lead to inodes, an open file keeps its inode when the  *)
(* name goes, and opening for writing empties the inode the name leads to. *)
(***************************************************************************)
EXTENDS Integers, Sequences, Functions

CONSTANTS nthreads,             \* -t
          nrequests,            \* -n
          gWorkloadPathArray,   \* the sequence of paths
          FileLen,              \* bytes in every file on the server
          NoInode

ASSUME CountsAssumption   == nthreads \in Nat /\ nrequests \in Nat /\ FileLen \in Nat
ASSUME WorkloadAssumption ==
    gWorkloadPathArray \in Seq(Range(gWorkloadPathArray)) \ {<<>>}

gUniqueWorkloadPaths == Len(gWorkloadPathArray)
Threads  == 1 .. nthreads
NoThread == 0
Total  == nthreads * nrequests
Names  == Range(gWorkloadPathArray) \X (0 .. Total - 1)
Inodes == Threads \X (1 .. nrequests)
ASSUME NoInodeAssumption == NoInode \notin Inodes

VARIABLES
    pc, i,          \* each thread's place and request number
    req_path, local_path, file, written, returncode, status,   \* its locals
    mutex_get_path, \* the thread that holds it
    counter,        \* of workload.c
    names,          \* the static counter of localPath
    seen,           \* the value of it a thread has loaded
    dir, data,      \* the directory; the bytes in each inode
    created,        \* the number of threads that main has created
    joined,         \* the number of threads that main has joined
    main,           \* where main is
    given,          \* history: the paths handed out, in order
    opened,         \* history: how often each local name was opened
    kept            \* history: the files of requests that ended well

locals   == <<req_path, local_path, file, written, returncode, status>>
workload == <<mutex_get_path, counter, given>>
naming   == <<names, seen>>
disk     == <<dir, data, opened>>
boss     == <<created, joined, main>>
vars == <<pc, i, locals, workload, naming, disk, boss, kept>>

NoName == <<NoInode, -1>>

Init ==
    /\ pc = [t \in Threads |-> "new"]
    /\ i = [t \in Threads |-> 0]
    /\ req_path = [t \in Threads |-> NoInode]
    /\ local_path = [t \in Threads |-> NoName]
    /\ file = [t \in Threads |-> NoInode]
    /\ written = [t \in Threads |-> 0]
    /\ returncode = [t \in Threads |-> "none"]
    /\ status = [t \in Threads |-> "INVALID"]
    /\ mutex_get_path = NoThread
    /\ counter = 0 /\ names = 0
    /\ seen = [t \in Threads |-> 0]
    /\ dir = [n \in Names |-> NoInode]
    /\ data = [o \in Inodes |-> {}]
    /\ created = 0 /\ joined = 0 /\ main = "create"
    /\ given = <<>>
    /\ opened = [n \in Names |-> 0]
    /\ kept = {}

Goto(t, place) == pc' = [pc EXCEPT ![t] = place]

-----------------------------------------------------------------------------
(* main *)

CreateThread ==
    /\ main = "create" /\ created < nthreads
    /\ created' = created + 1
    /\ i' = [i EXCEPT ![created + 1] = IF nrequests = 0 THEN 0 ELSE 1]
    /\ Goto(created + 1, IF nrequests = 0 THEN "exited" ELSE "lock")
    /\ UNCHANGED <<locals, workload, naming, disk, joined, main, kept>>

(* pthread_create fails, or a thread cannot open its local file: the       *)
(* process exits, whatever the other threads are doing.                    *)
Exit ==
    /\ \/ main = "create" /\ created < nthreads
       \/ \E t \in Threads : pc[t] = "open"
    /\ main' = "exited"
    /\ UNCHANGED <<pc, i, locals, workload, naming, disk, created, joined, kept>>

AllCreated ==
    /\ main = "create" /\ created = nthreads
    /\ main' = "join"
    /\ UNCHANGED <<pc, i, locals, workload, naming, disk, created, joined, kept>>

(* pthread_join returns once the thread has ended.                         *)
Join ==
    /\ main = "join" /\ joined < nthreads
    /\ pc[joined + 1] = "exited"
    /\ joined' = joined + 1
    /\ UNCHANGED <<pc, i, locals, workload, naming, disk, created, main, kept>>

(* Faulty variant: the last thread is not joined.                          *)
EveryJoinedButOne == joined >= nthreads - 1

EveryJoined == joined = nthreads

AllJoined ==
    /\ main = "join" /\ EveryJoined
    /\ main' = "cleanup"
    /\ UNCHANGED <<pc, i, locals, workload, naming, disk, created, joined, kept>>

(* gfc_global_cleanup frees what every gfc_perform uses; main returns.     *)
GlobalCleanup ==
    /\ main = "cleanup"
    /\ main' = "returned"
    /\ UNCHANGED <<pc, i, locals, workload, naming, disk, created, joined, kept>>

-----------------------------------------------------------------------------
(* request_thread: a path from the workload, under mutex_get_path.         *)

(* Faulty variant: the mutex is not taken.                                 *)
FreeOrNot == TRUE

Free == mutex_get_path = NoThread

Lock(t) ==
    /\ pc[t] = "lock"
    /\ Free
    /\ mutex_get_path' = t
    /\ Goto(t, "count")
    /\ UNCHANGED <<i, locals, counter, given, naming, disk, boss, kept>>

(* workload_get_path counts under a mutex of its own ...                   *)
Count(t) ==
    /\ pc[t] = "count"
    /\ counter' = counter + 1
    /\ Goto(t, "read")
    /\ UNCHANGED <<i, locals, mutex_get_path, given, naming, disk, boss, kept>>

(* ... and reads the counter again after it has released that.             *)
Read(t) ==
    /\ pc[t] = "read"
    /\ LET p == gWorkloadPathArray[(counter % gUniqueWorkloadPaths) + 1]
       IN  /\ req_path' = [req_path EXCEPT ![t] = p]
           /\ given' = Append(given, p)
    /\ Goto(t, "unlock")
    /\ UNCHANGED <<i, local_path, file, written, returncode, status, mutex_get_path,
                   counter, naming, disk, boss, kept>>

(* Faulty variant: the mutex is not released after the last request.       *)
ReleasedUnlessLast(t) == IF i[t] = nrequests THEN t ELSE NoThread

Released(t) == NoThread

Unlock(t) ==
    /\ pc[t] = "unlock"
    /\ mutex_get_path' = Released(t)
    /\ Goto(t, "load")
    /\ UNCHANGED <<i, locals, counter, given, naming, disk, boss, kept>>

(* localPath: counter++ on a static variable no lock protects.             *)
LoadCounter(t) ==
    /\ pc[t] = "load"
    /\ seen' = [seen EXCEPT ![t] = names]
    /\ Goto(t, "store")
    /\ UNCHANGED <<i, locals, workload, names, disk, boss, kept>>

StoreCounter(t) ==
    /\ pc[t] = "store"
    /\ names' = seen[t] + 1
    /\ local_path' = [local_path EXCEPT ![t] = <<req_path[t], seen[t]>>]
    /\ seen' = [seen EXCEPT ![t] = 0]
    /\ Goto(t, "open")
    /\ UNCHANGED <<i, req_path, file, written, returncode, status, workload,
                   disk, boss, kept>>

(* openFile, with fopen(.., "w"), and gfc_create.                          *)
OpenFile(t) ==
    LET n == local_path[t]
        o == IF dir[n] = NoInode THEN <<t, i[t]>> ELSE dir[n]
    IN  /\ pc[t] = "open"
        /\ dir' = [dir EXCEPT ![n] = o]
        /\ data' = [data EXCEPT ![o] = {}]
        /\ opened' = [opened EXCEPT ![n] = @ + 1]
        /\ file' = [file EXCEPT ![t] = o]
        /\ Goto(t, "perform")
        /\ UNCHANGED <<i, req_path, local_path, written, returncode, status,
                       workload, naming, boss, kept>>

(* gfc_perform gives the next bytes to writecb.                            *)
Write(t) ==
    /\ pc[t] = "perform"
    /\ written[t] < FileLen
    /\ written' = [written EXCEPT ![t] = @ + 1]
    /\ data' = [data EXCEPT ![file[t]] = @ \cup {written[t] + 1}]
    /\ UNCHANGED <<pc, i, req_path, local_path, file, returncode, status, workload,
                   naming, dir, opened, boss, kept>>

(* Its possible outcomes: the whole file, a part of it, no file, no reply. *)
Outcomes(n) ==
    {<<"error", "OK">>}
    \cup (IF n = FileLen THEN {<<"ok", "OK">>} ELSE {})
    \cup (IF n = 0 THEN {<<"ok", "FILE_NOT_FOUND">>, <<"ok", "ERROR">>,
                         <<"error", "INVALID">>}
                   ELSE {})

PerformReturns(t) ==
    /\ pc[t] = "perform"
    /\ \E r \in Outcomes(written[t]) :
          /\ returncode' = [returncode EXCEPT ![t] = r[1]]
          /\ status' = [status EXCEPT ![t] = r[2]]
    /\ Goto(t, "returned")
    /\ UNCHANGED <<i, req_path, local_path, file, written, workload, naming, disk,
                   boss, kept>>

(* gfc_cleanup; the other locals are set again before they are read.       *)
Forget(t) ==
    /\ file' = [file EXCEPT ![t] = NoInode]
    /\ written' = [written EXCEPT ![t] = 0]
    /\ returncode' = [returncode EXCEPT ![t] = "none"]
    /\ status' = [status EXCEPT ![t] = "INVALID"]
    /\ UNCHANGED <<req_path, local_path>>

Unlink(n) == dir' = [dir EXCEPT ![n] = NoInode]

(* The file is closed, and unlinked if gfc_perform failed.                 *)
CloseFile(t) ==
    /\ pc[t] = "returned"
    /\ IF returncode[t] = "error" THEN Unlink(local_path[t]) ELSE UNCHANGED dir
    /\ Goto(t, "status")
    /\ UNCHANGED <<i, locals, workload, naming, data, opened, boss, kept>>

(* Faulty variant: unlinked only after an error.                           *)
NotOKAndError(t) == status[t] # "OK" /\ returncode[t] = "error"

NotOK(t) == status[t] # "OK"

(* It is unlinked, perhaps once more, if the status is not OK; then the    *)
(* request is cleaned up and the next one begins.                          *)
NextRequest(t) ==
    /\ pc[t] = "status"
    /\ IF NotOK(t) THEN Unlink(local_path[t]) ELSE UNCHANGED dir
    /\ kept' = IF returncode[t] = "ok" /\ status[t] = "OK"
               THEN kept \cup {local_path[t]} ELSE kept
    /\ IF i[t] < nrequests
       THEN i' = [i EXCEPT ![t] = @ + 1] /\ Goto(t, "lock")
       ELSE UNCHANGED i /\ Goto(t, "exited")
    /\ Forget(t)
    /\ UNCHANGED <<workload, naming, data, opened, boss>>

ThreadStep(t) ==
    \/ Lock(t) \/ Count(t) \/ Read(t) \/ Unlock(t)
    \/ LoadCounter(t) \/ StoreCounter(t) \/ OpenFile(t)
    \/ Write(t) \/ PerformReturns(t) \/ CloseFile(t) \/ NextRequest(t)

MainStep == CreateThread \/ AllCreated \/ Join \/ AllJoined \/ GlobalCleanup

Running == main \notin {"returned", "exited"}

Next == Running /\ (MainStep \/ Exit \/ \E t \in Threads : ThreadStep(t))

SafeSpec == Init /\ [][Next]_vars

(* main and every thread run; a thread that waits for the mutex gets it    *)
(* among those that keep asking for it; gfc_perform returns.               *)
Spec ==
    /\ SafeSpec
    /\ WF_vars(Running /\ MainStep)
    /\ \A t \in Threads : /\ WF_vars(Running /\ ThreadStep(t))
                          /\ SF_vars(Running /\ Lock(t))

-----------------------------------------------------------------------------
(* The threads get the paths of the workload in turn: the counter that     *)
(* workload_get_path reads again is still the value it wrote.              *)
WorkloadInTurn ==
    \A k \in 1 .. Len(given) :
        given[k] = gWorkloadPathArray[(k % gUniqueWorkloadPaths) + 1]

(* A local name that only one request used leads to the whole file if that *)
(* request ended well, and to nothing if it ended otherwise: no other      *)
(* thread's close and unlink steps touch it.                               *)
Busy(n) == \E t \in Threads : local_path[t] = n /\ pc[t] \in {"perform", "returned", "status"}

OwnNameIntact ==
    \A n \in Names :
        opened[n] = 1 /\ ~ Busy(n) =>
            IF n \in kept
            THEN dir[n] # NoInode /\ data[dir[n]] = 1 .. FileLen
            ELSE dir[n] = NoInode

(* No thread is in the library when main frees what the library shares,    *)
(* and none is left when main returns.                                     *)
CleanupAfterThreads ==
    main \in {"cleanup", "returned"} => \A t \in Threads : pc[t] = "exited"

(* Nobody waits for ever: until the program ends, main has a step, or a    *)
(* thread that waits neither for main nor for the mutex.                   *)
MainMoves == \/ main \in {"create", "cleanup"}
             \/ main = "join" /\ (joined = nthreads \/ pc[joined + 1] = "exited")

ThreadMoves(t) == pc[t] \notin {"new", "exited"} /\ (pc[t] = "lock" => mutex_get_path = NoThread)

NeverStuck == Running => MainMoves \/ \E t \in Threads : ThreadMoves(t)

(* The program ends.                                                       *)
MainReturns == <>(~ Running)

(* Readme.md l. 324 asks for "files fully transmitted, correct use of      *)
(* locks to access shared state, no race conditions": a file that was      *)
(* received whole is on disk whole when the program ends.                  *)
KeptFilesStay ==
    main = "returned" =>
        \A n \in kept : dir[n] # NoInode /\ data[dir[n]] = 1 .. FileLen
=============================================================================
