--------------------------- MODULE MtClientProofs ---------------------------
(***************************************************************************)
(* Proofs about MtClient for every number of threads and of requests per   *)
(* thread, every workload and every file length.                           *)
(***************************************************************************)
EXTENDS MtClient, FiniteSetTheorems, SequenceTheorems, TLAPS

Paths == Range(gWorkloadPathArray)

(* Between openFile and the end of the request.                            *)
InRequest == {"perform", "returned", "status"}
Places == {"new", "lock", "count", "read", "unlock", "load", "store", "open",
           "exited"} \cup InRequest

TypeOK ==
    /\ pc \in [Threads -> Places]
    /\ i \in [Threads -> 0 .. nrequests]
    /\ req_path \in [Threads -> Paths \cup {NoInode}]
    /\ local_path \in [Threads -> Names \cup {NoName}]
    /\ file \in [Threads -> Inodes \cup {NoInode}]
    /\ written \in [Threads -> 0 .. FileLen]
    /\ returncode \in [Threads -> {"none", "ok", "error"}]
    /\ status \in [Threads -> {"OK", "FILE_NOT_FOUND", "ERROR", "INVALID"}]
    /\ mutex_get_path \in Threads \cup {NoThread}
    /\ counter \in Nat /\ names \in Nat
    /\ seen \in [Threads -> Nat]
    /\ dir \in [Names -> Inodes \cup {NoInode}]
    /\ data \in [Inodes -> SUBSET (1 .. FileLen)]
    /\ created \in 0 .. nthreads /\ joined \in 0 .. nthreads
    /\ main \in {"create", "join", "cleanup", "returned", "exited"}
    /\ given \in Seq(Paths)
    /\ opened \in [Names -> Nat]
    /\ kept \subseteq Names

(* What a thread's locals hold where it is.                                *)
LocalsOf(t) ==
    /\ pc[t] = "new" => i[t] = 0
    /\ pc[t] \notin {"new", "exited"} => i[t] \in 1 .. nrequests
    /\ pc[t] \in {"unlock", "load", "store"} => req_path[t] \in Paths
    /\ pc[t] \in {"open"} \cup InRequest => local_path[t] \in Names
    /\ pc[t] \in InRequest => file[t] \in Inodes
    /\ pc[t] \notin InRequest => written[t] = 0
    /\ pc[t] \in {"returned", "status"} =>
          <<returncode[t], status[t]>> \in Outcomes(written[t])

LocalsInv == \A t \in Threads : LocalsOf(t)

(* main counts the threads it creates and joins.                           *)
BossInv ==
    /\ \A t \in Threads : pc[t] = "new" <=> t > created
    /\ main = "create" => joined = 0
    /\ \A t \in 1 .. joined : pc[t] = "exited"
    /\ main \in {"cleanup", "returned"} => joined = nthreads

(* What waiting rests on: main joins only threads it has created, and the  *)
(* mutex is held only by a thread that will release it.                    *)
WaitInv ==
    /\ main \in {"join", "cleanup", "returned"} => created = nthreads
    /\ \A t \in Threads : mutex_get_path = t => pc[t] \in {"count", "read", "unlock"}

(* The mutex makes one step of counting and reading again: between two     *)
(* holders the counter is the number of paths given.                       *)
TurnInv ==
    /\ \A t \in Threads : pc[t] \in {"count", "read", "unlock"} => mutex_get_path = t
    /\ counter = Len(given) + IF \E t \in Threads : pc[t] = "read" THEN 1 ELSE 0
    /\ WorkloadInTurn

(* Request j of thread t, here <<t, j>>, is past the places before ps.     *)
Past(o, ps) ==
    \/ o[2] < i[o[1]]
    \/ o[2] = i[o[1]] /\ pc[o[1]] \in ps \cup InRequest \cup {"exited"}

(* The counter of localPath, that no lock protects, may lose increments    *)
(* but never runs ahead of the requests that have stored it.               *)
Stored == {o \in Inodes : Past(o, {"open"})}

CountInv ==
    /\ names <= Cardinality(Stored)
    /\ \A t \in Threads : pc[t] = "store" => seen[t] <= Cardinality(Stored)

(* An inode is that of a file some request has created; and files of       *)
(* different names, in the directory or open, are different inodes.        *)
InodeInv ==
    /\ \A n \in Names : dir[n] # NoInode => Past(dir[n], {})
    /\ \A t \in Threads : pc[t] \in InRequest => Past(file[t], {})
    /\ \A m, n \in Names : dir[m] = dir[n] /\ dir[m] # NoInode => m = n
    /\ \A t \in Threads, n \in Names :
          pc[t] \in InRequest /\ dir[n] = file[t] => local_path[t] = n
    /\ \A t, u \in Threads :
          pc[t] \in InRequest /\ pc[u] \in InRequest /\ file[t] = file[u] =>
              local_path[t] = local_path[u]

(* The name leads to the file t writes, and that holds what t has written. *)
Whole(n, t) == dir[n] = file[t] /\ data[file[t]] = 1 .. written[t]

(* A name used for the first time belongs to one request, until its end.   *)
OnceOf(n) ==
    /\ opened[n] = 0 => dir[n] = NoInode /\ n \notin kept /\ ~ Busy(n)
    /\ opened[n] = 1 =>
          /\ \A t, u \in Threads :
                /\ pc[t] \in InRequest /\ pc[u] \in InRequest
                /\ local_path[t] = n /\ local_path[u] = n
                => t = u
          /\ \A t \in Threads :
                pc[t] \in InRequest /\ local_path[t] = n =>
                   /\ n \notin kept
                   /\ IF pc[t] = "status" /\ returncode[t] = "error"
                      THEN dir[n] = NoInode
                      ELSE Whole(n, t)

OnceInv == \A n \in Names : OnceOf(n)

IInv ==
    /\ TypeOK
    /\ LocalsInv
    /\ BossInv
    /\ WaitInv
    /\ TurnInv
    /\ CountInv
    /\ InodeInv
    /\ OnceInv /\ OwnNameIntact

-----------------------------------------------------------------------------
(* The constants.                                                          *)

LEMMA Counts ==
    /\ nthreads \in Nat /\ nrequests \in Nat /\ FileLen \in Nat
    /\ gUniqueWorkloadPaths \in Nat \ {0}
    /\ Threads \subseteq Nat \ {0}
    /\ NoThread \notin Threads
    /\ Total \in Nat
<1>1. gWorkloadPathArray \in Seq(Range(gWorkloadPathArray)) /\ gWorkloadPathArray # <<>>
  BY WorkloadAssumption
<1>2. Len(gWorkloadPathArray) \in Nat \ {0}
  BY <1>1, EmptySeq
<1> QED
  BY <1>2, CountsAssumption DEF Threads, NoThread, Total, gUniqueWorkloadPaths

(* The remainder is an index into the array of paths.                      *)
LEMMA PathAt ==
  ASSUME NEW k \in Nat
  PROVE  gWorkloadPathArray[(k % gUniqueWorkloadPaths) + 1] \in Paths
<1>1. (k % gUniqueWorkloadPaths) + 1 \in 1 .. gUniqueWorkloadPaths
  BY Counts
<1>2. gWorkloadPathArray \in Seq(Paths)
  BY WorkloadAssumption DEF Paths
<1> QED
  BY <1>1, <1>2, ElementOfSeq DEF gUniqueWorkloadPaths

(* A name is never the one a thread has before its first request, and no   *)
(* inode is the missing one.                                               *)
LEMMA Absent == NoName \notin Names /\ NoInode \notin Inodes
BY NoInodeAssumption DEF Names, NoName

LEMMA InodeParts ==
  ASSUME NEW o \in Inodes
  PROVE  o[1] \in Threads /\ o[2] \in 1 .. nrequests
BY DEF Inodes

(* A request that has not stored the counter leaves it below the total, so *)
(* the name it makes is one of Names.                                      *)
LEMMA StoredFinite == IsFiniteSet(Stored) /\ Cardinality(Stored) \in Nat
<1>1. IsFiniteSet(Inodes)
  <2>1. IsFiniteSet(Threads) /\ IsFiniteSet(1 .. nrequests)
    BY Counts, FS_Interval DEF Threads
  <2> QED
    BY <2>1, FS_Product DEF Inodes
<1>2. Stored \in SUBSET Inodes
  BY DEF Stored
<1> QED
  BY <1>1, <1>2, FS_Subset, FS_CardinalityType

LEMMA StoredBelowTotal ==
  ASSUME NEW t \in Threads, TypeOK, LocalsInv, pc[t] = "store"
  PROVE  Cardinality(Stored) < Total
<1> DEFINE o == <<t, i[t]>>
<1>1. IsFiniteSet(Inodes) /\ Cardinality(Inodes) = Total
  <2>1. IsFiniteSet(Threads) /\ Cardinality(Threads) = nthreads
    BY Counts, FS_Interval DEF Threads
  <2>2. IsFiniteSet(1 .. nrequests) /\ Cardinality(1 .. nrequests) = nrequests
    BY Counts, FS_Interval
  <2> QED
    BY <2>1, <2>2, FS_Product DEF Inodes, Total
<1>2. o \in Inodes /\ o \notin Stored
  <2>1. i[t] \in 1 .. nrequests
    BY DEF LocalsInv, LocalsOf
  <2> QED
    BY <2>1 DEF Inodes, Stored, Past, InRequest
<1>3. Stored \in SUBSET Inodes
  BY DEF Stored
<1>4. Cardinality(Stored) <= Total /\ Cardinality(Stored) # Total
  BY <1>1, <1>2, <1>3, FS_Subset
<1> QED
  BY <1>4, StoredFinite, Counts

LEMMA InitInv == Init => IInv
<1> SUFFICES ASSUME Init PROVE IInv
  OBVIOUS
<1> USE Counts, Absent DEF Init
<1>1. TypeOK
  BY DEF TypeOK, Places, InRequest
<1>2. LocalsInv /\ InodeInv
  BY DEF LocalsInv, LocalsOf, InodeInv, InRequest
<1>3. BossInv /\ WaitInv /\ TurnInv
  BY DEF BossInv, WaitInv, TurnInv, WorkloadInTurn, Threads
<1>4. CountInv
  <2>1. Stored = {}
    BY InodeParts DEF Stored, Past, InRequest
  <2> QED
    BY <2>1, FS_EmptySet DEF CountInv
<1>5. OnceInv /\ OwnNameIntact
  BY DEF OnceInv, OnceOf, OwnNameIntact, Busy
<1> QED
  BY <1>1, <1>2, <1>3, <1>4, <1>5 DEF IInv

-----------------------------------------------------------------------------
(* Each lemma below takes one conjunct of the invariant through a step.    *)

LEMMA TypeStep == IInv /\ [Next]_vars => TypeOK'
<1> SUFFICES ASSUME IInv, [Next]_vars PROVE TypeOK'
  OBVIOUS
<1>a. TypeOK /\ LocalsInv
  BY DEF IInv
<1>b. CountInv
  BY DEF IInv
<1> USE <1>a, Counts DEF TypeOK, Places, InRequest, Goto, locals, workload, naming, disk, boss
<1>1. CASE MainStep \/ Exit
  <2>1. CASE CreateThread
    <3>1. created + 1 \in Threads /\ created + 1 \in 0 .. nthreads
      BY <2>1 DEF CreateThread, Threads
    <3>2. i' \in [Threads -> 0 .. nrequests]
      BY <2>1, <3>1 DEF CreateThread
    <3>3. pc' \in [Threads -> Places]
      BY <2>1, <3>1 DEF CreateThread
    <3> QED
      BY <2>1, <3>1, <3>2, <3>3 DEF CreateThread
  <2>2. CASE Exit
    BY <2>2 DEF Exit
  <2>3. CASE AllCreated
    BY <2>3 DEF AllCreated
  <2>4. CASE Join
    BY <2>4 DEF Join
  <2>5. CASE AllJoined
    BY <2>5 DEF AllJoined
  <2>6. CASE GlobalCleanup
    BY <2>6 DEF GlobalCleanup
  <2> QED
    BY <1>1, <2>1, <2>2, <2>3, <2>4, <2>5, <2>6 DEF MainStep
<1>2. ASSUME NEW t \in Threads, Lock(t) PROVE TypeOK'
  BY <1>2 DEF Lock
<1>3. ASSUME NEW t \in Threads, Count(t) PROVE TypeOK'
  BY <1>3 DEF Count
<1>4. ASSUME NEW t \in Threads, Read(t) PROVE TypeOK'
  <2> DEFINE p == gWorkloadPathArray[(counter % gUniqueWorkloadPaths) + 1]
  <2>1. p \in Paths
    BY PathAt
  <2>2. given' = Append(given, p) /\ req_path' = [req_path EXCEPT ![t] = p]
    BY <1>4 DEF Read
  <2> HIDE DEF p
  <2>3. given' \in Seq(Paths)
    BY <2>1, <2>2, AppendProperties
  <2>4. req_path' \in [Threads -> Paths \cup {NoInode}]
    BY <2>1, <2>2
  <2>5. pc' \in [Threads -> Places]
    BY <1>4 DEF Read
  <2> QED
    BY <1>4, <2>3, <2>4, <2>5 DEF Read
<1>5. ASSUME NEW t \in Threads, Unlock(t) PROVE TypeOK'
  BY <1>5 DEF Unlock, Released
<1>6. ASSUME NEW t \in Threads, LoadCounter(t) PROVE TypeOK'
  BY <1>6 DEF LoadCounter
<1>7. ASSUME NEW t \in Threads, StoreCounter(t) PROVE TypeOK'
  <2>1. seen[t] \in 0 .. Total - 1 /\ req_path[t] \in Paths
    <3>1. Cardinality(Stored) < Total /\ seen[t] <= Cardinality(Stored)
      BY <1>7, StoredBelowTotal, <1>b DEF StoreCounter, CountInv
    <3>2. req_path[t] \in Paths
      BY <1>7 DEF StoreCounter, LocalsInv, LocalsOf
    <3> QED
      BY <3>1, <3>2, StoredFinite
  <2>2. <<req_path[t], seen[t]>> \in Names
    BY <2>1 DEF Names, Paths
  <2>3. local_path' \in [Threads -> Names \cup {NoName}]
    BY <1>7, <2>2 DEF StoreCounter
  <2>4. seen' \in [Threads -> Nat] /\ names' \in Nat
    BY <1>7 DEF StoreCounter
  <2>5. pc' \in [Threads -> Places]
    BY <1>7 DEF StoreCounter
  <2> QED
    BY <1>7, <2>3, <2>4, <2>5 DEF StoreCounter
<1>8. ASSUME NEW t \in Threads, OpenFile(t) PROVE TypeOK'
  <2>1. local_path[t] \in Names /\ <<t, i[t]>> \in Inodes
    BY <1>8 DEF OpenFile, LocalsInv, LocalsOf, Inodes
  <2>2. PICK o \in Inodes : /\ dir' = [dir EXCEPT ![local_path[t]] = o]
                            /\ data' = [data EXCEPT ![o] = {}]
                            /\ file' = [file EXCEPT ![t] = o]
    BY <1>8, <2>1 DEF OpenFile
  <2>3. dir' \in [Names -> Inodes \cup {NoInode}]
    BY <2>1, <2>2
  <2>4. data' \in [Inodes -> SUBSET (1 .. FileLen)]
    BY <2>2
  <2>5. file' \in [Threads -> Inodes \cup {NoInode}]
    BY <2>2
  <2>6. opened' \in [Names -> Nat] /\ pc' \in [Threads -> Places]
    BY <1>8, <2>1 DEF OpenFile
  <2> QED
    BY <1>8, <2>3, <2>4, <2>5, <2>6 DEF OpenFile
<1>9. ASSUME NEW t \in Threads, Write(t) PROVE TypeOK'
  <2>1. written[t] + 1 \in 1 .. FileLen /\ file[t] \in Inodes
    <3>1. pc[t] = "perform" /\ written[t] \in 0 .. FileLen /\ written[t] < FileLen
      BY <1>9 DEF Write
    <3>2. file[t] \in Inodes
      BY <3>1 DEF LocalsInv, LocalsOf
    <3>3. written[t] + 1 \in 1 .. FileLen
      BY <3>1
    <3> QED
      BY <3>2, <3>3
  <2>2. written' \in [Threads -> 0 .. FileLen]
    BY <1>9, <2>1 DEF Write
  <2>3. data' \in [Inodes -> SUBSET (1 .. FileLen)]
    BY <1>9, <2>1 DEF Write
  <2> QED
    BY <1>9, <2>2, <2>3 DEF Write
<1>10. ASSUME NEW t \in Threads, PerformReturns(t) PROVE TypeOK'
  BY <1>10 DEF PerformReturns, Outcomes
<1>11. ASSUME NEW t \in Threads, CloseFile(t) PROVE TypeOK'
  BY <1>11 DEF CloseFile, Unlink
<1>12. ASSUME NEW t \in Threads, NextRequest(t) PROVE TypeOK'
  <2>1. local_path[t] \in Names /\ i[t] \in 1 .. nrequests
    BY <1>12 DEF NextRequest, LocalsInv, LocalsOf
  <2>2. \/ i' = [i EXCEPT ![t] = i[t] + 1] /\ i[t] + 1 \in 1 .. nrequests
           /\ pc' = [pc EXCEPT ![t] = "lock"]
        \/ i' = i /\ pc' = [pc EXCEPT ![t] = "exited"]
    BY <1>12, <2>1 DEF NextRequest
  <2>3. kept' \subseteq Names /\ dir' \in [Names -> Inodes \cup {NoInode}]
    BY <1>12, <2>1 DEF NextRequest, Unlink
  <2>4. pc' \in [Threads -> Places]
    BY <2>2
  <2>5. i' \in [Threads -> 0 .. nrequests]
    BY <2>2
  <2>6. /\ file' \in [Threads -> Inodes \cup {NoInode}]
        /\ written' \in [Threads -> 0 .. FileLen]
    BY <1>12 DEF NextRequest, Forget
  <2>7. /\ returncode' \in [Threads -> {"none", "ok", "error"}]
        /\ status' \in [Threads -> {"OK", "FILE_NOT_FOUND", "ERROR", "INVALID"}]
    BY <1>12 DEF NextRequest, Forget
  <2> QED
    BY <1>12, <2>3, <2>4, <2>5, <2>6, <2>7 DEF NextRequest, Forget
<1>13. CASE UNCHANGED vars
  BY <1>13 DEF vars
<1> QED
  BY <1>1, <1>2, <1>3, <1>4, <1>5, <1>6, <1>7, <1>8, <1>9, <1>10, <1>11, <1>12, <1>13
  DEF Next, ThreadStep

LEMMA LocalsStep == IInv /\ [Next]_vars => LocalsInv'
<1> SUFFICES ASSUME IInv, [Next]_vars, NEW u \in Threads PROVE LocalsOf(u)'
  BY DEF LocalsInv
<1> DEFINE Goal == LocalsOf(u)'
<1>a. /\ pc \in [Threads -> Places] /\ i \in [Threads -> 0 .. nrequests]
      /\ req_path \in [Threads -> Paths \cup {NoInode}]
      /\ local_path \in [Threads -> Names \cup {NoName}]
      /\ file \in [Threads -> Inodes \cup {NoInode}]
      /\ written \in [Threads -> 0 .. FileLen]
      /\ returncode \in [Threads -> {"none", "ok", "error"}]
      /\ status \in [Threads -> {"OK", "FILE_NOT_FOUND", "ERROR", "INVALID"}]
  BY DEF IInv, TypeOK
<1>b. LocalsOf(u)
  BY DEF IInv, LocalsInv
<1>c. TypeOK'
  BY TypeStep
<1> USE <1>a, <1>b, Counts DEF InRequest, Goto, LocalsOf
<1>1. ASSUME UNCHANGED <<i, locals>>, pc'[u] = pc[u] PROVE Goal
  BY <1>1 DEF locals
<1>2. CASE CreateThread
  <2>1. created + 1 \in Threads
    BY <1>2 DEF CreateThread, Threads, IInv, TypeOK
  <2>2. CASE u = created + 1
    <3>1. pc'[u] \in {"exited", "lock"} /\ (pc'[u] = "lock" => i'[u] = 1 /\ nrequests # 0)
      BY <1>2, <2>1, <2>2 DEF CreateThread
    <3>2. written'[u] = 0
      <4>1. pc[u] = "new" /\ written'[u] = written[u]
        BY <1>2, <2>1, <2>2 DEF CreateThread, IInv, BossInv, locals, Threads, TypeOK
      <4> QED
        BY <4>1
    <3> QED
      BY <3>1, <3>2
  <2>3. CASE u # created + 1
    BY <1>2, <2>1, <2>3 DEF CreateThread, locals
  <2> QED
    BY <2>2, <2>3
<1>3. CASE Exit \/ AllCreated \/ Join \/ AllJoined \/ GlobalCleanup
  BY <1>1, <1>3 DEF Exit, AllCreated, Join, AllJoined, GlobalCleanup
<1>4. ASSUME NEW t \in Threads, ThreadStep(t), t # u PROVE Goal
  <2>1. /\ pc'[u] = pc[u] /\ i'[u] = i[u] /\ req_path'[u] = req_path[u]
        /\ local_path'[u] = local_path[u] /\ file'[u] = file[u]
    BY <1>4 DEF ThreadStep, Lock, Count, Read, Unlock, LoadCounter, StoreCounter, OpenFile,
                Write, PerformReturns, CloseFile, NextRequest, Forget, locals
  <2>2. /\ written'[u] = written[u] /\ returncode'[u] = returncode[u]
        /\ status'[u] = status[u]
    BY <1>4 DEF ThreadStep, Lock, Count, Read, Unlock, LoadCounter, StoreCounter, OpenFile,
                Write, PerformReturns, CloseFile, NextRequest, Forget, locals
  <2> QED
    BY <2>1, <2>2
<1>5. CASE Lock(u) \/ Count(u) \/ Unlock(u) \/ LoadCounter(u)
  BY <1>5 DEF Lock, Count, Unlock, LoadCounter, locals
<1>6. CASE Read(u)
  <2>1. gWorkloadPathArray[(counter % gUniqueWorkloadPaths) + 1] \in Paths
    BY PathAt DEF IInv, TypeOK
  <2> QED
    BY <1>6, <2>1 DEF Read
<1>7. CASE StoreCounter(u)
  <2>1. local_path'[u] # NoName
    BY <1>7 DEF StoreCounter, NoName, IInv, LocalsInv, LocalsOf, TypeOK
  <2>2. local_path'[u] \in Names
    BY <1>c, <2>1 DEF TypeOK
  <2> QED
    BY <1>7, <2>2 DEF StoreCounter
<1>8. CASE OpenFile(u)
  <2>1. local_path[u] \in Names /\ <<u, i[u]>> \in Inodes
    BY <1>8 DEF OpenFile, Inodes
  <2>2. file'[u] \in Inodes
    BY <1>8, <2>1 DEF OpenFile, IInv, TypeOK
  <2> QED
    BY <1>8, <2>2 DEF OpenFile
<1>9. CASE Write(u)
  BY <1>9 DEF Write
<1>10. CASE PerformReturns(u)
  <2>1. <<returncode'[u], status'[u]>> \in Outcomes(written[u])
    BY <1>10 DEF PerformReturns, Outcomes
  <2> QED
    BY <1>10, <2>1 DEF PerformReturns
<1>11. CASE CloseFile(u)
  BY <1>11 DEF CloseFile, locals
<1>12. CASE NextRequest(u)
  BY <1>12 DEF NextRequest, Forget
<1>13. CASE UNCHANGED vars
  BY <1>1, <1>13 DEF vars
<1> QED
  BY <1>2, <1>3, <1>4, <1>5, <1>6, <1>7, <1>8, <1>9, <1>10, <1>11, <1>12, <1>13
  DEF Next, MainStep, ThreadStep

(* A thread that has ended does not come back, so those main has joined    *)
(* stay ended.                                                             *)
LEMMA BossInvStep == IInv /\ [Next]_vars => BossInv'
<1> SUFFICES ASSUME IInv, [Next]_vars PROVE BossInv'
  OBVIOUS
<1>a. /\ pc \in [Threads -> Places] /\ created \in 0 .. nthreads
      /\ joined \in 0 .. nthreads /\ BossInv
  BY DEF IInv, TypeOK
<1> USE <1>a, Counts DEF BossInv
<1>1. CASE CreateThread
  <2>1. created + 1 \in Threads /\ main = "create" /\ joined = 0
    BY <1>1 DEF CreateThread, Threads
  <2>2. pc' = [pc EXCEPT ![created + 1] = pc'[created + 1]] /\ pc'[created + 1] # "new"
    BY <1>1, <2>1 DEF CreateThread, Goto
  <2>3. \A t \in Threads : pc'[t] = "new" <=> t > created + 1
    BY <2>1, <2>2 DEF Threads
  <2> QED
    BY <1>1, <2>1, <2>3 DEF CreateThread
<1>2. CASE Exit
  BY <1>2 DEF Exit
<1>3. CASE AllCreated
  BY <1>3 DEF AllCreated
<1>4. CASE Join
  BY <1>4 DEF Join
<1>5. CASE AllJoined
  BY <1>5 DEF AllJoined, EveryJoined
<1>6. CASE GlobalCleanup
  BY <1>6 DEF GlobalCleanup
<1>7. ASSUME NEW t \in Threads, ThreadStep(t) PROVE BossInv'
  <2>1. /\ UNCHANGED <<created, joined, main>>
        /\ pc[t] \notin {"new", "exited"} /\ pc'[t] # "new"
    BY <1>7 DEF ThreadStep, Lock, Count, Read, Unlock, LoadCounter, StoreCounter, OpenFile,
                Write, PerformReturns, CloseFile, NextRequest, Goto, boss
  <2>2. \A u \in Threads : u # t => pc'[u] = pc[u]
    BY <1>7 DEF ThreadStep, Lock, Count, Read, Unlock, LoadCounter, StoreCounter, OpenFile,
                Write, PerformReturns, CloseFile, NextRequest, Goto
  <2>3. 1 .. joined \subseteq Threads
    BY DEF Threads
  <2> QED
    BY <2>1, <2>2, <2>3
<1>8. CASE UNCHANGED vars
  BY <1>8 DEF vars, boss
<1> QED
  BY <1>1, <1>2, <1>3, <1>4, <1>5, <1>6, <1>7, <1>8 DEF Next, MainStep

LEMMA WaitStep == IInv /\ [Next]_vars => WaitInv'
<1> SUFFICES ASSUME IInv, [Next]_vars PROVE WaitInv'
  OBVIOUS
<1>a. /\ pc \in [Threads -> Places] /\ mutex_get_path \in Threads \cup {NoThread}
      /\ WaitInv /\ BossInv
  BY DEF IInv, TypeOK
<1> USE Counts DEF WaitInv
<1>1. CASE CreateThread
  <2>1. created + 1 \in Threads /\ pc[created + 1] = "new"
    BY <1>1, <1>a DEF CreateThread, Threads, BossInv, IInv, TypeOK
  <2>2. \A u \in Threads : u # created + 1 => pc'[u] = pc[u]
    BY <1>1, <1>a DEF CreateThread, Goto
  <2> QED
    BY <1>1, <1>a, <2>1, <2>2 DEF CreateThread, workload
<1>2. CASE Exit \/ AllCreated \/ Join \/ AllJoined \/ GlobalCleanup
  BY <1>2, <1>a DEF Exit, AllCreated, Join, AllJoined, GlobalCleanup, workload
<1>3. ASSUME NEW t \in Threads, ThreadStep(t) PROVE WaitInv'
  <2>1. UNCHANGED <<created, main>>
    BY <1>3 DEF ThreadStep, Lock, Count, Read, Unlock, LoadCounter, StoreCounter, OpenFile,
                Write, PerformReturns, CloseFile, NextRequest, boss
  <2>2. \A u \in Threads : u # t => pc'[u] = pc[u]
    BY <1>3, <1>a DEF ThreadStep, Lock, Count, Read, Unlock, LoadCounter, StoreCounter, OpenFile,
                Write, PerformReturns, CloseFile, NextRequest, Goto
  <2>3. \A u \in Threads : mutex_get_path' = u => pc'[u] \in {"count", "read", "unlock"}
    <3>1. CASE Lock(t)
      BY <1>a, <2>2, <3>1 DEF Lock, Goto
    <3>2. CASE Count(t) \/ Read(t)
      BY <1>a, <2>2, <3>2 DEF Count, Read, Goto
    <3>3. CASE Unlock(t)
      BY <3>3 DEF Unlock, Released
    <3>4. CASE \/ LoadCounter(t) \/ StoreCounter(t) \/ OpenFile(t) \/ Write(t)
               \/ PerformReturns(t) \/ CloseFile(t) \/ NextRequest(t)
      <4>1. mutex_get_path' = mutex_get_path /\ pc[t] \notin {"count", "read", "unlock"}
        BY <3>4 DEF LoadCounter, StoreCounter, OpenFile, Write, PerformReturns, CloseFile,
                    NextRequest, workload
      <4> QED
        BY <1>a, <2>2, <4>1
    <3> QED
      BY <1>3, <3>1, <3>2, <3>3, <3>4 DEF ThreadStep
  <2> QED
    BY <1>a, <2>1, <2>3
<1>4. CASE UNCHANGED vars
  BY <1>4, <1>a DEF vars, boss, workload
<1> QED
  BY <1>1, <1>2, <1>3, <1>4 DEF Next, MainStep

(* Only the holder of the mutex counts and reads, so the path it reads is  *)
(* the one its count calls for.                                            *)
LEMMA TurnStep == IInv /\ [Next]_vars => TurnInv'
<1> SUFFICES ASSUME IInv, [Next]_vars PROVE TurnInv'
  OBVIOUS
<1> DEFINE Critical == {"count", "read", "unlock"}
<1>a. /\ pc \in [Threads -> Places] /\ mutex_get_path \in Threads \cup {NoThread}
      /\ counter \in Nat /\ given \in Seq(Paths) /\ Len(given) \in Nat /\ TurnInv
  BY LenProperties DEF IInv, TypeOK
<1>b. \A t \in Threads : pc[t] \in Critical => mutex_get_path = t
  BY <1>a DEF TurnInv
<1>1. ASSUME UNCHANGED workload,
             \A u \in Threads : pc'[u] \in Critical \/ pc[u] \in Critical => pc'[u] = pc[u]
      PROVE  TurnInv'
  BY <1>a, <1>1 DEF TurnInv, WorkloadInTurn, workload
<1>2. CASE CreateThread
  <2>1. created + 1 \in Threads /\ pc[created + 1] = "new"
    BY <1>2, Counts DEF CreateThread, Threads, IInv, TypeOK, BossInv
  <2>2. \A u \in Threads : u # created + 1 => pc'[u] = pc[u]
    BY <1>2, <1>a DEF CreateThread, Goto
  <2>3. pc'[created + 1] \in {"lock", "exited"}
    BY <1>2, <1>a, <2>1 DEF CreateThread, Goto
  <2> QED
    BY <1>1, <1>2, <2>1, <2>2, <2>3 DEF CreateThread
<1>3. CASE Exit \/ AllCreated \/ Join \/ AllJoined \/ GlobalCleanup
  BY <1>1, <1>3 DEF Exit, AllCreated, Join, AllJoined, GlobalCleanup
<1>4. ASSUME NEW t \in Threads, Lock(t) PROVE TurnInv'
  <2>1. \A u \in Threads : pc[u] \notin Critical
    BY <1>4, <1>b, Counts DEF Lock, Free
  <2>2. pc' = [pc EXCEPT ![t] = "count"] /\ mutex_get_path' = t /\ UNCHANGED <<counter, given>>
    BY <1>4 DEF Lock, Goto
  <2> QED
    BY <1>a, <2>1, <2>2 DEF TurnInv, WorkloadInTurn
<1>5. ASSUME NEW t \in Threads, Count(t) PROVE TurnInv'
  <2>1. /\ pc[t] = "count" /\ pc' = [pc EXCEPT ![t] = "read"]
        /\ counter' = counter + 1 /\ UNCHANGED <<mutex_get_path, given>>
    BY <1>5 DEF Count, Goto
  <2>2. \A u \in Threads : pc[u] # "read"
    BY <1>b, <2>1
  <2> QED
    BY <1>a, <2>1, <2>2 DEF TurnInv, WorkloadInTurn
<1>6. ASSUME NEW t \in Threads, Read(t) PROVE TurnInv'
  <2> DEFINE p == gWorkloadPathArray[(counter % gUniqueWorkloadPaths) + 1]
  <2>1. /\ pc[t] = "read" /\ pc' = [pc EXCEPT ![t] = "unlock"]
        /\ given' = Append(given, p) /\ UNCHANGED <<mutex_get_path, counter>>
    BY <1>6 DEF Read, Goto
  <2>2. counter = Len(given) + 1
    BY <1>a, <2>1 DEF TurnInv
  <2>3. \A u \in Threads : pc'[u] # "read"
    BY <1>a, <1>b, <2>1
  <2>4. p \in Paths
    BY <1>a, PathAt
  <2> HIDE DEF p
  <2>5. /\ Len(given') = Len(given) + 1
        /\ \A k \in 1 .. Len(given) : given'[k] = given[k]
        /\ given'[Len(given) + 1] = p
    BY <1>a, <2>1, <2>4, AppendProperties
  <2>6. WorkloadInTurn'
    <3> SUFFICES ASSUME NEW k \in 1 .. Len(given) + 1
                 PROVE  given'[k] = gWorkloadPathArray[(k % gUniqueWorkloadPaths) + 1]
      BY <2>5 DEF WorkloadInTurn
    <3>1. CASE k \in 1 .. Len(given)
      BY <1>a, <2>5, <3>1 DEF TurnInv, WorkloadInTurn
    <3>2. CASE k = Len(given) + 1
      BY <2>2, <2>5, <3>2 DEF p
    <3> QED
      BY <1>a, <3>1, <3>2
  <2>7. \A u \in Threads : pc'[u] \in Critical => mutex_get_path' = u
    BY <1>a, <1>b, <2>1
  <2> QED
    BY <2>1, <2>2, <2>3, <2>5, <2>6, <2>7 DEF TurnInv
<1>7. ASSUME NEW t \in Threads, Unlock(t) PROVE TurnInv'
  <2>1. /\ pc[t] = "unlock" /\ pc' = [pc EXCEPT ![t] = "load"]
        /\ UNCHANGED <<counter, given>>
    BY <1>7 DEF Unlock, Goto
  <2>2. \A u \in Threads : pc'[u] \notin Critical /\ pc[u] # "read"
    BY <1>a, <1>b, <2>1
  <2> QED
    BY <1>a, <2>1, <2>2 DEF TurnInv, WorkloadInTurn
<1>8. ASSUME NEW t \in Threads,
             \/ LoadCounter(t) \/ StoreCounter(t) \/ OpenFile(t) \/ Write(t)
             \/ PerformReturns(t) \/ CloseFile(t) \/ NextRequest(t)
      PROVE  TurnInv'
  <2>1. UNCHANGED workload
    BY <1>8 DEF LoadCounter, StoreCounter, OpenFile, Write, PerformReturns, CloseFile,
                NextRequest
  <2>2. pc[t] \notin Critical /\ pc'[t] \notin Critical
    BY <1>8, <1>a DEF LoadCounter, StoreCounter, OpenFile, Write, PerformReturns, CloseFile,
                      NextRequest, Goto
  <2>3. \A u \in Threads : u # t => pc'[u] = pc[u]
    BY <1>8, <1>a DEF LoadCounter, StoreCounter, OpenFile, Write, PerformReturns, CloseFile,
                      NextRequest, Goto
  <2> QED
    BY <1>1, <2>1, <2>2, <2>3
<1>9. CASE UNCHANGED vars
  BY <1>1, <1>9 DEF vars
<1> QED
  BY <1>2, <1>3, <1>4, <1>5, <1>6, <1>7, <1>8, <1>9 DEF Next, MainStep, ThreadStep

-----------------------------------------------------------------------------
(* Requests only move on, and what they pass they pass in one step.        *)
LEMMA PastStep ==
  ASSUME IInv, [Next]_vars, NEW o \in Inodes
  PROVE  /\ Past(o, {"open"}) => Past(o, {"open"})'
         /\ Past(o, {"open"})' =>
               Past(o, {"open"}) \/ (StoreCounter(o[1]) /\ o[2] = i[o[1]])
         /\ Past(o, {}) => Past(o, {})'
         /\ Past(o, {})' => Past(o, {}) \/ (OpenFile(o[1]) /\ o[2] = i[o[1]])
<1>u. PICK u \in Threads : u = o[1]
  BY InodeParts
<1>a. u \in Threads /\ o[2] \in 1 .. nrequests
  BY InodeParts
<1>b. /\ pc \in [Threads -> Places] /\ i \in [Threads -> 0 .. nrequests]
      /\ created \in 0 .. nthreads /\ LocalsOf(u)
  BY <1>a DEF IInv, TypeOK, LocalsInv
<1> DEFINE Goal == /\ Past(o, {"open"}) => Past(o, {"open"})'
                   /\ Past(o, {"open"})' =>
                         Past(o, {"open"}) \/ (StoreCounter(u) /\ o[2] = i[u])
                   /\ Past(o, {}) => Past(o, {})'
                   /\ Past(o, {})' => Past(o, {}) \/ (OpenFile(u) /\ o[2] = i[u])
<1> SUFFICES Goal
  BY <1>u
<1>1. ASSUME pc'[u] = pc[u], i'[u] = i[u] PROVE Goal
  BY <1>1, <1>u DEF Past
<1>2. CASE CreateThread
  <2>1. created + 1 \in Threads
    BY <1>2, <1>b, Counts DEF CreateThread, Threads
  <2>2. CASE u = created + 1
    <3>1. pc[u] = "new" /\ i[u] = 0
      BY <1>a, <1>b, <2>2, Counts DEF IInv, BossInv, LocalsOf
    <3>2. pc'[u] = "lock" /\ i'[u] = 1
      BY <1>2, <1>a, <1>b, <2>2, Counts DEF CreateThread, Goto
    <3> QED
      BY <1>a, <3>1, <3>2, Counts, <1>u DEF Past, InRequest
  <2> QED
    BY <1>1, <1>2, <1>a, <1>b, <2>1, <2>2 DEF CreateThread, Goto
<1>3. CASE Exit \/ AllCreated \/ Join \/ AllJoined \/ GlobalCleanup
  BY <1>1, <1>3 DEF Exit, AllCreated, Join, AllJoined, GlobalCleanup
<1>4. ASSUME NEW t \in Threads, ThreadStep(t), t # u PROVE Goal
  <2>1. pc'[u] = pc[u] /\ i'[u] = i[u]
    BY <1>4, <1>a, <1>b
    DEF ThreadStep, Lock, Count, Read, Unlock, LoadCounter, StoreCounter, OpenFile,
        Write, PerformReturns, CloseFile, NextRequest, Goto
  <2> QED
    BY <1>1, <2>1
<1>5. CASE Lock(u) \/ Count(u) \/ Read(u) \/ Unlock(u) \/ LoadCounter(u) \/ Write(u)
           \/ PerformReturns(u) \/ CloseFile(u)
  <2>1. /\ i'[u] = i[u]
        /\ pc[u] \in InRequest <=> pc'[u] \in InRequest
        /\ pc[u] \notin {"open", "exited"} /\ pc'[u] \notin {"open", "exited"}
    BY <1>5, <1>a, <1>b DEF Lock, Count, Read, Unlock, LoadCounter, Write, PerformReturns,
                            CloseFile, Goto, InRequest
  <2> QED
    BY <2>1, <1>u DEF Past
<1>6. CASE StoreCounter(u)
  <2>1. i'[u] = i[u] /\ pc[u] = "store" /\ pc'[u] = "open"
    BY <1>6, <1>a, <1>b DEF StoreCounter, Goto
  <2> QED
    BY <1>6, <2>1, <1>u DEF Past, InRequest
<1>7. CASE OpenFile(u)
  <2>1. i'[u] = i[u] /\ pc[u] = "open" /\ pc'[u] = "perform"
    BY <1>7, <1>a, <1>b DEF OpenFile, Goto
  <2> QED
    BY <1>7, <2>1, <1>u DEF Past, InRequest
<1>8. CASE NextRequest(u)
  <2>1. /\ pc[u] = "status" /\ i[u] \in 1 .. nrequests
        /\ \/ i'[u] = i[u] + 1 /\ pc'[u] = "lock"
           \/ i'[u] = i[u] /\ pc'[u] = "exited"
    BY <1>8, <1>a, <1>b DEF NextRequest, Goto, LocalsOf
  <2>2. Past(o, {"open"}) /\ Past(o, {}) <=> o[2] <= i[u]
    BY <1>a, <2>1, <1>u DEF Past, InRequest
  <2>3. Past(o, {"open"}) <=> Past(o, {})
    BY <2>1, <1>u DEF Past, InRequest
  <2>4. /\ Past(o, {"open"})' <=> o[2] <= i[u]
        /\ Past(o, {})' <=> o[2] <= i[u]
    BY <1>a, <2>1, <1>u DEF Past, InRequest
  <2> QED
    BY <2>2, <2>3, <2>4
<1>9. CASE UNCHANGED vars
  BY <1>1, <1>9 DEF vars
<1> QED
  BY <1>2, <1>3, <1>4, <1>5, <1>6, <1>7, <1>8, <1>9 DEF Next, MainStep, ThreadStep

LEMMA CountStep == IInv /\ [Next]_vars => CountInv'
<1> SUFFICES ASSUME IInv, [Next]_vars PROVE CountInv'
  OBVIOUS
<1>a. /\ names \in Nat /\ seen \in [Threads -> Nat] /\ pc \in [Threads -> Places]
      /\ CountInv /\ created \in 0 .. nthreads
  BY DEF IInv, TypeOK
<1>b. /\ IsFiniteSet(Stored) /\ Cardinality(Stored) \in Nat
      /\ IsFiniteSet(Stored') /\ Cardinality(Stored') \in Nat
  <2>1. IsFiniteSet(Inodes)
    <3>1. IsFiniteSet(Threads) /\ IsFiniteSet(1 .. nrequests)
      BY Counts, FS_Interval DEF Threads
    <3> QED
      BY <3>1, FS_Product DEF Inodes
  <2>2. Stored' \in SUBSET Inodes
    BY DEF Stored
  <2> QED
    BY <2>1, <2>2, StoredFinite, FS_Subset, FS_CardinalityType
<1>c. Cardinality(Stored) <= Cardinality(Stored')
  <2>1. Stored \in SUBSET Stored'
    BY PastStep DEF Stored
  <2> QED
    BY <1>b, <2>1, FS_Subset
<1>1. ASSUME UNCHANGED naming,
             \A u \in Threads : pc'[u] = "store" => pc[u] = "store"
      PROVE  CountInv'
  BY <1>a, <1>b, <1>c, <1>1 DEF CountInv, naming
<1>2. CASE CreateThread
  <2>1. \A u \in Threads : pc'[u] = "store" => pc[u] = "store"
    BY <1>2, <1>a DEF CreateThread, Goto
  <2> QED
    BY <1>1, <1>2, <2>1 DEF CreateThread
<1>3. CASE Exit \/ AllCreated \/ Join \/ AllJoined \/ GlobalCleanup
  BY <1>1, <1>3 DEF Exit, AllCreated, Join, AllJoined, GlobalCleanup
<1>4. ASSUME NEW t \in Threads,
             \/ Lock(t) \/ Count(t) \/ Read(t) \/ Unlock(t) \/ OpenFile(t) \/ Write(t)
             \/ PerformReturns(t) \/ CloseFile(t) \/ NextRequest(t)
      PROVE  CountInv'
  <2>1. UNCHANGED naming
    BY <1>4 DEF Lock, Count, Read, Unlock, OpenFile, Write, PerformReturns, CloseFile,
                NextRequest
  <2>2. \A u \in Threads : pc'[u] = "store" => pc[u] = "store"
    BY <1>4, <1>a DEF Lock, Count, Read, Unlock, OpenFile, Write, PerformReturns, CloseFile,
                      NextRequest, Goto
  <2> QED
    BY <1>1, <2>1, <2>2
<1>5. ASSUME NEW t \in Threads, LoadCounter(t) PROVE CountInv'
  <2>1. /\ pc' = [pc EXCEPT ![t] = "store"] /\ seen' = [seen EXCEPT ![t] = names]
        /\ names' = names
    BY <1>5 DEF LoadCounter, Goto
  <2> QED
    BY <1>a, <1>b, <1>c, <2>1 DEF CountInv
<1>6. ASSUME NEW t \in Threads, StoreCounter(t) PROVE CountInv'
  <2> DEFINE o == <<t, i[t]>>
  <2>1. /\ pc[t] = "store" /\ pc' = [pc EXCEPT ![t] = "open"]
        /\ seen' = [seen EXCEPT ![t] = 0] /\ names' = seen[t] + 1 /\ i' = i
    BY <1>6 DEF StoreCounter, Goto
  <2>2. o \in Inodes /\ o \notin Stored /\ o \in Stored'
    <3>1. i[t] \in 1 .. nrequests
      BY <2>1 DEF IInv, LocalsInv, LocalsOf
    <3> QED
      BY <1>a, <2>1, <3>1 DEF Inodes, Stored, Past, InRequest
  <2>3. Cardinality(Stored \cup {o}) = Cardinality(Stored) + 1
    BY <1>b, <2>2, FS_AddElement
  <2>4. Stored \cup {o} \in SUBSET Stored'
    BY <2>2, PastStep DEF Stored
  <2>5. Cardinality(Stored) + 1 <= Cardinality(Stored')
    BY <1>b, <2>3, <2>4, FS_Subset
  <2>6. \A u \in Threads : pc'[u] = "store" => u # t /\ pc[u] = "store" /\ seen'[u] = seen[u]
    BY <1>a, <2>1
  <2> QED
    BY <1>a, <1>b, <2>1, <2>5, <2>6 DEF CountInv
<1>7. CASE UNCHANGED vars
  BY <1>1, <1>7 DEF vars
<1> QED
  BY <1>2, <1>3, <1>4, <1>5, <1>6, <1>7 DEF Next, MainStep, ThreadStep

-----------------------------------------------------------------------------
(* A new inode is one that no request before it made.                      *)
LEMMA NewInode ==
  ASSUME IInv, NEW t \in Threads, pc[t] = "open"
  PROVE  /\ local_path[t] \in Names
         /\ <<t, i[t]>> \in Inodes /\ ~ Past(<<t, i[t]>>, {})
         /\ written[t] = 0
<1>1. LocalsOf(t) /\ i[t] \in 0 .. nrequests
  BY DEF IInv, TypeOK, LocalsInv
<1> QED
  BY <1>1 DEF LocalsOf, Inodes, Past, InRequest

LEMMA InodeStep == IInv /\ [Next]_vars => InodeInv'
<1> SUFFICES ASSUME IInv, [Next]_vars PROVE InodeInv'
  OBVIOUS
<1>a. /\ pc \in [Threads -> Places] /\ local_path \in [Threads -> Names \cup {NoName}]
      /\ file \in [Threads -> Inodes \cup {NoInode}]
      /\ dir \in [Names -> Inodes \cup {NoInode}]
      /\ \A t \in Threads : pc[t] \in InRequest => local_path[t] \in Names /\ file[t] \in Inodes
      /\ InodeInv
  BY DEF IInv, TypeOK, LocalsInv, LocalsOf
<1>b. \A o \in Inodes : Past(o, {}) => Past(o, {})'
  BY PastStep
<1>1. ASSUME \A n \in Names : dir'[n] = dir[n] \/ dir'[n] = NoInode,
             \A t \in Threads : pc'[t] \in InRequest =>
                pc[t] \in InRequest /\ file'[t] = file[t] /\ local_path'[t] = local_path[t]
      PROVE  InodeInv'
  <2>1. \A n \in Names : dir'[n] # NoInode => Past(dir[n], {})'
    <3> SUFFICES ASSUME NEW n \in Names, dir'[n] # NoInode PROVE Past(dir[n], {})'
      OBVIOUS
    <3>1. dir'[n] = dir[n] /\ dir[n] \in Inodes /\ Past(dir[n], {})
      BY <1>a, <1>1 DEF InodeInv
    <3>2. PICK o \in Inodes : o = dir[n]
      BY <3>1
    <3>3. Past(o, {})'
      BY <1>b, <3>1, <3>2
    <3> QED
      BY <3>1, <3>2, <3>3 DEF Past
  <2>2. \A t \in Threads : pc'[t] \in InRequest => Past(file[t], {})'
    <3> SUFFICES ASSUME NEW t \in Threads, pc'[t] \in InRequest PROVE Past(file[t], {})'
      OBVIOUS
    <3>1. file'[t] = file[t] /\ file[t] \in Inodes /\ Past(file[t], {})
      BY <1>a, <1>1 DEF InodeInv
    <3>2. PICK o \in Inodes : o = file[t]
      BY <3>1
    <3>3. Past(o, {})'
      BY <1>b, <3>1, <3>2
    <3> QED
      BY <3>1, <3>2, <3>3 DEF Past
  <2>3. \A m, n \in Names : dir'[m] = dir'[n] /\ dir'[m] # NoInode => m = n
    BY <1>a, <1>1 DEF InodeInv
  <2>4. \A t \in Threads, n \in Names :
           pc'[t] \in InRequest /\ dir'[n] = file'[t] => local_path'[t] = n
    BY <1>a, <1>1, Absent DEF InodeInv
  <2>5. \A t, u \in Threads :
           pc'[t] \in InRequest /\ pc'[u] \in InRequest /\ file'[t] = file'[u] =>
              local_path'[t] = local_path'[u]
    BY <1>a, <1>1 DEF InodeInv
  <2> QED
    BY <2>1, <2>2, <2>3, <2>4, <2>5 DEF InodeInv
<1>2. CASE CreateThread
  <2>1. \A t \in Threads : pc'[t] \in InRequest => pc'[t] = pc[t]
    BY <1>2, <1>a DEF CreateThread, Goto, InRequest
  <2> QED
    BY <1>1, <1>2, <2>1 DEF CreateThread, locals, disk
<1>3. CASE Exit \/ AllCreated \/ Join \/ AllJoined \/ GlobalCleanup
  BY <1>1, <1>3 DEF Exit, AllCreated, Join, AllJoined, GlobalCleanup, locals, disk
<1>4. ASSUME NEW t \in Threads,
             \/ Lock(t) \/ Count(t) \/ Read(t) \/ Unlock(t) \/ LoadCounter(t)
             \/ StoreCounter(t) \/ Write(t) \/ PerformReturns(t) \/ CloseFile(t)
             \/ NextRequest(t)
      PROVE  InodeInv'
  <2>1. \A n \in Names : dir'[n] = dir[n] \/ dir'[n] = NoInode
    BY <1>4, <1>a DEF Lock, Count, Read, Unlock, LoadCounter, StoreCounter, Write,
                      PerformReturns, CloseFile, NextRequest, Unlink, disk
  <2>2. \A u \in Threads : pc'[u] \in InRequest => pc[u] \in InRequest
    BY <1>4, <1>a DEF Lock, Count, Read, Unlock, LoadCounter, StoreCounter, Write,
                      PerformReturns, CloseFile, NextRequest, Goto, InRequest
  <2>3. \A u \in Threads : pc'[u] \in InRequest => file'[u] = file[u]
    BY <1>4, <1>a DEF Lock, Count, Read, Unlock, LoadCounter, StoreCounter, Write,
                      PerformReturns, CloseFile, NextRequest, Forget, Goto, InRequest, locals
  <2>4. \A u \in Threads : pc'[u] \in InRequest => local_path'[u] = local_path[u]
    BY <1>4, <1>a DEF Lock, Count, Read, Unlock, LoadCounter, StoreCounter, Write,
                      PerformReturns, CloseFile, NextRequest, Forget, Goto, InRequest, locals
  <2> QED
    BY <1>1, <2>1, <2>2, <2>3, <2>4
<1>5. ASSUME NEW t \in Threads, OpenFile(t) PROVE InodeInv'
  <2>1. PICK n \in Names : n = local_path[t] /\ <<t, i[t]>> \in Inodes
    BY <1>5, NewInode DEF OpenFile
  <2>2. PICK o \in Inodes : o = IF dir[n] = NoInode THEN <<t, i[t]>> ELSE dir[n]
    BY <1>a, <2>1
  <2>3. /\ dir' = [dir EXCEPT ![n] = o] /\ file' = [file EXCEPT ![t] = o]
        /\ pc' = [pc EXCEPT ![t] = "perform"] /\ UNCHANGED <<i, local_path>>
        /\ pc[t] = "open"
    BY <1>5, <2>1, <2>2 DEF OpenFile, Goto
  <2>4. \A m \in Names : dir[m] = o => m = n
    <3>1. CASE dir[n] = NoInode
      BY <1>a, <2>2, <2>3, <3>1, NewInode, Absent DEF InodeInv
    <3>2. CASE dir[n] # NoInode
      BY <1>a, <2>2, <3>2 DEF InodeInv
    <3> QED
      BY <3>1, <3>2
  <2>5. \A u \in Threads : pc[u] \in InRequest /\ file[u] = o => local_path[u] = n
    <3>1. CASE dir[n] = NoInode
      BY <1>a, <2>2, <2>3, <3>1, NewInode DEF InodeInv
    <3>2. CASE dir[n] # NoInode
      BY <1>a, <2>2, <3>2 DEF InodeInv
    <3> QED
      BY <3>1, <3>2
  <2>6. Past(o, {})'
    <3>1. CASE dir[n] = NoInode
      BY <1>a, <2>2, <2>3, <3>1 DEF Past, InRequest
    <3>2. CASE dir[n] # NoInode
      BY <1>a, <1>b, <2>2, <3>2 DEF InodeInv
    <3> QED
      BY <3>1, <3>2
  <2>7. \A m \in Names : dir'[m] = IF m = n THEN o ELSE dir[m]
    BY <1>a, <2>3
  <2>8. \A u \in Threads : /\ file'[u] = IF u = t THEN o ELSE file[u]
                           /\ pc'[u] \in InRequest <=> pc[u] \in InRequest \/ u = t
    BY <1>a, <2>3 DEF InRequest
  <2>9. \A m \in Names : dir'[m] # NoInode => Past(dir[m], {})'
    <3> SUFFICES ASSUME NEW m \in Names, dir'[m] # NoInode PROVE Past(dir[m], {})'
      OBVIOUS
    <3>1. PICK q \in Inodes : q = dir'[m] /\ Past(q, {})'
      BY <1>a, <1>b, <2>6, <2>7 DEF InodeInv
    <3> QED
      BY <3>1 DEF Past
  <2>10. \A u \in Threads : pc'[u] \in InRequest => Past(file[u], {})'
    <3> SUFFICES ASSUME NEW u \in Threads, pc'[u] \in InRequest PROVE Past(file[u], {})'
      OBVIOUS
    <3>1. PICK q \in Inodes : q = file'[u] /\ Past(q, {})'
      BY <1>a, <1>b, <2>6, <2>8 DEF InodeInv
    <3> QED
      BY <3>1 DEF Past
  <2>11. \A m, k \in Names : dir'[m] = dir'[k] /\ dir'[m] # NoInode => m = k
    BY <1>a, <2>4, <2>7 DEF InodeInv
  <2>12. \A u \in Threads, m \in Names :
            pc'[u] \in InRequest /\ dir'[m] = file'[u] => local_path'[u] = m
    BY <1>a, <2>1, <2>3, <2>4, <2>5, <2>7, <2>8 DEF InodeInv
  <2>13. \A u, v \in Threads :
            pc'[u] \in InRequest /\ pc'[v] \in InRequest /\ file'[u] = file'[v] =>
               local_path'[u] = local_path'[v]
    BY <1>a, <2>1, <2>3, <2>5, <2>8 DEF InodeInv
  <2> QED
    BY <2>9, <2>10, <2>11, <2>12, <2>13 DEF InodeInv
<1>6. CASE UNCHANGED vars
  BY <1>1, <1>6 DEF vars, locals, disk
<1> QED
  BY <1>2, <1>3, <1>4, <1>5, <1>6 DEF Next, MainStep, ThreadStep

(* A step of a thread with another name leaves the file of this one alone: *)
(* its inode is not the one the step writes, empties or unlinks.           *)
LEMMA OnceStep == IInv /\ [Next]_vars => OnceInv' /\ OwnNameIntact'
<1> DEFINE Intact(n) ==
        opened[n] = 1 /\ ~ Busy(n) =>
            IF n \in kept
            THEN dir[n] # NoInode /\ data[dir[n]] = 1 .. FileLen
            ELSE dir[n] = NoInode
<1> SUFFICES ASSUME IInv, [Next]_vars, NEW n \in Names
             PROVE  OnceOf(n)' /\ Intact(n)'
  BY DEF OnceInv, OwnNameIntact
<1> DEFINE Goal == OnceOf(n)' /\ Intact(n)'
           Mine(t) == pc[t] \in InRequest /\ local_path[t] = n
<1>a. /\ pc \in [Threads -> Places] /\ local_path \in [Threads -> Names \cup {NoName}]
      /\ file \in [Threads -> Inodes \cup {NoInode}]
      /\ written \in [Threads -> 0 .. FileLen]
      /\ returncode \in [Threads -> {"none", "ok", "error"}]
      /\ status \in [Threads -> {"OK", "FILE_NOT_FOUND", "ERROR", "INVALID"}]
      /\ dir \in [Names -> Inodes \cup {NoInode}]
      /\ data \in [Inodes -> SUBSET (1 .. FileLen)]
      /\ opened \in [Names -> Nat]
  BY DEF IInv, TypeOK
<1>b. /\ \A t \in Threads : pc[t] \in InRequest => local_path[t] \in Names /\ file[t] \in Inodes
      /\ InodeInv
  BY DEF IInv, LocalsInv, LocalsOf
<1>c. OnceOf(n) /\ Intact(n)
  BY DEF IInv, OnceInv, OwnNameIntact
<1>d. \A t \in Threads : Mine(t) => Busy(n)
  BY DEF Busy, InRequest
<1>e. Busy(n)' => \E t \in Threads : Mine(t)'
  BY DEF Busy, InRequest
<1> HIDE DEF Mine
(* What is left alone stays so.                                            *)
<1>1. ASSUME dir'[n] = dir[n], opened'[n] = opened[n], n \in kept' <=> n \in kept,
             dir[n] # NoInode /\ opened[n] = 1 => data'[dir[n]] = data[dir[n]],
             \A t \in Threads : (Mine(t)' <=> Mine(t)),
             \A t \in Threads : Mine(t) =>
                /\ file'[t] = file[t] /\ written'[t] = written[t]
                /\ pc'[t] = "status" /\ returncode'[t] = "error"
                      <=> pc[t] = "status" /\ returncode[t] = "error"
      PROVE  Goal
  <2>1. Busy(n)' <=> Busy(n)
    BY <1>1, <1>d, <1>e DEF Busy, InRequest, Mine
  <2>2. Intact(n)'
    BY <1>1, <1>c, <2>1
  <2>3. opened[n] = 0 => dir'[n] = NoInode /\ n \notin kept' /\ ~ Busy(n)'
    BY <1>1, <1>c, <2>1 DEF OnceOf
  <2>4. ASSUME opened[n] = 1
        PROVE  /\ \A t, u \in Threads : Mine(t)' /\ Mine(u)' => t = u
               /\ \A t \in Threads : Mine(t)' =>
                     /\ n \notin kept'
                     /\ IF pc'[t] = "status" /\ returncode'[t] = "error"
                        THEN dir'[n] = NoInode
                        ELSE dir'[n] = file'[t] /\ data'[file'[t]] = 1 .. written'[t]
    <3>1. \A t, u \in Threads : Mine(t) /\ Mine(u) => t = u
      BY <1>c, <2>4 DEF OnceOf, Mine
    <3>2. ASSUME NEW t \in Threads, Mine(t)
          PROVE  /\ n \notin kept /\ file[t] # NoInode
                 /\ IF pc[t] = "status" /\ returncode[t] = "error"
                    THEN dir[n] = NoInode
                    ELSE dir[n] = file[t] /\ data[file[t]] = 1 .. written[t]
      BY <1>b, <1>c, <2>4, <3>2, Absent DEF OnceOf, Mine, Whole
    <3> QED
      BY <1>1, <2>4, <3>1, <3>2
  <2>5. OnceOf(n)'
    BY <1>1, <2>3, <2>4 DEF OnceOf, Whole, Mine
  <2> QED
    BY <2>2, <2>5
<1>2. CASE CreateThread
  <2>1. \A t \in Threads : (Mine(t)' <=> Mine(t)) /\ (Mine(t) => pc'[t] = pc[t])
    <3>1. created + 1 \in Threads /\ pc[created + 1] = "new"
      BY <1>2, Counts DEF CreateThread, Threads, IInv, TypeOK, BossInv
    <3> QED
      BY <1>2, <1>a, <3>1 DEF CreateThread, Goto, InRequest, Mine, locals
  <2> QED
    BY <1>1, <1>2, <2>1 DEF CreateThread, locals, disk
<1>3. CASE Exit \/ AllCreated \/ Join \/ AllJoined \/ GlobalCleanup
  <2>1. UNCHANGED <<pc, locals, disk, kept>>
    BY <1>3 DEF Exit, AllCreated, Join, AllJoined, GlobalCleanup
  <2> QED
    BY <1>1, <2>1 DEF locals, disk, Mine
<1>4. ASSUME NEW t \in Threads,
             Lock(t) \/ Count(t) \/ Read(t) \/ Unlock(t) \/ LoadCounter(t) \/ StoreCounter(t)
      PROVE  Goal
  <2>1. UNCHANGED <<disk, kept, file, written, returncode, status>>
    BY <1>4 DEF Lock, Count, Read, Unlock, LoadCounter, StoreCounter, locals
  <2>2. /\ pc[t] \notin InRequest /\ pc'[t] \notin InRequest
        /\ \A u \in Threads : u # t => pc'[u] = pc[u] /\ local_path'[u] = local_path[u]
    BY <1>4, <1>a DEF Lock, Count, Read, Unlock, LoadCounter, StoreCounter, Goto, InRequest,
                      locals
  <2> QED
    BY <1>1, <2>1, <2>2 DEF disk, Mine
<1>5. ASSUME NEW t \in Threads, PerformReturns(t) PROVE Goal
  <2>1. UNCHANGED <<disk, kept, file, written, local_path>>
    BY <1>5 DEF PerformReturns
  <2>2. /\ pc[t] = "perform" /\ pc'[t] = "returned"
        /\ \A u \in Threads : u # t => pc'[u] = pc[u] /\ returncode'[u] = returncode[u]
    BY <1>5, <1>a DEF PerformReturns, Goto
  <2>3. \A u \in Threads : Mine(u)' <=> Mine(u)
    BY <2>1, <2>2 DEF Mine, InRequest
  <2> QED
    BY <1>1, <2>1, <2>2, <2>3 DEF disk
(* The first request that opens the name.                                  *)
<1>6. ASSUME NEW t \in Threads, OpenFile(t) PROVE Goal
  <2>1. /\ local_path[t] \in Names /\ <<t, i[t]>> \in Inodes
        /\ ~ Past(<<t, i[t]>>, {}) /\ written[t] = 0 /\ pc[t] = "open"
    BY <1>6, NewInode DEF OpenFile
  <2>2. PICK o \in Inodes : o = IF dir[local_path[t]] = NoInode
                                THEN <<t, i[t]>> ELSE dir[local_path[t]]
    BY <1>a, <2>1
  <2>3. /\ dir' = [dir EXCEPT ![local_path[t]] = o] /\ data' = [data EXCEPT ![o] = {}]
        /\ opened' = [opened EXCEPT ![local_path[t]] = @ + 1]
        /\ file' = [file EXCEPT ![t] = o] /\ pc' = [pc EXCEPT ![t] = "perform"]
        /\ UNCHANGED <<local_path, written, returncode, kept>>
    BY <1>6, <2>2 DEF OpenFile, Goto
  <2>4. \A u \in Threads : Mine(u)' <=> Mine(u) \/ (u = t /\ local_path[t] = n)
    BY <1>a, <2>1, <2>3 DEF Mine, InRequest
  <2>5. CASE local_path[t] # n
    <3>1. dir[n] # o
      <4>1. CASE dir[local_path[t]] = NoInode
        BY <1>b, <2>1, <2>2, <4>1, Absent DEF InodeInv
      <4>2. CASE dir[local_path[t]] # NoInode
        BY <1>b, <2>1, <2>2, <2>5, <4>2 DEF InodeInv
      <4> QED
        BY <4>1, <4>2
    <3>2. \A u \in Threads : Mine(u) => u # t
      BY <2>1 DEF Mine, InRequest
    <3> QED
      BY <1>1, <1>a, <2>1, <2>3, <2>4, <2>5, <3>1, <3>2
  <2>6. CASE local_path[t] = n
    <3>1. opened'[n] = opened[n] + 1 /\ opened[n] \in Nat
      BY <1>a, <2>3, <2>6
    <3>2. CASE opened[n] # 0
      BY <3>1, <3>2 DEF OnceOf
    <3>3. CASE opened[n] = 0
      <4>1. dir[n] = NoInode /\ n \notin kept /\ \A u \in Threads : ~ Mine(u)
        BY <1>c, <1>d, <3>3 DEF OnceOf
      <4>2. \A u \in Threads : Mine(u)' <=> u = t
        BY <2>4, <2>6, <4>1
      <4>3. /\ dir'[n] = o /\ file'[t] = o /\ data'[o] = {} /\ pc'[t] = "perform"
            /\ written'[t] = 0 /\ n \notin kept'
        BY <1>a, <2>1, <2>3, <2>6, <4>1
      <4>4. Whole(n, t)'
        BY <4>3 DEF Whole
      <4>5. Busy(n)'
        BY <2>3, <2>6, <4>3 DEF Busy
      <4> QED
        BY <3>1, <3>3, <4>2, <4>3, <4>4, <4>5 DEF OnceOf, Mine
    <3> QED
      BY <3>2, <3>3
  <2> QED
    BY <2>5, <2>6
<1>7. ASSUME NEW t \in Threads, Write(t) PROVE Goal
  <2>1. /\ pc[t] = "perform" /\ written' = [written EXCEPT ![t] = @ + 1]
        /\ data' = [data EXCEPT ![file[t]] = @ \cup {written[t] + 1}]
        /\ UNCHANGED <<pc, local_path, file, returncode, dir, opened, kept>>
    BY <1>7 DEF Write
  <2>2. file[t] \in Inodes /\ local_path[t] \in Names /\ written[t] \in Nat
    BY <1>a, <1>b, <2>1, Counts DEF InRequest
  <2>3. \A u \in Threads : Mine(u)' <=> Mine(u)
    BY <2>1 DEF Mine
  <2>4. CASE local_path[t] # n
    <3>1. dir[n] # file[t]
      BY <1>b, <2>1, <2>4 DEF InodeInv, InRequest
    <3>2. dir[n] # NoInode => data'[dir[n]] = data[dir[n]]
      BY <1>a, <2>1, <3>1
    <3>3. \A u \in Threads : Mine(u) => u # t
      BY <2>4 DEF Mine
    <3> QED
      BY <1>1, <1>a, <2>1, <2>3, <3>2, <3>3
  <2>5. CASE local_path[t] = n
    <3>1. Mine(t) /\ Busy(n) /\ Busy(n)'
      BY <2>1, <2>5, <1>d DEF Mine, InRequest, Busy
    <3>2. opened[n] # 0
      BY <1>c, <3>1 DEF OnceOf
    <3>3. ASSUME opened[n] = 1 PROVE OnceOf(n)'
      <4>1. \A u \in Threads : Mine(u) <=> u = t
        BY <1>c, <3>1, <3>3 DEF OnceOf, Mine
      <4>2. n \notin kept /\ dir[n] = file[t] /\ data[file[t]] = 1 .. written[t]
        BY <1>c, <2>1, <3>1, <3>3 DEF OnceOf, Whole, Mine
      <4>3. data'[file[t]] = 1 .. written[t] \cup {written[t] + 1} /\ written'[t] = written[t] + 1
        BY <1>a, <2>1, <2>2, <4>2
      <4>4. 1 .. written[t] \cup {written[t] + 1} = 1 .. (written[t] + 1)
        BY <2>2
      <4>5. Whole(n, t)' /\ n \notin kept' /\ pc'[t] = "perform"
        BY <2>1, <4>2, <4>3, <4>4 DEF Whole
      <4>6. \A u \in Threads : Mine(u)' <=> u = t
        BY <2>3, <4>1
      <4> QED
        BY <2>1, <3>3, <4>5, <4>6 DEF OnceOf, Mine
    <3> QED
      BY <2>1, <3>1, <3>2, <3>3 DEF OnceOf
  <2> QED
    BY <2>4, <2>5
(* After an error the name goes when the file is closed ...                *)
<1>8. ASSUME NEW t \in Threads, CloseFile(t) PROVE Goal
  <2>1. /\ pc[t] = "returned" /\ pc' = [pc EXCEPT ![t] = "status"]
        /\ UNCHANGED <<data, opened, kept, local_path, file, written, returncode>>
        /\ dir' = IF returncode[t] = "error"
                  THEN [dir EXCEPT ![local_path[t]] = NoInode] ELSE dir
    BY <1>8 DEF CloseFile, Goto, Unlink, locals
  <2>2. local_path[t] \in Names
    BY <1>b, <2>1 DEF InRequest
  <2>3. \A u \in Threads : /\ Mine(u)' <=> Mine(u)
                           /\ u # t => pc'[u] = pc[u]
    BY <1>a, <2>1 DEF Mine, InRequest
  <2>4. CASE local_path[t] # n
    <3>1. \A u \in Threads : Mine(u) => u # t
      BY <2>4 DEF Mine
    <3>2. dir'[n] = dir[n]
      BY <1>a, <2>1, <2>2, <2>4
    <3> QED
      BY <1>1, <2>1, <2>3, <3>1, <3>2
  <2>5. CASE local_path[t] = n
    <3>1. Mine(t) /\ Busy(n) /\ pc'[t] = "status" /\ Busy(n)'
      BY <1>a, <2>1, <2>5, <1>d DEF Mine, InRequest, Busy
    <3>2. opened[n] # 0
      BY <1>c, <3>1 DEF OnceOf
    <3>3. ASSUME opened[n] = 1 PROVE OnceOf(n)'
      <4>1. \A u \in Threads : Mine(u) <=> u = t
        BY <1>c, <3>1, <3>3 DEF OnceOf, Mine
      <4>2. n \notin kept /\ Whole(n, t)
        BY <1>c, <2>1, <3>1, <3>3 DEF OnceOf, Mine
      <4>3. IF returncode'[t] = "error" THEN dir'[n] = NoInode ELSE Whole(n, t)'
        BY <1>a, <2>1, <2>5, <4>2 DEF Whole
      <4>4. \A u \in Threads : Mine(u)' <=> u = t
        BY <2>3, <4>1
      <4> QED
        BY <2>1, <3>1, <3>3, <4>2, <4>3, <4>4 DEF OnceOf, Mine
    <3> QED
      BY <2>1, <3>1, <3>2, <3>3 DEF OnceOf
  <2> QED
    BY <2>4, <2>5
(* ... or, if the status is not OK, at the end of the request.             *)
<1>9. ASSUME NEW t \in Threads, NextRequest(t) PROVE Goal
  <2>1. /\ pc[t] = "status" /\ UNCHANGED <<data, opened, local_path>>
        /\ dir' = IF status[t] # "OK"
                  THEN [dir EXCEPT ![local_path[t]] = NoInode] ELSE dir
        /\ kept' = IF returncode[t] = "ok" /\ status[t] = "OK"
                   THEN kept \cup {local_path[t]} ELSE kept
    BY <1>9 DEF NextRequest, Unlink, NotOK, Forget
  <2>2. /\ pc'[t] \notin InRequest /\ pc[t] \in InRequest
        /\ \A u \in Threads : u # t => /\ pc'[u] = pc[u] /\ file'[u] = file[u]
                                       /\ written'[u] = written[u]
                                       /\ returncode'[u] = returncode[u]
    BY <1>9, <1>a DEF NextRequest, Goto, Forget, InRequest
  <2>3. local_path[t] \in Names
    BY <1>b, <2>2
  <2>4. CASE local_path[t] # n
    <3>1. \A u \in Threads : (Mine(u) => u # t) /\ (Mine(u)' <=> Mine(u))
      BY <2>1, <2>2, <2>4 DEF Mine
    <3>2. dir'[n] = dir[n] /\ (n \in kept' <=> n \in kept)
      BY <1>a, <2>1, <2>3, <2>4
    <3> QED
      BY <1>1, <2>1, <2>2, <3>1, <3>2
  <2>5. CASE local_path[t] = n
    <3>1. Mine(t) /\ Busy(n)
      BY <2>2, <2>5, <1>d DEF Mine
    <3>2. opened[n] # 0
      BY <1>c, <3>1 DEF OnceOf
    <3>3. ASSUME opened[n] = 1 PROVE OnceOf(n)' /\ Intact(n)'
      <4>1. \A u \in Threads : Mine(u) => u = t
        BY <1>c, <3>1, <3>3 DEF OnceOf, Mine
      <4>2. \A u \in Threads : ~ Mine(u)'
        BY <2>1, <2>2, <4>1 DEF Mine
      <4>3. /\ n \notin kept
            /\ IF returncode[t] = "error" THEN dir[n] = NoInode ELSE Whole(n, t)
        BY <1>c, <2>1, <3>1, <3>3 DEF OnceOf, Mine
      <4>4. <<returncode[t], status[t]>> \in Outcomes(written[t])
        BY <2>1 DEF IInv, LocalsInv, LocalsOf
      <4>5. CASE returncode[t] = "ok" /\ status[t] = "OK"
        <5>1. written[t] = FileLen
          BY <4>4, <4>5 DEF Outcomes
        <5>2. n \in kept' /\ dir'[n] = file[t] /\ data'[file[t]] = 1 .. FileLen
          BY <2>1, <2>5, <4>3, <4>5, <5>1 DEF Whole
        <5>3. file[t] \in Inodes
          BY <1>b, <2>2
        <5> QED
          BY <2>1, <3>3, <4>2, <5>2, <5>3, Absent DEF OnceOf, Mine
      <4>6. CASE ~ (returncode[t] = "ok" /\ status[t] = "OK")
        <5>1. status[t] # "OK" \/ returncode[t] = "error"
          BY <4>4, <4>6 DEF Outcomes
        <5>2. n \notin kept' /\ dir'[n] = NoInode
          BY <1>a, <2>1, <2>5, <4>3, <4>6, <5>1
        <5> QED
          BY <2>1, <3>3, <4>2, <5>2 DEF OnceOf, Mine
      <4> QED
        BY <4>5, <4>6
    <3> QED
      BY <2>1, <3>2, <3>3 DEF OnceOf
  <2> QED
    BY <2>4, <2>5
<1>10. CASE UNCHANGED vars
  BY <1>1, <1>10 DEF vars, locals, disk, Mine
<1> QED
  BY <1>2, <1>3, <1>4, <1>5, <1>6, <1>7, <1>8, <1>9, <1>10 DEF Next, MainStep, ThreadStep

-----------------------------------------------------------------------------
LEMMA InvStep == IInv /\ [Next]_vars => IInv'
BY TypeStep, LocalsStep, BossInvStep, WaitStep, TurnStep, CountStep, InodeStep, OnceStep DEF IInv

(* The inductive invariant, of every interleaving of main and the threads. *)
THEOREM Invariance == SafeSpec => []IInv
BY InitInv, InvStep, PTL DEF SafeSpec

(* Every value stays in its range; in particular the counter of localPath, *)
(* for all its lost increments, makes no name above the number of          *)
(* requests.                                                               *)
THEOREM TypeCorrect == SafeSpec => []TypeOK
<1>1. IInv => TypeOK
  BY DEF IInv
<1> QED
  BY <1>1, Invariance, PTL

(* The k-th path that workload_get_path hands out is the k-th of the       *)
(* workload, although it reads the counter outside its own mutex.          *)
THEOREM PathsInTurn == SafeSpec => []WorkloadInTurn
<1>1. IInv => WorkloadInTurn
  BY DEF IInv, TurnInv
<1> QED
  BY <1>1, Invariance, PTL

(* Whatever race there is on the counter of localPath, a local name that   *)
(* one request alone used leads to the whole file if the request ended     *)
(* well, and to nothing otherwise.                                         *)
THEOREM NamesOfOneRequest == SafeSpec => []OwnNameIntact
<1>1. IInv => OwnNameIntact
  BY DEF IInv
<1> QED
  BY <1>1, Invariance, PTL

(* gfc_global_cleanup and the end of main come after the last thread.      *)
THEOREM CleanupLast == SafeSpec => []CleanupAfterThreads
<1>1. IInv => CleanupAfterThreads
  <2> SUFFICES ASSUME IInv, main \in {"cleanup", "returned"}, NEW t \in Threads
               PROVE  pc[t] = "exited"
    BY DEF CleanupAfterThreads
  <2>1. t \in 1 .. joined
    BY DEF IInv, BossInv, Threads
  <2> QED
    BY <2>1 DEF IInv, BossInv
<1> QED
  BY <1>1, Invariance, PTL

(* main and the threads never all wait: the thread main waits for has not  *)
(* ended, so it was created; if it wants the mutex, the holder has a step. *)
THEOREM NobodyStuck == SafeSpec => []NeverStuck
<1>1. IInv => NeverStuck
  <2> SUFFICES ASSUME IInv, Running, ~ MainMoves
               PROVE  \E t \in Threads : ThreadMoves(t)
    BY DEF NeverStuck
  <2>a. TypeOK /\ BossInv /\ WaitInv
    BY DEF IInv
  <2>1. main = "join" /\ joined # nthreads /\ pc[joined + 1] # "exited"
    BY <2>a DEF TypeOK, Running, MainMoves
  <2>2. joined + 1 \in Threads
    BY <2>a, <2>1, Counts DEF TypeOK, Threads
  <2>3. pc[joined + 1] # "new"
    BY <2>a, <2>1, <2>2, Counts DEF BossInv, WaitInv, Threads
  <2>4. CASE mutex_get_path = NoThread
    BY <2>1, <2>2, <2>3, <2>4 DEF ThreadMoves
  <2>5. CASE mutex_get_path # NoThread
    <3>1. mutex_get_path \in Threads
      BY <2>a, <2>5 DEF TypeOK
    <3>2. pc[mutex_get_path] \in {"count", "read", "unlock"}
      BY <2>a, <3>1 DEF WaitInv
    <3> QED
      BY <3>1, <3>2 DEF ThreadMoves
  <2> QED
    BY <2>4, <2>5
<1> QED
  BY <1>1, Invariance, PTL
=============================================================================
