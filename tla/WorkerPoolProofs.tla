-------------------------- MODULE WorkerPoolProofs --------------------------
(***************************************************************************)
(* Proofs about WorkerPool for every number of threads, every set of       *)
(* requests and every set of stalled clients.                              *)
(***************************************************************************)
EXTENDS WorkerPool, QueueLemmas, FiniteSetTheorems

(* The clamp in main leaves at least one worker. *)
LEMMA NumThreads ==
    /\ g_num_threads \in Nat \ {0}
    /\ Main \notin Workers
    /\ NoThread \notin Workers
    /\ Main # NoThread
BY NThreadsAssumption DEF g_num_threads, Workers, Main, NoThread

LEMMA InitInv == Init => IInv
<1> SUFFICES ASSUME Init PROVE IInv
  OBVIOUS
<1> USE DEF Init
<1>1. TypeOK
  BY NumThreads DEF TypeOK, BossStates, WorkerStates
<1>2. MutexInv /\ PopInv /\ ItemInv /\ NoUnderflow
  BY NumThreads DEF MutexInv, PopInv, ItemInv, NoUnderflow
<1>3. SpawnInv
  BY NumThreads DEF SpawnInv, Workers
<1>4. ExactlyOneOwner
  BY RequestAssumption
  DEF ExactlyOneOwner, InHand, Queued, Held, IsInjective
<1>5. NoLostWakeup
  BY DEF NoLostWakeup, Waiting
<1> QED
  BY <1>1, <1>2, <1>3, <1>4, <1>5 DEF IInv

-----------------------------------------------------------------------------
(* Each lemma below takes one conjunct of the invariant through a step.    *)

LEMMA TypeStep == IInv /\ [Next]_vars => TypeOK'
<1> SUFFICES ASSUME IInv, [Next]_vars PROVE TypeOK'
  OBVIOUS
<1> USE NumThreads DEF IInv, TypeOK, BossStates, WorkerStates
<1>1. CASE CreateWorker
  <2>1. created' \in 0 .. g_num_threads
    BY <1>1 DEF CreateWorker
  <2>2. pc' \in [Workers -> WorkerStates]
    BY <1>1 DEF CreateWorker
  <2> QED
    BY <1>1, <2>1, <2>2 DEF CreateWorker
<1>2. CASE CreateFails
  BY <1>2 DEF CreateFails
<1>3. CASE StartServing
  BY <1>3 DEF StartServing
<1>4. ASSUME NEW r \in Requests, HandlerGet(r) PROVE TypeOK'
  BY <1>4 DEF HandlerGet
<1>5. CASE BossLock
  BY <1>5 DEF BossLock
<1>6. CASE Enqueue
  <2>1. req \in Requests
    BY <1>6 DEF Enqueue, ItemInv
  <2>2. g_queue' \in Seq(Requests)
    BY <1>6, <2>1, AppendProperties DEF Enqueue
  <2> QED
    BY <1>6, <2>2 DEF Enqueue
<1>7. CASE BossUnlock
  BY <1>7 DEF BossUnlock
<1>8. CASE Signal
  BY <1>8 DEF Signal, Waiting
<1>9. ASSUME NEW w \in Workers, WorkerStep(w) PROVE TypeOK'
  <2>1. CASE Acquire(w)
    BY <2>1 DEF Acquire
  <2>2. CASE FoundWork(w)
    BY <2>2 DEF FoundWork
  <2>3. CASE CondWait(w)
    BY <2>3 DEF CondWait
  <2>4. CASE SpuriousWakeup(w)
    BY <2>4 DEF SpuriousWakeup
  <2>5. CASE Pop(w)
    <3>1. CASE g_queue = <<>>
      BY <2>5, <3>1 DEF Pop
    <3>2. CASE g_queue # <<>>
      <4>1. Head(g_queue) \in Requests /\ Tail(g_queue) \in Seq(Requests)
        BY <3>2, HeadTailProperties
      <4> QED
        BY <2>5, <3>2, <4>1 DEF Pop
    <3> QED
      BY <3>1, <3>2
  <2>6. CASE Release(w)
    BY <2>6 DEF Release
  <2>7. CASE Executed(w)
    <3>1. item[w] \in Requests
      BY <2>7 DEF Executed, ItemInv
    <3> QED
      BY <2>7, <3>1 DEF Executed
  <2> QED
    BY <1>9, <2>1, <2>2, <2>3, <2>4, <2>5, <2>6, <2>7 DEF WorkerStep
<1>10. CASE ExitOnSignal
  BY <1>10 DEF ExitOnSignal
<1>11. CASE UNCHANGED vars
  BY <1>11 DEF vars
<1> QED
  BY <1>1, <1>2, <1>3, <1>4, <1>5, <1>6, <1>7, <1>8, <1>9, <1>10, <1>11
  DEF Next, BossStep

(* Mutual exclusion is what keeps the result of the loop's test true until *)
(* the pop: only the thread that holds the mutex touches the queue.        *)
LEMMA LockStep == IInv /\ [Next]_vars => MutexInv' /\ PopInv' /\ NoUnderflow'
<1> SUFFICES ASSUME IInv, [Next]_vars
             PROVE  MutexInv' /\ PopInv' /\ NoUnderflow'
  OBVIOUS
<1> DEFINE Goal == MutexInv' /\ PopInv' /\ NoUnderflow'
<1>a. pc \in [Workers -> WorkerStates] /\ g_queue \in Seq(Requests)
  BY DEF IInv, TypeOK
<1>b. MutexInv /\ PopInv /\ NoUnderflow /\ SpawnInv
  BY DEF IInv
<1> USE <1>a, <1>b, NumThreads DEF MutexInv, PopInv, NoUnderflow
<1>1. CASE CreateWorker
  <2>1. created + 1 \in Workers => pc[created + 1] = "off"
    BY DEF IInv, TypeOK, SpawnInv, Workers
  <2> QED
    BY <1>1, <2>1 DEF CreateWorker
<1>2. CASE CreateFails
  BY <1>2 DEF CreateFails
<1>3. CASE StartServing
  BY <1>3 DEF StartServing
<1>4. ASSUME NEW r \in Requests, HandlerGet(r) PROVE Goal
  BY <1>4 DEF HandlerGet
<1>5. CASE BossLock
  BY <1>5 DEF BossLock
<1>6. CASE Enqueue
  <2>1. req \in Requests
    BY <1>6 DEF Enqueue, IInv, ItemInv, TypeOK
  <2>2. g_queue' # <<>>
    BY <1>6, <2>1, AppendProperties DEF Enqueue
  <2> QED
    BY <1>6, <2>2 DEF Enqueue
<1>7. CASE BossUnlock
  BY <1>7 DEF BossUnlock
<1>8. CASE Signal
  BY <1>8 DEF Signal, Waiting
<1>9. ASSUME NEW w \in Workers, WorkerStep(w) PROVE Goal
  <2>1. CASE Acquire(w)
    BY <2>1 DEF Acquire
  <2>2. CASE FoundWork(w)
    BY <2>2 DEF FoundWork
  <2>3. CASE CondWait(w)
    BY <2>3 DEF CondWait
  <2>4. CASE SpuriousWakeup(w)
    BY <2>4 DEF SpuriousWakeup
  <2>5. CASE Pop(w)
    BY <2>5 DEF Pop
  <2>6. CASE Release(w)
    BY <2>6 DEF Release
  <2>7. CASE Executed(w)
    BY <2>7 DEF Executed
  <2> QED
    BY <1>9, <2>1, <2>2, <2>3, <2>4, <2>5, <2>6, <2>7 DEF WorkerStep
<1>10. CASE ExitOnSignal
  BY <1>10 DEF ExitOnSignal
<1>11. CASE UNCHANGED vars
  BY <1>11 DEF vars
<1> QED
  BY <1>1, <1>2, <1>3, <1>4, <1>5, <1>6, <1>7, <1>8, <1>9, <1>10, <1>11
  DEF Next, BossStep

(* Where items are held and which workers exist. *)
LEMMA ItemStep == IInv /\ [Next]_vars => ItemInv' /\ SpawnInv'
<1> SUFFICES ASSUME IInv, [Next]_vars PROVE ItemInv' /\ SpawnInv'
  OBVIOUS
<1> DEFINE Goal == ItemInv' /\ SpawnInv'
<1>a. TypeOK /\ PopInv /\ ItemInv /\ SpawnInv
  BY DEF IInv
<1> USE <1>a, NumThreads, RequestAssumption DEF TypeOK, ItemInv, SpawnInv
<1>1. CASE CreateWorker
  BY <1>1 DEF CreateWorker, Workers
<1>2. CASE CreateFails
  BY <1>2 DEF CreateFails
<1>3. CASE StartServing
  BY <1>3 DEF StartServing
<1>4. ASSUME NEW r \in Requests, HandlerGet(r) PROVE Goal
  BY <1>4 DEF HandlerGet
<1>5. CASE BossLock
  BY <1>5 DEF BossLock
<1>6. CASE Enqueue
  BY <1>6 DEF Enqueue
<1>7. CASE BossUnlock
  BY <1>7 DEF BossUnlock
<1>8. CASE Signal
  BY <1>8 DEF Signal, Waiting
<1>9. ASSUME NEW w \in Workers, WorkerStep(w) PROVE Goal
  <2>1. CASE Acquire(w)
    BY <2>1 DEF Acquire
  <2>2. CASE FoundWork(w)
    BY <2>2 DEF FoundWork
  <2>3. CASE CondWait(w)
    BY <2>3 DEF CondWait
  <2>4. CASE SpuriousWakeup(w)
    BY <2>4 DEF SpuriousWakeup
  <2>5. CASE Pop(w)
    <3>1. g_queue # <<>>
      BY <2>5 DEF Pop, PopInv
    <3>2. Head(g_queue) \in Requests
      BY <3>1, HeadTailProperties
    <3> QED
      BY <2>5, <3>1, <3>2 DEF Pop
  <2>6. CASE Release(w)
    BY <2>6 DEF Release
  <2>7. CASE Executed(w)
    BY <2>7 DEF Executed
  <2> QED
    BY <1>9, <2>1, <2>2, <2>3, <2>4, <2>5, <2>6, <2>7 DEF WorkerStep
<1>10. CASE ExitOnSignal
  BY <1>10 DEF ExitOnSignal
<1>11. CASE UNCHANGED vars
  BY <1>11 DEF vars
<1> QED
  BY <1>1, <1>2, <1>3, <1>4, <1>5, <1>6, <1>7, <1>8, <1>9, <1>10, <1>11
  DEF Next, BossStep

-----------------------------------------------------------------------------
(* Exactly-once ownership moves with the pointer: add_item's argument, the *)
(* queue, one worker, freed.                                               *)
LEMMA OwnerFrame ==
  ASSUME ExactlyOneOwner,
         UNCHANGED <<req, item, g_queue, accepted, served>>
  PROVE  ExactlyOneOwner'
BY DEF ExactlyOneOwner, InHand, Queued, Held

LEMMA OwnerStep == IInv /\ [Next]_vars => ExactlyOneOwner'
<1> SUFFICES ASSUME IInv, [Next]_vars PROVE ExactlyOneOwner'
  OBVIOUS
<1>a. TypeOK /\ PopInv /\ ItemInv /\ ExactlyOneOwner
  BY DEF IInv
<1>1. ASSUME NEW r \in Requests, HandlerGet(r) PROVE ExactlyOneOwner'
  <2>1. req = NoRequest /\ r \notin accepted
    BY <1>1, <1>a DEF HandlerGet, ItemInv
  <2>2. /\ req' = r /\ accepted' = accepted \cup {r}
        /\ UNCHANGED <<item, g_queue, served>>
    BY <1>1 DEF HandlerGet
  <2>3. \A s \in Requests : (Queued(s)' <=> Queued(s)) /\ (Held(s)' <=> Held(s))
    BY <2>2 DEF Queued, Held
  <2>4. \A s \in Requests : (InHand(s)' <=> s = r) /\ ~ InHand(s)
    BY <2>1, <2>2, RequestAssumption DEF InHand
  <2> QED
    BY <1>a, <2>1, <2>2, <2>3, <2>4 DEF ExactlyOneOwner
<1>2. CASE Enqueue
  <2>1. req \in Requests /\ g_queue \in Seq(Requests)
    BY <1>2, <1>a DEF Enqueue, ItemInv, TypeOK
  <2>2. /\ g_queue' = Append(g_queue, req) /\ req' = NoRequest
        /\ UNCHANGED <<item, accepted, served>>
    BY <1>2 DEF Enqueue
  <2>3. ~ Queued(req) /\ ~ Held(req) /\ req \notin served /\ req \in accepted
    BY <1>a, <2>1 DEF ExactlyOneOwner, InHand
  <2>4. \A s \in Requests : Queued(s)' <=> Queued(s) \/ s = req
    BY <2>1, <2>2, AppendElements DEF Queued
  <2>5. IsInjective(g_queue)'
    BY <1>a, <2>1, <2>2, <2>3, AppendElements DEF Queued, ExactlyOneOwner
  <2>6. \A s \in Requests : /\ ~ InHand(s)'
                            /\ Held(s)' <=> Held(s)
                            /\ InHand(s) <=> s = req
    BY <2>2, RequestAssumption DEF InHand, Held
  <2> QED
    BY <1>a, <2>2, <2>3, <2>4, <2>5, <2>6 DEF ExactlyOneOwner
<1>3. ASSUME NEW w \in Workers, Pop(w) PROVE ExactlyOneOwner'
  <2>1. g_queue # <<>> /\ g_queue \in Seq(Requests) /\ item[w] = NoRequest
    BY <1>3, <1>a DEF Pop, PopInv, TypeOK, ItemInv
  <2>2. PICK h \in Requests : h = Head(g_queue)
    BY <2>1, HeadTailProperties
  <2>3. /\ item' = [item EXCEPT ![w] = h] /\ g_queue' = Tail(g_queue)
        /\ UNCHANGED <<req, accepted, served>>
    BY <1>3, <2>1, <2>2 DEF Pop
  <2>4. \A s \in Requests : Queued(s) <=> Queued(s)' \/ s = h
    <3>1. \A y : (\E i \in DOMAIN g_queue : g_queue[i] = y)
                   <=> \/ \E i \in DOMAIN Tail(g_queue) : Tail(g_queue)[i] = y
                       \/ y = Head(g_queue)
      BY <2>1, TailElements
    <3> QED
      BY <2>2, <2>3, <3>1 DEF Queued
  <2>5. IsInjective(g_queue)' /\ ~ Queued(h)'
    <3>1. IsInjective(g_queue)
      BY <1>a DEF ExactlyOneOwner
    <3>2. /\ IsInjective(Tail(g_queue))
          /\ \A i \in DOMAIN Tail(g_queue) : Tail(g_queue)[i] # h
      BY <2>1, <2>2, <3>1, TailElements
    <3> QED
      BY <2>3, <3>2 DEF Queued
  <2>6. \A v \in Workers : item'[v] = IF v = w THEN h ELSE item[v]
    BY <1>a, <2>3 DEF TypeOK
  <2>7. \A s \in Requests : (Held(s)' <=> Held(s) \/ s = h) /\ (InHand(s)' <=> InHand(s))
    BY <2>1, <2>3, <2>6, RequestAssumption DEF Held, InHand
  <2>8. ~ Held(h) /\ ~ InHand(h) /\ h \notin served /\ h \in accepted
    BY <1>a, <2>2, <2>4 DEF ExactlyOneOwner
  <2>9. \A w1, w2 \in Workers :
           item'[w1] = item'[w2] /\ item'[w1] # NoRequest => w1 = w2
    BY <1>a, <2>6, <2>8 DEF ExactlyOneOwner, Held
  <2>10. ASSUME NEW s \in Requests
         PROVE  /\ s \in accepted' <=>
                     InHand(s)' \/ Queued(s)' \/ Held(s)' \/ s \in served'
                /\ InHand(s)' => ~ Queued(s)' /\ ~ Held(s)' /\ s \notin served'
                /\ Queued(s)' => ~ Held(s)' /\ s \notin served'
                /\ Held(s)'   => s \notin served'
    <3>1. /\ s \in accepted <=> InHand(s) \/ Queued(s) \/ Held(s) \/ s \in served
          /\ InHand(s) => ~ Queued(s) /\ ~ Held(s) /\ s \notin served
          /\ Queued(s) => ~ Held(s) /\ s \notin served
          /\ Held(s)   => s \notin served
      BY <1>a DEF ExactlyOneOwner
    <3> QED
      BY <2>3, <2>4, <2>5, <2>7, <2>8, <3>1
  <2> QED
    BY <2>5, <2>9, <2>10 DEF ExactlyOneOwner
<1>4. ASSUME NEW w \in Workers, Executed(w) PROVE ExactlyOneOwner'
  <2> DEFINE h == item[w]
  <2>1. h \in Requests
    BY <1>4, <1>a DEF Executed, ItemInv, TypeOK
  <2>2. /\ item' = [item EXCEPT ![w] = NoRequest] /\ served' = served \cup {h}
        /\ UNCHANGED <<req, g_queue, accepted>>
    BY <1>4 DEF Executed
  <2>3. \A v \in Workers : item'[v] = IF v = w THEN NoRequest ELSE item[v]
    BY <1>a, <2>2 DEF TypeOK
  <2>4. Held(h) /\ h \notin served /\ h \in accepted /\ ~ InHand(h) /\ ~ Queued(h)
    BY <1>a, <2>1 DEF ExactlyOneOwner, Held
  <2>5. \A v \in Workers : item[v] = h => v = w
    <3>1. \A w1, w2 \in Workers :
             item[w1] = item[w2] /\ item[w1] # NoRequest => w1 = w2
      BY <1>a DEF ExactlyOneOwner
    <3> QED
      BY <2>1, <3>1, RequestAssumption
  <2> HIDE DEF h
  <2>6. \A s \in Requests : Held(s)' <=> Held(s) /\ s # h
    <3>1. item[w] = h
      BY DEF h
    <3> QED
      BY <2>3, <2>5, <3>1, RequestAssumption DEF Held
  <2>7. \A s \in Requests : (InHand(s)' <=> InHand(s)) /\ (Queued(s)' <=> Queued(s))
    BY <2>2 DEF InHand, Queued
  <2>8. \A w1, w2 \in Workers :
           item'[w1] = item'[w2] /\ item'[w1] # NoRequest => w1 = w2
    BY <1>a, <2>3 DEF ExactlyOneOwner
  <2> QED
    BY <1>a, <2>2, <2>4, <2>6, <2>7, <2>8 DEF ExactlyOneOwner
<1>5. CASE UNCHANGED <<req, item, g_queue, accepted, served>>
  BY <1>a, <1>5, OwnerFrame
<1>6. ASSUME NEW w \in Workers, WorkerStep(w) PROVE ExactlyOneOwner'
  <2>1. \/ Pop(w) \/ Executed(w)
        \/ UNCHANGED <<req, item, g_queue, accepted, served>>
    BY <1>6 DEF WorkerStep, Acquire, FoundWork, CondWait, SpuriousWakeup, Release
  <2> QED
    BY <2>1, <1>3, <1>4, <1>5
<1>7. CASE BossStep
  <2>1. \/ \E r \in Requests : HandlerGet(r)
        \/ Enqueue
        \/ UNCHANGED <<req, item, g_queue, accepted, served>>
    BY <1>7 DEF BossStep, CreateWorker, CreateFails, StartServing, BossLock,
                BossUnlock, Signal
  <2> QED
    BY <2>1, <1>1, <1>2, <1>5
<1>8. CASE ExitOnSignal \/ UNCHANGED vars
  BY <1>5, <1>8 DEF ExitOnSignal, vars
<1> QED
  BY <1>6, <1>7, <1>8 DEF Next

-----------------------------------------------------------------------------
(* No wakeup is lost: the counting argument.                               *)

LEMMA SeekersFinite ==
    /\ IsFiniteSet(Seekers) /\ Cardinality(Seekers) \in Nat
    /\ IsFiniteSet(Seekers)' /\ Cardinality(Seekers)' \in Nat
<1>1. IsFiniteSet(Workers)
  BY NumThreads, FS_Interval DEF Workers
<1>2. Seekers \subseteq Workers /\ Seekers' \subseteq Workers
  BY DEF Seekers
<1> QED
  BY <1>1, <1>2, FS_Subset, FS_CardinalityType

(* A worker that starts to look for work counts once more; one that has    *)
(* popped an item, or goes to sleep, once less.                            *)
LEMMA SeekerJoins ==
  ASSUME NEW w \in Workers, w \notin Seekers, Seekers' = Seekers \cup {w}
  PROVE  Cardinality(Seekers)' = Cardinality(Seekers) + 1
BY SeekersFinite, FS_AddElement

LEMMA SeekerLeaves ==
  ASSUME NEW w \in Workers, w \in Seekers, Seekers' = Seekers \ {w}
  PROVE  Cardinality(Seekers)' = Cardinality(Seekers) - 1
BY SeekersFinite, FS_RemoveElement

LEMMA WakeupStep == IInv /\ [Next]_vars => NoLostWakeup'
<1> SUFFICES ASSUME IInv, [Next]_vars PROVE NoLostWakeup'
  OBVIOUS
<1>a. /\ pc \in [Workers -> WorkerStates] /\ boss \in BossStates
      /\ g_queue \in Seq(Requests) /\ Len(g_queue) \in Nat
      /\ NoLostWakeup /\ PopInv /\ ItemInv /\ SpawnInv
      /\ req \in Requests \cup {NoRequest}
      /\ created \in 0 .. g_num_threads
  BY LenProperties DEF IInv, TypeOK
<1>b. Cardinality(Seekers) \in Nat /\ Cardinality(Seekers)' \in Nat
  BY SeekersFinite
<1>c. SignalOwed \in {0, 1} /\ SignalOwed' \in {0, 1}
  BY DEF SignalOwed
(* Steps that leave the queue alone and lose neither a seeker nor a debt.  *)
<1>1. ASSUME g_queue' = g_queue, Waiting' \subseteq Waiting,
             Cardinality(Seekers)' + SignalOwed' >= Cardinality(Seekers) + SignalOwed
      PROVE  NoLostWakeup'
  BY <1>a, <1>b, <1>c, <1>1 DEF NoLostWakeup
<1>2. ASSUME UNCHANGED <<pc, g_queue>>, SignalOwed' = SignalOwed PROVE NoLostWakeup'
  BY <1>a, <1>2 DEF NoLostWakeup, Waiting, Seekers
<1>3. ASSUME NEW w \in Workers, pc[w] \in {"off", "waiting", "execute"},
             NEW s \in {"lock", "relock"}, pc' = [pc EXCEPT ![w] = s],
             g_queue' = g_queue,
             SignalOwed' = SignalOwed \/ SignalOwed' = SignalOwed - 1
      PROVE  NoLostWakeup'
  <2>1. w \notin Seekers /\ Seekers' = Seekers \cup {w}
    BY <1>a, <1>3 DEF Seekers
  <2>2. Cardinality(Seekers)' = Cardinality(Seekers) + 1
    BY <2>1, SeekerJoins
  <2>3. Waiting' \subseteq Waiting
    BY <1>a, <1>3 DEF Waiting
  <2> QED
    BY <1>1, <1>3, <1>b, <1>c, <2>2, <2>3
<1>4. ASSUME NEW w \in Workers, WorkerStep(w) PROVE NoLostWakeup'
  <2>0. SignalOwed' = SignalOwed
    BY <1>4 DEF WorkerStep, Acquire, FoundWork, CondWait, SpuriousWakeup, Pop,
                Release, Executed, SignalOwed
  <2>1. CASE Acquire(w) \/ FoundWork(w)
    <3>1. Seekers' = Seekers /\ Waiting' = Waiting /\ g_queue' = g_queue
      BY <1>a, <2>1 DEF Acquire, FoundWork, Seekers, Waiting
    <3> QED
      BY <1>a, <2>0, <3>1 DEF NoLostWakeup
  <2>2. CASE CondWait(w)
    <3>1. g_queue' = <<>> /\ Len(g_queue') = 0
      BY <2>2, EmptySeq DEF CondWait
    <3> QED
      BY <1>b, <1>c, <3>1 DEF NoLostWakeup
  <2>3. CASE SpuriousWakeup(w)
    BY <1>3, <2>0, <2>3 DEF SpuriousWakeup
  <2>4. CASE Pop(w)
    <3>1. g_queue # <<>> /\ pc[w] = "pop"
      BY <1>a, <2>4 DEF Pop, PopInv
    <3>2. g_queue' = Tail(g_queue) /\ pc' = [pc EXCEPT ![w] = "unlock"]
      BY <2>4, <3>1 DEF Pop
    <3>3. Len(g_queue') = Len(g_queue) - 1
      BY <1>a, <3>1, <3>2, HeadTailProperties
    <3>4. w \in Seekers /\ Seekers' = Seekers \ {w} /\ Waiting' = Waiting
      BY <1>a, <3>1, <3>2 DEF Seekers, Waiting
    <3>5. Cardinality(Seekers)' = Cardinality(Seekers) - 1
      BY <3>4, SeekerLeaves
    <3> QED
      BY <1>a, <1>b, <1>c, <2>0, <3>3, <3>4, <3>5 DEF NoLostWakeup
  <2>5. CASE Release(w)
    <3>1. Seekers' = Seekers /\ Waiting' = Waiting /\ g_queue' = g_queue
      BY <1>a, <2>5 DEF Release, Seekers, Waiting
    <3> QED
      BY <1>a, <2>0, <3>1 DEF NoLostWakeup
  <2>6. CASE Executed(w)
    BY <1>3, <2>0, <2>6 DEF Executed
  <2> QED
    BY <1>4, <2>1, <2>2, <2>3, <2>4, <2>5, <2>6 DEF WorkerStep
<1>5. CASE CreateWorker
  <2>1. created + 1 \in Workers
    BY <1>5, <1>a, NumThreads DEF CreateWorker, Workers
  <2>2. pc[created + 1] = "off"
    BY <1>a, <2>1, NumThreads DEF SpawnInv, Workers
  <2>3. SignalOwed' = SignalOwed
    BY <1>5 DEF CreateWorker, SignalOwed
  <2> QED
    BY <1>3, <1>5, <2>1, <2>2, <2>3 DEF CreateWorker
<1>6. CASE Enqueue
  <2>1. req \in Requests
    BY <1>6, <1>a DEF Enqueue, ItemInv
  <2>2. Len(g_queue') = Len(g_queue) + 1
    BY <1>6, <1>a, <2>1, AppendProperties DEF Enqueue
  <2>3. SignalOwed = 0 /\ SignalOwed' = 1
    BY <1>6 DEF Enqueue, SignalOwed
  <2>4. Seekers' = Seekers /\ Waiting' = Waiting
    BY <1>6 DEF Enqueue, Seekers, Waiting
  <2> QED
    BY <1>a, <1>b, <2>2, <2>3, <2>4 DEF NoLostWakeup
<1>7. CASE Signal
  <2>1. SignalOwed = 1 /\ SignalOwed' = 0 /\ g_queue' = g_queue
    BY <1>7 DEF Signal, SignalOwed
  <2>2. CASE \E w \in Waiting : pc' = [pc EXCEPT ![w] = "relock"]
    <3>1. PICK w \in Workers : pc[w] = "waiting" /\ pc' = [pc EXCEPT ![w] = "relock"]
      BY <2>2 DEF Waiting
    <3>2. SignalOwed' = SignalOwed - 1
      BY <2>1
    <3> QED
      BY <1>3, <2>1, <3>1, <3>2
  <2>3. CASE Waiting = {} /\ UNCHANGED pc
    BY <2>3 DEF NoLostWakeup, Waiting
  <2> QED
    BY <1>7, <2>2, <2>3 DEF Signal
<1>8. CASE BossStep
  <2>1. ASSUME CreateFails \/ StartServing \/ (\E r \in Requests : HandlerGet(r))
               \/ BossLock \/ BossUnlock
        PROVE  UNCHANGED <<pc, g_queue>> /\ SignalOwed' = SignalOwed
    BY <2>1 DEF CreateFails, StartServing, HandlerGet, BossLock, BossUnlock,
                SignalOwed
  <2> QED
    BY <1>2, <1>5, <1>6, <1>7, <1>8, <2>1 DEF BossStep
<1>9. CASE ExitOnSignal \/ UNCHANGED vars
  BY <1>2, <1>9 DEF ExitOnSignal, vars, SignalOwed
<1> QED
  BY <1>4, <1>8, <1>9 DEF Next

-----------------------------------------------------------------------------
LEMMA InvStep == IInv /\ [Next]_vars => IInv'
BY TypeStep, LockStep, ItemStep, OwnerStep, WakeupStep DEF IInv

(* The inductive invariant holds in every reachable state of the pool.     *)
THEOREM Invariance == SafeSpec => []IInv
BY InitInv, InvStep, PTL DEF SafeSpec

(* Type correctness of the pool.                                           *)
THEOREM TypeCorrect == SafeSpec => []TypeOK
<1>1. IInv => TypeOK
  BY DEF IInv
<1> QED
  BY <1>1, Invariance, PTL

(* No request is lost, served twice, or held by two workers, however many  *)
(* workers and requests there are.                                         *)
THEOREM ExactlyOnce == SafeSpec => []ExactlyOneOwner
<1>1. IInv => ExactlyOneOwner
  BY DEF IInv
<1> QED
  BY <1>1, Invariance, PTL

(* steque_pop's underflow exit is unreachable.                             *)
THEOREM PopNeverUnderflows == SafeSpec => []NoUnderflow
<1>1. IInv => NoUnderflow
  BY DEF IInv
<1> QED
  BY <1>1, Invariance, PTL

(* Signalling after the unlock loses no wakeup.                            *)
THEOREM WakeupsSuffice == SafeSpec => []NoLostWakeup
<1>1. IInv => NoLostWakeup
  BY DEF IInv
<1> QED
  BY <1>1, Invariance, PTL

(* No step of Next leads to a state in which all wait for one another: the *)
(* holder of the mutex has a step; when it is free, a worker that wants it *)
(* has; and while an item is queued, not all the others sleep.             *)
THEOREM NobodyStuck == SafeSpec => []NeverStuck
<1>1. IInv => NeverStuck
  <2> SUFFICES ASSUME IInv, proc = "run", NEW r \in accepted \ (served \cup Stalled),
                      ~ BossMoves, \A w \in Workers : ~ WorkerMoves(w)
               PROVE  \A w \in Workers : pc[w] = "execute" /\ item[w] \in Stalled
    BY DEF NeverStuck
  <2>a. TypeOK /\ MutexInv /\ ItemInv /\ SpawnInv /\ ExactlyOneOwner /\ NoLostWakeup
    BY DEF IInv
  <2>b. pc \in [Workers -> WorkerStates] /\ boss \in BossStates /\ r \in Requests
    BY <2>a DEF TypeOK
  <2>1. g_mutex_queue = NoThread
    <3>1. g_mutex_queue # Main
      BY <2>a DEF MutexInv, BossMoves
    <3>2. ASSUME NEW w \in Workers PROVE g_mutex_queue # w
      BY <2>a, <3>2 DEF MutexInv, WorkerMoves
    <3> QED
      BY <2>a, <3>1, <3>2 DEF TypeOK
  <2>2. boss = "serve"
    BY <2>b, <2>1 DEF BossStates, BossMoves
  <2>3. \A w \in Workers : \/ pc[w] = "waiting"
                           \/ pc[w] = "execute" /\ item[w] \in Stalled
    <3> SUFFICES ASSUME NEW w \in Workers
                 PROVE  pc[w] = "waiting" \/ (pc[w] = "execute" /\ item[w] \in Stalled)
      OBVIOUS
    <3>1. pc[w] # "off"
      <4>1. created = g_num_threads
        BY <2>a, <2>2 DEF SpawnInv
      <4>2. ~ (created < w)
        BY <4>1, NumThreads DEF Workers
      <4> QED
        BY <2>a, <4>2 DEF SpawnInv
    <3>2. ~ WorkerMoves(w)
      OBVIOUS
    <3> QED
      BY <2>b, <2>1, <3>1, <3>2 DEF WorkerStates, WorkerMoves
  <2>4. Seekers = {}
    BY <2>3 DEF Seekers
  <2>5. Waiting = {}
    <3> SUFFICES ASSUME Waiting # {} PROVE FALSE
      OBVIOUS
    <3>1. ~ Held(r) /\ ~ InHand(r)
      <4>1. ~ InHand(r)
        BY <2>a, <2>b, <2>2, RequestAssumption DEF ItemInv, InHand
      <4>2. ASSUME NEW w \in Workers, item[w] = r PROVE FALSE
        <5>1. pc[w] \in {"unlock", "execute"}
          BY <2>a, <2>b, <4>2, RequestAssumption DEF ItemInv
        <5> QED
          BY <2>3, <4>2, <5>1
      <4> QED
        BY <4>1, <4>2 DEF Held
    <3>2. Queued(r)
      BY <2>a, <2>b, <3>1 DEF ExactlyOneOwner
    <3>3. Len(g_queue) \in Nat /\ Len(g_queue) > 0
      BY <2>a, <3>2 DEF TypeOK, Queued
    <3>4. Cardinality(Seekers) = 0 /\ SignalOwed = 0
      BY <2>2, <2>4, FS_EmptySet DEF SignalOwed
    <3>5. Len(g_queue) <= 0
      BY <2>a, <3>4 DEF NoLostWakeup
    <3> QED
      BY <3>3, <3>5
  <2> QED
    BY <2>3, <2>5 DEF Waiting
<1> QED
  BY <1>1, Invariance, PTL

-----------------------------------------------------------------------------
(* The pool implements RequestService, safety part: only Enqueue, Pop,     *)
(* Executed and the end of the process are visible to the abstract level.  *)

LEMMA RefineInit == Init => Service!Init
BY DEF Init, Service!Init

LEMMA RefineStep == IInv /\ [Next]_vars => [Service!Next]_(Service!vars)
<1> SUFFICES ASSUME IInv, [Next]_vars
             PROVE  Service!Next \/ UNCHANGED Service!vars
  OBVIOUS
<1>a. TypeOK /\ PopInv /\ ItemInv /\ ExactlyOneOwner
  BY DEF IInv
<1>1. CASE UNCHANGED <<g_queue, item, served, proc>>
  BY <1>1 DEF Service!vars
<1>2. ASSUME proc = "run", proc' # "run", UNCHANGED <<g_queue, item, served>>
      PROVE  Service!Next
  BY <1>2 DEF Service!Next, Service!Stop
<1>3. ASSUME proc = "run", Enqueue PROVE Service!Next
  <2>1. req \in Requests
    BY <1>3, <1>a DEF Enqueue, ItemInv, TypeOK
  <2>2. ~ Queued(req) /\ ~ Held(req) /\ req \notin served
    BY <1>a, <2>1 DEF ExactlyOneOwner, InHand
  <2>3. req \notin Service!Known
    BY <1>a, <2>2 DEF Service!Known, Service!Range, Queued, Held, TypeOK
  <2>4. Service!Submit(req)
    BY <1>3, <2>3 DEF Enqueue, Service!Submit
  <2> QED
    BY <2>1, <2>4 DEF Service!Next
<1>4. ASSUME proc = "run", NEW w \in Workers, Pop(w) PROVE Service!Next
  <2>1. g_queue # <<>> /\ item[w] = NoRequest
    BY <1>4, <1>a DEF Pop, PopInv, ItemInv
  <2>2. Service!Start(w)
    BY <1>4, <2>1 DEF Pop, Service!Start
  <2> QED
    BY <2>2 DEF Service!Next
<1>5. ASSUME proc = "run", NEW w \in Workers, Executed(w) PROVE Service!Next
  <2>1. item[w] # NoRequest
    BY <1>5, <1>a DEF Executed, ItemInv
  <2>2. Service!Finish(w)
    BY <1>5, <2>1 DEF Executed, Service!Finish
  <2> QED
    BY <2>2 DEF Service!Next
<1>6. ASSUME proc = "run", BossStep PROVE Service!Next \/ UNCHANGED Service!vars
  <2>1. \/ Enqueue
        \/ proc' # "run" /\ UNCHANGED <<g_queue, item, served>>
        \/ UNCHANGED <<g_queue, item, served, proc>>
    BY <1>6 DEF BossStep, CreateWorker, CreateFails, StartServing, HandlerGet,
                BossLock, BossUnlock, Signal
  <2> QED
    BY <1>1, <1>2, <1>3, <1>6, <2>1
<1>7. ASSUME proc = "run", NEW w \in Workers, WorkerStep(w)
      PROVE  Service!Next \/ UNCHANGED Service!vars
  <2>1. Pop(w) \/ Executed(w) \/ UNCHANGED <<g_queue, item, served, proc>>
    BY <1>7 DEF WorkerStep, Acquire, FoundWork, CondWait, SpuriousWakeup, Release
  <2> QED
    BY <1>1, <1>4, <1>5, <1>7, <2>1
<1>8. ASSUME proc = "run", ExitOnSignal PROVE Service!Next
  <2>1. proc' # "run" /\ UNCHANGED <<g_queue, item, served>>
    BY <1>8 DEF ExitOnSignal
  <2> QED
    BY <1>2, <1>8, <2>1
<1>9. CASE UNCHANGED vars
  BY <1>1, <1>9 DEF vars
<1> QED
  BY <1>6, <1>7, <1>8, <1>9 DEF Next

(* Every run of the pool is, seen from outside, a run of the service:      *)
(* first come first taken up, each request by one worker, once.            *)
THEOREM PoolImplementsService == SafeSpec => ServiceSafeSpec
<1>1. SafeSpec => Service!SafeSpec
  BY RefineInit, RefineStep, Invariance, PTL DEF SafeSpec, Service!SafeSpec
<1> QED
  BY <1>1 DEF ServiceSafeSpec
=============================================================================
