----------------------------- MODULE WorkerPool -----------------------------
(***************************************************************************)
(* The boss/worker thread pool of the multithreaded Getfile server:        *)
(* pr1/mtgf/handler.c, with the start-up and signal handling of            *)
(* pr1/mtgf/gfserver_main.c.                                               *)
(*                                                                         *)
(* The main thread (the boss) creates the workers, then runs the server    *)
(* library's accept loop, which calls handler_get once per request;        *)
(* handler_get allocates an item and add_item queues it.  Each worker      *)
(* loops: remove_item, execute_thread, free.  One action is one step       *)
(* between two points where the scheduler may switch threads, so every     *)
(* pthread call is a step of its own.                                      *)
(*                                                                         *)
(* A request stands for the item malloc'ed for it: its identity is the     *)
(* pointer that travels through the queue.  The item's contents and what   *)
(* execute_thread sends are the subject of FileService.tla.                *)
(***************************************************************************)
EXTENDS Integers, Sequences, FiniteSets, Functions

CONSTANTS nthreads,   \* the number the command line gives with -t
          Requests,   \* the requests that may reach handler_get
          Stalled,    \* those whose client may stop reading its socket
          NoRequest   \* no item

ASSUME NThreadsAssumption == nthreads \in Int
ASSUME RequestAssumption  == NoRequest \notin Requests
ASSUME StalledAssumption  == Stalled \subseteq Requests

(* main clamps the number of threads to at least one before it calls       *)
(* worker_threads_init, which keeps it in g_num_threads.                   *)
g_num_threads == IF nthreads < 1 THEN 1 ELSE nthreads

Workers  == 1 .. g_num_threads
Main     == 0                     \* the boss is the process's main thread
NoThread == -1                    \* the mutex is free

VARIABLES
    boss,           \* where the main thread is
    req,            \* add_item's argument, until the queue owns it
    created,        \* workers created so far: the loop index of l. 123
    pc,             \* where each worker is
    item,           \* the item each worker took from the queue
    g_mutex_queue,  \* the thread that holds the mutex, or NoThread
    g_queue,        \* the items in the steque, front first
    accepted,       \* history: requests handler_get was called for
    served,         \* history: requests served, their item freed
    proc            \* why the process has ended, or "run"

vars == <<boss, req, created, pc, item, g_mutex_queue, g_queue,
          accepted, served, proc>>

BossStates == {"spawn", "serve", "lock", "enqueue", "unlock", "signal"}
WorkerStates == {"off", "lock", "test", "waiting", "relock",
                 "pop", "unlock", "execute"}

TypeOK ==
    /\ boss \in BossStates
    /\ req \in Requests \cup {NoRequest}
    /\ created \in 0 .. g_num_threads
    /\ pc \in [Workers -> WorkerStates]
    /\ item \in [Workers -> Requests \cup {NoRequest}]
    /\ g_mutex_queue \in Workers \cup {Main, NoThread}
    /\ g_queue \in Seq(Requests)
    /\ accepted \subseteq Requests
    /\ served \subseteq Requests
    /\ proc \in {"run", "create_failed", "underflow", "signalled"}

Init ==
    /\ boss = "spawn"
    /\ req = NoRequest
    /\ created = 0
    /\ pc = [w \in Workers |-> "off"]
    /\ item = [w \in Workers |-> NoRequest]
    /\ g_mutex_queue = NoThread
    /\ g_queue = <<>>
    /\ accepted = {}
    /\ served = {}
    /\ proc = "run"

-----------------------------------------------------------------------------
(* worker_threads_init *)

CreateWorker ==
    /\ boss = "spawn"
    /\ created < g_num_threads
    /\ created' = created + 1
    /\ pc' = [pc EXCEPT ![created + 1] = "lock"]
    /\ UNCHANGED <<boss, req, item, g_mutex_queue, g_queue, accepted, served,
                   proc>>

(* pthread_create fails: exit(1) takes the workers already created along.  *)
CreateFails ==
    /\ boss = "spawn"
    /\ created < g_num_threads
    /\ proc' = "create_failed"
    /\ UNCHANGED <<boss, req, created, pc, item, g_mutex_queue, g_queue,
                   accepted, served>>

StartServing ==
    /\ boss = "spawn"
    /\ created = g_num_threads
    /\ boss' = "serve"
    /\ UNCHANGED <<req, created, pc, item, g_mutex_queue, g_queue, accepted,
                   served, proc>>

-----------------------------------------------------------------------------
(* handler_get and add_item, on the main thread *)

(* The library accepted a connection and calls the handler, which          *)
(* allocates the item.                                                     *)
HandlerGet(r) ==
    /\ boss = "serve"
    /\ r \notin accepted
    /\ req' = r
    /\ accepted' = accepted \cup {r}
    /\ boss' = "lock"
    /\ UNCHANGED <<created, pc, item, g_mutex_queue, g_queue, served, proc>>

BossLock ==
    /\ boss = "lock"
    /\ g_mutex_queue = NoThread
    /\ g_mutex_queue' = Main
    /\ boss' = "enqueue"
    /\ UNCHANGED <<req, created, pc, item, g_queue, accepted, served, proc>>

(* Faulty variant: the steque's other insertion, at the front, keeps the   *)
(* ends apart but not the order.                                           *)
EnqueueAtFront ==
    /\ boss = "enqueue"
    /\ g_queue' = <<req>> \o g_queue
    /\ req' = NoRequest
    /\ boss' = "unlock"
    /\ UNCHANGED <<created, pc, item, g_mutex_queue, accepted, served, proc>>

Enqueue ==
    /\ boss = "enqueue"
    /\ g_queue' = Append(g_queue, req)
    /\ req' = NoRequest
    /\ boss' = "unlock"
    /\ UNCHANGED <<created, pc, item, g_mutex_queue, accepted, served, proc>>

BossUnlock ==
    /\ boss = "unlock"
    /\ g_mutex_queue' = NoThread
    /\ boss' = "signal"
    /\ UNCHANGED <<req, created, pc, item, g_queue, accepted, served, proc>>

Waiting == {w \in Workers : pc[w] = "waiting"}

(* Faulty variant: signal only when the queue was empty before.            *)
SignalOnlyWhenFirst ==
    /\ boss = "signal"
    /\ boss' = "serve"
    /\ \/ \E w \in Waiting : Len(g_queue) = 1
                             /\ pc' = [pc EXCEPT ![w] = "relock"]
       \/ (Waiting = {} \/ Len(g_queue) # 1) /\ UNCHANGED pc
    /\ UNCHANGED <<req, created, item, g_mutex_queue, g_queue, accepted,
                   served, proc>>

(* pthread_cond_signal, called after the unlock: it wakes one of the       *)
(* threads that wait, and is lost when none does.  A woken thread still    *)
(* has to get the mutex before pthread_cond_wait returns.                  *)
Signal ==
    /\ boss = "signal"
    /\ boss' = "serve"
    /\ \/ \E w \in Waiting : pc' = [pc EXCEPT ![w] = "relock"]
       \/ Waiting = {} /\ UNCHANGED pc
    /\ UNCHANGED <<req, created, item, g_mutex_queue, g_queue, accepted,
                   served, proc>>

-----------------------------------------------------------------------------
(* remove_item and worker_thread, on worker w *)

(* Faulty variant: "if" in place of "while" round pthread_cond_wait.       *)
AcquireThenIf(w) ==
    /\ pc[w] \in {"lock", "relock"}
    /\ g_mutex_queue = NoThread
    /\ g_mutex_queue' = w
    /\ pc' = [pc EXCEPT ![w] = IF pc[w] = "relock" THEN "pop" ELSE "test"]
    /\ UNCHANGED <<boss, req, created, item, g_queue, accepted, served, proc>>

(* pthread_mutex_lock, or the return of pthread_cond_wait with the mutex:  *)
(* both lead to the test of the while loop.                                *)
Acquire(w) ==
    /\ pc[w] \in {"lock", "relock"}
    /\ g_mutex_queue = NoThread
    /\ g_mutex_queue' = w
    /\ pc' = [pc EXCEPT ![w] = "test"]
    /\ UNCHANGED <<boss, req, created, item, g_queue, accepted, served, proc>>

FoundWork(w) ==
    /\ pc[w] = "test"
    /\ g_queue # <<>>
    /\ pc' = [pc EXCEPT ![w] = "pop"]
    /\ UNCHANGED <<boss, req, created, item, g_mutex_queue, g_queue, accepted,
                   served, proc>>

(* pthread_cond_wait releases the mutex and starts to wait in one step.    *)
CondWait(w) ==
    /\ pc[w] = "test"
    /\ g_queue = <<>>
    /\ pc' = [pc EXCEPT ![w] = "waiting"]
    /\ g_mutex_queue' = NoThread
    /\ UNCHANGED <<boss, req, created, item, g_queue, accepted, served, proc>>

(* POSIX lets pthread_cond_wait return although nobody signalled.          *)
SpuriousWakeup(w) ==
    /\ pc[w] = "waiting"
    /\ pc' = [pc EXCEPT ![w] = "relock"]
    /\ UNCHANGED <<boss, req, created, item, g_mutex_queue, g_queue, accepted,
                   served, proc>>

(* Faulty variant: the item is looked at (steque_front), not removed.      *)
PopKeepsFront(w) ==
    /\ pc[w] = "pop"
    /\ g_queue # <<>>
    /\ item' = [item EXCEPT ![w] = Head(g_queue)]
    /\ pc' = [pc EXCEPT ![w] = "unlock"]
    /\ UNCHANGED <<boss, req, created, g_mutex_queue, g_queue, accepted, served,
                   proc>>

(* steque_pop ends the process when the queue is empty.                    *)
Pop(w) ==
    /\ pc[w] = "pop"
    /\ IF g_queue = <<>>
       THEN /\ proc' = "underflow"
            /\ UNCHANGED <<pc, item, g_queue>>
       ELSE /\ item' = [item EXCEPT ![w] = Head(g_queue)]
            /\ g_queue' = Tail(g_queue)
            /\ pc' = [pc EXCEPT ![w] = "unlock"]
            /\ UNCHANGED proc
    /\ UNCHANGED <<boss, req, created, g_mutex_queue, accepted, served>>

(* Faulty variant: the mutex is not released.                              *)
ReleaseNot(w) ==
    /\ pc[w] = "unlock"
    /\ pc' = [pc EXCEPT ![w] = "execute"]
    /\ UNCHANGED <<boss, req, created, item, g_mutex_queue, g_queue, accepted,
                   served, proc>>

Release(w) ==
    /\ pc[w] = "unlock"
    /\ g_mutex_queue' = NoThread
    /\ pc' = [pc EXCEPT ![w] = "execute"]
    /\ UNCHANGED <<boss, req, created, item, g_queue, accepted, served, proc>>

(* execute_thread returned, whatever its result, and the item is freed.    *)
Executed(w) ==
    /\ pc[w] = "execute"
    /\ served' = served \cup {item[w]}
    /\ item' = [item EXCEPT ![w] = NoRequest]
    /\ pc' = [pc EXCEPT ![w] = "lock"]
    /\ UNCHANGED <<boss, req, created, g_mutex_queue, g_queue, accepted, proc>>

(* _sig_handler: SIGINT or SIGTERM ends the process wherever it is.        *)
ExitOnSignal ==
    /\ proc' = "signalled"
    /\ UNCHANGED <<boss, req, created, pc, item, g_mutex_queue, g_queue,
                   accepted, served>>

-----------------------------------------------------------------------------
BossStep ==
    \/ CreateWorker
    \/ CreateFails
    \/ StartServing
    \/ \E r \in Requests : HandlerGet(r)
    \/ BossLock
    \/ Enqueue
    \/ BossUnlock
    \/ Signal

WorkerStep(w) ==
    \/ Acquire(w)
    \/ FoundWork(w)
    \/ CondWait(w)
    \/ SpuriousWakeup(w)
    \/ Pop(w)
    \/ Release(w)
    \/ Executed(w)

Next ==
    /\ proc = "run"
    /\ \/ BossStep
       \/ \E w \in Workers : WorkerStep(w)
       \/ ExitOnSignal

SafeSpec == Init /\ [][Next]_vars

(* The scheduler runs every thread that can run.  A thread that wants the  *)
(* mutex gets it if it is free again and again: spurious wakeups of other  *)
(* workers may take it in between, so weak fairness would not do.  Nothing *)
(* is assumed of clients (HandlerGet, a stalled reader), of signals, or    *)
(* of spurious wakeups.                                                    *)
BossProgress ==
    /\ proc = "run"
    /\ CreateWorker \/ CreateFails \/ StartServing
       \/ Enqueue \/ BossUnlock \/ Signal

WorkerProgress(w) ==
    /\ proc = "run"
    /\ \/ FoundWork(w) \/ CondWait(w) \/ Pop(w) \/ Release(w)
       \/ Executed(w) /\ item[w] \notin Stalled

Fairness ==
    /\ WF_vars(BossProgress)
    /\ SF_vars(proc = "run" /\ BossLock)
    /\ \A w \in Workers : /\ WF_vars(WorkerProgress(w))
                          /\ SF_vars(proc = "run" /\ Acquire(w))

Spec == SafeSpec /\ Fairness

-----------------------------------------------------------------------------
(* Safety *)

(* Every request that reached handler_get is in exactly one place: in      *)
(* add_item's hands, once in the queue, with one worker, or served.  So no *)
(* item is lost, executed by two workers, or executed or freed again.      *)
InHand(r)  == req = r
Queued(r)  == \E i \in DOMAIN g_queue : g_queue[i] = r
Held(r)    == \E w \in Workers : item[w] = r

ExactlyOneOwner ==
    /\ IsInjective(g_queue)
    /\ \A w1, w2 \in Workers :
          item[w1] = item[w2] /\ item[w1] # NoRequest => w1 = w2
    /\ \A r \in Requests :
          /\ r \in accepted <=> InHand(r) \/ Queued(r) \/ Held(r) \/ r \in served
          /\ InHand(r) => ~ Queued(r) /\ ~ Held(r) /\ r \notin served
          /\ Queued(r) => ~ Held(r) /\ r \notin served
          /\ Held(r)   => r \notin served

(* remove_item tests the queue, may sleep, and pops later: the queue is    *)
(* never empty by then, so the server never dies of "underflow in          *)
(* steque_pop", however many workers one signal or none has woken.         *)
NoUnderflow == proc # "underflow"

(* add_item signals after it has released the mutex, and the signal goes   *)
(* to nobody when no worker waits.  Still, while some worker sleeps, each  *)
(* queued item is matched by a worker on its way to the pop or by the      *)
(* signal the boss still owes: no wakeup is lost.                          *)
Seekers == {w \in Workers : pc[w] \in {"lock", "relock", "test", "pop"}}
SignalOwed == IF boss \in {"unlock", "signal"} THEN 1 ELSE 0

NoLostWakeup ==
    Waiting # {} => Len(g_queue) <= Cardinality(Seekers) + SignalOwed

(* No circle of waiting among mutex, condition variable and threads: while *)
(* a request of a client that keeps reading is unserved, the boss or a     *)
(* worker has a step that waits for nobody, neither for a spurious wakeup  *)
(* nor for another request; or all workers are with stalled clients.       *)
BossMoves ==
    \/ boss \in {"spawn", "enqueue", "unlock", "signal"}
    \/ boss = "lock" /\ g_mutex_queue = NoThread

WorkerMoves(w) ==
    \/ pc[w] \in {"test", "pop", "unlock"}
    \/ pc[w] \in {"lock", "relock"} /\ g_mutex_queue = NoThread
    \/ pc[w] = "execute" /\ item[w] \notin Stalled

NeverStuck ==
    proc = "run" /\ ~ accepted \subseteq served \cup Stalled =>
        \/ BossMoves \/ \E w \in Workers : WorkerMoves(w)
        \/ \A w \in Workers : pc[w] = "execute" /\ item[w] \in Stalled

(* The rest of the inductive invariant: who holds the mutex, what a worker *)
(* that passed the loop's test knows, where items are held, and which      *)
(* workers exist.                                                          *)
MutexInv ==
    /\ \A w \in Workers :
          pc[w] \in {"test", "pop", "unlock"} <=> g_mutex_queue = w
    /\ boss \in {"enqueue", "unlock"} <=> g_mutex_queue = Main

PopInv  == \A w \in Workers : pc[w] = "pop" => g_queue # <<>>

ItemInv ==
    /\ \A w \in Workers :
          item[w] # NoRequest <=> pc[w] \in {"unlock", "execute"}
    /\ req # NoRequest <=> boss \in {"lock", "enqueue"}

SpawnInv ==
    /\ \A w \in Workers : pc[w] = "off" <=> created < w
    /\ boss # "spawn" => created = g_num_threads

IInv ==
    /\ TypeOK
    /\ MutexInv
    /\ PopInv
    /\ ItemInv
    /\ SpawnInv
    /\ ExactlyOneOwner
    /\ NoUnderflow
    /\ NoLostWakeup

(* The pool implements the order and exactly-once promise of               *)
(* RequestService, and, under the fairness above, its promise that some    *)
(* idle worker takes up a pending request: the condition variable works.   *)
Service == INSTANCE RequestService
             WITH pending <- g_queue, serving <- item, done <- served,
                  up <- proc = "run"

ServiceSpec     == Service!Spec
ServiceSafeSpec == Service!SafeSpec

(* While fewer clients stall than there are workers, every request of a    *)
(* client that keeps reading is served, unless the process is ended.       *)
EveryRequestServed ==
    \A r \in Requests \ Stalled :
        r \in accepted ~> (r \in served \/ proc # "run")
=============================================================================
