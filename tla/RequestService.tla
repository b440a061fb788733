--------------------------- MODULE RequestService ---------------------------
(***************************************************************************)
(* What the boss/worker pool of pr1/mtgf/handler.c promises to the server  *)
(* library: requests are taken up in the order in which they were handed   *)
(* over, each by exactly one worker, each at most once, and none is        *)
(* forgotten while the process lives.  No mutex, no condition variable and *)
(* no thread creation appears here; WorkerPool.tla is shown to implement   *)
(* this module.                                                            *)
(***************************************************************************)
EXTENDS Naturals, Sequences, Functions

CONSTANTS Workers,    \* the pool's threads
          Requests,   \* the requests clients may send
          Stalled,    \* requests whose client may stop reading for ever
          NoRequest

VARIABLES pending,    \* handed over, not yet taken up, in order
          serving,    \* the request each worker is busy with
          done,       \* requests whose service is over
          up          \* the process has not exited

vars == <<pending, serving, done, up>>

Init ==
    /\ pending = <<>>
    /\ serving = [w \in Workers |-> NoRequest]
    /\ done = {}
    /\ up = TRUE

Known == Range(pending) \cup Range(serving) \cup done

Submit(r) ==
    /\ up
    /\ r \notin Known
    /\ pending' = Append(pending, r)
    /\ UNCHANGED <<serving, done, up>>

Start(w) ==
    /\ up
    /\ serving[w] = NoRequest
    /\ pending # <<>>
    /\ serving' = [serving EXCEPT ![w] = Head(pending)]
    /\ pending' = Tail(pending)
    /\ UNCHANGED <<done, up>>

Finish(w) ==
    /\ up
    /\ serving[w] # NoRequest
    /\ done' = done \cup {serving[w]}
    /\ serving' = [serving EXCEPT ![w] = NoRequest]
    /\ UNCHANGED <<pending, up>>

Stop ==
    /\ up
    /\ up' = FALSE
    /\ UNCHANGED <<pending, serving, done>>

Next ==
    \/ \E r \in Requests : Submit(r)
    \/ \E w \in Workers : Start(w) \/ Finish(w)
    \/ Stop

SafeSpec == Init /\ [][Next]_vars

(* An idle worker takes up a pending request, and a client that keeps      *)
(* reading is served to the end.                                           *)
Fairness ==
    /\ WF_vars(\E w \in Workers : Start(w))
    /\ \A w \in Workers : WF_vars(Finish(w) /\ serving[w] \notin Stalled)

Spec == SafeSpec /\ Fairness
=============================================================================
