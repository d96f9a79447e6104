--------------------------- MODULE FireAndForget ----------------------------
(***************************************************************************)
(* apps/core/dispatch/fire_and_forget.py: one FireAndForgetQueue.          *)
(*                                                                         *)
(* Threads: a request thread per submitted task (submit), the daemon       *)
(* consumer thread (_consume_loop), the executor's worker threads          *)
(* (_run_task_safely), one caller of drain() and one of stop(), and the    *)
(* interpreter's exit handler.  Every step is one operation that the       *)
(* interpreter performs atomically: a queue.Queue call, an Event call, the *)
(* read or the write of _dropped, an executor call.  A timeout may expire  *)
(* at any moment at which the code would notice it.                        *)
(***************************************************************************)
EXTENDS Naturals, Sequences, FiniteSets

CONSTANTS
  Tasks,        \* the callables handed to submit(), one call each
  Workers,      \* the executor's threads (max_workers of them)
  MaxInFlight,  \* maxsize of the queue.Queue; 0 is unbounded, as there
  None          \* no task

ASSUME FireAndForgetAssumption ==
  /\ MaxInFlight \in Nat
  /\ None \notin Tasks

VARIABLES
  pc,           \* pc[t]: where the thread that submits t stands
  snap,         \* snap[t]: the value of _dropped that thread last read
  dropped,      \* self._dropped
  droppedLock,  \* holder of self._dropped_lock, or None
  queue,        \* self._queue
  unfinished,   \* the Queue's unfinished_tasks: put adds one, task_done takes one
  cpc,          \* where the consumer thread stands
  hand,         \* fn of _consume_loop: taken off the queue, not yet submitted
  stop,         \* self._stop is set
  drained,      \* self._drained is set
  work,         \* the executor's work queue
  running,      \* running[w]: the task worker w executes, or None
  shutdown,     \* the executor refuses work (its shutdown, or interpreter exit)
  spc,          \* where the caller of stop() stands
  dpc,          \* where the caller of drain() stands
  accepted,     \* history: tasks for which submit() returned True, in order
  started,      \* history: tasks begun by a worker, in order
  finished,     \* history: tasks that returned or raised
  stopMark,     \* history: how many tasks were accepted when stop() was called
  drainMark     \* history: how many tasks were accepted when drain() was called

producerVars == <<pc, snap, dropped, droppedLock>>
consumerVars == <<cpc, hand, drained>>
poolVars     == <<work, running, started, finished>>
stopVars     == <<stop, spc, shutdown, stopMark>>
drainVars    == <<dpc, drainMark>>
bufferVars   == <<queue, unfinished, accepted>>
vars == <<producerVars, consumerVars, poolVars, stopVars, drainVars, bufferVars>>

PCs  == {"idle", "accepted", "full", "counting", "refused"}
CPCs == {"check", "get", "empty", "submit", "exit", "dead"}
SPCs == {"idle", "join", "shutdown", "wait", "done"}
DPCs == {"idle", "poll", "pending", "true", "false"}

Held == IF hand = None THEN 0 ELSE 1

TypeOK ==
  /\ pc \in [Tasks -> PCs]
  /\ snap \in [Tasks -> Nat]
  /\ dropped \in Nat
  /\ droppedLock \in Tasks \cup {None}
  /\ queue \in Seq(Tasks)
  /\ unfinished \in Nat
  /\ cpc \in CPCs
  /\ hand \in Tasks \cup {None}
  /\ stop \in BOOLEAN
  /\ drained \in BOOLEAN
  /\ work \in Seq(Tasks)
  /\ running \in [Workers -> Tasks \cup {None}]
  /\ shutdown \in BOOLEAN
  /\ spc \in SPCs
  /\ dpc \in DPCs
  /\ accepted \in Seq(Tasks)
  /\ started \in Seq(Tasks)
  /\ finished \subseteq Tasks
  /\ stopMark \in Nat
  /\ drainMark \in Nat

(* __init__: an empty queue, an idle executor, the consumer thread running. *)
Init ==
  /\ pc = [t \in Tasks |-> "idle"]
  /\ snap = [t \in Tasks |-> 0]
  /\ dropped = 0
  /\ droppedLock = None
  /\ queue = <<>>
  /\ unfinished = 0
  /\ cpc = "check"
  /\ hand = None
  /\ stop = FALSE
  /\ drained = FALSE
  /\ work = <<>>
  /\ running = [w \in Workers |-> None]
  /\ shutdown = FALSE
  /\ spc = "idle"
  /\ dpc = "idle"
  /\ accepted = <<>>
  /\ started = <<>>
  /\ finished = {}
  /\ stopMark = 0
  /\ drainMark = 0

-----------------------------------------------------------------------------
(* submit().  put_nowait raises Full at maxsize, and never for maxsize 0.  *)

Full == MaxInFlight > 0 /\ Len(queue) >= MaxInFlight

Put(t) ==
  /\ pc[t] = "idle"
  /\ ~Full
  /\ queue' = Append(queue, t)
  /\ unfinished' = unfinished + 1
  /\ accepted' = Append(accepted, t)
  /\ pc' = [pc EXCEPT ![t] = "accepted"]
  /\ UNCHANGED <<snap, dropped, droppedLock, consumerVars, poolVars, stopVars, drainVars>>

MutantPutFull(t) ==   \* swallows queue.Full and answers True
  /\ pc[t] = "idle"
  /\ Full
  /\ accepted' = Append(accepted, t)
  /\ pc' = [pc EXCEPT ![t] = "accepted"]
  /\ UNCHANGED <<snap, dropped, droppedLock, consumerVars, poolVars, stopVars, drainVars,
                 queue, unfinished>>

PutFull(t) ==
  /\ pc[t] = "idle"
  /\ Full
  /\ pc' = [pc EXCEPT ![t] = "full"]
  /\ UNCHANGED <<snap, dropped, droppedLock, consumerVars, poolVars, stopVars, drainVars, bufferVars>>

MutantReadDropped(t) ==   \* without _dropped_lock
  /\ pc[t] = "full"
  /\ snap' = [snap EXCEPT ![t] = dropped]
  /\ pc' = [pc EXCEPT ![t] = "counting"]
  /\ UNCHANGED <<dropped, droppedLock, consumerVars, poolVars, stopVars, drainVars, bufferVars>>

(* with self._dropped_lock: the load of self._dropped in "+= 1". *)
ReadDropped(t) ==
  /\ pc[t] = "full"
  /\ droppedLock = None
  /\ droppedLock' = t
  /\ snap' = [snap EXCEPT ![t] = dropped]
  /\ pc' = [pc EXCEPT ![t] = "counting"]
  /\ UNCHANGED <<dropped, consumerVars, poolVars, stopVars, drainVars, bufferVars>>

(* The store, the snapshot for the WARNING, the release, return False. *)
CountDrop(t) ==
  /\ pc[t] = "counting"
  /\ dropped' = snap[t] + 1
  /\ snap' = [snap EXCEPT ![t] = dropped']
  /\ droppedLock' = None
  /\ pc' = [pc EXCEPT ![t] = "refused"]
  /\ UNCHANGED <<consumerVars, poolVars, stopVars, drainVars, bufferVars>>

Submit(t) == Put(t) \/ PutFull(t) \/ ReadDropped(t) \/ CountDrop(t)

-----------------------------------------------------------------------------
(* _consume_loop().                                                        *)

ConsumerCheckStop ==
  /\ cpc = "check"
  /\ cpc' = IF stop THEN "exit" ELSE "get"
  /\ UNCHANGED <<hand, drained, producerVars, poolVars, stopVars, drainVars, bufferVars>>

ConsumerGet ==
  /\ cpc = "get"
  /\ queue # <<>>
  /\ hand' = Head(queue)
  /\ queue' = Tail(queue)
  /\ cpc' = "submit"
  /\ UNCHANGED <<drained, unfinished, accepted, producerVars, poolVars, stopVars, drainVars>>

(* get(timeout=0.5) raises Empty only while the queue is empty. *)
ConsumerGetTimesOut ==
  /\ cpc = "get"
  /\ queue = <<>>
  /\ cpc' = "empty"
  /\ UNCHANGED <<hand, drained, producerVars, poolVars, stopVars, drainVars, bufferVars>>

MutantConsumerOnEmpty ==   \* leaves the loop on the first idle half second
  /\ cpc = "empty"
  /\ cpc' = IF queue = <<>> THEN "exit" ELSE "check"
  /\ UNCHANGED <<hand, drained, producerVars, poolVars, stopVars, drainVars, bufferVars>>

ConsumerOnEmpty ==
  /\ cpc = "empty"
  /\ cpc' = IF stop /\ queue = <<>> THEN "exit" ELSE "check"
  /\ UNCHANGED <<hand, drained, producerVars, poolVars, stopVars, drainVars, bufferVars>>

(* executor.submit succeeds; finally: task_done(). *)
ConsumerSubmit ==
  /\ cpc = "submit"
  /\ ~shutdown
  /\ work' = Append(work, hand)
  /\ hand' = None
  /\ unfinished' = unfinished - 1
  /\ cpc' = "check"
  /\ UNCHANGED <<drained, queue, accepted, running, started, finished,
                 producerVars, stopVars, drainVars>>

(* executor.submit raises RuntimeError: the task is lost; finally: task_done(). *)
ConsumerRefused ==
  /\ cpc = "submit"
  /\ shutdown
  /\ hand' = None
  /\ unfinished' = unfinished - 1
  /\ cpc' = "exit"
  /\ UNCHANGED <<drained, queue, accepted, producerVars, poolVars, stopVars, drainVars>>

ConsumerExit ==
  /\ cpc = "exit"
  /\ drained' = TRUE
  /\ cpc' = "dead"
  /\ UNCHANGED <<hand, producerVars, poolVars, stopVars, drainVars, bufferVars>>

Consumer ==
  \/ ConsumerCheckStop
  \/ ConsumerGet
  \/ ConsumerGetTimesOut
  \/ ConsumerOnEmpty
  \/ ConsumerSubmit
  \/ ConsumerRefused
  \/ ConsumerExit

-----------------------------------------------------------------------------
(* The executor's workers.  After a shutdown they still empty the work     *)
(* queue: stop() passes cancel_futures=False, and so does interpreter exit.*)

BeginTask(w) ==
  /\ running[w] = None
  /\ work # <<>>
  /\ running' = [running EXCEPT ![w] = Head(work)]
  /\ started' = Append(started, Head(work))
  /\ work' = Tail(work)
  /\ UNCHANGED <<finished, producerVars, consumerVars, stopVars, drainVars, bufferVars>>

(* _run_task_safely: fn() returns, or raises and the exception is logged;  *)
(* the worker goes on either way.                                          *)
EndTask(w) ==
  /\ running[w] # None
  /\ finished' = finished \cup {running[w]}
  /\ running' = [running EXCEPT ![w] = None]
  /\ UNCHANGED <<work, started, producerVars, consumerVars, stopVars, drainVars, bufferVars>>

-----------------------------------------------------------------------------
(* stop(): set the event, join the consumer up to the timeout, shut the    *)
(* executor and wait for its threads.                                      *)

StopCall ==
  /\ spc = "idle"
  /\ stop' = TRUE
  /\ stopMark' = Len(accepted)
  /\ spc' = "join"
  /\ UNCHANGED <<shutdown, producerVars, consumerVars, poolVars, drainVars, bufferVars>>

MutantStopJoinReturns ==   \* join() without a timeout
  /\ spc = "join"
  /\ cpc = "dead"
  /\ spc' = "shutdown"
  /\ UNCHANGED <<stop, stopMark, shutdown, producerVars, consumerVars, poolVars, drainVars, bufferVars>>

(* The consumer is dead, or the timeout expired: join() does not tell. *)
StopJoinReturns ==
  /\ spc = "join"
  /\ spc' = "shutdown"
  /\ UNCHANGED <<stop, stopMark, shutdown, producerVars, consumerVars, poolVars, drainVars, bufferVars>>

StopShutdown ==
  /\ spc = "shutdown"
  /\ shutdown' = TRUE
  /\ spc' = "wait"
  /\ UNCHANGED <<stop, stopMark, producerVars, consumerVars, poolVars, drainVars, bufferVars>>

PoolIdle == work = <<>> /\ \A w \in Workers : running[w] = None

(* shutdown(wait=True) joins the workers, which leave once the pool is idle. *)
StopReturns ==
  /\ spc = "wait"
  /\ PoolIdle
  /\ spc' = "done"
  /\ UNCHANGED <<stop, stopMark, shutdown, producerVars, consumerVars, poolVars, drainVars, bufferVars>>

Stopper == StopCall \/ StopJoinReturns \/ StopShutdown \/ StopReturns

(* concurrent.futures' exit handler: from here executor.submit raises      *)
(* RuntimeError, whether or not anybody called stop().                     *)
InterpreterExit ==
  /\ ~shutdown
  /\ shutdown' = TRUE
  /\ UNCHANGED <<stop, spc, stopMark, producerVars, consumerVars, poolVars, drainVars, bufferVars>>

-----------------------------------------------------------------------------
(* drain(): poll queue.empty() until it holds or the deadline has passed.  *)

DrainCall ==
  /\ dpc = "idle"
  /\ drainMark' = Len(accepted)
  /\ dpc' = "poll"
  /\ UNCHANGED <<producerVars, consumerVars, poolVars, stopVars, bufferVars>>

MutantDrainTrue ==   \* returns True when the deadline has passed, too
  /\ dpc = "poll"
  /\ dpc' = "true"
  /\ UNCHANGED <<drainMark, producerVars, consumerVars, poolVars, stopVars, bufferVars>>

DrainTrue ==
  /\ dpc = "poll"
  /\ queue = <<>>
  /\ dpc' = "true"
  /\ UNCHANGED <<drainMark, producerVars, consumerVars, poolVars, stopVars, bufferVars>>

DrainPending ==
  /\ dpc = "poll"
  /\ queue # <<>>
  /\ dpc' = "pending"
  /\ UNCHANGED <<drainMark, producerVars, consumerVars, poolVars, stopVars, bufferVars>>

(* The deadline has passed: the queue is not looked at again. *)
DrainFalse ==
  /\ dpc = "pending"
  /\ dpc' = "false"
  /\ UNCHANGED <<drainMark, producerVars, consumerVars, poolVars, stopVars, bufferVars>>

DrainSleep ==
  /\ dpc = "pending"
  /\ dpc' = "poll"
  /\ UNCHANGED <<drainMark, producerVars, consumerVars, poolVars, stopVars, bufferVars>>

Drainer == DrainCall \/ DrainTrue \/ DrainPending \/ DrainFalse \/ DrainSleep

-----------------------------------------------------------------------------
Next ==
  \/ \E t \in Tasks : Submit(t)
  \/ Consumer
  \/ \E w \in Workers : BeginTask(w) \/ EndTask(w)
  \/ Stopper
  \/ InterpreterExit
  \/ Drainer

SafeSpec == Init /\ [][Next]_vars

(* A thread that can go on does so.  The daemon consumer is only sure to   *)
(* be scheduled while the interpreter is not exiting; a caller need not    *)
(* call; every task ends.                                                  *)
Fairness ==
  /\ WF_vars(~shutdown /\ Consumer)
  /\ \A w \in Workers : WF_vars(BeginTask(w)) /\ WF_vars(EndTask(w))
  /\ WF_vars(StopJoinReturns \/ StopShutdown \/ StopReturns)

Spec == SafeSpec /\ Fairness

-----------------------------------------------------------------------------
(* Properties.                                                             *)

(* FIFO and conservation: what the workers have begun, what waits in the   *)
(* executor, what the consumer holds and what is queued are, in that       *)
(* order, exactly the accepted tasks, for as long as the executor takes    *)
(* work; afterwards the two ends still match the accepted order, so only   *)
(* a task that the shutdown cut off is missing, and none appears twice.    *)
Delivered == started \o work

HandSeq == IF hand = None THEN <<>> ELSE <<hand>>

InOrder ==
  /\ ~shutdown => accepted = Delivered \o HandSeq \o queue
  /\ shutdown => /\ Len(Delivered) + Held + Len(queue) <= Len(accepted)
                 /\ Delivered = SubSeq(accepted, 1, Len(Delivered))
                 /\ queue = SubSeq(accepted, Len(accepted) - Len(queue) + 1, Len(accepted))

(* The load-shed signal is exact: _dropped counts the refusals that got    *)
(* past the counter, however the request threads that overflow interleave. *)
DropCounterExact == dropped = Cardinality({t \in Tasks : pc[t] = "refused"})

(* The dropped_count of two fire_and_forget_overflow warnings never agree, *)
(* and each is between one and the counter: what an operator reads in the  *)
(* log increases with every drop.                                          *)
DropWarningsDistinct ==
  \A t, u \in Tasks :
    pc[t] = "refused" /\ pc[u] = "refused" =>
      /\ snap[t] \in 1..dropped
      /\ t # u => snap[t] # snap[u]

(* Every get() is matched by one task_done(), also when the executor       *)
(* refuses the task and the loop breaks.                                   *)
TaskDoneBalanced == unfinished = Len(queue) + Held

(* Once stop() has returned no task runs or will run, even if the join     *)
(* timed out and the consumer is still alive with a task in its hand.      *)
QuietAfterStop == spc = "done" => PoolIdle

(* Every accepted task is accounted for: delivered once and in order, or   *)
(* cut off by a shutdown, after which nothing runs, and the count that     *)
(* Queue.join() would wait for agrees.                                     *)
TasksAccounted == InOrder /\ TaskDoneBalanced /\ QuietAfterStop

(* Every overflow is accounted for, in the counter and in the log.         *)
DropsAccounted == DropCounterExact /\ DropWarningsDistinct

(* drain() answers True only if every task accepted before the call has    *)
(* left the queue: it is with the executor, with the consumer, or lost to  *)
(* a shutdown.                                                             *)
DrainTrueMeansDequeued ==
  dpc = "true" => drainMark + Len(queue) <= Len(accepted)

(* stop() returns, although the consumer may never come back from a get.   *)
StopTerminates == (spc = "join") ~> (spc = "done")

(* A refused or accepted task is decided for good, accepted ones begin in  *)
(* order, and the next one does begin until teardown: the promise.         *)
Promise ==
  INSTANCE BestEffortDispatch WITH
    order   <- accepted,
    refused <- {t \in Tasks : pc[t] \in {"full", "counting", "refused"}},
    begun   <- started,
    closed  <- stop \/ shutdown

KeepsPromise == Promise!Spec

-----------------------------------------------------------------------------
(* What the docstrings say and the code does not do; neither holds.        *)

(* stop(): "Signal the consumer to drain and stop": when the consumer has  *)
(* ended of its own accord, no refusal and no timeout involved, every task *)
(* accepted before stop() was called is with the executor.                 *)
StopDrains == drained /\ ~shutdown => Len(Delivered) >= stopMark

(* drain(): "Block until queued tasks are submitted to the executor".      *)
DrainTrueMeansSubmitted ==
  dpc = "true" /\ ~shutdown => Len(Delivered) >= drainMark
=============================================================================
