------------------------ MODULE FireAndForgetProofs -------------------------
(***************************************************************************)
(* Proofs about FireAndForget, for any set of tasks and of workers and any *)
(* capacity: the type invariant, the safety invariants the runs check, and *)
(* that every step is one BestEffortDispatch allows.                       *)
(***************************************************************************)
EXTENDS FireAndForget, SequenceTheorems, FiniteSetTheorems, TLAPS

(* Where each accepted task is, by position: the history of the started    *)
(* ones and the executor's work queue cover a prefix of the acceptance     *)
(* order, the queue a suffix, and the consumer's task sits just before the *)
(* suffix.  Only a shutdown opens a gap between the two.                   *)
Aligned ==
  /\ \A i \in 1..Len(started) : accepted[i] = started[i]
  /\ \A i \in 1..Len(work) : accepted[Len(started) + i] = work[i]
  /\ \A i \in 1..Len(queue) : accepted[Len(accepted) - Len(queue) + i] = queue[i]
  /\ hand # None => accepted[Len(accepted) - Len(queue)] = hand
  /\ Len(started) + Len(work) + Held + Len(queue) <= Len(accepted)
  /\ ~shutdown => Len(started) + Len(work) + Held + Len(queue) = Len(accepted)

(* What the program counters of the consumer and of the callers say.       *)
Stages ==
  /\ spc \in {"wait", "done"} => shutdown
  /\ drainMark <= Len(accepted)

(* The consumer has a task in its hand exactly between a get and its       *)
(* submission, and owes one task_done() for it and for each queued task:   *)
(* what makes the counter of unfinished tasks a natural number.            *)
Handed ==
  /\ cpc = "submit" <=> hand # None
  /\ TaskDoneBalanced

Typed == TypeOK /\ Handed

(* Exactly the accepted tasks are in the acceptance order.                 *)
AcceptedTasks ==
  \A t \in Tasks : pc[t] = "accepted" <=> \E i \in 1..Len(accepted) : accepted[i] = t

(* The lock protects the window between the read and the write of _dropped.*)
CountingLocked ==
  \A t \in Tasks : pc[t] = "counting" => droppedLock = t /\ snap[t] = dropped

Refused == {t \in Tasks : pc[t] = "refused"}

Counted ==
  /\ IsFiniteSet(Refused)
  /\ DropCounterExact

IInv ==
  /\ Typed
  /\ Aligned
  /\ Stages
  /\ AcceptedTasks
  /\ CountingLocked

-----------------------------------------------------------------------------
(* TypeOK, one step per action that touches more than a program counter.   *)

LEMMA InitType == Init => TypeOK
<1> SUFFICES ASSUME Init PROVE TypeOK
  OBVIOUS
<1>1. /\ queue \in Seq(Tasks) /\ work \in Seq(Tasks)
      /\ accepted \in Seq(Tasks) /\ started \in Seq(Tasks)
  BY DEF Init
<1>2. stop \in BOOLEAN /\ drained \in BOOLEAN /\ shutdown \in BOOLEAN
  BY DEF Init
<1>3. /\ pc \in [Tasks -> PCs]
      /\ snap \in [Tasks -> Nat]
      /\ running \in [Workers -> Tasks \cup {None}]
  BY DEF Init, PCs
<1>4. /\ dropped \in Nat /\ droppedLock \in Tasks \cup {None}
      /\ unfinished \in Nat /\ hand \in Tasks \cup {None}
      /\ cpc \in CPCs /\ spc \in SPCs /\ dpc \in DPCs
      /\ finished \subseteq Tasks /\ stopMark \in Nat /\ drainMark \in Nat
  BY DEF Init, CPCs, SPCs, DPCs
<1> QED
  BY <1>1, <1>2, <1>3, <1>4 DEF TypeOK

LEMMA InitTyped == Init => Typed
  BY InitType DEF Init, Typed, Handed, TaskDoneBalanced, Held

LEMMA NextTyped == Typed /\ [Next]_vars => Typed'
<1> SUFFICES ASSUME TypeOK, Handed, [Next]_vars PROVE TypeOK' /\ Handed'
  BY DEF Typed
<1> USE DEF TypeOK, Handed, TaskDoneBalanced, Held,
        producerVars, consumerVars, poolVars, stopVars, drainVars, bufferVars
<1>1. ASSUME NEW t \in Tasks, Put(t) PROVE TypeOK' /\ Handed'
  BY <1>1 DEF Put, PCs
<1>2. ASSUME NEW t \in Tasks, PutFull(t) PROVE TypeOK' /\ Handed'
  BY <1>2 DEF PutFull, PCs
<1>3. ASSUME NEW t \in Tasks, ReadDropped(t) PROVE TypeOK' /\ Handed'
  BY <1>3 DEF ReadDropped, PCs
<1>4. ASSUME NEW t \in Tasks, CountDrop(t) PROVE TypeOK' /\ Handed'
  BY <1>4 DEF CountDrop, PCs
<1>5. CASE ConsumerCheckStop
  BY <1>5, FireAndForgetAssumption DEF ConsumerCheckStop, CPCs, SPCs, DPCs
<1>6. CASE ConsumerGet
  BY <1>6, FireAndForgetAssumption DEF ConsumerGet, CPCs, SPCs, DPCs
<1>7. CASE ConsumerGetTimesOut
  BY <1>7, FireAndForgetAssumption DEF ConsumerGetTimesOut, CPCs, SPCs, DPCs
<1>8. CASE ConsumerOnEmpty
  BY <1>8, FireAndForgetAssumption DEF ConsumerOnEmpty, CPCs, SPCs, DPCs
<1>9. CASE ConsumerSubmit
  BY <1>9, FireAndForgetAssumption DEF ConsumerSubmit, CPCs, SPCs, DPCs
<1>10. CASE ConsumerRefused
  BY <1>10, FireAndForgetAssumption DEF ConsumerRefused, CPCs, SPCs, DPCs
<1>11. CASE ConsumerExit
  BY <1>11, FireAndForgetAssumption DEF ConsumerExit, CPCs, SPCs, DPCs
<1>12. CASE StopCall
  BY <1>12, FireAndForgetAssumption DEF StopCall, CPCs, SPCs, DPCs
<1>13. CASE StopJoinReturns
  BY <1>13, FireAndForgetAssumption DEF StopJoinReturns, CPCs, SPCs, DPCs
<1>14. CASE StopShutdown
  BY <1>14, FireAndForgetAssumption DEF StopShutdown, CPCs, SPCs, DPCs
<1>15. CASE StopReturns
  BY <1>15, FireAndForgetAssumption DEF StopReturns, CPCs, SPCs, DPCs
<1>16. CASE InterpreterExit
  BY <1>16, FireAndForgetAssumption DEF InterpreterExit, CPCs, SPCs, DPCs
<1>17. CASE DrainCall
  BY <1>17, FireAndForgetAssumption DEF DrainCall, CPCs, SPCs, DPCs
<1>18. CASE DrainTrue
  BY <1>18, FireAndForgetAssumption DEF DrainTrue, CPCs, SPCs, DPCs
<1>19. CASE DrainPending \/ DrainFalse \/ DrainSleep
  BY <1>19, FireAndForgetAssumption DEF DrainPending, DrainFalse, DrainSleep, CPCs, SPCs, DPCs
<1>20. ASSUME NEW w \in Workers, BeginTask(w) PROVE TypeOK' /\ Handed'
  BY <1>20 DEF BeginTask
<1>21. ASSUME NEW w \in Workers, EndTask(w) PROVE TypeOK' /\ Handed'
  BY <1>21 DEF EndTask
<1>22. CASE UNCHANGED vars
  BY <1>22 DEF vars
<1> QED
  BY <1>1, <1>2, <1>3, <1>4, <1>5, <1>6, <1>7, <1>8, <1>9, <1>10, <1>11, <1>12, <1>13, <1>14, <1>15, <1>16, <1>17, <1>18, <1>19, <1>20, <1>21, <1>22
     DEF Next, Submit, Consumer, Stopper, Drainer
-----------------------------------------------------------------------------
(* The inductive invariant.                                                *)

LEMMA InitIInv == Init => IInv
<1> SUFFICES ASSUME Init PROVE IInv
  OBVIOUS
<1>1. Typed
  BY InitTyped
<1>2. Aligned
  BY DEF Init, Aligned, Held
<1>3. Stages
  BY DEF Init, Stages
<1>4. AcceptedTasks
  BY DEF Init, AcceptedTasks
<1>5. CountingLocked
  BY DEF Init, CountingLocked
<1> QED
  BY <1>1, <1>2, <1>3, <1>4, <1>5 DEF IInv

(* Only four actions move a task, and a shutdown may only relax the last   *)
(* conjunct.                                                               *)
LEMMA NextAligned == Typed /\ Aligned /\ [Next]_vars => Aligned'
<1> SUFFICES ASSUME TypeOK, Handed, Aligned, [Next]_vars PROVE Aligned'
  BY DEF Typed
<1> USE DEF producerVars, consumerVars, poolVars, stopVars, drainVars, bufferVars
<1>1. ASSUME NEW t \in Tasks, Put(t) PROVE Aligned'
  <2>1. /\ Len(accepted') = Len(accepted) + 1
        /\ \A i \in 1..Len(accepted) : accepted'[i] = accepted[i]
        /\ accepted'[Len(accepted) + 1] = t
    BY <1>1, AppendProperties DEF Put, TypeOK
  <2>2. /\ Len(queue') = Len(queue) + 1
        /\ \A i \in 1..Len(queue) : queue'[i] = queue[i]
        /\ queue'[Len(queue) + 1] = t
    BY <1>1, AppendProperties DEF Put, TypeOK
  <2>3. UNCHANGED <<started, work, hand, shutdown>>
    BY <1>1 DEF Put
  <2>4. Len(accepted) \in Nat /\ Len(queue) \in Nat /\ Len(started) \in Nat /\ Len(work) \in Nat
    BY DEF TypeOK
  <2>5. \A i \in 1..Len(queue') : accepted'[Len(accepted') - Len(queue') + i] = queue'[i]
    <3> TAKE i \in 1..Len(queue')
    <3>1. CASE i = Len(queue')
      BY <3>1, <2>1, <2>2, <2>4
    <3>2. CASE i # Len(queue')
      <4>1. i \in 1..Len(queue) /\ Len(accepted) - Len(queue) + i \in 1..Len(accepted)
        BY <3>2, <2>2, <2>4 DEF Aligned, Held
      <4> QED
        BY <4>1, <2>1, <2>2, <2>4 DEF Aligned
    <3> QED
      BY <3>1, <3>2
  <2>6. ASSUME hand # None PROVE accepted'[Len(accepted') - Len(queue')] = hand
    <3>1. Len(accepted) - Len(queue) \in 1..Len(accepted)
      BY <2>4, <2>6 DEF Aligned, Held
    <3>2. Len(accepted') - Len(queue') = Len(accepted) - Len(queue)
      BY <2>1, <2>2, <2>4
    <3> QED
      BY <2>1, <2>6, <3>1, <3>2 DEF Aligned
  <2>7. Len(started) + Len(work) <= Len(accepted)
    BY <2>4 DEF Aligned, Held
  <2>8. \A i \in 1..Len(started) : accepted'[i] = started[i]
    <3> TAKE i \in 1..Len(started)
    <3>1. i \in 1..Len(accepted)
      BY <2>4, <2>7
    <3> QED
      BY <2>1, <3>1 DEF Aligned
  <2>9. \A i \in 1..Len(work) : accepted'[Len(started) + i] = work[i]
    <3> TAKE i \in 1..Len(work)
    <3>1. Len(started) + i \in 1..Len(accepted)
      BY <2>4, <2>7
    <3> QED
      BY <2>1, <3>1 DEF Aligned
  <2>10. /\ Len(started) + Len(work) + Held + Len(queue') <= Len(accepted')
         /\ ~shutdown => Len(started) + Len(work) + Held + Len(queue') = Len(accepted')
    BY <2>1, <2>2, <2>4 DEF Aligned, Held
  <2> QED
    BY <2>3, <2>5, <2>6, <2>8, <2>9, <2>10 DEF Aligned, Held
<1>2. CASE ConsumerGet
  <2>1. /\ Len(queue') = Len(queue) - 1
        /\ \A i \in 1..Len(queue') : queue'[i] = queue[i + 1]
        /\ hand' = queue[1] /\ hand' # None /\ hand = None
    BY <1>2, HeadTailProperties, FireAndForgetAssumption DEF ConsumerGet, TypeOK, Handed
  <2>2. UNCHANGED <<started, work, accepted, shutdown>>
    BY <1>2 DEF ConsumerGet
  <2>3. /\ Len(accepted) \in Nat /\ Len(queue) \in Nat /\ queue # <<>> /\ Len(queue) > 0
        /\ Len(started) \in Nat /\ Len(work) \in Nat
    BY <1>2 DEF TypeOK, ConsumerGet
  <2>4. \A i \in 1..Len(queue') : accepted[Len(accepted) - Len(queue') + i] = queue'[i]
    BY <2>1, <2>3 DEF Aligned
  <2>5. accepted[Len(accepted) - Len(queue')] = hand'
    BY <2>1, <2>3 DEF Aligned
  <2>6. /\ Len(started) + Len(work) + Len(queue) <= Len(accepted)
        /\ ~shutdown => Len(started) + Len(work) + Len(queue) = Len(accepted)
    BY <2>1, <2>3 DEF Aligned, Held
  <2>7. Held' = 1
    BY <2>1 DEF Held
  <2>8. /\ Len(started) + Len(work) + 1 + Len(queue') <= Len(accepted)
        /\ ~shutdown => Len(started) + Len(work) + 1 + Len(queue') = Len(accepted)
    BY <2>1, <2>3, <2>6
  <2> QED
    BY <2>2, <2>4, <2>5, <2>7, <2>8 DEF Aligned
<1>3. CASE ConsumerSubmit
  BY <1>3 DEF ConsumerSubmit, Aligned, Held, TypeOK, Handed
<1>4. CASE ConsumerRefused
  BY <1>4 DEF ConsumerRefused, Aligned, Held, TypeOK, Handed
<1>5. ASSUME NEW w \in Workers, BeginTask(w) PROVE Aligned'
  <2>1. /\ Len(work') = Len(work) - 1
        /\ \A i \in 1..Len(work') : work'[i] = work[i + 1]
        /\ work[1] \in Tasks /\ Len(work) > 0
    BY <1>5, HeadTailProperties DEF BeginTask, TypeOK
  <2>2. /\ Len(started') = Len(started) + 1
        /\ \A i \in 1..Len(started) : started'[i] = started[i]
        /\ started'[Len(started) + 1] = work[1]
    BY <1>5, <2>1, AppendProperties DEF BeginTask, TypeOK
  <2>3. UNCHANGED <<queue, hand, accepted, shutdown>>
    BY <1>5 DEF BeginTask
  <2>4. Len(accepted) \in Nat /\ Len(queue) \in Nat /\ Len(started) \in Nat /\ Len(work) \in Nat
    BY DEF TypeOK
  <2>5. \A i \in 1..Len(started') : accepted[i] = started'[i]
    <3> TAKE i \in 1..Len(started')
    <3>1. CASE i \in 1..Len(started)
      BY <2>2, <3>1 DEF Aligned
    <3>2. CASE i = Len(started) + 1
      <4>1. 1 \in 1..Len(work)
        BY <2>1, <2>4
      <4>2. accepted[Len(started) + 1] = work[1]
        BY <4>1 DEF Aligned
      <4> QED
        BY <2>2, <3>2, <4>2
    <3> QED
      BY <2>2, <2>4, <3>1, <3>2
  <2>6. \A i \in 1..Len(work') : accepted[Len(started') + i] = work'[i]
    <3> TAKE i \in 1..Len(work')
    <3>1. i + 1 \in 1..Len(work) /\ Len(started') + i = Len(started) + (i + 1)
      BY <2>1, <2>2, <2>4
    <3> QED
      BY <2>1, <3>1 DEF Aligned
  <2>7. Len(started') + Len(work') = Len(started) + Len(work) /\ Held' = Held
    BY <2>1, <2>2, <2>3, <2>4 DEF Held
  <2> QED
    BY <2>3, <2>5, <2>6, <2>7 DEF Aligned
<1>6. CASE StopShutdown \/ InterpreterExit
  BY <1>6 DEF StopShutdown, InterpreterExit, Aligned, Held, TypeOK
<1>7. CASE UNCHANGED <<started, work, queue, accepted, hand, shutdown>>
  BY <1>7 DEF Aligned, Held
<1> QED
  BY <1>1, <1>2, <1>3, <1>4, <1>5, <1>6, <1>7
     DEF Next, Submit, PutFull, ReadDropped, CountDrop, Consumer, ConsumerCheckStop,
         ConsumerGetTimesOut, ConsumerOnEmpty, ConsumerExit, EndTask, Stopper, StopCall,
         StopJoinReturns, StopReturns, Drainer, DrainCall, DrainTrue, DrainPending, DrainFalse, DrainSleep, vars

LEMMA NextStages == Typed /\ Stages /\ [Next]_vars => Stages'
<1> SUFFICES ASSUME TypeOK, Stages, [Next]_vars PROVE Stages'
  BY DEF Typed
<1> USE DEF producerVars, consumerVars, poolVars, stopVars, drainVars, bufferVars,
        Stages, TypeOK
<1>1. ASSUME NEW t \in Tasks, Submit(t) PROVE Stages'
  BY <1>1 DEF Submit, Put, PutFull, ReadDropped, CountDrop
<1>2. CASE Consumer
  BY <1>2 DEF Consumer, ConsumerCheckStop, ConsumerGet, ConsumerGetTimesOut,
              ConsumerOnEmpty, ConsumerSubmit, ConsumerRefused, ConsumerExit
<1>3. ASSUME NEW w \in Workers, BeginTask(w) \/ EndTask(w) PROVE Stages'
  BY <1>3 DEF BeginTask, EndTask
<1>4. CASE Stopper \/ InterpreterExit
  BY <1>4 DEF Stopper, StopCall, StopJoinReturns, StopShutdown, StopReturns, InterpreterExit
<1>5. CASE Drainer
  BY <1>5 DEF Drainer, DrainCall, DrainTrue, DrainPending, DrainFalse, DrainSleep
<1>6. CASE UNCHANGED vars
  BY <1>6 DEF vars
<1> QED
  BY <1>1, <1>2, <1>3, <1>4, <1>5, <1>6 DEF Next

(* The actions other than a submit() leave the producers' state alone.     *)
LEMMA OthersLeaveProducers ==
  [Next]_vars => (\E t \in Tasks : Submit(t)) \/ UNCHANGED <<producerVars, accepted>>
  BY DEF Next, Consumer, ConsumerCheckStop, ConsumerGet, ConsumerGetTimesOut,
         ConsumerOnEmpty, ConsumerSubmit, ConsumerRefused, ConsumerExit,
         BeginTask, EndTask, Stopper, StopCall, StopJoinReturns, StopShutdown,
         StopReturns, InterpreterExit, Drainer, DrainCall, DrainTrue, DrainPending, DrainFalse, DrainSleep,
         vars, producerVars, consumerVars, poolVars, stopVars, drainVars, bufferVars

LEMMA NextAccepted == Typed /\ AcceptedTasks /\ [Next]_vars => AcceptedTasks'
<1> SUFFICES ASSUME TypeOK, AcceptedTasks, [Next]_vars PROVE AcceptedTasks'
  BY DEF Typed
<1>1. ASSUME NEW t \in Tasks, Put(t) PROVE AcceptedTasks'
  <2>1. /\ Len(accepted') = Len(accepted) + 1 /\ Len(accepted) \in Nat
        /\ \A i \in 1..Len(accepted) : accepted'[i] = accepted[i]
        /\ accepted'[Len(accepted) + 1] = t
    BY <1>1, AppendProperties DEF Put, TypeOK
  <2>2. SUFFICES ASSUME NEW u \in Tasks
                 PROVE  pc'[u] = "accepted" <=> \E i \in 1..Len(accepted') : accepted'[i] = u
    BY DEF AcceptedTasks
  <2>3. CASE u = t
    BY <1>1, <2>1, <2>3 DEF Put, TypeOK
  <2>4. CASE u # t
    <3>1. pc'[u] = pc[u]
      BY <1>1, <2>4 DEF Put, TypeOK
    <3>2. (\E i \in 1..Len(accepted') : accepted'[i] = u)
            <=> (\E i \in 1..Len(accepted) : accepted[i] = u)
      BY <2>1, <2>4
    <3> QED
      BY <3>1, <3>2 DEF AcceptedTasks
  <2> QED
    BY <2>3, <2>4
<1>2. ASSUME NEW t \in Tasks, PutFull(t) \/ ReadDropped(t) \/ CountDrop(t)
      PROVE AcceptedTasks'
  BY <1>2 DEF PutFull, ReadDropped, CountDrop, AcceptedTasks, TypeOK, bufferVars, PCs
<1>3. CASE UNCHANGED <<producerVars, accepted>>
  BY <1>3 DEF producerVars, AcceptedTasks
<1> QED
  BY <1>1, <1>2, <1>3, OthersLeaveProducers DEF Submit

LEMMA NextCountingLocked == Typed /\ CountingLocked /\ [Next]_vars => CountingLocked'
<1> SUFFICES ASSUME TypeOK, CountingLocked, [Next]_vars PROVE CountingLocked'
  BY DEF Typed
<1>1. ASSUME NEW t \in Tasks, Submit(t) PROVE CountingLocked'
  BY <1>1, FireAndForgetAssumption
     DEF Submit, Put, PutFull, ReadDropped, CountDrop, CountingLocked, TypeOK
<1>2. CASE UNCHANGED <<producerVars, accepted>>
  BY <1>2 DEF producerVars, CountingLocked
<1> QED
  BY <1>1, <1>2, OthersLeaveProducers

LEMMA NextIInv == IInv /\ [Next]_vars => IInv'
  BY NextTyped, NextAligned, NextStages, NextAccepted, NextCountingLocked DEF IInv

LEMMA Invariance == SafeSpec => []IInv
  BY InitIInv, NextIInv, PTL DEF SafeSpec

-----------------------------------------------------------------------------
(* The theorems.                                                           *)

(* Every variable keeps its type, whatever the threads do.                 *)
THEOREM TypeCorrect == SafeSpec => []TypeOK
  BY Invariance, PTL DEF IInv, Typed

(* Each get() is matched by one task_done() in every reachable state.      *)
THEOREM TaskDoneBalance == SafeSpec => []TaskDoneBalanced
  BY Invariance, PTL DEF IInv, Typed, Handed

(* Tasks are delivered in the order of acceptance, each once, and only a   *)
(* shutdown loses one.                                                     *)
LEMMA AlignedInOrder == TypeOK /\ Aligned => InOrder
<1> SUFFICES ASSUME TypeOK, Aligned PROVE InOrder
  OBVIOUS
<1> DEFINE n == Len(started) + Len(work)
<1>1. /\ Delivered \in Seq(Tasks)
      /\ Len(Delivered) = n
      /\ \A i \in 1..n : Delivered[i] = accepted[i]
  <2>1. /\ Delivered \in Seq(Tasks) /\ Len(Delivered) = n
        /\ \A i \in 1..n : Delivered[i] = IF i <= Len(started) THEN started[i]
                                          ELSE work[i - Len(started)]
    BY ConcatProperties DEF Delivered, TypeOK
  <2>2. Len(started) \in Nat /\ Len(work) \in Nat
    BY DEF TypeOK
  <2>3. ASSUME NEW i \in 1..n PROVE Delivered[i] = accepted[i]
    <3>1. CASE i <= Len(started)
      BY <2>1, <2>2, <3>1 DEF Aligned
    <3>2. CASE i > Len(started)
      <4>1. i - Len(started) \in 1..Len(work) /\ Len(started) + (i - Len(started)) = i
        BY <2>2, <3>2
      <4>2. accepted[Len(started) + (i - Len(started))] = work[i - Len(started)]
        BY <4>1 DEF Aligned
      <4> QED
        BY <2>1, <2>2, <3>2, <4>1, <4>2
    <3> QED
      BY <2>2, <3>1, <3>2
  <2> QED
    BY <2>1, <2>3
<1>2. /\ n \in Nat /\ Len(queue) \in Nat /\ Len(accepted) \in Nat /\ Held \in {0, 1}
      /\ n + Held + Len(queue) <= Len(accepted)
  BY DEF TypeOK, Held, Aligned
<1>3. ASSUME ~shutdown PROVE accepted = Delivered \o HandSeq \o queue
  <2> DEFINE d == Delivered \o HandSeq
  <2>1. /\ d \in Seq(Tasks) /\ Len(d) = n + Held
        /\ \A i \in 1..(n + Held) : d[i] = accepted[i]
    <3>1. n + Held + Len(queue) = Len(accepted)
      BY <1>3 DEF Aligned
    <3>2. CASE hand = None
      <4>1. HandSeq = <<>> /\ Held = 0
        BY <3>2 DEF HandSeq, Held
      <4>2. d = Delivered
        BY <1>1, <4>1, ConcatEmptySeq
      <4> QED
        BY <1>1, <1>2, <4>1, <4>2
    <3>3. CASE hand # None
      <4>1. HandSeq = <<hand>> /\ Held = 1 /\ hand \in Tasks
        BY <3>3 DEF HandSeq, Held, TypeOK
      <4>2. d = Append(Delivered, hand)
        BY <1>1, <4>1, AppendIsConcat
      <4>3. /\ d \in Seq(Tasks) /\ Len(d) = n + 1
            /\ \A i \in 1..n : d[i] = Delivered[i]
            /\ d[n + 1] = hand
        BY <1>1, <4>1, <4>2, AppendProperties
      <4>4. Len(accepted) - Len(queue) = n + 1 /\ accepted[n + 1] = hand
        BY <1>2, <3>1, <3>3, <4>1 DEF Aligned
      <4> QED
        BY <1>1, <1>2, <4>1, <4>3, <4>4
    <3> QED
      BY <3>2, <3>3
  <2>2. /\ d \o queue \in Seq(Tasks)
        /\ Len(d \o queue) = Len(d) + Len(queue)
        /\ \A i \in 1..(Len(d) + Len(queue)) :
             (d \o queue)[i] = IF i <= Len(d) THEN d[i] ELSE queue[i - Len(d)]
    BY <2>1, ConcatProperties DEF TypeOK
  <2>3. Len(d) + Len(queue) = Len(accepted) /\ Len(d) = n + Held /\ Len(d) \in Nat
    BY <1>2, <1>3, <2>1 DEF Aligned
  <2> HIDE DEF d
  <2>4. ASSUME NEW i \in 1..Len(accepted) PROVE (d \o queue)[i] = accepted[i]
    <3>1. CASE i <= Len(d)
      BY <1>2, <2>1, <2>2, <2>3, <3>1
    <3>2. CASE i > Len(d)
      <4>1. /\ i - Len(d) \in 1..Len(queue)
            /\ Len(accepted) - Len(queue) + (i - Len(d)) = i
        BY <1>2, <2>3, <3>2
      <4>2. accepted[Len(accepted) - Len(queue) + (i - Len(d))] = queue[i - Len(d)]
        BY <4>1 DEF Aligned
      <4>3. i \in 1..(Len(d) + Len(queue)) /\ ~(i <= Len(d))
        BY <1>2, <2>3, <3>2
      <4>4. (d \o queue)[i] = queue[i - Len(d)]
        BY <2>2, <4>3
      <4> QED
        BY <4>1, <4>2, <4>4
    <3> QED
      BY <1>2, <2>3, <3>1, <3>2
  <2> QED
    BY <2>2, <2>3, <2>4, SeqEqual DEF TypeOK, d
<1>4. /\ Len(Delivered) + Held + Len(queue) <= Len(accepted)
      /\ Delivered = SubSeq(accepted, 1, Len(Delivered))
      /\ queue = SubSeq(accepted, Len(accepted) - Len(queue) + 1, Len(accepted))
  <2> DEFINE front == SubSeq(accepted, 1, n)
             m == Len(accepted) - Len(queue)
             back == SubSeq(accepted, m + 1, Len(accepted))
  <2>1. /\ front \in Seq(Tasks) /\ Len(front) = n
        /\ \A i \in 1..n : front[i] = accepted[i]
    BY <1>2, SubSeqProperties DEF TypeOK
  <2>2. Delivered = front
    BY <1>1, <1>2, <2>1, SeqEqual
  <2>3. /\ back \in Seq(Tasks) /\ Len(back) = Len(queue)
        /\ \A i \in 1..Len(queue) : back[i] = accepted[m + i]
    BY <1>2, SubSeqProperties DEF TypeOK
  <2>4. queue = back
    BY <1>2, <2>3, SeqEqual DEF Aligned, TypeOK
  <2> QED
    BY <1>1, <1>2, <2>2, <2>4
<1> QED
  BY <1>3, <1>4 DEF InOrder

THEOREM OrderKept == SafeSpec => []InOrder
  BY Invariance, AlignedInOrder, PTL DEF IInv, Typed

(* The drop counter counts exactly the refusals: the step that writes it   *)
(* adds one new task to the refused set and, by CountingLocked, one to the *)
(* value the counter still has.                                            *)
LEMMA CountingStep == IInv /\ Counted /\ [Next]_vars => Counted'
<1> SUFFICES ASSUME TypeOK, CountingLocked, Counted, [Next]_vars PROVE Counted'
  BY DEF IInv, Typed
<1>1. ASSUME NEW t \in Tasks, CountDrop(t) PROVE Counted'
  <2>1. Refused' = Refused \cup {t} /\ t \notin Refused
    BY <1>1 DEF CountDrop, Refused, TypeOK
  <2>2. dropped' = dropped + 1
    BY <1>1 DEF CountDrop, CountingLocked
  <2>3. IsFiniteSet(Refused') /\ Cardinality(Refused') = Cardinality(Refused) + 1
    BY <2>1, FS_AddElement DEF Counted
  <2> QED
    BY <2>2, <2>3 DEF Counted, DropCounterExact, Refused
<1>2. ASSUME NEW t \in Tasks, Put(t) \/ PutFull(t) \/ ReadDropped(t) PROVE Counted'
  <2>1. Refused' = Refused /\ dropped' = dropped
    BY <1>2 DEF Put, PutFull, ReadDropped, Refused, TypeOK
  <2> QED
    BY <2>1 DEF Counted, DropCounterExact, Refused
<1>3. CASE UNCHANGED <<producerVars, accepted>>
  BY <1>3 DEF producerVars, Counted, DropCounterExact, Refused
<1> QED
  BY <1>1, <1>2, <1>3, OthersLeaveProducers DEF Submit

THEOREM DropCounter == SafeSpec => []DropCounterExact
<1>1. Init => Counted
  <2> SUFFICES ASSUME Init PROVE Counted
    OBVIOUS
  <2>1. Refused = {} /\ dropped = 0
    BY DEF Init, Refused
  <2> QED
    BY <2>1, FS_EmptySet DEF Counted, DropCounterExact, Refused
<1> QED
  BY <1>1, CountingStep, Invariance, PTL DEF SafeSpec, Counted

(* The numbers in two overflow warnings differ: a refused task's snapshot  *)
(* never exceeds the counter, and a new one is one above it.               *)
THEOREM DropWarnings == SafeSpec => []DropWarningsDistinct
<1>1. Init => DropWarningsDistinct
  BY DEF Init, DropWarningsDistinct
<1>2. IInv /\ DropWarningsDistinct /\ [Next]_vars => DropWarningsDistinct'
  <2> SUFFICES ASSUME TypeOK, CountingLocked, DropWarningsDistinct, [Next]_vars
               PROVE  DropWarningsDistinct'
    BY DEF IInv, Typed
  <2>1. ASSUME NEW t \in Tasks, CountDrop(t) PROVE DropWarningsDistinct'
    <3>1. /\ dropped' = dropped + 1 /\ snap'[t] = dropped + 1
          /\ \A u \in Tasks \ {t} : snap'[u] = snap[u] /\ pc'[u] = pc[u]
      BY <2>1 DEF CountDrop, CountingLocked, TypeOK
    <3>2. dropped \in Nat
      BY DEF TypeOK
    <3>3. ASSUME NEW u \in Tasks \ {t}, pc'[u] = "refused"
          PROVE  snap'[u] \in 1..dropped
      BY <3>1, <3>3 DEF DropWarningsDistinct
    <3>4. ASSUME NEW u \in Tasks, NEW v \in Tasks, pc'[u] = "refused", pc'[v] = "refused"
          PROVE  snap'[u] \in 1..dropped' /\ (u # v => snap'[u] # snap'[v])
      <4>1. snap'[u] \in 1..(dropped + 1)
        BY <3>1, <3>2, <3>3, <3>4
      <4>2. CASE u = t /\ v # t
        BY <3>1, <3>2, <3>3, <3>4, <4>1, <4>2
      <4>3. CASE u # t /\ v = t
        BY <3>1, <3>2, <3>3, <3>4, <4>1, <4>3
      <4>4. CASE u # t /\ v # t
        BY <3>1, <3>4, <4>1, <4>4 DEF DropWarningsDistinct
      <4> QED
        BY <3>1, <4>1, <4>2, <4>3, <4>4
    <3> QED
      BY <3>4 DEF DropWarningsDistinct
  <2>2. ASSUME NEW t \in Tasks, Put(t) \/ PutFull(t) \/ ReadDropped(t)
        PROVE  DropWarningsDistinct'
    BY <2>2 DEF Put, PutFull, ReadDropped, DropWarningsDistinct, TypeOK
  <2>3. CASE UNCHANGED <<producerVars, accepted>>
    BY <2>3 DEF producerVars, DropWarningsDistinct
  <2> QED
    BY <2>1, <2>2, <2>3, OthersLeaveProducers DEF Submit
<1> QED
  BY <1>1, <1>2, Invariance, PTL DEF SafeSpec

(* Nothing runs once stop() has returned: the executor is shut by then, so *)
(* a consumer that outlived the join can no longer hand it work.           *)
THEOREM StopIsQuiet == SafeSpec => []QuietAfterStop
<1>1. Init => QuietAfterStop
  BY DEF Init, QuietAfterStop
<1>2. IInv /\ QuietAfterStop /\ [Next]_vars => QuietAfterStop'
  <2> SUFFICES ASSUME TypeOK, Stages, QuietAfterStop, [Next]_vars
               PROVE  QuietAfterStop'
    BY DEF IInv, Typed
  <2> USE DEF QuietAfterStop, PoolIdle, Stages,
          producerVars, consumerVars, poolVars, stopVars, drainVars, bufferVars
  <2>1. CASE ConsumerSubmit
    BY <2>1 DEF ConsumerSubmit
  <2>2. ASSUME NEW w \in Workers, BeginTask(w) PROVE QuietAfterStop'
    BY <2>2 DEF BeginTask
  <2>3. ASSUME NEW w \in Workers, EndTask(w) PROVE QuietAfterStop'
    BY <2>3 DEF EndTask
  <2>4. CASE Stopper \/ InterpreterExit
    BY <2>4 DEF Stopper, StopCall, StopJoinReturns, StopShutdown, StopReturns, InterpreterExit
  <2>5. CASE UNCHANGED <<spc, work, running>>
    BY <2>5
  <2> QED
    BY <2>1, <2>2, <2>3, <2>4, <2>5
       DEF Next, Submit, Put, PutFull, ReadDropped, CountDrop, Consumer, ConsumerCheckStop,
           ConsumerGet, ConsumerGetTimesOut, ConsumerOnEmpty, ConsumerRefused, ConsumerExit,
           Drainer, DrainCall, DrainTrue, DrainPending, DrainFalse, DrainSleep, vars
<1> QED
  BY <1>1, <1>2, Invariance, PTL DEF SafeSpec

(* Every accepted task is accounted for by the queue, whatever stops it.   *)
THEOREM TasksAreAccounted == SafeSpec => []TasksAccounted
  BY OrderKept, TaskDoneBalance, StopIsQuiet, PTL DEF TasksAccounted

(* Every overflow is accounted for, in the counter and in the log.         *)
THEOREM DropsAreAccounted == SafeSpec => []DropsAccounted
  BY DropCounter, DropWarnings, PTL DEF DropsAccounted

(* A True from drain() still holds however long after the call it is       *)
(* looked at: later submissions add to both sides.                         *)
THEOREM DrainTrueIsDequeued == SafeSpec => []DrainTrueMeansDequeued
<1>1. Init => DrainTrueMeansDequeued
  BY DEF Init, DrainTrueMeansDequeued
<1>2. IInv /\ DrainTrueMeansDequeued /\ [Next]_vars => DrainTrueMeansDequeued'
  <2> SUFFICES ASSUME TypeOK, Stages, DrainTrueMeansDequeued, [Next]_vars
               PROVE  DrainTrueMeansDequeued'
    BY DEF IInv, Typed
  <2> USE DEF DrainTrueMeansDequeued, Stages, TypeOK,
          producerVars, consumerVars, poolVars, stopVars, drainVars, bufferVars
  <2>1. ASSUME NEW t \in Tasks, Put(t) PROVE DrainTrueMeansDequeued'
    BY <2>1 DEF Put
  <2>2. CASE ConsumerGet
    BY <2>2 DEF ConsumerGet
  <2>3. CASE Drainer
    BY <2>3 DEF Drainer, DrainCall, DrainTrue, DrainPending, DrainFalse, DrainSleep
  <2>4. CASE UNCHANGED <<dpc, drainMark, queue, accepted>>
    BY <2>4
  <2> QED
    BY <2>1, <2>2, <2>3, <2>4
       DEF Next, Submit, PutFull, ReadDropped, CountDrop, Consumer, ConsumerCheckStop,
           ConsumerGetTimesOut, ConsumerOnEmpty, ConsumerSubmit, ConsumerRefused,
           ConsumerExit, BeginTask, EndTask, Stopper, StopCall, StopJoinReturns,
           StopShutdown, StopReturns, InterpreterExit, vars
<1> QED
  BY <1>1, <1>2, Invariance, PTL DEF SafeSpec

(* Every step is one that BestEffortDispatch allows or leaves its state    *)
(* alone: submit() decides a task once, a worker begins the next task of   *)
(* the acceptance order, stop() or the interpreter's exit closes.          *)
THEOREM Implements == SafeSpec => Promise!SafeSpec
<1> DEFINE R == {t \in Tasks : pc[t] \in {"full", "counting", "refused"}}
<1>1. Init => Promise!Init
  BY DEF Init, Promise!Init
<1>2. IInv /\ [Next]_vars => [Promise!Next]_(Promise!vars)
  <2> SUFFICES ASSUME TypeOK, Aligned, AcceptedTasks, [Next]_vars
               PROVE  Promise!Next \/ UNCHANGED <<accepted, R, started, stop \/ shutdown>>
    BY DEF IInv, Typed, Promise!vars
  <2> USE DEF producerVars, consumerVars, poolVars, stopVars, drainVars, bufferVars
  <2>1. ASSUME NEW t \in Tasks, Put(t) PROVE Promise!Accept(t)
    <3>1. ~Promise!Decided(t)
      BY <2>1 DEF Put, Promise!Decided, AcceptedTasks
    <3>2. R' = R
      BY <2>1 DEF Put, TypeOK
    <3> QED
      BY <2>1, <3>1, <3>2 DEF Put, Promise!Accept
  <2>2. ASSUME NEW t \in Tasks, PutFull(t) PROVE Promise!Refuse(t)
    <3>1. ~Promise!Decided(t)
      BY <2>2 DEF PutFull, Promise!Decided, AcceptedTasks
    <3>2. R' = R \cup {t}
      BY <2>2 DEF PutFull, TypeOK
    <3> QED
      BY <2>2, <3>1, <3>2 DEF PutFull, Promise!Refuse
  <2>3. ASSUME NEW t \in Tasks, ReadDropped(t) \/ CountDrop(t)
        PROVE  UNCHANGED <<accepted, R, started, stop \/ shutdown>>
    BY <2>3 DEF ReadDropped, CountDrop, TypeOK
  <2>4. ASSUME NEW w \in Workers, BeginTask(w) PROVE Promise!BeginNext
    <3>1. /\ Len(work) > 0 /\ Head(work) = work[1]
          /\ Len(work) \in Nat /\ Len(started) \in Nat /\ Len(queue) \in Nat
          /\ Len(accepted) \in Nat
      BY <2>4 DEF BeginTask, TypeOK
    <3>2. Len(started) < Len(accepted)
      BY <3>1 DEF Aligned, Held
    <3>3. Head(work) = accepted[Len(started) + 1]
      <4>1. 1 \in 1..Len(work)
        BY <3>1
      <4> QED
        BY <3>1, <4>1 DEF Aligned
    <3> QED
      BY <2>4, <3>2, <3>3 DEF BeginTask, Promise!BeginNext
  <2>5. CASE StopCall \/ StopShutdown \/ InterpreterExit
    <3>1. UNCHANGED <<accepted, R, started>> /\ (stop \/ shutdown)'
      BY <2>5 DEF StopCall, StopShutdown, InterpreterExit
    <3>2. CASE stop \/ shutdown
      BY <3>1, <3>2
    <3>3. CASE ~(stop \/ shutdown)
      BY <3>1, <3>3 DEF Promise!Close, Promise!Next
    <3> QED
      BY <3>2, <3>3
  <2>6. CASE UNCHANGED <<accepted, pc, started, stop, shutdown>>
    BY <2>6
  <2> QED
    BY <2>1, <2>2, <2>3, <2>4, <2>5, <2>6
       DEF Next, Submit, Consumer, ConsumerCheckStop, ConsumerGet, ConsumerGetTimesOut,
           ConsumerOnEmpty, ConsumerSubmit, ConsumerRefused, ConsumerExit, EndTask, Stopper,
           StopJoinReturns, StopReturns, Drainer, DrainCall, DrainTrue, DrainPending, DrainFalse, DrainSleep, vars,
           Promise!Next
<1> QED
  BY <1>1, <1>2, Invariance, PTL DEF SafeSpec, Promise!SafeSpec

=============================================================================
