--------------------------- MODULE ApiLogPipeline ---------------------------
(***************************************************************************)
(* The audit trail of apps/core/api_log: a request thread runs a view      *)
(* wrapped by @log_inbound, which may call a service method wrapped by     *)
(* @log_outbound; each wrapper is capture_and_dispatch around its callable *)
(* and hands one row to the api_log queue, whose executor persists it      *)
(* through the ORM backend.  The queue is BestEffortDispatch, the promise  *)
(* that FireAndForget is shown to keep, so that everything it may do is    *)
(* possible here: refuse, delay, and after teardown forget.                *)
(*                                                                         *)
(* A request thread serves one request after another; a request id lives   *)
(* in the thread's context variable for as long as the request does.       *)
(***************************************************************************)
EXTENDS Naturals, Sequences, SequencesExt

CONSTANTS
  Threads,   \* gunicorn's request threads
  Requests,  \* the requests, each one its own request id
  Callers,   \* the requests whose view calls a @log_outbound method
  None       \* no request, no outcome

ASSUME ApiLogPipelineAssumption == None \notin Requests /\ Callers \subseteq Requests

Inbound(r)  == <<r, "inbound">>
Outbound(r) == <<r, "outbound">>
Calls == (Requests \X {"inbound"}) \cup (Callers \X {"outbound"})

VARIABLES
  ctx,       \* ctx[th]: request_id_ctx in that thread's context
  stack,     \* stack[th]: the wrapped calls on that thread's stack, the innermost last
  stage,     \* stage[c]: where capture_and_dispatch stands for call c
  outcome,   \* outcome[c]: what the wrapped callable did
  answer,    \* answer[c]: what the wrapper did to its caller
  row,       \* row[c]: the row built for c; the submitted lambda holds it
  table,     \* the rows of api_logs, in the order of their commits
  ended,     \* the calls whose persist() returned
  losses,    \* the log records that say a row was lost
  order, refused, begun, closed   \* the queue (BestEffortDispatch)

Queue == INSTANCE BestEffortDispatch WITH Tasks <- Calls

queueVars  == <<order, refused, begun, closed>>
callVars   == <<ctx, stack, stage, outcome, answer, row>>
sinkVars   == <<table, ended>>
vars == <<callVars, sinkVars, losses, queueVars>>

Stages   == {"none", "fn", "build", "dispatch", "return", "done"}
Outcomes == {"returned", "raised"}
Rows     == [call : Calls, rid : Requests \cup {None}, outcome : Outcomes]
Losses   == [call : Calls, at : {"build", "dispatch", "overflow", "persist"},
             rid : Requests \cup {None}]

TypeOK ==
  /\ ctx \in [Threads -> Requests \cup {None}]
  /\ stack \in [Threads -> Seq(Calls)]
  /\ stage \in [Calls -> Stages]
  /\ outcome \in [Calls -> Outcomes \cup {None}]
  /\ answer \in [Calls -> Outcomes \cup {None}]
  /\ row \in [Calls -> Rows \cup {None}]
  /\ table \in Seq(Rows)
  /\ ended \subseteq Calls
  /\ losses \subseteq Losses
  /\ order \in Seq(Calls)
  /\ refused \subseteq Calls
  /\ begun \in Seq(Calls)
  /\ closed \in BOOLEAN

Init ==
  /\ ctx = [th \in Threads |-> None]
  /\ stack = [th \in Threads |-> <<>>]
  /\ stage = [c \in Calls |-> "none"]
  /\ outcome = [c \in Calls |-> None]
  /\ answer = [c \in Calls |-> None]
  /\ row = [c \in Calls |-> None]
  /\ table = <<>>
  /\ ended = {}
  /\ losses = {}
  /\ Queue!Init

At(th, c, s) == stack[th] # <<>> /\ Last(stack[th]) = c /\ stage[c] = s

(* A failure log: extra=_correlation_extra() and RequestContextFilter take *)
(* the request id from the context of the thread that logs.                *)
Lost(c, where, rid) == losses' = losses \cup {[call |-> c, at |-> where, rid |-> rid]}

-----------------------------------------------------------------------------
(* Middleware: RequestIdMiddleware has stamped the request, bind_to        *)
(* mirrors the id into request_id_ctx, the view's wrapper starts.          *)
Receive(th, r) ==
  /\ stack[th] = <<>>
  /\ stage[Inbound(r)] = "none"
  /\ ctx' = [ctx EXCEPT ![th] = r]
  /\ stack' = [stack EXCEPT ![th] = <<Inbound(r)>>]
  /\ stage' = [stage EXCEPT ![Inbound(r)] = "fn"]
  /\ UNCHANGED <<outcome, answer, row, sinkVars, losses, queueVars>>

(* The view calls a @log_outbound method. *)
CallOutbound(th, r) ==
  /\ At(th, Inbound(r), "fn")
  /\ stage[Outbound(r)] = "none"
  /\ stack' = [stack EXCEPT ![th] = Append(@, Outbound(r))]
  /\ stage' = [stage EXCEPT ![Outbound(r)] = "fn"]
  /\ UNCHANGED <<ctx, outcome, answer, row, sinkVars, losses, queueVars>>

(* result = fn(...), or except BaseException as exc. *)
FnEnds(th, c, o) ==
  /\ At(th, c, "fn")
  /\ outcome' = [outcome EXCEPT ![c] = o]
  /\ stage' = [stage EXCEPT ![c] = "build"]
  /\ UNCHANGED <<ctx, stack, answer, row, sinkVars, losses, queueVars>>

(* build_row of inbound.py and outbound.py; the id is read on this thread. *)
BuildRow(th, c) ==
  /\ At(th, c, "build")
  /\ row' = [row EXCEPT ![c] = [call |-> c, rid |-> ctx[th], outcome |-> outcome[c]]]
  /\ stage' = [stage EXCEPT ![c] = "dispatch"]
  /\ UNCHANGED <<ctx, stack, outcome, answer, sinkVars, losses, queueVars>>

MutantBuildFails(th, c) ==   \* pass instead of logger.exception
  /\ At(th, c, "build")
  /\ stage' = [stage EXCEPT ![c] = "return"]
  /\ UNCHANGED <<ctx, stack, outcome, answer, row, sinkVars, losses, queueVars>>

BuildFails(th, c) ==
  /\ At(th, c, "build")
  /\ Lost(c, "build", ctx[th])
  /\ stage' = [stage EXCEPT ![c] = "return"]
  /\ UNCHANGED <<ctx, stack, outcome, answer, row, sinkVars, queueVars>>

(* fire_and_forget(): the queue takes the row, ...                         *)
Dispatch(th, c) ==
  /\ At(th, c, "dispatch")
  /\ Queue!Accept(c)
  /\ stage' = [stage EXCEPT ![c] = "return"]
  /\ UNCHANGED <<ctx, stack, outcome, answer, row, sinkVars, losses>>

(* ... or is full: submit() warns and its False is ignored, ...            *)
DispatchRefused(th, c) ==
  /\ At(th, c, "dispatch")
  /\ Queue!Refuse(c)
  /\ Lost(c, "overflow", ctx[th])
  /\ stage' = [stage EXCEPT ![c] = "return"]
  /\ UNCHANGED <<ctx, stack, outcome, answer, row, sinkVars>>

(* ... or the factory raises and fire_and_forget() logs.                   *)
DispatchFails(th, c) ==
  /\ At(th, c, "dispatch")
  /\ Lost(c, "dispatch", ctx[th])
  /\ stage' = [stage EXCEPT ![c] = "return"]
  /\ UNCHANGED <<ctx, stack, outcome, answer, row, sinkVars, queueVars>>

Pop(th, c) ==
  /\ At(th, c, "return")
  /\ stack' = [stack EXCEPT ![th] = Front(@)]
  /\ stage' = [stage EXCEPT ![c] = "done"]

MutantReturn(th, c) ==   \* the error path ends in a return
  /\ Pop(th, c)
  /\ answer' = [answer EXCEPT ![c] = "returned"]
  /\ ctx' = IF Len(stack[th]) = 1 THEN [ctx EXCEPT ![th] = None] ELSE ctx
  /\ UNCHANGED <<outcome, row, sinkVars, losses, queueVars>>

(* return result, or raise; the outermost call leaves bind_to's block,     *)
(* which restores the context variable.                                    *)
Return(th, c) ==
  /\ Pop(th, c)
  /\ answer' = [answer EXCEPT ![c] = outcome[c]]
  /\ ctx' = IF Len(stack[th]) = 1 THEN [ctx EXCEPT ![th] = None] ELSE ctx
  /\ UNCHANGED <<outcome, row, sinkVars, losses, queueVars>>

CaptureAndDispatch(th, c) ==
  \/ \E o \in Outcomes : FnEnds(th, c, o)
  \/ BuildRow(th, c)
  \/ BuildFails(th, c)
  \/ Dispatch(th, c)
  \/ DispatchRefused(th, c)
  \/ DispatchFails(th, c)
  \/ Return(th, c)

-----------------------------------------------------------------------------
(* The executor: persist() inside best_effort_atomic, several at a time.   *)

Persisting(c) == Contains(begun, c) /\ c \notin ended

BeginPersist ==
  /\ Queue!BeginNext
  /\ UNCHANGED <<callVars, sinkVars, losses>>

MutantPersist(c) ==   \* the id is read by the worker, which has no request context
  /\ Persisting(c)
  /\ table' = Append(table, [row[c] EXCEPT !.rid = None])
  /\ ended' = ended \cup {c}
  /\ UNCHANGED <<callVars, losses, queueVars>>

Persist(c) ==
  /\ Persisting(c)
  /\ table' = Append(table, row[c])
  /\ ended' = ended \cup {c}
  /\ UNCHANGED <<callVars, losses, queueVars>>

(* Rolled back, and logged on a thread that has no request context. *)
PersistFails(c) ==
  /\ Persisting(c)
  /\ Lost(c, "persist", None)
  /\ ended' = ended \cup {c}
  /\ UNCHANGED <<callVars, table, queueVars>>

Teardown ==
  /\ Queue!Close
  /\ UNCHANGED <<callVars, sinkVars, losses>>

-----------------------------------------------------------------------------
Next ==
  \/ \E th \in Threads, r \in Requests : Receive(th, r)
  \/ \E th \in Threads, r \in Callers : CallOutbound(th, r)
  \/ \E th \in Threads, c \in Calls : CaptureAndDispatch(th, c)
  \/ BeginPersist
  \/ \E c \in Calls : Persist(c) \/ PersistFails(c)
  \/ Teardown

SafeSpec == Init /\ [][Next]_vars

(* Every callable ends, the threads run, and the queue keeps its promise.  *)
Fairness ==
  /\ \A th \in Threads, c \in Calls : WF_vars(CaptureAndDispatch(th, c))
  /\ WF_vars(~closed /\ BeginPersist)
  /\ \A c \in Calls : WF_vars(Persist(c) \/ PersistFails(c))

Spec == SafeSpec /\ Fairness

-----------------------------------------------------------------------------
(* Properties.                                                             *)

(* The wrapper is observability only: whatever happens to the row, the     *)
(* caller sees what the wrapped callable did, result or exception.         *)
ObservabilityOnly ==
  \A c \in Calls : stage[c] = "done" => answer[c] = outcome[c]

(* A row of api_logs tells the truth about one call: the id of the request *)
(* it belongs to, although another thread writes it and the request thread *)
(* may serve somebody else by then, and what the callable really did.  It  *)
(* is the call's only row, and no log line says that the row was lost.     *)
RowsTruthful ==
  \A i \in 1..Len(table) :
    LET r == table[i] IN
    /\ r.rid = r.call[1] /\ r.outcome = outcome[r.call]
    /\ \A j \in 1..Len(table) : r.call = table[j].call => i = j
    /\ \A l \in losses : l.call # r.call

(* The outbound calls of a request are settled before its own row is sent: *)
(* whoever finds the inbound row queued will find the others queued before *)
(* it, or their loss logged.                                               *)
OutboundSettledFirst ==
  \A i \in 1..Len(order) :
    LET r == order[i][1] IN
    order[i][2] = "inbound" /\ r \in Callers /\ stage[Outbound(r)] # "none" =>
      \/ \E j \in 1..(i - 1) : order[j] = Outbound(r)
      \/ \E l \in losses : l.call = Outbound(r)

(* Until teardown a row is either in the table, on its way, or its loss    *)
(* is in the log, under the request's id if it was lost on its thread; and *)
(* the rows of a request's outbound calls come first.                      *)
NoSilentLoss ==
  /\ OutboundSettledFirst
  /\ \A c \in Calls :
       stage[c] = "done" =>
         \/ \E i \in 1..Len(table) : table[i].call = c
         \/ Contains(order, c) /\ c \notin ended
         \/ \E l \in losses : l.call = c /\ (l.at = "persist" \/ l.rid = c[1])

(* Every wrapped call ends up in the table or in the log, unless the       *)
(* process is torn down first.                                             *)
Settled(c) == (\E i \in 1..Len(table) : table[i].call = c) \/ \E l \in losses : l.call = c

EventuallySettled ==
  \A c \in Calls : (stage[c] # "none") ~> (Settled(c) \/ closed)
=============================================================================
