---------------------------- MODULE ApiLogProofs ----------------------------
(***************************************************************************)
(* Proofs about ApiLogPipeline, for any request threads and any requests:  *)
(* what the audit trail says is true, whatever fails or is refused on the  *)
(* way and however late the executor writes.                               *)
(***************************************************************************)
EXTENDS ApiLogPipeline, AuditText, FiniteSetTheorems, WellFoundedInduction, TLAPS

Running == {"fn", "build", "dispatch", "return"}
Past    == {"return", "done"}

InOrder(c) == \E i \in 1..Len(order) : order[i] = c

(* A thread serves the request whose id its context holds: its wrapped     *)
(* view, and inside of it at most one wrapped outbound call.  No two serve *)
(* the same request.                                                       *)
Serves(th, r) ==
  /\ r \in Requests
  /\ \/ /\ stack[th] = <<Inbound(r)>>
        /\ stage[Inbound(r)] \in Running
        /\ r \in Callers => stage[Outbound(r)] \in {"none", "done"}
     \/ /\ r \in Callers /\ stack[th] = <<Inbound(r), Outbound(r)>>
        /\ stage[Inbound(r)] = "fn" /\ stage[Outbound(r)] \in Running

StackInv ==
  /\ \A th \in Threads : stack[th] # <<>> => Serves(th, ctx[th])
  /\ \A th, tk \in Threads :
       stack[th] # <<>> /\ stack[tk] # <<>> /\ ctx[th] = ctx[tk] => th = tk
  /\ \A r \in Callers : stage[Inbound(r)] = "none" => stage[Outbound(r)] = "none"

(* A row that was built says what it should, and stays as it is.           *)
Truth(c) == [call |-> c, rid |-> c[1], outcome |-> outcome[c]]

RowInv ==
  /\ \A c \in Calls : stage[c] \notin {"none", "fn"} => outcome[c] \in Outcomes
  /\ \A c \in Calls : stage[c] = "dispatch" \/ InOrder(c) => row[c] = Truth(c)

(* A call is handed to the queue once, and executed in that order.         *)
QueueInv ==
  /\ \A c \in Calls : Queue!Decided(c) => stage[c] \in Past
  /\ \A i, j \in 1..Len(order) : order[i] = order[j] => i = j
  /\ Len(begun) <= Len(order)
  /\ \A i \in 1..Len(begun) : begun[i] = order[i]

(* What persist() has ended with: a row, or the log of its failure.        *)
SinkInv ==
  /\ ended \subseteq {begun[i] : i \in 1..Len(begun)}
  /\ \A i \in 1..Len(table) : table[i].call \in ended /\ table[i] = Truth(table[i].call)
  /\ \A i, j \in 1..Len(table) : table[i].call = table[j].call => i = j
  /\ \A l \in losses :
       IF l.at = "persist"
       THEN l.call \in ended /\ \A i \in 1..Len(table) : table[i].call # l.call
       ELSE stage[l.call] \in Past /\ ~InOrder(l.call) /\ l.rid = l.call[1]
  /\ \A c \in ended :
       \/ \E i \in 1..Len(table) : table[i].call = c
       \/ \E l \in losses : l.call = c /\ l.at = "persist"

(* A call past its dispatch is queued, or its loss is logged under its id. *)
SettledInv ==
  \A c \in Calls : stage[c] \in Past =>
    InOrder(c) \/ \E l \in losses : l.call = c /\ l.at # "persist"

TrailInv ==
  /\ TypeOK
  /\ StackInv /\ RowInv /\ QueueInv /\ SinkInv /\ SettledInv
  /\ OutboundSettledFirst /\ ObservabilityOnly

-----------------------------------------------------------------------------
(* Calls and where they stand.                                             *)

LEMMA CallShape ==
  /\ \A r \in Requests : Inbound(r) \in Calls
  /\ \A r \in Callers : Outbound(r) \in Calls /\ r \in Requests
  /\ \A c \in Calls : (c[1] \in Requests /\ c = Inbound(c[1])) \/ (c[1] \in Callers /\ c = Outbound(c[1]))
  /\ \A r, q : Inbound(r) # Outbound(q) /\ (r # q => Inbound(r) # Inbound(q) /\ Outbound(r) # Outbound(q))
  /\ \A r : Inbound(r)[1] = r /\ Outbound(r)[1] = r
  BY ApiLogPipelineAssumption DEF Calls, Inbound, Outbound

LEMMA AppendToOne ==
  ASSUME NEW S, NEW x \in S, NEW y \in S
  PROVE  Append(<<x>>, y) = <<x, y>>
<1> DEFINE a == Append(<<x>>, y)
           b == <<x, y>>
<1>1. a \in Seq(S) /\ Len(a) = 2 /\ a[1] = x /\ a[2] = y
  OBVIOUS
<1>2. b \in Seq(S) /\ Len(b) = 2 /\ b[1] = x /\ b[2] = y
  OBVIOUS
<1> HIDE DEF a, b
<1>3. a \in [1..2 -> S] /\ b \in [1..2 -> S] /\ \A i \in 1..2 : a[i] = b[i]
  BY <1>1, <1>2
<1>4. a = b
  BY <1>3
<1> QED
  BY <1>4 DEF a, b

LEMMA AtShape ==
  ASSUME StackInv, NEW th \in Threads, NEW c \in Calls, NEW s, At(th, c, s)
  PROVE  /\ Serves(th, ctx[th]) /\ s \in Running /\ c[1] = ctx[th] /\ stage[c] = s /\ stack[th] # <<>>
         /\ \/ c = Inbound(ctx[th]) /\ stack[th] = <<Inbound(ctx[th])>>
            \/ c = Outbound(ctx[th]) /\ stack[th] = <<Inbound(ctx[th]), Outbound(ctx[th])>>
               /\ stage[Inbound(ctx[th])] = "fn"
<1>1. stack[th] # <<>> /\ stack[th][Len(stack[th])] = c /\ stage[c] = s
  BY DEF At, Last
<1>2. Serves(th, ctx[th])
  BY <1>1 DEF StackInv
<1>3. CASE stack[th] = <<Inbound(ctx[th])>> /\ stage[Inbound(ctx[th])] \in Running
  <2>1. c = Inbound(ctx[th])
    BY <1>1, <1>3
  <2> QED
    BY <1>1, <1>2, <1>3, <2>1, CallShape
<1>4. CASE stack[th] = <<Inbound(ctx[th]), Outbound(ctx[th])>>
           /\ stage[Inbound(ctx[th])] = "fn" /\ stage[Outbound(ctx[th])] \in Running
  <2>1. c = Outbound(ctx[th])
    BY <1>1, <1>4
  <2> QED
    BY <1>1, <1>2, <1>4, <2>1, CallShape
<1> QED
  BY <1>2, <1>3, <1>4 DEF Serves

(* The innermost call of a thread goes on.                                 *)
LEMMA StageMove ==
  ASSUME TypeOK, StackInv, NEW th \in Threads, NEW c \in Calls, NEW s, NEW l \in Running,
         At(th, c, s), stage' = [stage EXCEPT ![c] = l], UNCHANGED <<ctx, stack>>
  PROVE  StackInv'
<1> DEFINE r == ctx[th]
<1>1. /\ stage'[c] = l /\ \A d \in Calls \ {c} : stage'[d] = stage[d]
  BY DEF TypeOK
<1>2. /\ Serves(th, r) /\ s \in Running /\ c[1] = r /\ stage[c] = s /\ stack[th] # <<>>
      /\ \/ c = Inbound(r) /\ stack[th] = <<Inbound(r)>>
         \/ c = Outbound(r) /\ stack[th] = <<Inbound(r), Outbound(r)>> /\ stage[Inbound(r)] = "fn"
  BY AtShape
<1>3. r \in Requests /\ Inbound(r) \in Calls /\ (r \in Callers => Outbound(r) \in Calls)
  BY <1>2, CallShape DEF Serves
<1>4. Serves(th, r)'
  <2>1. CASE c = Inbound(r) /\ stack[th] = <<Inbound(r)>>
    <3>1. r \in Callers => stage[Outbound(r)] \in {"none", "done"} /\ Outbound(r) # c
      BY <1>2, <2>1, CallShape DEF Serves
    <3> QED
      BY <1>1, <1>3, <2>1, <3>1 DEF Serves
  <2>2. CASE c = Outbound(r) /\ stack[th] = <<Inbound(r), Outbound(r)>> /\ stage[Inbound(r)] = "fn"
    <3>1. r \in Callers
      BY <1>2, <2>2 DEF Serves
    <3> QED
      BY <1>1, <1>3, <2>2, <3>1, CallShape DEF Serves
  <2> QED
    BY <1>2, <2>1, <2>2
<1>5. ASSUME NEW tk \in Threads, tk # th, stack[tk] # <<>> PROVE Serves(tk, ctx[tk])'
  <2>1. ctx[tk] # r /\ Serves(tk, ctx[tk])
    BY <1>2, <1>5 DEF StackInv
  <2>2. /\ Inbound(ctx[tk]) \in Calls \ {c}
        /\ ctx[tk] \in Callers => Outbound(ctx[tk]) \in Calls \ {c}
    BY <1>2, <2>1, CallShape DEF Serves
  <2> QED
    BY <1>1, <2>1, <2>2 DEF Serves
<1>6. ASSUME NEW q \in Callers, stage'[Inbound(q)] = "none" PROVE stage'[Outbound(q)] = "none"
  <2>1. Inbound(q) \in Calls /\ Outbound(q) \in Calls
    BY CallShape
  <2>2. Inbound(q) # c /\ stage[Inbound(q)] = "none"
    BY <1>1, <1>6, <2>1 DEF Running
  <2>3. Outbound(q) # c
    BY <1>2, <2>2, CallShape
  <2> QED
    BY <1>1, <2>1, <2>2, <2>3 DEF StackInv
<1> QED
  BY <1>4, <1>5, <1>6 DEF StackInv

LEMMA TrailInit == Init => TrailInv
<1> SUFFICES ASSUME Init PROVE TrailInv
  OBVIOUS
<1> USE DEF Init, Queue!Init
<1>1. TypeOK
  <2>1. /\ ctx \in [Threads -> Requests \cup {None}] /\ stack \in [Threads -> Seq(Calls)]
        /\ stage \in [Calls -> Stages]
    BY DEF Stages
  <2>2. /\ outcome \in [Calls -> Outcomes \cup {None}] /\ answer \in [Calls -> Outcomes \cup {None}]
        /\ row \in [Calls -> Rows \cup {None}]
    OBVIOUS
  <2>3. table \in Seq(Rows) /\ order \in Seq(Calls) /\ begun \in Seq(Calls)
    OBVIOUS
  <2>4. ended \subseteq Calls /\ losses \subseteq Losses /\ refused \subseteq Calls /\ closed \in BOOLEAN
    OBVIOUS
  <2> QED
    BY <2>1, <2>2, <2>3, <2>4 DEF TypeOK
<1>2. StackInv
  <2>1. \A c \in Calls : stage[c] = "none"
    OBVIOUS
  <2> QED
    BY <2>1, CallShape DEF StackInv
<1>3. RowInv /\ SettledInv
  BY DEF RowInv, SettledInv, InOrder, Past
<1>4. QueueInv /\ SinkInv
  BY DEF QueueInv, SinkInv, Queue!Decided
<1>5. OutboundSettledFirst /\ ObservabilityOnly
  BY DEF OutboundSettledFirst, ObservabilityOnly
<1> QED
  BY <1>1, <1>2, <1>3, <1>4, <1>5 DEF TrailInv

(* What is queued has its call past the dispatch, and so is what is begun, *)
(* ended or in the table.                                                  *)
LEMMA QueuedPast ==
  ASSUME TypeOK, QueueInv, SinkInv
  PROVE  /\ \A c : InOrder(c) => c \in Calls /\ stage[c] \in Past
         /\ \A c \in ended : InOrder(c)
         /\ \A i \in 1..Len(table) : InOrder(table[i].call)
<1>1. \A c : InOrder(c) => c \in Calls /\ stage[c] \in Past
  BY DEF TypeOK, QueueInv, InOrder, Queue!Decided
<1>2. ASSUME NEW c \in ended PROVE InOrder(c)
  <2>1. PICK i \in 1..Len(begun) : begun[i] = c
    BY DEF SinkInv
  <2>2. i \in 1..Len(order) /\ order[i] = c
    BY <2>1 DEF QueueInv, TypeOK
  <2> QED
    BY <2>2 DEF InOrder
<1> QED
  BY <1>1, <1>2 DEF SinkInv

(* A step of a request thread that neither dispatches nor loses a row.     *)
LEMMA ThreadStep ==
  ASSUME TrailInv, UNCHANGED <<sinkVars, losses, queueVars>>,
         \A c \in Calls : stage[c] \in Past <=> stage'[c] \in Past,
         \A c \in Calls : stage[c] \in Past => outcome'[c] = outcome[c]
  PROVE  QueueInv' /\ SinkInv' /\ SettledInv' /\ \A c : InOrder(c)' <=> InOrder(c)
<1> USE DEF TrailInv, sinkVars, queueVars
<1>1. \A c : InOrder(c)' <=> InOrder(c)
  BY DEF InOrder
<1>2. QueueInv'
  BY DEF QueueInv, Queue!Decided
<1>3. SettledInv'
  BY <1>1 DEF SettledInv
<1>4. \A i \in 1..Len(table) : Truth(table[i].call)' = Truth(table[i].call)
  BY QueuedPast DEF Truth
<1>5. SinkInv'
  <2>1. \A l \in losses : l.call \in Calls
    BY DEF TypeOK, Losses
  <2> QED
    BY <1>1, <1>4, <2>1 DEF SinkInv
<1> QED
  BY <1>1, <1>2, <1>3, <1>5

LEMMA ReceiveInv ==
  ASSUME TrailInv, NEW th \in Threads, NEW r \in Requests, Receive(th, r)
  PROVE  TrailInv'
<1> USE DEF TrailInv
<1> DEFINE c == Inbound(r)
<1>0. c \in Calls /\ c[1] = r
  BY CallShape
<1>1. /\ stack[th] = <<>> /\ stage[c] = "none"
      /\ ctx' = [ctx EXCEPT ![th] = r] /\ stack' = [stack EXCEPT ![th] = <<c>>]
      /\ stage' = [stage EXCEPT ![c] = "fn"]
      /\ UNCHANGED <<outcome, answer, row, sinkVars, losses, queueVars>>
  BY DEF Receive
<1> HIDE DEF c
<1>2. TypeOK'
  BY <1>0, <1>1 DEF TypeOK, Stages, sinkVars, queueVars
<1>3. /\ stage'[c] = "fn" /\ \A d \in Calls \ {c} : stage'[d] = stage[d]
      /\ ctx'[th] = r /\ stack'[th] = <<c>>
      /\ \A tk \in Threads \ {th} : ctx'[tk] = ctx[tk] /\ stack'[tk] = stack[tk]
  BY <1>0, <1>1 DEF TypeOK
<1>4. QueueInv' /\ SinkInv' /\ SettledInv' /\ \A d : InOrder(d)' <=> InOrder(d)
  <2>1. \A d \in Calls : stage[d] \in Past <=> stage'[d] \in Past
    BY <1>1, <1>3 DEF Past
  <2> QED
    BY <1>1, <2>1, ThreadStep
<1>5. RowInv'
  BY <1>1, <1>3, <1>4 DEF RowInv, Truth
<1>6. StackInv'
  <2>1. ASSUME NEW tk \in Threads \ {th}, stack[tk] # <<>>
        PROVE  ctx[tk] # r /\ Serves(tk, ctx[tk])'
    <3>1. Serves(tk, ctx[tk])
      BY <2>1 DEF StackInv
    <3>2. ctx[tk] # r
      BY <1>1, <3>1 DEF Serves, Running, c
    <3>3. /\ Inbound(ctx[tk]) \in Calls \ {c}
          /\ ctx[tk] \in Callers => Outbound(ctx[tk]) \in Calls \ {c}
      BY <3>1, <3>2, CallShape DEF Serves, c
    <3> QED
      BY <1>3, <3>1, <3>2, <3>3 DEF Serves
  <2>2. Serves(th, r)'
    <3>1. r \in Callers => stage[Outbound(r)] = "none" /\ Outbound(r) \in Calls \ {c}
      BY <1>1, CallShape DEF StackInv, c
    <3> QED
      BY <1>3, <3>1 DEF Serves, Running, c
  <2>3. ASSUME NEW q \in Callers, stage'[Inbound(q)] = "none" PROVE stage'[Outbound(q)] = "none"
    <3>1. Inbound(q) \in Calls \ {c} /\ Outbound(q) \in Calls \ {c}
      BY <1>3, <2>3, CallShape DEF c
    <3> QED
      BY <1>3, <2>3, <3>1 DEF StackInv
  <2> QED
    BY <1>3, <2>1, <2>2, <2>3 DEF StackInv
<1>7. OutboundSettledFirst'
  <2>1. \A q \in Callers : stage'[Outbound(q)] # "none" => stage[Outbound(q)] # "none"
    BY <1>3, CallShape DEF c
  <2> QED
    BY <1>1, <2>1 DEF OutboundSettledFirst, queueVars
<1>8. ObservabilityOnly'
  BY <1>1, <1>3 DEF ObservabilityOnly
<1> QED
  BY <1>2, <1>4, <1>5, <1>6, <1>7, <1>8

LEMMA CallOutboundInv ==
  ASSUME TrailInv, NEW th \in Threads, NEW r \in Callers, CallOutbound(th, r)
  PROVE  TrailInv'
<1> USE DEF TrailInv
<1> DEFINE c == Outbound(r)
<1>0. c \in Calls /\ c[1] = r /\ Inbound(r) \in Calls /\ Inbound(r) # c /\ r \in Requests
  BY CallShape
<1>1. /\ At(th, Inbound(r), "fn") /\ stage[c] = "none"
      /\ stack' = [stack EXCEPT ![th] = Append(@, c)]
      /\ stage' = [stage EXCEPT ![c] = "fn"]
      /\ UNCHANGED <<ctx, outcome, answer, row, sinkVars, losses, queueVars>>
  BY DEF CallOutbound
<1>9. /\ ctx[th] = r /\ stack[th] = <<Inbound(r)>> /\ stage[Inbound(r)] = "fn"
  BY <1>0, <1>1, AtShape, CallShape
<1>10. Append(stack[th], c) = <<Inbound(r), c>>
  BY <1>0, <1>9, AppendToOne
<1> HIDE DEF c
<1>2. TypeOK'
  <2>1. <<Inbound(r), c>> \in Seq(Calls)
    BY <1>0
  <2>2. stack' \in [Threads -> Seq(Calls)]
    BY <1>1, <1>10, <2>1 DEF TypeOK
  <2> QED
    BY <1>0, <1>1, <2>2 DEF TypeOK, Stages, sinkVars, queueVars
<1>3. /\ stage'[c] = "fn" /\ \A d \in Calls \ {c} : stage'[d] = stage[d]
      /\ stack'[th] = <<Inbound(r), c>>
      /\ \A tk \in Threads \ {th} : stack'[tk] = stack[tk]
  BY <1>0, <1>1, <1>10 DEF TypeOK
<1>4. QueueInv' /\ SinkInv' /\ SettledInv' /\ \A d : InOrder(d)' <=> InOrder(d)
  <2>1. \A d \in Calls : stage[d] \in Past <=> stage'[d] \in Past
    BY <1>1, <1>3 DEF Past
  <2> QED
    BY <1>1, <2>1, ThreadStep
<1>5. RowInv'
  BY <1>1, <1>3, <1>4 DEF RowInv, Truth
<1>6. StackInv'
  <2>1. ASSUME NEW tk \in Threads \ {th}, stack[tk] # <<>> PROVE Serves(tk, ctx[tk])'
    <3>1. Serves(tk, ctx[tk]) /\ ctx[tk] # r
      BY <1>9, <2>1 DEF StackInv
    <3>2. /\ Inbound(ctx[tk]) \in Calls \ {c}
          /\ ctx[tk] \in Callers => Outbound(ctx[tk]) \in Calls \ {c}
      BY <3>1, CallShape DEF Serves, c
    <3> QED
      BY <1>1, <1>3, <3>1, <3>2 DEF Serves
  <2>2. Serves(th, r)'
    BY <1>0, <1>3, <1>9 DEF Serves, Running, c
  <2>3. ASSUME NEW q \in Callers, stage'[Inbound(q)] = "none" PROVE stage'[Outbound(q)] = "none"
    <3>1. Inbound(q) \in Calls \ {c} /\ Outbound(q) \in Calls
      BY CallShape DEF c
    <3>2. stage[Inbound(q)] = "none" /\ q # r
      BY <1>3, <1>9, <2>3, <3>1
    <3>3. Outbound(q) # c
      BY <3>2, CallShape DEF c
    <3> QED
      BY <1>3, <3>1, <3>2, <3>3 DEF StackInv
  <2>4. \A tk, tl \in Threads :
          stack'[tk] # <<>> /\ stack'[tl] # <<>> /\ ctx'[tk] = ctx'[tl] => tk = tl
    BY <1>1, <1>3, <1>9 DEF StackInv
  <2> QED
    BY <1>1, <1>3, <1>9, <2>1, <2>2, <2>3, <2>4 DEF StackInv
<1>7. OutboundSettledFirst'
  <2>1. ~InOrder(Inbound(r))
    BY <1>0, <1>9, QueuedPast DEF Past
  <2>2. ASSUME NEW i \in 1..Len(order), order[i][2] = "inbound", order[i][1] \in Callers,
               stage'[Outbound(order[i][1])] # "none"
        PROVE  stage[Outbound(order[i][1])] # "none"
    <3>1. order[i] \in Calls /\ order[i] = Inbound(order[i][1])
      BY <2>2, CallShape DEF TypeOK, Outbound
    <3>2. order[i][1] # r
      BY <2>1, <3>1 DEF InOrder
    <3>3. Outbound(order[i][1]) \in Calls \ {c}
      BY <2>2, <3>2, CallShape DEF c
    <3> QED
      BY <1>3, <2>2, <3>3
  <2>3. order' = order /\ losses' = losses
    BY <1>1 DEF queueVars
  <2> QED
    BY <2>2, <2>3 DEF OutboundSettledFirst
<1>8. ObservabilityOnly'
  BY <1>1, <1>3 DEF ObservabilityOnly
<1> QED
  BY <1>2, <1>4, <1>5, <1>6, <1>7, <1>8

(* A step that changes neither which calls have begun nor what is queued   *)
(* or lost leaves the order of a request's rows alone.                     *)
LEMMA SettledFirstStays ==
  ASSUME OutboundSettledFirst, order' = order, losses \subseteq losses',
         \A r \in Callers : stage'[Outbound(r)] # "none" => stage[Outbound(r)] # "none"
  PROVE  OutboundSettledFirst'
  BY DEF OutboundSettledFirst

LEMMA FnEndsInv ==
  ASSUME TrailInv, NEW th \in Threads, NEW c \in Calls, NEW o \in Outcomes, FnEnds(th, c, o)
  PROVE  TrailInv'
<1> USE DEF TrailInv
<1>1. /\ At(th, c, "fn") /\ outcome' = [outcome EXCEPT ![c] = o]
      /\ stage' = [stage EXCEPT ![c] = "build"]
      /\ UNCHANGED <<ctx, stack, answer, row, sinkVars, losses, queueVars>>
  BY DEF FnEnds
<1>2. stage[c] = "fn"
  BY <1>1 DEF At
<1>3. /\ stage'[c] = "build" /\ outcome'[c] = o
      /\ \A d \in Calls \ {c} : stage'[d] = stage[d] /\ outcome'[d] = outcome[d]
  BY <1>1 DEF TypeOK
<1>4. TypeOK'
  BY <1>1 DEF TypeOK, Stages, sinkVars, queueVars
<1>5. StackInv'
  BY <1>1, StageMove DEF Running
<1>6. QueueInv' /\ SinkInv' /\ SettledInv' /\ \A d : InOrder(d)' <=> InOrder(d)
  <2>1. \A d \in Calls : /\ stage[d] \in Past <=> stage'[d] \in Past
                         /\ stage[d] \in Past => outcome'[d] = outcome[d]
    BY <1>2, <1>3 DEF Past
  <2> QED
    BY <1>1, <2>1, ThreadStep
<1>7. RowInv'
  <2>1. ~InOrder(c)
    BY <1>2, QueuedPast DEF Past
  <2> QED
    BY <1>1, <1>3, <1>6, <2>1 DEF RowInv, Truth
<1>8. OutboundSettledFirst'
  <2>1. order' = order /\ losses \subseteq losses'
    BY <1>1 DEF queueVars
  <2>2. \A r \in Callers : stage'[Outbound(r)] # "none" => stage[Outbound(r)] # "none"
    BY <1>2, <1>3, CallShape
  <2> QED
    BY <2>1, <2>2, SettledFirstStays
<1>9. ObservabilityOnly'
  BY <1>1, <1>3 DEF ObservabilityOnly
<1> QED
  BY <1>4, <1>5, <1>6, <1>7, <1>8, <1>9

LEMMA BuildRowInv ==
  ASSUME TrailInv, NEW th \in Threads, NEW c \in Calls, BuildRow(th, c)
  PROVE  TrailInv'
<1> USE DEF TrailInv
<1>1. /\ At(th, c, "build")
      /\ row' = [row EXCEPT ![c] = [call |-> c, rid |-> ctx[th], outcome |-> outcome[c]]]
      /\ stage' = [stage EXCEPT ![c] = "dispatch"]
      /\ UNCHANGED <<ctx, stack, outcome, answer, sinkVars, losses, queueVars>>
  BY DEF BuildRow
<1>2. stage[c] = "build" /\ c[1] = ctx[th] /\ c[1] \in Requests
  BY <1>1, AtShape, CallShape
<1>3. row' = [row EXCEPT ![c] = Truth(c)] /\ Truth(c) \in Rows
  <2>1. outcome[c] \in Outcomes
    BY <1>2 DEF RowInv
  <2> QED
    BY <1>1, <1>2, <2>1 DEF Truth, Rows
<1>4. /\ stage'[c] = "dispatch" /\ row'[c] = Truth(c)
      /\ \A d \in Calls \ {c} : stage'[d] = stage[d] /\ row'[d] = row[d]
  BY <1>1, <1>3 DEF TypeOK
<1>5. TypeOK'
  <2>1. row' \in [Calls -> Rows \cup {None}]
    BY <1>3 DEF TypeOK
  <2> QED
    BY <1>1, <2>1 DEF TypeOK, Stages, sinkVars, queueVars
<1>6. StackInv'
  BY <1>1, StageMove DEF Running
<1>7. QueueInv' /\ SinkInv' /\ SettledInv' /\ \A d : InOrder(d)' <=> InOrder(d)
  <2>1. \A d \in Calls : stage[d] \in Past <=> stage'[d] \in Past
    BY <1>2, <1>4 DEF Past
  <2> QED
    BY <1>1, <2>1, ThreadStep
<1>8. RowInv'
  <2>1. ~InOrder(c)
    BY <1>2, QueuedPast DEF Past
  <2>2. \A d : Truth(d)' = Truth(d)
    BY <1>1 DEF Truth
  <2> QED
    BY <1>1, <1>2, <1>4, <1>7, <2>1, <2>2 DEF RowInv
<1>9. OutboundSettledFirst'
  <2>1. order' = order /\ losses \subseteq losses'
    BY <1>1 DEF queueVars
  <2>2. \A r \in Callers : stage'[Outbound(r)] # "none" => stage[Outbound(r)] # "none"
    BY <1>2, <1>4, CallShape
  <2> QED
    BY <2>1, <2>2, SettledFirstStays
<1>10. ObservabilityOnly'
  BY <1>1, <1>4 DEF ObservabilityOnly
<1> QED
  BY <1>5, <1>6, <1>7, <1>8, <1>9, <1>10

(* A row is lost on the request's own thread, and the log says so.         *)
LEMMA LossStep ==
  ASSUME TrailInv, NEW th \in Threads, NEW c \in Calls, NEW s \in {"build", "dispatch"},
         NEW where \in {"build", "dispatch", "overflow"},
         At(th, c, s), Lost(c, where, ctx[th]), stage' = [stage EXCEPT ![c] = "return"],
         refused' \in {refused, refused \cup {c}},
         UNCHANGED <<ctx, stack, outcome, answer, row, sinkVars, order, begun, closed>>
  PROVE  TrailInv'
<1> USE DEF TrailInv
<1> DEFINE new == [call |-> c, at |-> where, rid |-> ctx[th]]
<1>1. losses' = losses \cup {new} /\ new.call = c /\ new.at = where /\ new.rid = ctx[th]
  BY DEF Lost
<1>2. stage[c] = s /\ c[1] = ctx[th] /\ c[1] \in Requests
  BY AtShape, CallShape
<1>3. /\ stage'[c] = "return"
      /\ \A d \in Calls \ {c} : stage'[d] = stage[d]
  BY DEF TypeOK
<1>4. TypeOK'
  <2>1. new \in Losses
    BY <1>2 DEF Losses
  <2> QED
    BY <1>1, <2>1 DEF TypeOK, Stages, sinkVars
<1> HIDE DEF new
<1>5. StackInv'
  BY StageMove DEF Running
<1>6. /\ \A d : InOrder(d)' <=> InOrder(d)
      /\ ~InOrder(c)
  BY <1>2, QueuedPast DEF InOrder, Past
<1>7. QueueInv'
  BY <1>3 DEF QueueInv, Queue!Decided, Past
<1>8. SettledInv'
  <2>1. ASSUME NEW d \in Calls, stage'[d] \in Past
        PROVE  InOrder(d)' \/ \E l \in losses' : l.call = d /\ l.at # "persist"
    <3>1. CASE d = c
      BY <1>1, <3>1
    <3>2. CASE d # c
      BY <1>1, <1>3, <1>6, <2>1, <3>2 DEF SettledInv
    <3> QED
      BY <3>1, <3>2
  <2> QED
    BY <2>1 DEF SettledInv
<1>9. SinkInv'
  <2>1. table' = table /\ ended' = ended /\ begun' = begun
    BY DEF sinkVars
  <2>2. \A i \in 1..Len(table) : Truth(table[i].call)' = Truth(table[i].call)
    BY <2>1 DEF Truth
  <2>3. ASSUME NEW l \in losses'
        PROVE  IF l.at = "persist"
               THEN l.call \in ended' /\ \A i \in 1..Len(table') : table'[i].call # l.call
               ELSE stage'[l.call] \in Past /\ ~InOrder(l.call)' /\ l.rid = l.call[1]
    <3>1. CASE l = new
      BY <1>1, <1>2, <1>3, <1>6, <3>1 DEF Past
    <3>2. CASE l \in losses
      <4>1. l.call \in Calls
        BY <3>2 DEF TypeOK, Losses
      <4>2. stage[l.call] \in Past => stage'[l.call] \in Past
        BY <1>3, <4>1 DEF Past
      <4> QED
        BY <1>6, <2>1, <3>2, <4>2 DEF SinkInv
    <3> QED
      BY <1>1, <3>1, <3>2
  <2>4. \A d \in ended' : \/ \E i \in 1..Len(table') : table'[i].call = d
                          \/ \E l \in losses' : l.call = d /\ l.at = "persist"
    BY <1>1, <2>1 DEF SinkInv
  <2> QED
    BY <2>1, <2>2, <2>3, <2>4 DEF SinkInv
<1>10. RowInv'
  <2>1. \A d : Truth(d)' = Truth(d)
    BY DEF Truth
  <2> QED
    BY <1>2, <1>3, <1>6, <2>1 DEF RowInv
<1>11. OutboundSettledFirst'
  <2>1. \A r \in Callers : stage'[Outbound(r)] # "none" => stage[Outbound(r)] # "none"
    BY <1>2, <1>3, CallShape
  <2> QED
    BY <1>1, <2>1, SettledFirstStays
<1>12. ObservabilityOnly'
  BY <1>3 DEF ObservabilityOnly
<1> QED
  BY <1>4, <1>5, <1>7, <1>8, <1>9, <1>10, <1>11, <1>12

(* Appending to a sequence: the old positions stay, one is new.            *)
LEMMA AppendPositions ==
  ASSUME NEW S, NEW q \in Seq(S), NEW e \in S
  PROVE  /\ Append(q, e) \in Seq(S) /\ Len(Append(q, e)) = Len(q) + 1
         /\ Append(q, e)[Len(q) + 1] = e
         /\ \A i \in 1..Len(q) : Append(q, e)[i] = q[i] /\ i \in 1..Len(Append(q, e))
         /\ \A i \in 1..Len(Append(q, e)) : i \in 1..Len(q) \/ i = Len(q) + 1
         /\ Len(q) \in Nat
  OBVIOUS

LEMMA DispatchInv ==
  ASSUME TrailInv, NEW th \in Threads, NEW c \in Calls, Dispatch(th, c)
  PROVE  TrailInv'
<1> USE DEF TrailInv
<1>1. /\ At(th, c, "dispatch") /\ ~Queue!Decided(c) /\ order' = Append(order, c)
      /\ stage' = [stage EXCEPT ![c] = "return"]
      /\ UNCHANGED <<ctx, stack, outcome, answer, row, sinkVars, losses, refused, begun, closed>>
  BY DEF Dispatch, Queue!Accept
<1>2. stage[c] = "dispatch" /\ c[1] = ctx[th] /\ c[1] \in Requests
  BY <1>1, AtShape, CallShape
<1>3. /\ stage'[c] = "return"
      /\ \A d \in Calls \ {c} : stage'[d] = stage[d]
  BY <1>1 DEF TypeOK
<1>4. /\ order \in Seq(Calls) /\ order' \in Seq(Calls) /\ Len(order) \in Nat
      /\ Len(order') = Len(order) + 1 /\ order'[Len(order) + 1] = c
      /\ \A i \in 1..Len(order) : order'[i] = order[i] /\ i \in 1..Len(order')
      /\ \A i \in 1..Len(order') : i \in 1..Len(order) \/ i = Len(order) + 1
  BY <1>1, AppendPositions DEF TypeOK
<1>5. TypeOK'
  BY <1>1, <1>4 DEF TypeOK, Stages, sinkVars
<1>6. StackInv'
  BY <1>1, StageMove DEF Running
<1>7. /\ \A d : InOrder(d)' <=> InOrder(d) \/ d = c
      /\ ~InOrder(c)
  <2>1. ~InOrder(c)
    BY <1>1 DEF InOrder, Queue!Decided
  <2>2. \A d : InOrder(d)' <=> InOrder(d) \/ d = c
    BY <1>4 DEF InOrder
  <2> QED
    BY <2>1, <2>2
<1>8. QueueInv'
  <2>1. ASSUME NEW d \in Calls, Queue!Decided(d)' PROVE stage'[d] \in Past
    <3>1. Queue!Decided(d) \/ d = c
      BY <1>1, <1>4, <2>1 DEF Queue!Decided
    <3> QED
      BY <1>3, <3>1 DEF QueueInv, Past
  <2>2. ASSUME NEW i \in 1..Len(order'), NEW j \in 1..Len(order'), order'[i] = order'[j] PROVE i = j
    BY <1>4, <1>7, <2>2 DEF QueueInv, InOrder
  <2>3. Len(begun') <= Len(order') /\ \A i \in 1..Len(begun') : begun'[i] = order'[i]
    BY <1>1, <1>4 DEF QueueInv, TypeOK
  <2> QED
    BY <2>1, <2>2, <2>3 DEF QueueInv
<1>9. SettledInv'
  BY <1>1, <1>3, <1>7 DEF SettledInv
<1>10. SinkInv'
  <2>1. table' = table /\ ended' = ended /\ begun' = begun /\ losses' = losses
    BY <1>1 DEF sinkVars
  <2>2. \A i \in 1..Len(table) : Truth(table[i].call)' = Truth(table[i].call)
    BY <1>1, <2>1 DEF Truth
  <2>3. ASSUME NEW l \in losses, l.at # "persist"
        PROVE  stage'[l.call] \in Past /\ ~InOrder(l.call)' /\ l.rid = l.call[1]
    <3>1. l.call \in Calls
      BY DEF TypeOK, Losses
    <3>2. stage[l.call] \in Past /\ ~InOrder(l.call) /\ l.rid = l.call[1]
      BY <2>3 DEF SinkInv
    <3>3. l.call # c
      BY <1>2, <3>2 DEF Past
    <3> QED
      BY <1>3, <1>7, <3>1, <3>2, <3>3
  <2> QED
    BY <2>1, <2>2, <2>3 DEF SinkInv
<1>11. RowInv'
  <2>1. \A d : Truth(d)' = Truth(d)
    BY <1>1 DEF Truth
  <2> QED
    BY <1>1, <1>2, <1>3, <1>7, <2>1 DEF RowInv
<1>12. OutboundSettledFirst'
  <2>0. \A r \in Callers : stage'[Outbound(r)] # "none" => stage[Outbound(r)] # "none"
    BY <1>2, <1>3, CallShape
  <2> SUFFICES ASSUME NEW i \in 1..Len(order'), order'[i][2] = "inbound", order'[i][1] \in Callers,
                      stage'[Outbound(order'[i][1])] # "none"
               PROVE  \/ \E j \in 1..(i - 1) : order'[j] = Outbound(order'[i][1])
                      \/ \E l \in losses' : l.call = Outbound(order'[i][1])
    BY DEF OutboundSettledFirst
  <2> DEFINE r == order'[i][1]
  <2>1. CASE i \in 1..Len(order)
    <3>1. order'[i] = order[i] /\ \A j \in 1..(i - 1) : j \in 1..Len(order) /\ order'[j] = order[j]
      BY <1>4, <2>1
    <3>2. \/ \E j \in 1..(i - 1) : order[j] = Outbound(order[i][1])
          \/ \E l \in losses : l.call = Outbound(order[i][1])
      BY <2>0, <2>1, <3>1 DEF OutboundSettledFirst
    <3> QED
      BY <1>1, <3>1, <3>2
  <2>2. CASE i = Len(order) + 1
    <3>1. order'[i] = c /\ c = Inbound(r) /\ r = ctx[th]
      BY <1>2, <1>4, <2>2, CallShape DEF Outbound
    <3>2. stage[Outbound(r)] \in {"none", "done"} /\ Outbound(r) \in Calls
      BY <1>1, <1>2, <3>1, AtShape, CallShape DEF Serves
    <3>3. stage[Outbound(r)] = "done"
      BY <2>0, <3>2
    <3>4. InOrder(Outbound(r)) \/ \E l \in losses : l.call = Outbound(r)
      BY <3>2, <3>3 DEF SettledInv, Past
    <3>5. InOrder(Outbound(r)) => \E j \in 1..(i - 1) : order'[j] = Outbound(r)
      BY <1>4, <2>2 DEF InOrder
    <3> QED
      BY <1>1, <3>4, <3>5
  <2> QED
    BY <1>4, <2>1, <2>2
<1>13. ObservabilityOnly'
  BY <1>1, <1>3 DEF ObservabilityOnly
<1> QED
  BY <1>5, <1>6, <1>8, <1>9, <1>10, <1>11, <1>12, <1>13

LEMMA FrontOfStack ==
  ASSUME NEW S, NEW x \in S, NEW y \in S
  PROVE  /\ Front(<<x>>) = <<>> /\ Len(<<x>>) = 1
         /\ Front(<<x, y>>) = <<x>> /\ Len(<<x, y>>) = 2
<1>1. Len(<<x>>) = 1 /\ Len(<<x, y>>) = 2 /\ <<x>> \in Seq(S) /\ <<x, y>> \in Seq(S) /\ <<x, y>>[1] = x
  OBVIOUS
<1> DEFINE a == Front(<<x>>)
           b == Front(<<x, y>>)
<1>2. a \in Seq(S) /\ Len(a) = 0
  BY <1>1 DEF Front
<1>3. b \in Seq(S) /\ Len(b) = 1 /\ b[1] = x
  BY <1>1 DEF Front
<1> HIDE DEF a, b
<1>4. a = <<>>
  BY <1>2
<1>5. b \in [1..1 -> S] /\ <<x>> \in [1..1 -> S] /\ \A i \in 1..1 : b[i] = <<x>>[i]
  BY <1>3
<1>6. b = <<x>>
  BY <1>5
<1> QED
  BY <1>1, <1>4, <1>6 DEF a, b

LEMMA ReturnInv ==
  ASSUME TrailInv, NEW th \in Threads, NEW c \in Calls, Return(th, c)
  PROVE  TrailInv'
<1> USE DEF TrailInv
<1> DEFINE r == ctx[th]
<1>1. /\ At(th, c, "return") /\ stack' = [stack EXCEPT ![th] = Front(stack[th])]
      /\ stage' = [stage EXCEPT ![c] = "done"]
      /\ answer' = [answer EXCEPT ![c] = outcome[c]]
      /\ ctx' = IF Len(stack[th]) = 1 THEN [ctx EXCEPT ![th] = None] ELSE ctx
      /\ UNCHANGED <<outcome, row, sinkVars, losses, queueVars>>
  BY DEF Return, Pop
<1>2. /\ Serves(th, r) /\ c[1] = r /\ stage[c] = "return" /\ stack[th] # <<>>
      /\ \/ c = Inbound(r) /\ stack[th] = <<Inbound(r)>>
         \/ c = Outbound(r) /\ stack[th] = <<Inbound(r), Outbound(r)>> /\ stage[Inbound(r)] = "fn"
  BY <1>1, AtShape
<1>3. r \in Requests /\ Inbound(r) \in Calls /\ (r \in Callers => Outbound(r) \in Calls)
  BY <1>2, CallShape DEF Serves
<1> HIDE DEF r
<1>4. \/ /\ c = Inbound(r) /\ Front(stack[th]) = <<>> /\ ctx' = [ctx EXCEPT ![th] = None]
      \/ /\ c = Outbound(r) /\ Front(stack[th]) = <<Inbound(r)>> /\ ctx' = ctx
         /\ stage[Inbound(r)] = "fn" /\ r \in Callers
  <2>1. CASE c = Inbound(r) /\ stack[th] = <<Inbound(r)>>
    BY <1>1, <1>3, <2>1, FrontOfStack
  <2>2. CASE c = Outbound(r) /\ stack[th] = <<Inbound(r), Outbound(r)>> /\ stage[Inbound(r)] = "fn"
    <3>1. r \in Callers
      BY <1>2, <2>2, CallShape
    <3>2. Front(stack[th]) = <<Inbound(r)>> /\ Len(stack[th]) = 2
      BY <1>3, <2>2, <3>1, FrontOfStack
    <3> QED
      BY <1>1, <2>2, <3>1, <3>2
  <2> QED
    BY <1>2, <2>1, <2>2
<1>5. /\ stage'[c] = "done" /\ answer'[c] = outcome[c]
      /\ \A d \in Calls \ {c} : stage'[d] = stage[d] /\ answer'[d] = answer[d]
      /\ stack'[th] = Front(stack[th])
      /\ \A tk \in Threads \ {th} : stack'[tk] = stack[tk] /\ ctx'[tk] = ctx[tk]
  BY <1>1, <1>4 DEF TypeOK
<1>6. TypeOK'
  <2>1. Front(stack[th]) \in Seq(Calls)
    <3>1. <<>> \in Seq(Calls)
      OBVIOUS
    <3>2. ASSUME NEW d \in Calls PROVE <<d>> \in Seq(Calls)
      OBVIOUS
    <3>3. <<Inbound(r)>> \in Seq(Calls)
      BY <1>3, <3>2
    <3> QED
      BY <1>4, <3>1, <3>3
  <2>2. stack' \in [Threads -> Seq(Calls)] /\ ctx' \in [Threads -> Requests \cup {None}]
    BY <1>1, <1>4, <2>1 DEF TypeOK
  <2>3. answer' \in [Calls -> Outcomes \cup {None}] /\ stage' \in [Calls -> Stages]
    BY <1>1 DEF TypeOK, Stages
  <2> QED
    BY <1>1, <2>2, <2>3 DEF TypeOK, sinkVars, queueVars
<1>7. StackInv'
  <2>1. ASSUME NEW tk \in Threads \ {th}, stack[tk] # <<>> PROVE Serves(tk, ctx[tk])' /\ ctx[tk] # r
    <3>1. Serves(tk, ctx[tk]) /\ ctx[tk] # r
      BY <1>2, <2>1 DEF StackInv, r
    <3>2. /\ Inbound(ctx[tk]) \in Calls \ {c}
          /\ ctx[tk] \in Callers => Outbound(ctx[tk]) \in Calls \ {c}
      BY <1>2, <3>1, CallShape DEF Serves
    <3> QED
      BY <1>5, <3>1, <3>2 DEF Serves
  <2>2. stack'[th] # <<>> => Serves(th, ctx[th])' /\ ctx'[th] = r
    <3>1. CASE Front(stack[th]) = <<>>
      BY <1>5, <3>1
    <3>2. CASE c = Outbound(r) /\ Front(stack[th]) = <<Inbound(r)>> /\ ctx' = ctx
               /\ stage[Inbound(r)] = "fn" /\ r \in Callers
      <4>1. Inbound(r) \in Calls \ {c} /\ stage'[Inbound(r)] = "fn" /\ stage'[Outbound(r)] = "done"
        BY <1>3, <1>5, <3>2, CallShape
      <4> QED
        BY <1>3, <1>5, <3>2, <4>1 DEF Serves, Running, r
    <3> QED
      BY <1>4, <3>1, <3>2
  <2>3. ASSUME NEW q \in Callers, stage'[Inbound(q)] = "none" PROVE stage'[Outbound(q)] = "none"
    <3>1. Inbound(q) \in Calls /\ Outbound(q) \in Calls
      BY CallShape
    <3>2. Inbound(q) # c /\ stage[Inbound(q)] = "none"
      BY <1>5, <2>3, <3>1
    <3>3. Outbound(q) # c
      BY <1>2, <3>1, <3>2 DEF StackInv
    <3> QED
      BY <1>5, <3>1, <3>2, <3>3 DEF StackInv
  <2>4. \A tk, tl \in Threads :
          stack'[tk] # <<>> /\ stack'[tl] # <<>> /\ ctx'[tk] = ctx'[tl] => tk = tl
    BY <1>5, <2>1, <2>2 DEF StackInv
  <2> QED
    BY <1>5, <2>1, <2>2, <2>3, <2>4 DEF StackInv
<1>8. QueueInv' /\ SinkInv' /\ SettledInv' /\ \A d : InOrder(d)' <=> InOrder(d)
  <2>1. \A d \in Calls : stage[d] \in Past <=> stage'[d] \in Past
    BY <1>2, <1>5 DEF Past
  <2> QED
    BY <1>1, <2>1, ThreadStep
<1>9. RowInv'
  <2>1. \A d : Truth(d)' = Truth(d)
    BY <1>1 DEF Truth
  <2> QED
    BY <1>1, <1>2, <1>5, <1>8, <2>1 DEF RowInv
<1>10. OutboundSettledFirst'
  <2>1. order' = order /\ losses \subseteq losses'
    BY <1>1 DEF queueVars
  <2>2. \A q \in Callers : stage'[Outbound(q)] # "none" => stage[Outbound(q)] # "none"
    BY <1>2, <1>5, CallShape
  <2> QED
    BY <2>1, <2>2, SettledFirstStays
<1>11. ObservabilityOnly'
  BY <1>1, <1>5 DEF ObservabilityOnly
<1> QED
  BY <1>6, <1>7, <1>8, <1>9, <1>10, <1>11

-----------------------------------------------------------------------------
(* The executor.                                                           *)

(* What the executor does leaves the request threads alone.                *)
LEMMA ExecutorQuiet ==
  ASSUME TrailInv, UNCHANGED <<callVars, order, refused>>, losses \subseteq losses'
  PROVE  /\ StackInv' /\ RowInv' /\ SettledInv' /\ OutboundSettledFirst' /\ ObservabilityOnly'
         /\ \A c : (InOrder(c)' <=> InOrder(c)) /\ Truth(c)' = Truth(c)
<1> USE DEF TrailInv, callVars
<1>1. \A c : (InOrder(c)' <=> InOrder(c)) /\ Truth(c)' = Truth(c)
  BY DEF InOrder, Truth
<1>2. StackInv'
  BY DEF StackInv, Serves
<1>3. RowInv' /\ SettledInv'
  BY <1>1 DEF RowInv, SettledInv
<1>4. OutboundSettledFirst' /\ ObservabilityOnly'
  BY DEF OutboundSettledFirst, ObservabilityOnly
<1> QED
  BY <1>1, <1>2, <1>3, <1>4

LEMMA BeginPersistInv ==
  ASSUME TrailInv, BeginPersist
  PROVE  TrailInv'
<1> USE DEF TrailInv
<1>1. /\ Len(begun) < Len(order) /\ begun' = Append(begun, order[Len(begun) + 1])
      /\ UNCHANGED <<callVars, sinkVars, losses, order, refused, closed>>
  BY DEF BeginPersist, Queue!BeginNext
<1>2. /\ begun \in Seq(Calls) /\ Len(begun) \in Nat /\ Len(order) \in Nat
      /\ Len(begun) + 1 \in 1..Len(order) /\ order[Len(begun) + 1] \in Calls
  BY <1>1 DEF TypeOK
<1>3. /\ begun' \in Seq(Calls) /\ Len(begun') = Len(begun) + 1
      /\ begun'[Len(begun) + 1] = order[Len(begun) + 1]
      /\ \A i \in 1..Len(begun) : begun'[i] = begun[i] /\ i \in 1..Len(begun')
      /\ \A i \in 1..Len(begun') : i \in 1..Len(begun) \/ i = Len(begun) + 1
  BY <1>1, <1>2, AppendPositions
<1>4. TypeOK'
  BY <1>1, <1>3 DEF TypeOK, callVars, sinkVars
<1>5. QueueInv'
  <2>1. Len(begun') <= Len(order)
    BY <1>2, <1>3
  <2>2. \A i \in 1..Len(begun') : begun'[i] = order[i]
    BY <1>3 DEF QueueInv
  <2> QED
    BY <1>1, <2>1, <2>2 DEF QueueInv, Queue!Decided, callVars
<1>6. /\ StackInv' /\ RowInv' /\ SettledInv' /\ OutboundSettledFirst' /\ ObservabilityOnly'
      /\ \A c : (InOrder(c)' <=> InOrder(c)) /\ Truth(c)' = Truth(c)
  BY <1>1, ExecutorQuiet
<1>7. SinkInv'
  <2>1. table' = table /\ ended' = ended /\ losses' = losses /\ stage' = stage
    BY <1>1 DEF sinkVars, callVars
  <2>2. ended \subseteq {begun'[i] : i \in 1..Len(begun')}
    BY <1>3 DEF SinkInv
  <2> QED
    BY <1>6, <2>1, <2>2 DEF SinkInv
<1> QED
  BY <1>4, <1>5, <1>6, <1>7

LEMMA PersistInv ==
  ASSUME TrailInv, NEW c \in Calls, Persist(c)
  PROVE  TrailInv'
<1> USE DEF TrailInv
<1>1. /\ Persisting(c) /\ table' = Append(table, row[c]) /\ ended' = ended \cup {c}
      /\ UNCHANGED <<callVars, losses, order, refused, begun, closed>>
  BY DEF Persist, queueVars
<1>2. PICK k \in 1..Len(begun) : begun[k] = c
  BY <1>1 DEF Persisting, Contains
<1>3. InOrder(c) /\ c \notin ended
  BY <1>1, <1>2 DEF Persisting, QueueInv, InOrder, TypeOK
<1>4. row[c] = Truth(c) /\ Truth(c) \in Rows /\ Truth(c).call = c
  <2>1. stage[c] \in Past /\ outcome[c] \in Outcomes
    BY <1>3, QueuedPast DEF RowInv, Past
  <2>2. c[1] \in Requests
    BY CallShape
  <2> QED
    BY <1>3, <2>1, <2>2 DEF RowInv, Truth, Rows
<1>5. /\ table \in Seq(Rows) /\ Len(table) \in Nat
      /\ table' \in Seq(Rows) /\ Len(table') = Len(table) + 1 /\ table'[Len(table) + 1] = Truth(c)
      /\ \A i \in 1..Len(table) : table'[i] = table[i] /\ i \in 1..Len(table')
      /\ \A i \in 1..Len(table') : i \in 1..Len(table) \/ i = Len(table) + 1
  <2>1. table \in Seq(Rows)
    BY DEF TypeOK
  <2> QED
    BY <1>1, <1>4, <2>1, AppendPositions
<1>6. TypeOK'
  BY <1>1, <1>5 DEF TypeOK, callVars
<1>7. QueueInv'
  BY <1>1 DEF QueueInv, Queue!Decided, callVars
<1>8. /\ StackInv' /\ RowInv' /\ SettledInv' /\ OutboundSettledFirst' /\ ObservabilityOnly'
      /\ \A d : (InOrder(d)' <=> InOrder(d)) /\ Truth(d)' = Truth(d)
  BY <1>1, ExecutorQuiet
<1>9. SinkInv'
  <2>1. ended' \subseteq {begun'[i] : i \in 1..Len(begun')}
    BY <1>1, <1>2 DEF SinkInv
  <2>2. ASSUME NEW i \in 1..Len(table') PROVE table'[i].call \in ended' /\ table'[i] = Truth(table'[i].call)
    <3>1. CASE i = Len(table) + 1
      <4>1. table'[i] = Truth(c)
        BY <1>5, <3>1
      <4>2. table'[i].call = c
        BY <1>4, <4>1
      <4> QED
        BY <1>1, <4>1, <4>2
    <3>2. CASE i \in 1..Len(table)
      <4>1. table[i].call \in ended /\ table[i] = Truth(table[i].call) /\ table'[i] = table[i]
        BY <1>5, <3>2 DEF SinkInv
      <4> QED
        BY <1>1, <4>1
    <3> QED
      BY <1>5, <3>1, <3>2
  <2>3. \A i \in 1..Len(table) : table[i].call # c
    BY <1>3 DEF SinkInv
  <2>4. ASSUME NEW i \in 1..Len(table'), NEW j \in 1..Len(table'), table'[i].call = table'[j].call PROVE i = j
    BY <1>4, <1>5, <2>3, <2>4 DEF SinkInv
  <2>5. ASSUME NEW l \in losses'
        PROVE  IF l.at = "persist"
               THEN l.call \in ended' /\ \A i \in 1..Len(table') : table'[i].call # l.call
               ELSE stage'[l.call] \in Past /\ ~InOrder(l.call)' /\ l.rid = l.call[1]
    <3>1. l \in losses /\ stage' = stage
      BY <1>1 DEF callVars
    <3>2. l.at = "persist" => l.call \in ended /\ l.call # c /\ \A i \in 1..Len(table) : table[i].call # l.call
      BY <1>3, <3>1 DEF SinkInv
    <3>3. l.at # "persist" => stage'[l.call] \in Past /\ ~InOrder(l.call)' /\ l.rid = l.call[1]
      BY <1>8, <3>1 DEF SinkInv
    <3>4. l.at = "persist" => \A i \in 1..Len(table') : table'[i].call # l.call
      BY <1>4, <1>5, <3>2
    <3> QED
      BY <1>1, <3>2, <3>3, <3>4
  <2>6. ASSUME NEW d \in ended'
        PROVE  \/ \E i \in 1..Len(table') : table'[i].call = d
               \/ \E l \in losses' : l.call = d /\ l.at = "persist"
    <3>1. CASE d = c
      <4>1. Len(table) + 1 \in 1..Len(table') /\ table'[Len(table) + 1].call = c
        BY <1>4, <1>5
      <4> QED
        BY <3>1, <4>1
    <3>2. CASE d \in ended
      BY <1>1, <1>5, <3>2 DEF SinkInv
    <3> QED
      BY <1>1, <3>1, <3>2
  <2>7. outcome' = outcome
    BY <1>1 DEF callVars
  <2> QED
    BY <2>1, <2>2, <2>4, <2>5, <2>6, <2>7 DEF SinkInv, Truth
<1> QED
  BY <1>6, <1>7, <1>8, <1>9

LEMMA PersistFailsInv ==
  ASSUME TrailInv, NEW c \in Calls, PersistFails(c)
  PROVE  TrailInv'
<1> USE DEF TrailInv
<1> DEFINE new == [call |-> c, at |-> "persist", rid |-> None]
<1>1. /\ Persisting(c) /\ losses' = losses \cup {new} /\ ended' = ended \cup {c}
      /\ new.call = c /\ new.at = "persist"
      /\ UNCHANGED <<callVars, table, order, refused, begun, closed>>
  BY DEF PersistFails, queueVars, Lost
<1>2. PICK k \in 1..Len(begun) : begun[k] = c
  BY <1>1 DEF Persisting, Contains
<1>3. c \notin ended
  BY <1>1 DEF Persisting
<1>4. TypeOK'
  <2>1. new \in Losses
    BY DEF Losses
  <2> QED
    BY <1>1, <2>1 DEF TypeOK, callVars
<1> HIDE DEF new
<1>5. QueueInv'
  BY <1>1 DEF QueueInv, Queue!Decided, callVars
<1>6. /\ StackInv' /\ RowInv' /\ SettledInv' /\ OutboundSettledFirst' /\ ObservabilityOnly'
      /\ \A d : (InOrder(d)' <=> InOrder(d)) /\ Truth(d)' = Truth(d)
  BY <1>1, ExecutorQuiet
<1>7. SinkInv'
  <2>1. ended' \subseteq {begun'[i] : i \in 1..Len(begun')}
    BY <1>1, <1>2 DEF SinkInv
  <2>2. \A i \in 1..Len(table) : table[i].call \in ended' /\ table[i] = Truth(table[i].call)
    BY <1>1 DEF SinkInv
  <2>3. \A i \in 1..Len(table) : table[i].call # c
    BY <1>3 DEF SinkInv
  <2>4. ASSUME NEW l \in losses'
        PROVE  IF l.at = "persist"
               THEN l.call \in ended' /\ \A i \in 1..Len(table') : table'[i].call # l.call
               ELSE stage'[l.call] \in Past /\ ~InOrder(l.call)' /\ l.rid = l.call[1]
    <3>1. CASE l = new
      BY <1>1, <2>3, <3>1
    <3>2. CASE l \in losses
      <4>1. stage' = stage /\ table' = table
        BY <1>1 DEF callVars
      <4> QED
        BY <1>1, <1>6, <3>2, <4>1 DEF SinkInv
    <3> QED
      BY <1>1, <3>1, <3>2
  <2>5. \A d \in ended' : \/ \E i \in 1..Len(table') : table'[i].call = d
                          \/ \E l \in losses' : l.call = d /\ l.at = "persist"
    BY <1>1 DEF SinkInv
  <2>6. table' = table /\ outcome' = outcome
    BY <1>1 DEF callVars
  <2> QED
    BY <2>1, <2>2, <2>4, <2>5, <2>6 DEF SinkInv, Truth
<1> QED
  BY <1>4, <1>5, <1>6, <1>7

LEMMA TeardownInv ==
  ASSUME TrailInv, Teardown
  PROVE  TrailInv'
<1> USE DEF TrailInv
<1>1. closed' = TRUE /\ UNCHANGED <<callVars, sinkVars, losses, order, refused, begun>>
  BY DEF Teardown, Queue!Close
<1>2. /\ StackInv' /\ RowInv' /\ SettledInv' /\ OutboundSettledFirst' /\ ObservabilityOnly'
      /\ \A d : (InOrder(d)' <=> InOrder(d)) /\ Truth(d)' = Truth(d)
  BY <1>1, ExecutorQuiet
<1>3. QueueInv'
  BY <1>1 DEF QueueInv, Queue!Decided, callVars
<1>4. SinkInv'
  <2>1. UNCHANGED <<table, ended, losses, stage, outcome, begun>>
    BY <1>1 DEF callVars, sinkVars
  <2> QED
    BY <1>2, <2>1 DEF SinkInv, Truth
<1>5. TypeOK'
  BY <1>1 DEF TypeOK, callVars, sinkVars
<1> QED
  BY <1>2, <1>3, <1>4, <1>5

-----------------------------------------------------------------------------
(* Every step.                                                             *)

LEMMA CaptureInv ==
  ASSUME TrailInv, NEW th \in Threads, NEW c \in Calls, CaptureAndDispatch(th, c)
  PROVE  TrailInv'
<1>1. CASE \E o \in Outcomes : FnEnds(th, c, o)
  BY <1>1, FnEndsInv
<1>2. CASE BuildRow(th, c)
  BY <1>2, BuildRowInv
<1>3. CASE BuildFails(th, c)
  BY <1>3, LossStep DEF BuildFails, queueVars
<1>4. CASE Dispatch(th, c)
  BY <1>4, DispatchInv
<1>5. CASE DispatchRefused(th, c)
  BY <1>5, LossStep DEF DispatchRefused, Queue!Refuse
<1>6. CASE DispatchFails(th, c)
  BY <1>6, LossStep DEF DispatchFails, queueVars
<1>7. CASE Return(th, c)
  BY <1>7, ReturnInv
<1> QED
  BY <1>1, <1>2, <1>3, <1>4, <1>5, <1>6, <1>7 DEF CaptureAndDispatch

LEMMA TrailNext ==
  ASSUME TrailInv, [Next]_vars
  PROVE  TrailInv'
<1>1. CASE \E th \in Threads, r \in Requests : Receive(th, r)
  BY <1>1, ReceiveInv
<1>2. CASE \E th \in Threads, r \in Callers : CallOutbound(th, r)
  BY <1>2, CallOutboundInv
<1>3. CASE \E th \in Threads, c \in Calls : CaptureAndDispatch(th, c)
  BY <1>3, CaptureInv
<1>4. CASE BeginPersist
  BY <1>4, BeginPersistInv
<1>5. CASE \E c \in Calls : Persist(c) \/ PersistFails(c)
  BY <1>5, PersistInv, PersistFailsInv
<1>6. CASE Teardown
  BY <1>6, TeardownInv
<1>7. CASE UNCHANGED vars
  <2> USE DEF TrailInv
  <2>1. UNCHANGED <<callVars, sinkVars, losses, order, refused, begun, closed>>
    BY <1>7 DEF vars, queueVars
  <2>2. /\ StackInv' /\ RowInv' /\ SettledInv' /\ OutboundSettledFirst' /\ ObservabilityOnly'
        /\ \A d : (InOrder(d)' <=> InOrder(d)) /\ Truth(d)' = Truth(d)
    BY <2>1, ExecutorQuiet
  <2>3. QueueInv'
    BY <2>1 DEF QueueInv, Queue!Decided, callVars
  <2>4. SinkInv'
    <3>1. UNCHANGED <<table, ended, losses, stage, outcome, begun>>
      BY <2>1 DEF callVars, sinkVars
    <3> QED
      BY <2>2, <3>1 DEF SinkInv, Truth
  <2>5. TypeOK'
    BY <2>1 DEF TypeOK, callVars, sinkVars
  <2> QED
    BY <2>2, <2>3, <2>4, <2>5
<1> QED
  BY <1>1, <1>2, <1>3, <1>4, <1>5, <1>6, <1>7 DEF Next

-----------------------------------------------------------------------------
(* The audit trail, for any threads and any requests.                      *)

(* Every reachable state satisfies the inductive invariant: each thread's  *)
(* stack of wrapped calls fits the request id its context holds, a row in  *)
(* the queue is the truth about its call, each call is handed over once    *)
(* and written in that order, and a call past its dispatch is queued or    *)
(* its loss is logged.                                                     *)
THEOREM TrailInvariant == Spec => []TrailInv
<1>1. Init => TrailInv
  BY TrailInit
<1>2. TrailInv /\ [Next]_vars => TrailInv'
  BY TrailNext
<1> QED
  BY <1>1, <1>2, PTL DEF Spec, SafeSpec

(* The audit pipeline's state always has its types.                        *)
THEOREM TrailTypes == Spec => []TypeOK
<1>1. TrailInv => TypeOK
  BY DEF TrailInv
<1> QED
  BY <1>1, TrailInvariant, PTL

(* capture_and_dispatch never changes what the wrapped callable's caller   *)
(* sees, whether the row is built, refused, lost or written.               *)
THEOREM WrapperIsTransparent == Spec => []ObservabilityOnly
<1>1. TrailInv => ObservabilityOnly
  BY DEF TrailInv
<1> QED
  BY <1>1, TrailInvariant, PTL

(* A row of api_logs carries its own request's id and what its callable    *)
(* did, is the only one of its call, and is never also logged as lost.     *)
THEOREM AuditRowsTruthful == Spec => []RowsTruthful
<1>1. TrailInv => RowsTruthful
  <2> USE DEF TrailInv
  <2> SUFFICES ASSUME TrailInv, NEW i \in 1..Len(table)
               PROVE  /\ table[i].rid = table[i].call[1] /\ table[i].outcome = outcome[table[i].call]
                      /\ \A j \in 1..Len(table) : table[i].call = table[j].call => i = j
                      /\ \A l \in losses : l.call # table[i].call
    BY DEF RowsTruthful
  <2> DEFINE c == table[i].call
  <2>1. c \in ended /\ table[i] = Truth(c)
    BY DEF SinkInv
  <2>2. table[i].rid = c[1] /\ table[i].outcome = outcome[c]
    BY <2>1 DEF Truth
  <2>3. \A j \in 1..Len(table) : c = table[j].call => i = j
    BY DEF SinkInv
  <2>4. InOrder(c)
    <3>1. PICK k \in 1..Len(begun) : begun[k] = c
      BY <2>1 DEF SinkInv
    <3>2. k \in 1..Len(order) /\ order[k] = c
      BY <3>1 DEF QueueInv, TypeOK
    <3> QED
      BY <3>2 DEF InOrder
  <2>5. \A l \in losses : l.call # c
    BY <2>4 DEF SinkInv
  <2> QED
    BY <2>2, <2>3, <2>5
<1> QED
  BY <1>1, TrailInvariant, PTL

(* A wrapped call that has returned is in the table, in the queue and not  *)
(* yet written, or logged as lost, on its thread under its own id; and the *)
(* outbound calls of a request are settled before its inbound row.         *)
THEOREM NoCallLostSilently == Spec => []NoSilentLoss
<1>1. TrailInv => NoSilentLoss
  <2> USE DEF TrailInv
  <2> SUFFICES ASSUME TrailInv, NEW c \in Calls, stage[c] = "done"
               PROVE  \/ \E i \in 1..Len(table) : table[i].call = c
                      \/ Contains(order, c) /\ c \notin ended
                      \/ \E l \in losses : l.call = c /\ (l.at = "persist" \/ l.rid = c[1])
    BY DEF NoSilentLoss
  <2>1. InOrder(c) \/ \E l \in losses : l.call = c /\ l.at # "persist"
    BY DEF SettledInv, Past
  <2>2. InOrder(c) => Contains(order, c)
    BY DEF InOrder, Contains
  <2>3. c \in ended => \/ \E i \in 1..Len(table) : table[i].call = c
                       \/ \E l \in losses : l.call = c /\ l.at = "persist"
    BY DEF SinkInv
  <2>4. \A l \in losses : l.at # "persist" => l.rid = l.call[1]
    BY DEF SinkInv
  <2> QED
    BY <2>1, <2>2, <2>3, <2>4
<1> QED
  BY <1>1, TrailInvariant, PTL

-----------------------------------------------------------------------------
(* What a row shows of a body.                                             *)

(* Induction over the naturals, for a set of them.                         *)
LEMMA CountingUp ==
  ASSUME NEW S, 0 \in S, \A n \in Nat : n \in S => n + 1 \in S
  PROVE  \A n \in Nat : n \in S
<1> DEFINE R == OpToRel(<, Nat)
           T == Nat \ S
<1>1. ASSUME T # {} PROVE FALSE
  <2>1. IsWellFoundedOn(R, Nat)
    BY NatLessThanWellFounded, Zenon
  <2> HIDE DEF R
  <2>2. \E x \in T : \A y \in T : ~ (<<y, x>> \in R)
    BY <1>1, <2>1, WFMin
  <2>3. PICK x \in T : \A y \in T : ~ (<<y, x>> \in R)
    BY <2>2
  <2>4. x \in Nat /\ x # 0 /\ x - 1 \in Nat /\ x = (x - 1) + 1
    BY <2>3
  <2>5. x - 1 \in T
    BY <2>4, <2>3
  <2>6. <<x - 1, x>> \in R
    BY <2>4 DEF R, OpToRel
  <2> QED
    BY <2>3, <2>5, <2>6
<1> QED
  BY <1>1

(* The last of some positions.                                             *)
LEMMA LastPosition ==
  ASSUME NEW n \in Nat, NEW S \in SUBSET (1..n), S # {}
  PROVE  \E m \in S : \A j \in S : j <= m
<1> DEFINE Good == {k \in Nat : \A P \in SUBSET (1..k) : P # {} => \E m \in P : \A j \in P : j <= m}
<1>1. 0 \in Good
  <2>1. \A P \in SUBSET (1..0) : P = {}
    OBVIOUS
  <2> QED
    BY <2>1
<1>2. ASSUME NEW k \in Nat, k \in Good PROVE k + 1 \in Good
  <2>1. ASSUME NEW P \in SUBSET (1..(k + 1)), P # {} PROVE \E m \in P : \A j \in P : j <= m
    <3>1. CASE k + 1 \in P
      BY <3>1
    <3>2. CASE k + 1 \notin P
      <4>1. P \in SUBSET (1..k)
        BY <3>2
      <4> QED
        BY <1>2, <2>1, <4>1
    <3> QED
      BY <3>1, <3>2
  <2> QED
    BY <2>1
<1> HIDE DEF Good
<1>3. n \in Good
  BY <1>1, <1>2, CountingUp
<1> QED
  BY <1>3 DEF Good

(* The recursion of _sanitize_value is well defined.                       *)
IsLeft(f, values, n) ==
  f = [k \in 0..n |-> IF k = 0 THEN [w \in values |-> {"<max depth exceeded>"}]
                      ELSE SanitizeValue(values, f[k - 1])]

LEMMA LeftExists ==
  ASSUME NEW values
  PROVE  \A n \in Nat : \E f : IsLeft(f, values, n)
<1> DEFINE D == [w \in values |-> {"<max depth exceeded>"}]
           S == {n \in Nat : \E f : IsLeft(f, values, n)}
<1>1. 0 \in S
  <2> DEFINE f == [k \in 0..0 |-> D]
  <2>1. f = [k \in 0..0 |-> IF k = 0 THEN D ELSE SanitizeValue(values, f[k - 1])]
    OBVIOUS
  <2>2. IsLeft(f, values, 0)
    BY <2>1 DEF IsLeft
  <2> QED
    BY <2>2
<1>2. ASSUME NEW n \in Nat, n \in S PROVE n + 1 \in S
  <2>1. PICK f : IsLeft(f, values, n)
    BY <1>2
  <2> HIDE DEF D
  <2> DEFINE g == [k \in 0..(n + 1) |-> IF k <= n THEN f[k] ELSE SanitizeValue(values, f[n])]
  <2>2. \A k \in 0..(n + 1) : g[k] = IF k = 0 THEN D ELSE SanitizeValue(values, g[k - 1])
    <3>1. \A k \in 0..n : f[k] = IF k = 0 THEN D ELSE SanitizeValue(values, f[k - 1])
      BY <2>1 DEF IsLeft, D
    <3>2. /\ \A k \in 0..n : g[k] = f[k]
          /\ g[n + 1] = SanitizeValue(values, f[n]) /\ n \in 0..n
      OBVIOUS
    <3> HIDE DEF g
    <3>3. ASSUME NEW k \in 0..n PROVE g[k] = IF k = 0 THEN D ELSE SanitizeValue(values, g[k - 1])
      BY <3>1, <3>2
    <3>4. g[n + 1] = SanitizeValue(values, g[n]) /\ (n + 1) - 1 = n /\ n + 1 # 0
      BY <3>2
    <3> QED
      BY <3>3, <3>4
  <2>3. IsLeft(g, values, n + 1)
    <3>1. g = [k \in 0..(n + 1) |-> g[k]]
      OBVIOUS
    <3> HIDE DEF g
    <3> QED
      BY <2>2, <3>1 DEF IsLeft, D
  <2> QED
    BY <2>3
<1> HIDE DEF S
<1>3. \A n \in Nat : n \in S
  BY <1>1, <1>2, CountingUp
<1> QED
  BY <1>3 DEF S

(* Values that hold a secret under hidden names only.                      *)
Clean(clean) ==
  \A v \in clean :
    /\ v.kind \in {"text", "bytes", "dict", "list"}
    /\ v.kind = "text" => v.text # "secret"
    /\ v.kind = "dict" => \A i \in DOMAIN v.items : v.items[i][1] \in Hidden \/ v.items[i][2] \in clean
    /\ v.kind = "list" => \A i \in DOMAIN v.items : v.items[i] \in clean

(* One level of the sanitizer hands up no secret if it gets none.          *)
LEMMA LevelIsMasked ==
  ASSUME NEW values, NEW clean \in SUBSET values, Clean(clean), NEW inner,
         \A w \in clean : "secret" \notin inner[w]
  PROVE  \A v \in clean : "secret" \notin SanitizeValue(values, inner)[v]
<1> SUFFICES ASSUME NEW v \in clean PROVE "secret" \notin SanitizeValue(values, inner)[v]
  OBVIOUS
<1>1. CASE v.kind = "dict"
  <2>1. SanitizeValue(values, inner)[v] = SanitizeDict(v.items, inner)
    BY <1>1 DEF SanitizeValue
  <2>2. ASSUME NEW i \in KeptKeys(v.items) PROVE "secret" \notin SanitizeEntry(v.items[i], inner)
    <3>1. i \in DOMAIN v.items /\ v.items[i][1] \notin EXCLUDED_FIELDS
      BY DEF KeptKeys, Within
    <3>2. CASE v.items[i][1] \in SENSITIVE
      BY <3>2 DEF SanitizeEntry
    <3>3. CASE v.items[i][1] \notin SENSITIVE
      <4>1. v.items[i][2] \in clean
        BY <1>1, <3>1, <3>3 DEF Clean, Hidden
      <4> QED
        BY <3>3, <4>1 DEF SanitizeEntry
    <3> QED
      BY <3>2, <3>3
  <2>3. "secret" \notin Truncated(v.items, MAX_DICT_KEYS, "more keys")
    BY DEF Truncated
  <2> QED
    BY <2>1, <2>2, <2>3 DEF SanitizeDict
<1>2. CASE v.kind = "list"
  <2>1. SanitizeValue(values, inner)[v] = SanitizeIterable(v.items, inner)
    BY <1>2 DEF SanitizeValue
  <2>2. ASSUME NEW i \in Within(v.items, MAX_LIST_ITEMS) PROVE "secret" \notin inner[v.items[i]]
    BY <1>2 DEF Within, Clean
  <2>3. "secret" \notin Truncated(v.items, MAX_LIST_ITEMS, "more items")
    BY DEF Truncated
  <2> QED
    BY <2>1, <2>2, <2>3 DEF SanitizeIterable
<1>3. CASE v.kind = "bytes"
  BY <1>3 DEF SanitizeValue
<1>4. CASE v.kind = "text"
  BY <1>4 DEF SanitizeValue, Clean
<1> QED
  BY <1>1, <1>2, <1>3, <1>4 DEF Clean

(* So no value of a clean set shows a secret, however deep it is nested.   *)
LEMMA NothingSecretShown ==
  ASSUME NEW values, NEW clean \in SUBSET values, Clean(clean), NEW v \in clean
  PROVE  "secret" \notin SanitizeForLog(values, v)
<1> DEFINE top == MAX_DEPTH + 1
           f == CHOOSE g : IsLeft(g, values, top)
<1>1. top \in Nat
  BY AuditTextAssumption
<1>2. IsLeft(f, values, top)
  BY <1>1, LeftExists
<1>3. SanitizeForLog(values, v) = f[top][v]
  BY DEF SanitizeForLog, IsLeft
<1> HIDE DEF f, top
<1>4. \A k \in 0..top : f[k] = IF k = 0 THEN [w \in values |-> {"<max depth exceeded>"}]
                              ELSE SanitizeValue(values, f[k - 1])
  BY <1>2 DEF IsLeft
<1> DEFINE S == {n \in Nat : n <= top => \A w \in clean : "secret" \notin f[n][w]}
<1>5. 0 \in S
  <2>1. 0 \in 0..top
    BY <1>1
  <2>2. f[0] = [w \in values |-> {"<max depth exceeded>"}]
    BY <1>4, <2>1
  <2>3. \A w \in clean : f[0][w] = {"<max depth exceeded>"}
    BY <2>2
  <2>4. "secret" \notin {"<max depth exceeded>"}
    OBVIOUS
  <2>5. \A w \in clean : "secret" \notin f[0][w]
    BY <2>3, <2>4, Zenon
  <2> QED
    BY <2>5
<1>6. ASSUME NEW n \in Nat, n \in S PROVE n + 1 \in S
  <2> SUFFICES ASSUME n + 1 <= top PROVE \A w \in clean : "secret" \notin f[n + 1][w]
    OBVIOUS
  <2>1. f[n + 1] = SanitizeValue(values, f[n])
    <3>1. n + 1 \in 0..top /\ n + 1 # 0 /\ (n + 1) - 1 = n
      BY <1>1
    <3> QED
      BY <1>4, <3>1
  <2>2. \A w \in clean : "secret" \notin f[n][w]
    BY <1>1, <1>6
  <2> QED
    BY <2>1, <2>2, LevelIsMasked
<1> HIDE DEF S
<1>7. top \in S
  BY <1>1, <1>5, <1>6, CountingUp
<1> QED
  BY <1>1, <1>3, <1>7 DEF S

(* The value a form's repeated field is redacted to is one it has.         *)
LEMMA LastValueIsOne ==
  ASSUME NEW form \in Forms, NEW i \in Scalars(form)
  PROVE  \E m \in Scalars(form) : form[m][1] = form[i][1] /\ LastValue(form, form[i][1]) = form[m][2]
<1> DEFINE name == form[i][1]
           S == {m \in Scalars(form) : form[m][1] = name}
<1>1. Len(form) \in Nat /\ S \in SUBSET (1..Len(form)) /\ i \in S
  BY SecretsAssumption DEF Scalars
<1>2. PICK m \in S : \A j \in S : j <= m
  BY <1>1, LastPosition
<1>3. m \in Scalars(form) /\ form[m][1] = name /\ \A j \in Scalars(form) : form[j][1] = name => j <= m
  BY <1>2
<1> DEFINE c == CHOOSE k \in Scalars(form) :
                  form[k][1] = name /\ \A j \in Scalars(form) : form[j][1] = name => j <= k
<1>4. c \in Scalars(form) /\ form[c][1] = name
  BY <1>3
<1>5. LastValue(form, name) = form[c][2]
  BY DEF LastValue
<1> QED
  BY <1>4, <1>5

(* A field's value in the summary is a text, and a secret one only if the  *)
(* field has it and is out of the redaction's reach.                       *)
LEMMA RedactedFields ==
  ASSUME NEW form \in Forms, NEW i \in Scalars(form)
  PROVE  /\ RedactedValue(form, i) = Text(RedactedValue(form, i).text)
         /\ RedactedValue(form, i) = Text("secret")
              => form[i][2] = Text("secret") /\ OutOfReach(form, form[i][1])
<1> DEFINE name == form[i][1]
<1>1. \A m \in Scalars(form) : form[m][2] = Text(form[m][2].text)
                            /\ (form[m][2] = Text("secret") => form[m][1] \in Hidden)
  <2> SUFFICES ASSUME NEW m \in Scalars(form)
               PROVE  form[m][2] = Text(form[m][2].text) /\ (form[m][2] = Text("secret") => form[m][1] \in Hidden)
    OBVIOUS
  <2>1. m \in DOMAIN form /\ form[m][2].kind = "text"
    BY DEF Scalars
  <2>2. Bytes.kind = "bytes" /\ "bytes" # "text"
    BY DEF Bytes, Node
  <2>3. form[m][2] # Bytes
    BY <2>1, <2>2, Zenon
  <2> QED
    BY <2>1, <2>3, SecretsAssumption
<1>2. CASE OutOfReach(form, name)
  <2>1. RedactedValue(form, i) = form[i][2]
    BY <1>2 DEF RedactedValue, OutOfReach
  <2> QED
    BY <1>1, <1>2, <2>1
<1>3. CASE ~OutOfReach(form, name) /\ name \in SENSITIVE
  <2>1. RedactedValue(form, i) = Text("***REDACTED***")
    BY <1>3 DEF RedactedValue, OutOfReach
  <2>2. Text("***REDACTED***").text = "***REDACTED***" /\ Text("secret").text = "secret"
    BY DEF Text, Node
  <2>3. "***REDACTED***" # "secret"
    OBVIOUS
  <2> QED
    BY <2>1, <2>2, <2>3, Zenon
<1>4. CASE ~OutOfReach(form, name) /\ name \notin SENSITIVE
  <2>1. RedactedValue(form, i) = LastValue(form, name)
    BY <1>4 DEF RedactedValue, OutOfReach
  <2>2. PICK m \in Scalars(form) : form[m][1] = name /\ LastValue(form, name) = form[m][2]
    BY LastValueIsOne
  <2>3. name \notin Hidden
    BY <1>4 DEF OutOfReach, Hidden
  <2> QED
    BY <1>1, <2>1, <2>2, <2>3
<1> QED
  BY <1>2, <1>3, <1>4

(* A form's summary is clean unless such a field is in it.                 *)
LEMMA SummaryIsClean ==
  ASSUME NEW form \in Forms, \A i \in Scalars(form) : RedactedValue(form, i) # Text("secret")
  PROVE  Clean(SummaryValues(form))
<1> DEFINE V == SummaryValues(form)
<1>1. /\ Text("plain") \in V /\ Fields(form) \in V /\ SummariseBodyForAudit(form) \in V
      /\ \A i \in DOMAIN form : Entry(form, i) \in V
      /\ \A i \in Scalars(form) : RedactedValue(form, i) \in V
  BY DEF SummaryValues
<1>2. \A v \in V : \/ v = SummariseBodyForAudit(form) \/ v = Fields(form) \/ v = Text("plain")
                   \/ \E i \in DOMAIN form : v = Entry(form, i)
                   \/ \E i \in Scalars(form) : v = RedactedValue(form, i)
  BY DEF SummaryValues
<1> HIDE DEF V
<1> DEFINE Ok(v) == /\ v.kind \in {"text", "bytes", "dict", "list"}
                    /\ v.kind = "text" => v.text # "secret"
                    /\ v.kind = "dict" => \A i \in DOMAIN v.items : v.items[i][1] \in Hidden \/ v.items[i][2] \in V
                    /\ v.kind = "list" => \A i \in DOMAIN v.items : v.items[i] \in V
<1>3. Ok(SummariseBodyForAudit(form))
  <2> DEFINE s == SummariseBodyForAudit(form)
  <2>1. s.kind = "dict" /\ s.items = << <<"__multipart__", Text("plain")>>, <<"fields", Fields(form)>> >>
    BY DEF SummariseBodyForAudit, Dict, Node
  <2> HIDE DEF s
  <2>2. DOMAIN s.items = 1..2 /\ s.items[1][2] = Text("plain") /\ s.items[2][2] = Fields(form)
    BY <2>1
  <2>3. Ok(s)
    BY <1>1, <2>1, <2>2
  <2> QED
    BY <2>3 DEF s
<1>4. Ok(Fields(form))
  BY <1>1 DEF Fields, List, Node
<1>5. Ok(Text("plain"))
  BY DEF Text, Node
<1>6. ASSUME NEW i \in DOMAIN form PROVE Ok(Entry(form, i))
  <2> DEFINE e == Entry(form, i)
             last == IF i \in Scalars(form) THEN <<"value", RedactedValue(form, i)>> ELSE <<"size_bytes", Text("plain")>>
  <2>1. e.kind = "dict" /\ e.items = << <<"name", Text("plain")>>, last >>
    BY DEF Entry, Dict, Node
  <2>2. last[2] \in V
    BY <1>1
  <2> HIDE DEF e, last
  <2>3. DOMAIN e.items = 1..2 /\ e.items[1][2] = Text("plain") /\ e.items[2][2] = last[2]
    BY <2>1
  <2>4. Ok(e)
    BY <1>1, <2>1, <2>2, <2>3
  <2> QED
    BY <2>4 DEF e
<1>7. ASSUME NEW i \in Scalars(form) PROVE Ok(RedactedValue(form, i))
  <2> DEFINE r == RedactedValue(form, i)
  <2>1. r = Text(r.text) /\ r # Text("secret")
    BY RedactedFields
  <2> HIDE DEF r
  <2>2. r.kind = "text" /\ r.text # "secret"
    BY <2>1 DEF Text, Node
  <2> QED
    BY <2>2 DEF r
<1>8. \A v \in V : Ok(v)
  BY <1>2, <1>3, <1>4, <1>5, <1>6, <1>7
<1> QED
  BY <1>8 DEF Clean, V

(* Nothing of a body shows a secret, and of a form only a field out of     *)
(* reach does.                                                             *)
LEMMA BodiesAreMasked ==
  ASSUME NEW v \in Bodies
  PROVE  "secret" \notin SanitizeForLog(Values, v)
<1>1. Bodies \in SUBSET Values /\ Clean(Bodies)
  BY SecretsAssumption, ValuesAssumption DEF Clean
<1> QED
  BY <1>1, NothingSecretShown

LEMMA FormsAreMasked ==
  ASSUME NEW form \in Forms, "secret" \in SanitizeForLog(SummaryValues(form), SummariseBodyForAudit(form))
  PROVE  \E i \in DOMAIN form : form[i][2] = Text("secret") /\ OutOfReach(form, form[i][1])
<1>1. SummariseBodyForAudit(form) \in SummaryValues(form)
  BY DEF SummaryValues
<1>2. ~ Clean(SummaryValues(form))
  BY <1>1, NothingSecretShown
<1>3. PICK i \in Scalars(form) : RedactedValue(form, i) = Text("secret")
  BY <1>2, SummaryIsClean
<1> QED
  BY <1>3, RedactedFields DEF Scalars

LEMMA HeadersAreMasked ==
  ASSUME NEW h \in Headers
  PROVE  "secret" \notin RedactHeaders(h)
BY SecretsAssumption DEF RedactHeaders

(* The row shows its body, or nothing yet.                                 *)
TextsInv ==
  /\ \/ body.route = "body" /\ body.tree \in Bodies
     \/ body.route = "multipart" /\ body.tree \in Forms
     \/ body.route = "headers" /\ body.tree \in Headers
  /\ SecretsMasked

(* No value under a name that is masked or left out reaches a row, however *)
(* deep it is nested in a JSON body or dictionary, a multipart form or     *)
(* headers (sanitize_for_log, serialize_body, summarise_body_for_audit,    *)
(* redact_headers); of a form, only a field out of the redaction's reach   *)
(* shows its own.                                                          *)
THEOREM SecretsAreMasked == AuditSpec => []SecretsMasked
<1>1. AuditInit => TextsInv
  BY DEF AuditInit, TextsInv, SecretsMasked
<1>2. TextsInv /\ [AuditNext]_auditVars => TextsInv'
  <2> SUFFICES ASSUME TextsInv, [AuditNext]_auditVars PROVE TextsInv'
    OBVIOUS
  <2>1. CASE RenderBody
    <3>1. body' = body /\ texts' = SerializeBody(body) /\ body.route # "headers"
      BY <2>1 DEF RenderBody
    <3>2. CASE body.route = "body" /\ body.tree \in Bodies
      <4>1. "secret" \notin SerializeBody(body)
        BY <3>2, BodiesAreMasked DEF SerializeBody
      <4> QED
        BY <3>1, <3>2, <4>1 DEF TextsInv, SecretsMasked
    <3>3. CASE body.route = "multipart" /\ body.tree \in Forms
      <4>1. "secret" \in SerializeBody(body)
              => \E i \in DOMAIN body.tree : body.tree[i][2] = Text("secret") /\ OutOfReach(body.tree, body.tree[i][1])
        BY <3>3, FormsAreMasked DEF SerializeBody
      <4> QED
        BY <3>1, <3>3, <4>1 DEF TextsInv, SecretsMasked
    <3> QED
      BY <3>1, <3>2, <3>3 DEF TextsInv
  <2>2. CASE RenderHeaders
    <3>1. body' = body /\ texts' = RedactHeaders(body.tree) /\ body.route = "headers" /\ body.tree \in Headers
      BY <2>2 DEF RenderHeaders, TextsInv
    <3>2. "secret" \notin texts'
      BY <3>1, HeadersAreMasked
    <3> QED
      BY <3>1, <3>2 DEF TextsInv, SecretsMasked
  <2>3. CASE UNCHANGED auditVars
    BY <2>3 DEF auditVars, TextsInv, SecretsMasked
  <2> QED
    BY <2>1, <2>2, <2>3 DEF AuditNext
<1>3. TextsInv => SecretsMasked
  BY DEF TextsInv
<1> QED
  BY <1>1, <1>2, <1>3, PTL DEF AuditSpec
=============================================================================
