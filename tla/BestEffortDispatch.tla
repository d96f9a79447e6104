------------------------- MODULE BestEffortDispatch -------------------------
(***************************************************************************)
(* What a FireAndForgetQueue promises its callers, with no thread, buffer  *)
(* or executor in sight: a call of submit() is decided once, accepted or   *)
(* refused; the accepted tasks begin in the order of their acceptance,     *)
(* each at most once, a refused one never; and until the queue is being    *)
(* torn down the next accepted task always begins in the end.              *)
(***************************************************************************)
EXTENDS Naturals, Sequences

CONSTANT Tasks

VARIABLES
  order,     \* the accepted tasks, in the order of their acceptance
  refused,   \* the tasks whose submit() returned, or will return, False
  begun,     \* the tasks that an executor thread has begun, in that order
  closed     \* the queue is being torn down: nothing more is promised

vars == <<order, refused, begun, closed>>

Decided(t) == t \in refused \/ \E i \in 1..Len(order) : order[i] = t

Init ==
  /\ order = <<>>
  /\ refused = {}
  /\ begun = <<>>
  /\ closed = FALSE

Accept(t) ==
  /\ ~Decided(t)
  /\ order' = Append(order, t)
  /\ UNCHANGED <<refused, begun, closed>>

Refuse(t) ==
  /\ ~Decided(t)
  /\ refused' = refused \cup {t}
  /\ UNCHANGED <<order, begun, closed>>

BeginNext ==
  /\ Len(begun) < Len(order)
  /\ begun' = Append(begun, order[Len(begun) + 1])
  /\ UNCHANGED <<order, refused, closed>>

Close ==
  /\ ~closed
  /\ closed' = TRUE
  /\ UNCHANGED <<order, refused, begun>>

Next ==
  \/ \E t \in Tasks : Accept(t) \/ Refuse(t)
  \/ BeginNext
  \/ Close

SafeSpec == Init /\ [][Next]_vars

Spec == SafeSpec /\ WF_vars(~closed /\ BeginNext)
=============================================================================
