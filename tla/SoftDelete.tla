----------------------------- MODULE SoftDelete -----------------------------
(***************************************************************************)
(* The write side of apps/core/base/service.py and repository.py on rows   *)
(* that refer to each other by CASCADE foreign keys: BaseService.delete    *)
(* with its breadth first cascade, hard deletes, update and create, each a *)
(* transaction of its own at PostgreSQL's READ COMMITTED.                  *)
(*                                                                         *)
(* A step is one statement, or a commit.  What a transaction has written   *)
(* is only its own until the commit; a row it has written or selected for  *)
(* update is locked until then.  An UPDATE of several rows waits for all   *)
(* of them; a deadlock between two such statements, which PostgreSQL ends  *)
(* by aborting one, is one of the reasons of DeleteFails.  A model has one *)
(* CASCADE relation here: the loop over related_objects has one turn.      *)
(***************************************************************************)
EXTENDS Naturals, Sequences, FiniteSets, SequencesExt

CONSTANTS
  Rows,      \* the rows, those still to be created included
  Edges,     \* <<p, x>>: x has a CASCADE foreign key to p
  Spare,     \* the rows that do not exist at first
  MaxDepth,  \* MAX_CASCADE_DEPTH
  Deleters,  \* calls of delete(), each by a user of its own
  Updaters,  \* calls of update()
  Removable, \* bound: the rows that hard deletes ask for
  None

ASSUME SoftDeleteAssumption ==
  /\ IsFiniteSet(Rows)
  /\ Edges \subseteq Rows \X Rows
  /\ Spare \subseteq Rows
  /\ \A e \in Edges : e[1] \in Spare => e[2] \in Spare   \* no foreign key dangles
  /\ Removable \subseteq Rows
  /\ MaxDepth \in Nat
  /\ None \notin Rows \cup Deleters \cup Updaters
  /\ Deleters \cap Updaters = {}

VARIABLES
  exists,    \* the rows there are
  gone,      \* history: the rows that a hard delete removed
  active,    \* those with is_active, as committed
  by,        \* by[x]: updated_by, as committed
  lock,      \* lock[x]: the transaction that has locked row x, or None
  pc,        \* pc[a]: where call a stands, or what it returned
  root,      \* root[a]: the row it is about; selected FOR UPDATE
  frontier,  \* frontier[d]: the deque, pairs of a row and its depth
  children,  \* children[d]: list(related_qs) of the current row
  dirty,     \* dirty[d]: the rows d has deactivated and not committed
  capped,    \* capped[d]: the rows named in its "depth cap reached" warnings
  reach      \* history: reach[d], the rows below its root when d locked it

rowVars == <<exists, gone, active, by>>
txVars  == <<pc, root, frontier, children, dirty, capped>>
vars == <<rowVars, lock, txVars, reach>>

Calls == Deleters \cup Updaters

TypeOK ==
  /\ exists \subseteq Rows
  /\ gone \subseteq Rows
  /\ active \subseteq exists
  /\ by \in [Rows -> Calls \cup {None}]
  /\ lock \in [Rows -> Calls \cup {None}]
  /\ pc \in [Calls -> {"idle", "list", "update", "locked", "lockedInactive", "done", "missing", "failed"}]
  /\ root \in [Calls -> Rows \cup {None}]
  /\ frontier \in [Deleters -> Seq(Rows \X Nat)]
  /\ children \in [Deleters -> SUBSET Rows]
  /\ dirty \in [Deleters -> SUBSET Rows]
  /\ capped \in [Deleters -> SUBSET Rows]
  /\ reach \in [Deleters -> SUBSET Rows]

Init ==
  /\ exists = Rows \ Spare
  /\ gone = {}
  /\ active = exists
  /\ by = [x \in Rows |-> None]
  /\ lock = [x \in Rows |-> None]
  /\ pc = [a \in Calls |-> "idle"]
  /\ root = [a \in Calls |-> None]
  /\ frontier = [d \in Deleters |-> <<>>]
  /\ children = [d \in Deleters |-> {}]
  /\ dirty = [d \in Deleters |-> {}]
  /\ capped = [d \in Deleters |-> {}]
  /\ reach = [d \in Deleters |-> {}]

MutantActiveChildren(d, x) == {y \in exists : <<x, y>> \in Edges}   \* without the filter

(* getattr(current, accessor).filter(is_active=True), as d sees it. *)
ActiveChildren(d, x) == {y \in active \ dirty[d] : <<x, y>> \in Edges}

(* x and the rows below it along any foreign keys. *)
Descendants ==
  [x \in Rows |->
     LET W[k \in 0..Cardinality(Rows)] ==
           IF k = 0 THEN {x}
           ELSE LET above == W[k - 1]
                IN above \cup {y \in Rows : \E z \in above : <<z, y>> \in Edges}
     IN W[Cardinality(Rows)]]

(* The rows at most n active steps below x: what a cascade is there for. *)
Below(x, n) ==
  LET W[k \in 0..n] ==
        IF k = 0 THEN {x}
        ELSE W[k - 1] \cup {y \in active : \E z \in W[k - 1] : <<z, y>> \in Edges}
  IN W[n]

-----------------------------------------------------------------------------
(* delete(): select_for_update on the row, by default only if it is        *)
(* active, then is_active = False.                                         *)

DeleteLock(d, x, activeOnly) ==
  /\ pc[d] = "idle"
  /\ x \in exists
  /\ lock[x] = None
  /\ root' = [root EXCEPT ![d] = x]
  /\ IF x \in active \/ ~activeOnly
     THEN /\ lock' = [lock EXCEPT ![x] = d]
          /\ dirty' = [dirty EXCEPT ![d] = {x}]
          /\ frontier' = [frontier EXCEPT ![d] = << <<x, 0>> >>]
          /\ reach' = [reach EXCEPT ![d] = Below(x, MaxDepth)]
          /\ pc' = [pc EXCEPT ![d] = "list"]
     ELSE /\ pc' = [pc EXCEPT ![d] = "missing"]
          /\ UNCHANGED <<lock, dirty, frontier, reach>>
  /\ UNCHANGED <<rowVars, children, capped>>

MutantCascadeList(d) ==   \* the cap is hit a level early
  /\ pc[d] = "list"
  /\ frontier[d] # <<>>
  /\ LET x == Head(frontier[d])[1]
         n == Head(frontier[d])[2] IN
     IF n + 1 >= MaxDepth
     THEN /\ frontier' = [frontier EXCEPT ![d] = Tail(@)]
          /\ capped' = [capped EXCEPT ![d] = @ \cup {x}]
          /\ UNCHANGED <<children, pc>>
     ELSE /\ children' = [children EXCEPT ![d] = ActiveChildren(d, x)]
          /\ pc' = [pc EXCEPT ![d] = "update"]
          /\ UNCHANGED <<frontier, capped>>
  /\ UNCHANGED <<rowVars, lock, root, dirty, reach>>

(* popleft(); at the depth cap warn and go on, else children = list(...).  *)
(* A current row stays at the head until its children are updated.         *)
CascadeList(d) ==
  /\ pc[d] = "list"
  /\ frontier[d] # <<>>
  /\ LET x == Head(frontier[d])[1]
         n == Head(frontier[d])[2] IN
     IF n >= MaxDepth
     THEN /\ frontier' = [frontier EXCEPT ![d] = Tail(@)]
          /\ capped' = [capped EXCEPT ![d] = @ \cup {x}]
          /\ UNCHANGED <<children, pc>>
     ELSE /\ children' = [children EXCEPT ![d] = ActiveChildren(d, x)]
          /\ pc' = [pc EXCEPT ![d] = "update"]
          /\ UNCHANGED <<frontier, capped>>
  /\ UNCHANGED <<rowVars, lock, root, dirty, reach>>

MutantCascadeUpdate(d) ==   \* the current row goes back to the deque with its children
  LET x   == Head(frontier[d])[1]
      n   == Head(frontier[d])[2]
      hit == ActiveChildren(d, x) IN
  /\ pc[d] = "update"
  /\ \A y \in hit : lock[y] \in {None, d}
  /\ dirty' = [dirty EXCEPT ![d] = @ \cup hit]
  /\ lock' = [y \in Rows |-> IF y \in hit THEN d ELSE lock[y]]
  /\ frontier' = [frontier EXCEPT ![d] =
                    Tail(@) \o SetToSeq({<<y, n + 1>> : y \in children[d]}) \o <<Head(@)>>]
  /\ children' = [children EXCEPT ![d] = {}]
  /\ pc' = [pc EXCEPT ![d] = "list"]
  /\ UNCHANGED <<rowVars, root, capped, reach>>

(* related_qs.update(...) is a query of its own: it takes the rows that    *)
(* are active children now, while the rows that go on to the frontier are  *)
(* the ones that were listed before.                                       *)
CascadeUpdate(d) ==
  LET x   == Head(frontier[d])[1]
      n   == Head(frontier[d])[2]
      hit == ActiveChildren(d, x) IN
  /\ pc[d] = "update"
  /\ \A y \in hit : lock[y] \in {None, d}
  /\ dirty' = [dirty EXCEPT ![d] = @ \cup hit]
  /\ lock' = [y \in Rows |-> IF y \in hit THEN d ELSE lock[y]]
  /\ frontier' = [frontier EXCEPT ![d] =
                    Tail(@) \o SetToSeq({<<y, n + 1>> : y \in children[d]})]
  /\ children' = [children EXCEPT ![d] = {}]
  /\ pc' = [pc EXCEPT ![d] = "list"]
  /\ UNCHANGED <<rowVars, root, capped, reach>>

Release(a) == lock' = [y \in Rows |-> IF lock[y] = a THEN None ELSE lock[y]]

DeleteCommit(d) ==
  /\ pc[d] = "list"
  /\ frontier[d] = <<>>
  /\ active' = active \ dirty[d]
  /\ by' = [x \in Rows |-> IF x \in dirty[d] THEN d ELSE by[x]]
  /\ Release(d)
  /\ pc' = [pc EXCEPT ![d] = "done"]
  /\ UNCHANGED <<exists, gone, root, frontier, children, dirty, capped, reach>>

(* A statement or a hook raises: the transaction rolls back. *)
DeleteFails(d) ==
  /\ pc[d] \in {"list", "update"}
  /\ Release(d)
  /\ pc' = [pc EXCEPT ![d] = "failed"]
  /\ UNCHANGED <<rowVars, root, frontier, children, dirty, capped, reach>>

(* delete(soft=False), delete_hard_by_id: Django collects all rows below,  *)
(* active or not, and deletes them from the bottom up. A row that is       *)
(* created below one of them meanwhile makes the whole fail, which leaves  *)
(* nothing; so a call that ends well removes the tree as it is at its end, *)
(* once all locks on it are free.                                          *)
Tree(x) == Descendants[x] \cap exists

HardDelete(x) ==
  /\ x \in exists \cap Removable
  /\ \A y \in Tree(x) : lock[y] = None
  /\ exists' = exists \ Tree(x)
  /\ active' = active \ Tree(x)
  /\ gone' = gone \cup Tree(x)
  /\ UNCHANGED <<by, lock, txVars, reach>>

-----------------------------------------------------------------------------
(* update(): select_for_update on the active row, then save() of the whole *)
(* instance, is_active as it was read included.                            *)

MutantUpdateLock(u, x) ==   \* a plain SELECT
  /\ pc[u] = "idle"
  /\ x \in exists
  /\ root' = [root EXCEPT ![u] = x]
  /\ pc' = [pc EXCEPT ![u] = IF x \in active THEN "locked" ELSE "missing"]
  /\ UNCHANGED <<rowVars, lock, frontier, children, dirty, capped, reach>>

UpdateLock(u, x) ==
  /\ pc[u] = "idle"
  /\ x \in exists
  /\ lock[x] = None
  /\ root' = [root EXCEPT ![u] = x]
  /\ lock' = [lock EXCEPT ![x] = IF x \in active THEN u ELSE None]
  /\ pc' = [pc EXCEPT ![u] = IF x \in active THEN "locked" ELSE "missing"]
  /\ UNCHANGED <<rowVars, frontier, children, dirty, capped, reach>>

(* BaseRepository.update, and update(active_only=False): the same without  *)
(* the filter on is_active.                                                *)
RepositoryLock(u, x) ==
  /\ pc[u] = "idle"
  /\ x \in exists
  /\ lock[x] = None
  /\ root' = [root EXCEPT ![u] = x]
  /\ lock' = [lock EXCEPT ![x] = u]
  /\ pc' = [pc EXCEPT ![u] = IF x \in active THEN "locked" ELSE "lockedInactive"]
  /\ UNCHANGED <<rowVars, frontier, children, dirty, capped, reach>>

Locked(u) == pc[u] \in {"locked", "lockedInactive"}

(* apply_audit_fields, for an instance. *)
ApplyAuditFields(x, user) == by' = [by EXCEPT ![x] = user]

(* save() is an UPDATE, and an INSERT if there is no such row.              *)
UpdateCommit(u) ==
  /\ Locked(u)
  /\ lock[root[u]] \in {None, u}
  /\ exists' = exists \cup {root[u]}
  /\ active' = IF pc[u] = "locked" THEN active \cup {root[u]} ELSE active \ {root[u]}
  /\ ApplyAuditFields(root[u], u)
  /\ Release(u)
  /\ pc' = [pc EXCEPT ![u] = "done"]
  /\ UNCHANGED <<gone, root, frontier, children, dirty, capped, reach>>

(* A hook or full_clean raises. *)
UpdateFails(u) ==
  /\ Locked(u)
  /\ Release(u)
  /\ pc' = [pc EXCEPT ![u] = "failed"]
  /\ UNCHANGED <<rowVars, root, frontier, children, dirty, capped, reach>>

(* create(): the foreign key check takes a KEY SHARE lock on each parent,  *)
(* which waits for a row selected FOR UPDATE, but not for one that a       *)
(* cascade has updated, and does not look at is_active.                    *)
SelectedForUpdate(p) == lock[p] # None /\ root[lock[p]] = p

Create(x) ==
  /\ x \notin exists \cup gone
  /\ \A p \in Rows : <<p, x>> \in Edges => p \in exists /\ ~SelectedForUpdate(p)
  /\ exists' = exists \cup {x}
  /\ active' = active \cup {x}
  /\ UNCHANGED <<gone, by, lock, txVars, reach>>

-----------------------------------------------------------------------------
Delete(d) == CascadeList(d) \/ CascadeUpdate(d) \/ DeleteCommit(d)

Next ==
  \/ \E d \in Deleters, x \in Rows, activeOnly \in BOOLEAN : DeleteLock(d, x, activeOnly)
  \/ \E d \in Deleters : Delete(d) \/ DeleteFails(d)
  \/ \E u \in Updaters, x \in Rows : UpdateLock(u, x) \/ RepositoryLock(u, x)
  \/ \E u \in Updaters : UpdateCommit(u) \/ UpdateFails(u)
  \/ \E x \in Rows : Create(x) \/ HardDelete(x)

(* A transaction that has begun goes on unless it waits for a lock. *)
Fairness ==
  /\ \A d \in Deleters : WF_vars(Delete(d))
  /\ \A u \in Updaters : WF_vars(UpdateCommit(u) \/ UpdateFails(u))

Spec == Init /\ [][Next]_vars /\ Fairness

-----------------------------------------------------------------------------
(* Properties.                                                             *)

(* When delete() returns True, no row that was below the deleted one, down *)
(* to MAX_CASCADE_DEPTH, is left active, whoever else deletes, updates or  *)
(* creates rows in the same tree meanwhile, with two exceptions, each the  *)
(* work of another delete that returned True: it ran into its own cap on   *)
(* the way to that row, so that the inactive rows it leaves hide what is   *)
(* below them, and its warning names one of them; or the row was created   *)
(* below one that it deactivated, after it had passed there.               *)
Hides(o, y) ==
  /\ pc[o] = "done"
  /\ \E z \in capped[o] \cup (IF y \in Spare THEN dirty[o] ELSE {}) : y \in Descendants[z]

CascadeComplete ==
  \A d \in Deleters :
    pc[d] = "done" =>
      \A y \in reach[d] \cap active : \E o \in Deleters \ {d} : Hides(o, y)

(* Nothing else goes: a row is deactivated by a delete that returned True, *)
(* is attributed to its user unless a repository wrote to it afterwards,   *)
(* and is the row asked for, below it within the cap, or created below it  *)
(* since.                                                                  *)
OnlyBelow ==
  \A x \in exists \ active :
    \E d \in Deleters :
      /\ pc[d] = "done" /\ x \in dirty[d] /\ x \in reach[d] \cup Spare
      /\ \/ by[x] = d
         \/ \E u \in Updaters : by[x] = u /\ root[u] = x

(* A delete that fails half way leaves nothing deactivated or locked.      *)
FailureLeavesNoTrace ==
  \A d \in Deleters : pc[d] = "failed" => \A x \in Rows : by[x] # d /\ lock[x] # d

(* A cascade deactivates exactly what it should, or nothing.               *)
CascadeExact == CascadeComplete /\ OnlyBelow /\ FailureLeavesNoTrace

(* A deleted row never comes back by the service's own writes, whether it  *)
(* was deactivated or removed: neither a save() of what was read before    *)
(* nor the INSERT that it falls back to revives it.                        *)
NoRevival == [][((exists \ active) \cup gone) \cap active' = {}]_vars

Live(d) == pc[d] \in {"list", "update"}

(* Every delete ends, and lets go of all its locks, whatever it waits for: *)
(* cascades of overlapping subtrees, updates and creations. On foreign     *)
(* keys without a cycle locks are taken downwards, so nobody waits in a    *)
(* circle, as long as an UPDATE gets the locks of its rows together.       *)
DeleteEnds ==
  \A d \in Deleters :
    Live(d) ~> (pc[d] \in {"done", "failed"} /\ \A x \in Rows : lock[x] # d)

(* The rows that a running delete may still list as children: the active   *)
(* ones it has not deactivated, and those that are not created yet.        *)
Listable(d) == {x \in Rows \ dirty[d] : x \in active \/ x \notin exists \cup gone}

(* What is left to do for it, in statements.                               *)
Work(d) ==
  2 * (Cardinality(Listable(d) \cup children[d]) + Len(frontier[d])) + (IF pc[d] = "list" THEN 1 ELSE 0)

(* A cascade is short on any graph of foreign keys, cycles included: it    *)
(* starts with work for twice the number of rows, each of its statements   *)
(* leaves less, and no other call, not even a create below a row that is   *)
(* still to come, gives it more.                                           *)
CascadeShrinks ==
  [][\A d \in Deleters :
       Live(d)' =>
         IF ~Live(d) THEN Work(d)' <= 2 * Cardinality(Rows) + 1
         ELSE IF <<pc[d], frontier[d]>>' # <<pc[d], frontier[d]>> THEN Work(d)' < Work(d)
         ELSE Work(d)' <= Work(d)]_vars
=============================================================================
