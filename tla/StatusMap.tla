----------------------------- MODULE StatusMap ------------------------------
(***************************************************************************)
(* The exception to status map of apps/core/exceptions/handler.py: a list  *)
(* that register_exception_mapping appends to, a frozen copy of it that is *)
(* dropped on every append and rebuilt by the first reader, and the        *)
(* handler that looks an exception's class up in the copy it got.          *)
(*                                                                         *)
(* Threads: apps that register, request threads that handle an exception.  *)
(* A step is one load or store of a module global, or of the lock.         *)
(***************************************************************************)
EXTENDS Naturals, Sequences

CONSTANTS
  Classes,    \* exception classes
  IsA,        \* <<c, d>>: an instance of c is an instance of d
  Mappings,   \* the registrations, one call of register_exception_mapping each
  ClassOf,    \* ClassOf[m]: the class that m maps; its status is m itself
  Handlers,   \* calls of api_exception_handler for a mapped kind of exception
  None        \* no map, no lock holder; as an answer, the default 500

ASSUME StatusMapAssumption ==
  /\ IsA \subseteq Classes \X Classes
  /\ ClassOf \in [Mappings -> Classes]
  /\ None \notin Mappings \cup Handlers \cup Classes
  /\ None \notin Seq(Mappings)
  /\ Mappings \cap Handlers = {}

VARIABLES
  builder,    \* _CUSTOM_STATUS_MAP_BUILDER
  cache,      \* _CUSTOM_STATUS_MAP, or None
  lock,       \* the holder of _status_map_lock, or None
  rpc,        \* rpc[m]: where the registration stands
  hpc,        \* hpc[h]: where the handler stands
  exc,        \* exc[h]: the class of its exception
  local,      \* local[h]: what _get_status_map() gave it, or None
  answer,     \* answer[h]: the status of its response
  due         \* history: due[h], the mappings registered when h began

vars == <<builder, cache, lock, rpc, hpc, exc, local, answer, due>>

TypeOK ==
  /\ builder \in Seq(Mappings)
  /\ cache \in Seq(Mappings) \cup {None}
  /\ lock \in Mappings \cup Handlers \cup {None}
  /\ rpc \in [Mappings -> {"idle", "append", "invalidate", "done"}]
  /\ hpc \in [Handlers -> {"idle", "lock", "build", "resolve", "done"}]
  /\ exc \in [Handlers -> Classes \cup {None}]
  /\ local \in [Handlers -> Seq(Mappings) \cup {None}]
  /\ answer \in [Handlers -> Mappings \cup {None}]
  /\ due \in [Handlers -> SUBSET Mappings]

Init ==
  /\ builder = <<>>
  /\ cache = None
  /\ lock = None
  /\ rpc = [m \in Mappings |-> "idle"]
  /\ hpc = [h \in Handlers |-> "idle"]
  /\ exc = [h \in Handlers |-> None]
  /\ local = [h \in Handlers |-> None]
  /\ answer = [h \in Handlers |-> None]
  /\ due = [h \in Handlers |-> {}]

-----------------------------------------------------------------------------
(* register_exception_mapping: append and invalidate under the lock.       *)

RegisterAcquire(m) ==
  /\ rpc[m] = "idle"
  /\ lock = None
  /\ lock' = m
  /\ rpc' = [rpc EXCEPT ![m] = "append"]
  /\ UNCHANGED <<builder, cache, hpc, exc, local, answer, due>>

MutantRegisterAppend(m) ==   \* the newest mapping goes first
  /\ rpc[m] = "append"
  /\ builder' = <<m>> \o builder
  /\ rpc' = [rpc EXCEPT ![m] = "invalidate"]
  /\ UNCHANGED <<cache, lock, hpc, exc, local, answer, due>>

RegisterAppend(m) ==
  /\ rpc[m] = "append"
  /\ builder' = Append(builder, m)
  /\ rpc' = [rpc EXCEPT ![m] = "invalidate"]
  /\ UNCHANGED <<cache, lock, hpc, exc, local, answer, due>>

MutantRegisterInvalidate(m) ==   \* a warm cache is kept
  /\ rpc[m] = "invalidate"
  /\ lock' = None
  /\ rpc' = [rpc EXCEPT ![m] = "done"]
  /\ UNCHANGED <<builder, cache, hpc, exc, local, answer, due>>

RegisterInvalidate(m) ==
  /\ rpc[m] = "invalidate"
  /\ cache' = None
  /\ lock' = None
  /\ rpc' = [rpc EXCEPT ![m] = "done"]
  /\ UNCHANGED <<builder, hpc, exc, local, answer, due>>

Register(m) == RegisterAcquire(m) \/ RegisterAppend(m) \/ RegisterInvalidate(m)

-----------------------------------------------------------------------------
(* _get_status_map(): one load without the lock; if that is None, a second *)
(* look under it.                                                          *)

Registered == {m \in Mappings : rpc[m] = "done"}

FastPath(h, c) ==
  /\ hpc[h] = "idle"
  /\ exc' = [exc EXCEPT ![h] = c]
  /\ due' = [due EXCEPT ![h] = Registered]
  /\ local' = [local EXCEPT ![h] = cache]
  /\ hpc' = [hpc EXCEPT ![h] = IF cache = None THEN "lock" ELSE "resolve"]
  /\ UNCHANGED <<builder, cache, lock, rpc, answer>>

SlowPathAcquire(h) ==
  /\ hpc[h] = "lock"
  /\ lock = None
  /\ lock' = h
  /\ hpc' = [hpc EXCEPT ![h] = "build"]
  /\ UNCHANGED <<builder, cache, rpc, exc, local, answer, due>>

MutantSlowPathBuild(h) ==   \* returns without leaving the lock
  /\ hpc[h] = "build"
  /\ cache' = IF cache = None THEN builder ELSE cache
  /\ local' = [local EXCEPT ![h] = cache']
  /\ hpc' = [hpc EXCEPT ![h] = "resolve"]
  /\ UNCHANGED <<builder, lock, rpc, exc, answer, due>>

SlowPathBuild(h) ==
  /\ hpc[h] = "build"
  /\ cache' = IF cache = None THEN builder ELSE cache
  /\ local' = [local EXCEPT ![h] = cache']
  /\ lock' = None
  /\ hpc' = [hpc EXCEPT ![h] = "resolve"]
  /\ UNCHANGED <<builder, rpc, exc, answer, due>>

(* The loop of api_exception_handler: the first mapping of a superclass.   *)
Matches(map, c) == {i \in 1..Len(map) : <<c, ClassOf[map[i]]>> \in IsA}

Resolve(h) ==
  /\ hpc[h] = "resolve"
  /\ LET found == Matches(local[h], exc[h]) IN
     answer' = [answer EXCEPT ![h] =
                  IF found = {} THEN None
                  ELSE local[h][CHOOSE i \in found : \A j \in found : i <= j]]
  /\ hpc' = [hpc EXCEPT ![h] = "done"]
  /\ UNCHANGED <<builder, cache, lock, rpc, exc, local, due>>

Handle(h) == SlowPathAcquire(h) \/ SlowPathBuild(h) \/ Resolve(h)

-----------------------------------------------------------------------------
Next ==
  \/ \E m \in Mappings : Register(m)
  \/ \E h \in Handlers, c \in Classes : FastPath(h, c)
  \/ \E h \in Handlers : Handle(h)

SafeSpec == Init /\ [][Next]_vars

(* Threads run; no lock is kept from a thread that waits for it for ever.  *)
Fairness ==
  /\ \A m \in Mappings :
       WF_vars(RegisterAppend(m) \/ RegisterInvalidate(m)) /\ SF_vars(RegisterAcquire(m))
  /\ \A h \in Handlers :
       WF_vars(SlowPathBuild(h) \/ Resolve(h)) /\ SF_vars(SlowPathAcquire(h))

Spec == SafeSpec /\ Fairness

-----------------------------------------------------------------------------
(* Properties.                                                             *)

(* Whoever finds a map, with or without the lock, finds a complete state   *)
(* of the list: all of it, but for a registration that is still under way. *)
CacheCurrent ==
  cache # None =>
    \/ cache = builder
    \/ \E m \in Mappings : rpc[m] = "invalidate" /\ builder = Append(cache, m)

(* A handler that begins after register_exception_mapping returned uses    *)
(* that mapping, whatever other registrations and rebuilds race with it.   *)
NoLostMapping ==
  \A h \in Handlers :
    hpc[h] \in {"resolve", "done"} =>
      \A m \in due[h] : \E i \in 1..Len(local[h]) : local[h][i] = m

(* Two responses for the same class of exception never carry two different *)
(* mapped statuses: registrations that come later do not change the status *)
(* a class already has.                                                    *)
AnswersAgree ==
  \A g, h \in Handlers :
    exc[g] = exc[h] /\ answer[g] # None /\ answer[h] # None => answer[g] = answer[h]

(* Every exception is answered, however often the map is invalidated.      *)
HandlerAnswers == \A h \in Handlers : (hpc[h] # "idle") ~> (hpc[h] = "done")
=============================================================================
