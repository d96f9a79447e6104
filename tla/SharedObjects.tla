---------------------------- MODULE SharedObjects ----------------------------
(* The objects a worker process builds once and shares between its threads: the     *)
(* SQLAlchemy engines of core/utils/db.py, the audit log's backend and queue of     *)
(* core/api_log/factory.py, the registry of queues in core/dispatch, and drain_all. *)
(* A step is one unlocked look, one locked section, or one call on an object.       *)
EXTENDS Integers, Sequences, FiniteSets

CONSTANTS Threads, Main,    \* the request threads, and the thread that runs ready()
          Urls,             \* database URLs: the keys of _engine_cache
          Queues,           \* names of queues, "api_log" among them
          MaxMade,          \* bound: objects built
          MaxUses,          \* bound: calls a thread makes
          MaxPending,       \* bound: tasks waiting in a queue
          Timeout,          \* drain_all's budget, in polls (sleeps of 0.05 s)
          MaxClock,         \* bound: time
          None

Slots == Urls \cup {"backend"}
AllThreads == Threads \cup {Main}

ASSUME SharedAssumption ==
    /\ "api_log" \in Queues /\ "backend" \notin Urls /\ Main \notin Threads
    /\ MaxMade \in Nat /\ MaxUses \in Nat /\ MaxPending \in Nat /\ Timeout \in Nat /\ MaxClock \in Nat
    /\ None \notin Nat /\ None \notin AllThreads /\ None \notin Slots

VARIABLES
    booted,     \* ready() has returned: request threads run
    made,       \* the objects built so far, by number: the slot each was built for
    slot,       \* what the cache holds: _engine_cache, _backend
    disposed,   \* engines on which dispose() was called
    owner,      \* the thread in a locked section that builds, per lock
    tpc,        \* per thread, the next step
    want,       \* per thread, the slot asked for
    hand,       \* per thread, the engines taken out of the cache to be disposed
    uses,       \* per thread, calls made
    queueMade,  \* the queues built so far: the name of each
    queueOf,    \* _queues: the queue registered under a name
    pending,    \* per queue name, tasks waiting in the registered queue
    clock, dpc, todo, deadline, qdeadline, verdict, slept, wasEmpty
                \* drain_all: time, next step, queues left, the deadlines, all_drained, and
                \* as history the sleeps and the queues that were empty at some moment

objectVars == <<made, slot, disposed, owner, want, hand>>
drainVars == <<dpc, todo, deadline, qdeadline, verdict, slept>>
sharedVars == <<booted, objectVars, tpc, uses, queueMade, queueOf, pending, clock, drainVars, wasEmpty>>

LockOf(s) == IF s = "backend" THEN "_backend_lock" ELSE "_engine_cache_lock"
Locks == {"_backend_lock", "_engine_cache_lock"}

SharedTypeOK ==
    /\ booted \in BOOLEAN /\ made \in Seq(Slots)
    /\ slot \in [Slots -> Nat \cup {None}] /\ disposed \subseteq Nat
    /\ owner \in [Locks -> AllThreads \cup {None}]
    /\ tpc \in [AllThreads -> {"idle", "wait", "inside", "build", "dispose", "ensure", "create"}]
    /\ want \in [AllThreads -> Slots \cup {None}] /\ hand \in [AllThreads -> SUBSET Nat]
    /\ uses \in [AllThreads -> Nat]
    /\ queueMade \in Seq(Queues) /\ queueOf \in [Queues -> Nat \cup {None}]
    /\ pending \in [Queues -> Nat] /\ clock \in Nat
    /\ dpc \in {"idle", "next", "poll", "sleep", "done"} /\ todo \subseteq Queues
    /\ deadline \in Nat /\ qdeadline \in Nat /\ verdict \in BOOLEAN /\ slept \in Nat
    /\ wasEmpty \subseteq Queues

SharedInit ==
    /\ booted = FALSE /\ made = <<>> /\ slot = [s \in Slots |-> None] /\ disposed = {}
    /\ owner = [l \in Locks |-> None]
    /\ tpc = [t \in AllThreads |-> IF t = Main THEN "wait" ELSE "idle"]
    /\ want = [t \in AllThreads |-> IF t = Main THEN "backend" ELSE None]
    /\ hand = [t \in AllThreads |-> {}] /\ uses = [t \in AllThreads |-> 0]
    /\ queueMade = <<>> /\ queueOf = [q \in Queues |-> None]
    /\ pending = [q \in Queues |-> 0] /\ clock = 0
    /\ dpc = "idle" /\ todo = {} /\ deadline = 0 /\ qdeadline = 0 /\ verdict = TRUE
    /\ slept = 0 /\ wasEmpty = {}

MayCall(t) == booted /\ t \in Threads /\ tpc[t] = "idle" /\ uses[t] < MaxUses

(* ------------------------------------------------------- double-checked building *)

(* get_engine and get_backend look without the lock first ...                        *)
Look(t, s) ==
    /\ MayCall(t)
    /\ uses' = [uses EXCEPT ![t] = @ + 1]
    /\ IF slot[s] # None THEN UNCHANGED <<tpc, want>>
       ELSE tpc' = [tpc EXCEPT ![t] = "wait"] /\ want' = [want EXCEPT ![t] = s]
    /\ UNCHANGED <<booted, made, slot, disposed, owner, hand, queueMade, queueOf, pending,
                   clock, drainVars, wasEmpty>>

(* ... then take the lock ...                                                        *)
Enter(t) ==
    /\ tpc[t] = "wait" /\ owner[LockOf(want[t])] = None
    /\ owner' = [owner EXCEPT ![LockOf(want[t])] = t]
    /\ tpc' = [tpc EXCEPT ![t] = "inside"]
    /\ UNCHANGED <<booted, made, slot, disposed, want, hand, uses, queueMade, queueOf, pending,
                   clock, drainVars, wasEmpty>>

Leave(t) ==
    /\ owner' = [owner EXCEPT ![LockOf(want[t])] = None]
    /\ want' = [want EXCEPT ![t] = None]
    /\ tpc' = [tpc EXCEPT ![t] = IF t = Main THEN "ensure" ELSE "idle"]

(* Without the second look under the lock. *)
MutantLookAgain(t) ==
    /\ tpc[t] = "inside" /\ tpc' = [tpc EXCEPT ![t] = "build"]
    /\ UNCHANGED <<booted, objectVars, uses, queueMade, queueOf, pending, clock, drainVars, wasEmpty>>

(* ... and look again. init_repository does the same without the first look.          *)
LookAgain(t) ==
    /\ tpc[t] = "inside"
    /\ IF slot[want[t]] # None THEN Leave(t)
       ELSE tpc' = [tpc EXCEPT ![t] = "build"] /\ UNCHANGED <<owner, want>>
    /\ UNCHANGED <<booted, made, slot, disposed, hand, uses, queueMade, queueOf, pending, clock,
                   drainVars, wasEmpty>>

(* The slot is empty: build the object, store it, and give the lock back.             *)
Build(t) ==
    /\ tpc[t] = "build" /\ Len(made) < MaxMade
    /\ made' = Append(made, want[t])
    /\ slot' = [slot EXCEPT ![want[t]] = Len(made) + 1]
    /\ Leave(t)
    /\ UNCHANGED <<booted, disposed, hand, uses, queueMade, queueOf, pending, clock, drainVars,
                   wasEmpty>>

(* create_engine raises: the with statement gives the lock back, the caller sees it.  *)
BuildFails(t) ==
    /\ tpc[t] = "build" /\ want[t] \in Urls
    /\ Leave(t)
    /\ UNCHANGED <<booted, made, slot, disposed, hand, uses, queueMade, queueOf, pending, clock,
                   drainVars, wasEmpty>>

(* dispose_engine and dispose_all_engines take engines out of the cache under the     *)
(* lock (one URL, or all) ...                                                        *)
TakeOut(t, urls) ==
    /\ MayCall(t) /\ owner["_engine_cache_lock"] = None
    /\ uses' = [uses EXCEPT ![t] = @ + 1]
    /\ hand' = [hand EXCEPT ![t] = {slot[u] : u \in urls} \ {None}]
    /\ slot' = [s \in Slots |-> IF s \in urls THEN None ELSE slot[s]]
    /\ tpc' = [tpc EXCEPT ![t] = "dispose"]
    /\ UNCHANGED <<booted, made, disposed, owner, want, queueMade, queueOf, pending, clock,
                   drainVars, wasEmpty>>

DisposeEngine(t) == \E u \in Urls : TakeOut(t, {u})
DisposeAllEngines(t) == TakeOut(t, Urls)

(* ... and dispose of them after the lock is given back.                             *)
Dispose(t) ==
    /\ tpc[t] = "dispose"
    /\ IF hand[t] = {} THEN tpc' = [tpc EXCEPT ![t] = "idle"] /\ UNCHANGED <<hand, disposed>>
       ELSE \E e \in hand[t] : /\ disposed' = disposed \cup {e}
                               /\ hand' = [hand EXCEPT ![t] = @ \ {e}] /\ tpc' = tpc
    /\ UNCHANGED <<booted, made, slot, owner, want, uses, queueMade, queueOf, pending, clock,
                   drainVars, wasEmpty>>

(* ---------------------------------------------------------- the registry of queues *)

(* get_apilog_queue, on every audited request.                                        *)
AskQueue(t) ==
    /\ MayCall(t)
    /\ uses' = [uses EXCEPT ![t] = @ + 1] /\ tpc' = [tpc EXCEPT ![t] = "ensure"]
    /\ UNCHANGED <<booted, objectVars, queueMade, queueOf, pending, clock, drainVars, wasEmpty>>

(* _ensure_queue: get_queue under the registry's lock; KeyError leads to the           *)
(* constructor. The thread that runs ready() comes here first, at the end of           *)
(* init_repository.                                                                   *)
EnsureGet(t) ==
    /\ tpc[t] = "ensure"
    /\ tpc' = [tpc EXCEPT ![t] = IF queueOf["api_log"] # None THEN "idle" ELSE "create"]
    /\ UNCHANGED <<booted, objectVars, uses, queueMade, queueOf, pending, clock, drainVars, wasEmpty>>

Construct(q) ==
    /\ queueMade' = Append(queueMade, q)
    /\ queueOf' = [queueOf EXCEPT ![q] = Len(queueMade) + 1]

(* The constructor registers the queue under its name, whatever was there. When ready() *)
(* has made it, requests are served.                                                  *)
EnsureCreate(t) ==
    /\ tpc[t] = "create" /\ Construct("api_log")
    /\ tpc' = [tpc EXCEPT ![t] = "idle"] /\ booted' = (booted \/ t = Main)
    /\ UNCHANGED <<objectVars, uses, pending, clock, drainVars, wasEmpty>>

(* Another queue is made where its module is imported, which happens once.             *)
ImportQueue(q) ==
    /\ q # "api_log" /\ queueOf[q] = None /\ Construct(q)
    /\ UNCHANGED <<booted, objectVars, tpc, uses, pending, clock, drainVars, wasEmpty>>

(* A task is queued, or a queue's consumer takes one.                                 *)
Submit(q) ==
    /\ booted /\ queueOf[q] # None /\ pending[q] < MaxPending
    /\ pending' = [pending EXCEPT ![q] = @ + 1]
    /\ UNCHANGED <<booted, objectVars, tpc, uses, queueMade, queueOf, clock, drainVars, wasEmpty>>

Consume(q) ==
    /\ pending[q] > 0
    /\ pending' = [pending EXCEPT ![q] = @ - 1]
    /\ wasEmpty' = IF pending[q] = 1 THEN wasEmpty \cup {q} ELSE wasEmpty
    /\ UNCHANGED <<booted, objectVars, tpc, uses, queueMade, queueOf, clock, drainVars>>

(* ------------------------------------------------------------------------ drain_all *)

Tick ==
    /\ clock < MaxClock /\ clock' = clock + 1
    /\ IF dpc = "sleep" THEN dpc' = "poll" /\ slept' = slept + 1 ELSE UNCHANGED <<dpc, slept>>
    /\ UNCHANGED <<booted, objectVars, tpc, uses, queueMade, queueOf, pending, todo, deadline,
                   qdeadline, verdict, wasEmpty>>

(* One deadline for all queues; the loop runs over a snapshot of the registry.         *)
DrainAll ==
    /\ booted /\ dpc = "idle"
    /\ deadline' = clock + Timeout /\ dpc' = "next"
    /\ todo' = {q \in Queues : queueOf[q] # None}
    /\ wasEmpty' = {q \in Queues : pending[q] = 0}
    /\ UNCHANGED <<booted, objectVars, tpc, uses, queueMade, queueOf, pending, clock, qdeadline,
                   verdict, slept>>

(* Every queue gets the whole timeout. *)
MutantDrainNext ==
    /\ dpc = "next" /\ todo # {}
    /\ qdeadline' = clock + Timeout
    /\ dpc' = "poll"
    /\ UNCHANGED <<booted, objectVars, tpc, uses, queueMade, queueOf, pending, clock, todo,
                   deadline, verdict, slept, wasEmpty>>

(* The next queue gets what is left of the budget: max(0, deadline - now).             *)
DrainNext ==
    /\ dpc = "next" /\ todo # {}
    /\ qdeadline' = clock + (IF deadline > clock THEN deadline - clock ELSE 0)
    /\ dpc' = "poll"
    /\ UNCHANGED <<booted, objectVars, tpc, uses, queueMade, queueOf, pending, clock, todo,
                   deadline, verdict, slept, wasEmpty>>

DrainDone ==
    /\ dpc = "next" /\ todo = {} /\ dpc' = "done"
    /\ UNCHANGED <<booted, objectVars, tpc, uses, queueMade, queueOf, pending, clock, todo,
                   deadline, qdeadline, verdict, slept, wasEmpty>>

(* drain(): empty ends it, the deadline ends it with False, else sleep and poll.       *)
DrainPoll(q) ==
    /\ dpc = "poll" /\ q = CHOOSE x \in todo : TRUE
    /\ IF pending[q] > 0 /\ clock < qdeadline
       THEN dpc' = "sleep" /\ UNCHANGED <<todo, verdict>>
       ELSE dpc' = "next" /\ todo' = todo \ {q} /\ verdict' = (verdict /\ pending[q] = 0)
    /\ UNCHANGED <<booted, objectVars, tpc, uses, queueMade, queueOf, pending, clock, deadline,
                   qdeadline, slept, wasEmpty>>

SharedNext ==
    \/ \E t \in AllThreads : Enter(t) \/ LookAgain(t) \/ Build(t) \/ BuildFails(t) \/ Dispose(t) \/ AskQueue(t)
          \/ EnsureGet(t) \/ EnsureCreate(t) \/ DisposeEngine(t) \/ DisposeAllEngines(t)
          \/ \E s \in Slots : Look(t, s)
    \/ \E q \in Queues : ImportQueue(q) \/ Submit(q) \/ Consume(q) \/ DrainPoll(q)
    \/ Tick \/ DrainAll \/ DrainNext \/ DrainDone

SharedSpec == SharedInit /\ [][SharedNext]_sharedVars

------------------------------------------------------------------------------
(* What must hold. *)

(* Nothing that was built is orphaned: an engine is in the cache slot it was built     *)
(* for, or in the hands of one thread that took it out to dispose of it, or disposed   *)
(* of, and not two of these; the audit log's backend is built once; and although        *)
(* _ensure_queue checks and creates without a lock, no queue is replaced in the         *)
(* registry, where drain_all would not find it.                                       *)
ObjectsAccountedFor ==
    /\ \A i \in DOMAIN made : slot[made[i]] = i \/ i \in disposed \/ \E t \in AllThreads : i \in hand[t]
    /\ \A t \in AllThreads : \A i \in hand[t] : i \notin disposed /\ slot[made[i]] # i
    /\ \A t, u \in AllThreads : t # u => hand[t] \cap hand[u] = {}
    /\ \A s \in Slots : slot[s] \notin disposed
    /\ \A i, j \in DOMAIN made : made[i] = "backend" /\ made[j] = "backend" => i = j
    /\ \A i \in DOMAIN queueMade : queueOf[queueMade[i]] = i

(* drain_all is bounded by its one budget however many queues there are, and when it   *)
(* answers True every registered queue was empty at some moment since it was called.    *)
DrainAllHonest ==
    /\ slept <= Timeout
    /\ dpc = "done" /\ verdict => \A q \in Queues : queueOf[q] # None => q \in wasEmpty
==============================================================================
