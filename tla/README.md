# A verification project for django_boilerplate

TLA+ modules that model the concurrent core of the repository, TLC
configurations that check them on small instances, and TLAPS proofs that carry
the most important properties to every instance. Paths below are relative to
`src/`; `PROJECT.json` maps every definition to the lines it models.

## 1. The system

A Django service template, run by gunicorn with threaded workers on PostgreSQL
at READ COMMITTED without `ATOMIC_REQUESTS`, with Celery workers beside it. Its
own code is `apps/core` (infrastructure) and `apps/accounts` (users, API keys,
tokens). Resilience (retries, circuit breakers, rate limits) is the external
`resilience_kit`; tokens are `simplejwt`'s, social login is `allauth`'s.

### Inventory

| Component | State | Operations | Interacts with | Hard part | Correct when |
|---|---|---|---|---|---|
| Fire-and-forget queue, `core/dispatch` | bounded `queue.Queue`, executor, drop counter, stop and drained events | `submit`, `_consume_loop`, `drain`, `stop`, `drain_all` | every producer thread; the audit log | four kinds of threads, timeouts, shutdown | FIFO, nothing lost before teardown, exact counters, `stop` ends |
| API audit log, `core/api_log` | rows under way, table `api_logs` | `log_inbound`, `log_outbound`, `capture_and_dispatch`, `persist` | views, services, the queue, the request context | row written on another thread, each step may fail | caller unaffected, rows truthful, no silent loss |
| Request context, `core/context`, `core/middleware` | a context variable per thread | bind, read, reset | logs and rows | threads are reused | the id is the call's |
| Service layer, `core/base/service.py` | rows with `is_active`, `updated_by` | `create`, `update`, soft and hard `delete`, cascade | all domain services | transactions that interleave statement by statement | cascades complete and within their tree, no revival |
| Exception handler, `core/exceptions/handler.py` | list of mappings, frozen copy, lock | `register_exception_mapping`, `_get_status_map`, `api_exception_handler` | every view | double-checked locking | no lost mapping, stable statuses |
| API keys, `accounts` | table of keys, debounce cache | authenticate, create, revoke, delete, admin form | views, admin | unlocked reads, whole-row saves | a revoked key stays revoked, prefixes unique |
| Refresh tokens, `accounts/views.py` | `simplejwt`'s tables | login, `token_refresh`, `logout` | clients | read, check and write are separate statements | old and new never both good |
| Auth registry and composite, `core/auth` | registries filled by `ready()` | register, build the chain, authenticate | every view | order of providers, one that raises | first credential decides, else 401 or 403 |
| Permissions and RBAC, `core/permissions.py`, `accounts/backends.py` | two caches per request, roles and permissions, Django's `is_superuser` | check with and without the request, `has_perm`, `has_module_perms` | views, admin | roles change between two checks | granted only what was held, one answer per request to checks that pass it, admin and API agree but for `is_superuser` |
| Users: signup, social login, profile | rows of users and roles | `save_user`, link, `PATCH /me`, the admin's change form | permissions | several queries per transaction, a form that saves what its page showed | whole users or none, no fields lost between requests |
| Shared objects: `utils/db.py`, `api_log/factory.py`, the registry of queues | engines, backend, queues, locks | `get_engine`, dispose, `init_repository`, `_ensure_queue`, `drain_all` | all threads | double-checked locking against dispose; one unlocked check | nothing orphaned, one deadline for all queues |
| Outbound clients, `utils/s3.py`, `utils/ses.py` | an object, deliveries, a breaker per service | the helpers | AWS, the audit log | lost responses, retries, other writers | a result is true of one attempt |
| Exception classes | hierarchy with status codes | `isinstance`, choice of a status | handler, retries, breakers | several readers of one hierarchy | a failure of a service is 502, an absent object opens no breaker |
| Settings, `config/settings` | three layers of configuration | start of a process | everything | restarts, an outage of Secrets Manager | no developer's fallback when deployed |
| Health checks, `core/lifecycle` | the backends' fallback, a sentinel key | probe, recover | orchestrator | dependencies come and go during a request | answers about the request, recovery |
| Sanitizers, `api_log/sanitizers.py`, `utils/log_sanitization.py` | none | mask, cap, summarise | audit rows | nesting, caps, order of steps | nothing sensitive in a row |
| Reads, `service.py`, `repository.py`, `responses/paginated.py` | rows, a dictionary of filters | `list`, `list_paginated` | all domain services | lazy queries between writes, in the model's order or in none | no row twice or missed as far as the order allows, deleted rows shown to who asks |
| Metrics, throttles, responses, schemas, Celery topology, lint scripts | none at run time | | | | not modelled (section 5) |

The hazards this gives rise to, each at its line and with the properties that
cover it, are listed in `PROJECT.json`.

## 2. The modules

    BestEffortDispatch        what a fire-and-forget queue promises
      ^ implemented by          ^ used as the queue
    FireAndForget             ApiLogPipeline
    FireAndForgetProofs       ApiLogProofs

    StatusMap      <- MCStatusMap, StatusMapProofs
    SoftDelete     <- MCSoftDelete, SoftDeleteProofs
    TokenRotation  <- TokenRotationProofs
    ApiKeys, ApiKeyCreation                         <- MCApiKeys, ApiKeysProofs
    AccountStore <- RequestAccess                   <- MCRequestAccess, RequestAccessProofs
    SharedObjects, ExceptionClasses <- OutboundCalls <- MCProcess
    SettingsBoot, Readiness, AuditText, Listing     <- MCOperations
    SharedObjects, OutboundCalls, SettingsBoot, Readiness, Listing <- ProcessProofs
    AuditText                                       <- ApiLogProofs

The modules of one MC module either share state (`AccountStore` and
`RequestAccess`) or are independent; then a variable `part` picks the one a
behaviour is about.

**BestEffortDispatch** is the abstract queue: a task is accepted or refused
once, accepted tasks begin in the order of acceptance, and until teardown the
next one does begin.

**FireAndForget** models one `FireAndForgetQueue`. Each step is one operation
the interpreter performs atomically: a `Queue` call, an `Event` call, the load
or the store of `_dropped`, an executor call. `pc[t]` is the thread that submits
`t`, `cpc` the consumer, `running[w]` an executor thread, `dpc` and `spc` the
callers of `drain` and `stop`. `InterpreterExit` is the exit handler of
`concurrent.futures`, after which `executor.submit` raises with nobody having
called `stop`. A timeout may expire whenever the code would notice it. The
executor is external. `Promise` is the refinement mapping to the abstract queue:
a task is refused from the moment `put_nowait` raised, and the queue is closed
once the stop event is set or the executor refuses.

**ApiLogPipeline** composes the audit log with the abstract queue. `stack[th]`
holds the wrapped calls on a request thread, so that an outbound call is nested
in the inbound one; `stage[c]` is the position in `capture_and_dispatch`. Build,
dispatch and persist may each fail. The rows carry what the properties tell
apart: the call, the request id read while building, what the callable did.

**StatusMap** models the list, its frozen copy and the lock of the exception
handler, one load or store at a time. `due[h]` remembers which registrations had
returned when handler `h` began. An exception with a `status_code` of its own
does not consult the map and is left out.

**SoftDelete** models `BaseService.delete`, `update` and `create`,
`BaseRepository.update`, which also writes inactive rows, and hard deletes as
transactions. A step is one statement; row locks, uncommitted writes
(`dirty`) and the two queries of the cascade (`list(related_qs)` and
`related_qs.update`) are explicit. `create` takes the foreign key's KEY SHARE
lock on the parents. Assumptions: a model has one CASCADE relation, an UPDATE
of several rows gets its locks together, and no foreign key dangles (what refers to a
row that does not exist yet does not exist yet). `reach[d]` remembers the tree as it was
when the delete locked its root. A hard delete is one step: Django collects the
tree and deletes it bottom up, and a row created below it meanwhile makes the
foreign key check fail, so a call that ends well removes the tree as it is at its
end. `save()` of a row that is gone is an INSERT, which is why `NoRevival` is also
about rows that were removed.

**ApiKeys** has the statements of authentication, revoke, soft delete and the
admin's change form on shared rows. The change form reads without a lock and
saves all columns; `clobbered` remembers the keys to which it wrote an outdated
column. **ApiKeyCreation** has the statements of `create_key`: `full_clean`'s
query, the INSERT that waits for an uncommitted row with the same prefix, and
the admin's surrounding transaction, which an `IntegrityError` breaks.

**TokenRotation** has the statements of `token_refresh` and `logout` in
autocommit mode. Verification (signature, expiry, blacklist) and
`RefreshToken.for_user` are external; a `blacklist()` is a `get_or_create`.
`deadOnArrival` remembers the requests whose token was of no use when verified.
Users are disabled and never enabled again.

**AccountStore** has the rows of users and roles: both adapters' `save_user` (the
INSERT, `exists()` on the default roles, their second evaluation, commit), the link
of a social login to an existing user, the redirect allow list, `PATCH /me` with
its row lock, and the admin. `UserAdmin`'s change form is two steps: `OpenForm` reads
the row, without a lock, into `copy`, and `SaveForm` writes all of it back with at most
one field edited, the profile columns included; its UPDATE waits for the row lock of a
PATCH. `formWrote` remembers the columns whose value a form has changed, `bare` the
signups during which there was no default role. `superusers` are the users with
Django's `is_superuser`, which only `create_superuser` sets.

**RequestAccess** extends it by the way of a request: `ready()` registers the
providers and resources, the composite walks the enabled ones in order, and
`user_has_permission` asks its two caches and then the rows, while the admin changes
them. The view's check passes the request; a later check may leave it out
(`passed[r]`), and then only `has_superuser_role` is cached. `everHeld[r]` remembers
what the user of `r` held since authentication. The admin site's `has_perm` and
`has_module_perms` are operators over the same rows: `RBACBackend`'s
(`BackendHasPerm`, `BackendHasModulePerms`) behind those of `PermissionsMixin`, which
answer yes to an active user with `is_superuser` without asking a backend.

**SharedObjects** has `get_engine` and `get_backend` (the unlocked look, the lock, the
second look, building, which may fail), disposal, the unlocked `_ensure_queue`, the
registry of queues and `drain_all`, whose time is the number of polls it has slept.
`made` and `queueMade` list everything ever built.

**ExceptionClasses** is the exception hierarchy as a function from names to bases and
class level status codes, with `isinstance` and the handler's choice. (An audit row has
no status for a failed call; `exception_wire_status` has no caller.) **OutboundCalls** uses
it: calls of the S3 and SES helpers, each an attempt at a time, where a request is refused, is lost, or is carried out and its response
lost; other programs rewrite the object. The retry loop and the breaker are
`resilience_kit`'s and modelled from the policies in `config/settings/base.py` and
`core/apps.py`.

**SettingsBoot** runs `config/settings/__init__.py` from DJANGO_ENV to the merge. A
value keeps the layer it comes from and what the checks look at: unset, empty, weak or
good. **Readiness** walks the probes of a request one at a time while dependencies
fail and return; a healthy cache probe calls the recovery. `/health` probes the database
only, and a 503 of it must be the database's (`Suspects`). **AuditText** evaluates the
sanitizers on trees of dictionaries and lists, on multipart forms and on headers. The
recursion of `_sanitize_value` is a recursive function of the depth that is left,
which gives for every value of a set (`Values`, closed under contents) the texts that
reach the row. `SANITIZE_ENABLED` is on; a raw body is what its JSON parses to, or one
text, which has no names to mask by and is taken to hold no secret (what a urlencoded
body holds is stored as it came, a finding); lengths are left out. **Listing** reads
page after page while rows are created and deleted; a query runs when it is fetched, not
when `list()` is called. The order of a query is one of `Orders`, which give each row a
rank: a caller's `order_by`, which only `list()` takes, or the model's
`Meta.ordering`, newest first for users and keys; or there is none, and a page is then
any rows, as many as the slice has. With an order it is the rows whose `Place` among
the active ones is in the slice; `again` remembers the keys that were shown twice,
`stale` that a row came after the count had said that a page is the last. `dict[c]` is the
dictionary of a caller, which `list()` marks with `is_active` unless it is empty; the
auditor, which asks for deleted rows as well, passes its own or the walker's
(`passes`), and is answered or, under an allow list without `is_active`, refused.

## 3. What the runs check

Each run gives every property a mutant: a plausible bug in one of the modelled
functions under which TLC finds the property violated.

| Run | Instance | States | Shows |
|---|---|---|---|
| `fire_and_forget` | 3 tasks, 2 workers, capacity 1 | 640,812 | order and conservation, exact drop counter and distinct warnings under overflow, `task_done` balance, quiet after `stop`, `drain`, refinement of `BestEffortDispatch` with its liveness, `stop` terminates |
| `api_log` | 2 threads, 2 requests, 1 outbound call | 84,014 | the wrapper is observability only, rows are truthful, outbound rows come first, each call ends in the table or in the log |
| `status_map` | 3 registrations, 2 classes, 2 handlers | 43,754 | the unlocked look is sound, no mapping is lost, statuses agree, handlers answer |
| `soft_delete` | 6 rows, 2 deletes, 1 update, 1 hard delete, cap 2 | 688,670 | cascades complete and confined, attributed, atomic, no revival, every delete ends, each statement leaves it less to do |
| `api_keys` | 1 key, 2 clients, 2 revokers, deleter, editor; 3 creations on 3 prefixes, 2 tries | 109,468 | `revoked_at` is set once and stays, one revoker is told so, use is recorded; creation makes a whole key with a prefix of its own or none, and ends |
| `token_rotation` | 2 users, 3 tokens, 2 refreshes, 1 logout | 4,465,940 | old and new never both good, chains keep their owner, a dead token mints nothing, no session ends but by a swap, its owner or an error the client saw |
| `access` | 3 signups, 3 PATCH, 3 requests, 2 changes by the admin | 1,445,301 | whole users or none, no profile field lost between requests or invented, no grant of what was never held, one answer per request to checks that pass it, side bar and pages agree, and the API with them but for `is_superuser` |
| `process` | 2 threads, 1 URL, 2 queues; 3 calls in 4 mixes | 1,240,673 | no shared object is orphaned or built twice, `drain_all` keeps to its deadline and its True is about all queues; results are true of an attempt, absent objects do not open the breaker |
| `operations` | see below | 1,088,793 | no developer's fallback in a deployed process, layers in order, health and readiness answers about the request and recovery, nothing sensitive in rows, faithful pages, deleted rows for who asks for them |
| `revoked_key` | | violation | an outdated change form makes a revoked key usable |
| `token_successors` | | violation | two overlapping refreshes of a token both mint |
| `prod_boots` | | violation | with every variable set, the prod settings raise NameError |

**Bounds.** Capacity 1 with three producers gives two simultaneous overflows, a
full queue with a task in the consumer's hand, and FIFO over three tasks; the
second worker gives overlapping executions. Two threads and two requests give
reuse of a thread while the earlier row is queued. The tree of `soft_delete` is a
chain of four with a second parent and a row created below the row with two parents,
one level deeper than the cap, so the cap is reached, shared subtrees are contended and
a row is created below one that another cascade has passed; the hard delete is of the
row with two parents (`Removable`). The chain has no cycle and an UPDATE gets its locks
together, so nobody waits in a circle in this run: `DeleteEnds` is about waiting for the
locks of others, not about deadlock. The proofs allow any foreign keys. `CascadeExact`
excepts the rows that are created below the root after it was locked.
Three registrations, two of them for the same class and one for its subclass, give
shadowed mappings. Two tries of `create_key` (three in the code) suffice for a retry
and for giving up. Three tokens give a chain of two rotations and a fork.

In `access`, signups, profile updates and requests are each run against the admin's
changes without the other two: they meet only in rows that the admin changes in the
same ways. Requests run in pairs of the three kinds of credential (a key, a bad token
and a key, none), with three checks each, one more than is needed to ask the same
question on both sides of a change. In `process`, two threads and a third that runs
`ready()` meet at each lock, a budget of two polls can be used up by the first of two
queues, and each helper meets those it can disturb, with two attempts and a breaker
that opens at two failures. In `operations`, one key after the other is filled in
every way in each of the three layers, in two starts, for every environment, an
unknown and an empty one; two callers poll while one fault happens; bodies are
trees two deep with up to two entries, all they contain, and one past the depth cap, forms
are all of three fields, headers come in both cases; pages of 0 to 4 with a cap of 3 are read over four
or five rows, two of which may be deleted, in the order of the key, newest first, in a
third order that puts a new row in the middle, and in none. `BootedIsConfigured` is met by dev and uat:
prod never comes up (the run `prod_boots`), and its case is vacuous until that is
repaired. The caps of `AuditText` (3, 2 and 3) are
smaller than the code's so that bodies reach them. Every instance is finite without a
state constraint: calls are made once, and what recurs is bounded by a named
constant (`MaxChanges`, `MaxUses`, `MaxFaults`, `MaxDeletes` and so on).

**Fairness.** Threads that can go on do so (weak fairness), and every task and
every wrapped callable ends. Requests, `drain` and `stop` need not be called. The
consumer is a daemon thread, so nothing is assumed of it once the interpreter is
exiting. `SF` on taking `_status_map_lock` says that a thread is not overtaken
for ever, which holds because registrations are finitely many. In `soft_delete` a
transaction that waits for a lock need not move until it gets it, and failures
are possible but never required. `create_key` goes on in each call
separately. In `Readiness`, a request that came is served (weak), and
the orchestrator asks again and again (`SF` on `AskReady`), which is what it does. The
fallback is that of one process: with several gunicorn workers (four by default) it is an
assumption that each of them gets such a request now and then, as the kernel hands out
connections. That the cache stays up in the end is the premise of `FallbackRecovers`.

**Deadlock** checking is off in every run: all calls may have ended.

### Findings

Three violation runs, and twenty-three more disagreements between a doc or a comment and
the code noted while modelling, are under `findings`. The ones to know: a change form
saved late brings a revoked key back; overlapping refreshes of one token both mint; the
prod settings use `_env_int`, which their star import does not bring; `stop()` abandons
queued tasks and `drain()` answers while the consumer still holds one; the `.env` file
wins over Secrets Manager; `retry_on` names the kit's classes, of which the
project's are no subclasses, so no failure of `send_email` is retried (the lemma
`NothingRetried` says so of every exception the helpers raise); `list()` writes
`is_active` into a caller's non-empty dictionary; a change form of a user that is saved
late undoes a finished `PATCH /me`; a user with `is_superuser` and no role may do
everything in the admin and nothing in the API; a urlencoded body is stored unmasked;
`/health` depends on the database, and the row of a failed outbound call has no status,
against what the docs say. `soft_delete` shows one more subtlety,
within what the code promises: a delete that hits `MAX_CASCADE_DEPTH` leaves inactive rows that hide the
active rows below them from later cascades, which is why `CascadeComplete` excepts rows
below a row that another delete's warning named. The proof of `CascadeExact` found a
second: a row that is created below one that a running cascade has already passed stays
active under an inactive parent, and once that cascade commits, a delete from further up
that had the new row in its reach no longer finds it. `Hides` names both cases.

## 4. What is proved

For every instance of the constants, eight proof modules prove the safety
properties and action properties that the runs check (all but `OptInHonoured`) of `FireAndForget`,
`ApiLogPipeline`, `StatusMap`, `TokenRotation`, `SharedObjects`, `ApiKeys`,
`ApiKeyCreation`, `AccountStore`, `RequestAccess`, `SoftDelete`, `OutboundCalls`,
`SettingsBoot`, `Readiness`, `AuditText` and `Listing`, from the named assumptions of these modules
alone: `None` is not a value (nor a Boolean), bounds are natural numbers (those of
attempts, failures and the page size cap not zero), calls of different kinds differ, the rows
of `SoftDelete` are finite and no foreign key dangles, an order of `Listing` gives different
rows different ranks, and `AuditText`'s `Values` are closed under
contents, with the text "secret" in its `Bodies`, `Forms` and `Headers` only under a
name that is masked or left out (which is what the text stands for). What is left to TLC
is at the end of this section.

*FireAndForget.* The inductive invariant adds to the types: `Handed`, the
consumer holds a task exactly between `get` and `submit` and owes one
`task_done` for it (needed for the counter to stay natural); `Aligned`, the
position of each task in the acceptance order (started and waiting tasks cover a
prefix, the queue a suffix, the hand sits before it; without a shutdown they meet);
`AcceptedTasks`, which tasks the order holds; `CountingLocked`, who may be
between the load and the store of `_dropped`; `Stages`, what the program counters
imply. From it follow `TypeCorrect`, `OrderKept`, `TasksAreAccounted`
(order, the balance of `task_done`, quiet after `stop`), `DropsAreAccounted`,
`DrainTrueIsDequeued`, and `Implements`: every step is a step of `BestEffortDispatch`.

*StatusMap.* `LockInv` (who holds the lock is in a critical section),
`BuilderInv` (an appended mapping stays), `CacheCurrent`, `HandlerInv` (a handler
has a prefix of the list, and what it is due is registered) and `AnswerInv` (an
answer is the first match) are inductive together. `CacheHasRegistered` is the
heart: a map found without the lock lacks at most the registration that is about
to drop it, which has not returned. `StatusIsStable` then follows from
`SameFirstMatch`: two prefixes of one list agree on the first match.

*TokenRotation.* `RequestInv` says what a request past its verification knows (its
token is minted, a refresh about to mint has blacklisted it, a logout about to
blacklist is its owner's), `ChainInv` relates a token to its parent, `DeadInv`
says why a dead token is refused in the end (its user is disabled for good).
`EndsAccounted` is inductive with them: a blacklisted token has a successor, is about to
get one, or its end was answered to somebody (200 to its owner's logout, 500 to its
refresh), and neither a minted token nor an answer is ever taken back. `SingleSuccessor` is not among
the consequences: the run `token_successors` refutes it.

*SharedObjects.* `SInv` adds to the types: `Slotted`, what a slot holds was built for
it; `Locked`, a thread in a locked section holds the lock, and one about to build
found the slot empty; `Owned`, an engine that was taken out is in one thread's hands
and in no slot; `EmptyHands`; `Booting` and `Listed`, on the queues. The last two are
why `_ensure_queue` is safe without a lock: `ready()` calls it on the main thread before
a request thread runs, so none of these ever finds the queue missing. `DInv` is `Budget`,
which bounds the time slept by the one deadline, and `Emptied`, that every queue
`drain_all` has passed was seen empty. `NothingOrphaned` and `DrainAllIsHonest` follow.

*ApiKeys.* `KeyInv`: `LockInv`, a revocation between its read and its commit holds the
row's lock and has seen the key unrevoked; `CallInv`, which row each call is about and
that an open form has its copy; `NowInv`, who was told that it revoked the key is the one
on the row; `StampInv`, the use is on the row before its debounce entry is there.
The change form, which takes no lock, is why each conclusion excepts `clobbered` rows.
`CreationInv`: committed and uncommitted rows have distinct prefixes, a transaction that
an `IntegrityError` broke stores nothing.

*AccountStore* and *RequestAccess.* `StoreInv` has the rows: `SignupInv`, one signup at a
time has a row for an email; `BareInv`, a signup without roles has seen that there are no
defaults; `PatchInv`, one PATCH at a time is between SELECT and UPDATE, with an instance
that agrees with the row; `ColumnInv`, what a column and an open form's copy of it hold
was there at the start, was typed by an admin or was written by a finished request, the
last if no form has changed the column; `FormInv`, what an open form holds. Of the last
finished PATCH the invariant says nothing once a form was saved: the form may undo it.
`RequestInv` has the requests: `HeldInv`, what the user holds now, and what a cache says
yes to, is in `everHeld` (hence `GrantWasHeld`); `CachedInv`, every answer so far is what
the caches would answer again if it was given with the request, and yes if there is a
superuser role (hence `OneAnswerPerRequest`); `CheckInv`, with the request the rows are
asked only for a pair that neither cache answers; `FreshInv`, a request that is not
authenticated has empty caches. `AdminMatchesApi` needs no more than the types: lemmas
compare `RBACBackend`'s two methods with the API's rows, and the `is_superuser` users are
the one difference.

*ApiLogPipeline.* `TrailInv`: `StackInv`, which calls a thread is in and that an outbound
call is above its inbound one; `RowInv`, a built row is truthful about its call;
`QueueInv` and `SinkInv`, the rows the queue accepted, those persisted and those lost are
the built ones; `SettledInv` and `OutboundSettledFirst`, a call that is done is accounted
for, outbound first. The queue is used as `BestEffortDispatch` only, which
`FireAndForgetProofs` shows implemented.

*SoftDelete.* `RowsInv`: `LockInv`, a lock is held for exactly the rows written or read
and not committed, and what an update has read under its lock is still so (hence
`NoRevival`); `KnownInv`, what a delete has met exists or existed; `TraceInv`, who
deactivated each inactive row (hence half of `CascadeExact`, and that a failed delete leaves no trace).
`DeleteInv(d)`: `FrontierInv`, the deque is ordered by depth with two depths at most;
`ClosedInv`, a deactivated row has no active child left but for the cap, the deque or a
later creation; `ReachInv`, what is still to come was below the root or was created
since; and `PendingInv`, the heart: each row the delete owes is below a row of its deque,
within what the cap leaves from there, and from a row already dealt with the way to it is
longer than from the deque. The second half is what breadth first order gives, and is
needed when a child is reached again by a second parent. `EnvStep` shows that steps of
others keep `DeleteInv(d)`: rows only leave `active` in sets that hold what is below
them, or hide it. `Below` and `Descendants` are recursive functions; what the proof needs
of them is proved by induction over a set of naturals (`NatSetInduction`), including that
`Cardinality(Rows)` rounds reach every descendant (`DescendantsClosed`).
`CascadesShrink` is the part of termination that can be proved: `Work(d)` counts the rows
that `d` may still list and those in its deque, and a row leaves the first count for good
once it was listed (`RowsOnlyGo`: nothing becomes active again), so a cascade issues at
most `2 * Cardinality(Rows) + 1` statements. What ends it on circular foreign keys is thus
the filter on `is_active`; the cap, which the comment at `core/base/service.py:393` names as
the protection, is not needed for it. That each statement is issued, the locks being free
in the end, is `DeleteEnds`, which TLC checks.

*Readiness.* `RInv` says of a request under way: what is up now, and every probe it has
counted as healthy, was up at a moment of the request; what is down now was down at one;
the probes still to come and those that succeeded are all the view's, unless something
was down; and a sentinel that was written is there unless something was lost. So 200
needs every probe to have succeeded and 503 a loss among what this view probes.
A failing recovery changes none of this, which is why it cannot turn traffic away.

*SettingsBoot.* `BInv`: `Layered`, which layers may have written which key at each stage
of the loader (an overlay writes only what is unset, hence the OS environment wins), and
`Accepted`, a process that is up has the settings its module makes of an environment it
does not refuse. `BootedAreConfigured` is then about operators alone
(`DeployedIsConfigured`): for each of dev, uat and prod, every fallback a setting could
take is ruled out by a refusal. The argument does not use that prod stops on its
NameError, so it stands once that is repaired.

*ExceptionClasses* and *OutboundCalls.* The lemmas walk the hierarchy once: `InstanceOf`
and `NoStatus` along the chain of infrastructure errors, `BadGateway` (the handler
answers 502 to every failure of a service) and `NothingRetried`. `OInv`
has `Breakers`, the failure count never exceeds `harm` and a breaker that is not closed
has had `FailMax` of it, which needs the exclusion of `S3NotFoundError`; and `Honest(c)`,
what the error variable of a call says of its last attempt and of the object at one of
its attempts. That an upload is whole uses `NothingRetried`: a second attempt would send
what is left of a stream that was read.

*Listing.* `LInv`: `Behind`, the rows shown and still active are in the places before the
current page, which deletions only lower and creations leave alone if the order puts new
rows last, so no page shows a row twice; `Slice`, an unevaluated slice is the one of the
current page, cut by the cap; `Covered`, with no deletion and a page size within the cap
each of the first rows has been shown or has its place still ahead (a creation only
raises places), and the walk ends only when no place is ahead: a short page because the
places of the active rows are 1, 2, ... without a gap (`PlacesFilled`, by counting), the
last page of `list_paginated` by the rounding of `total_pages` (`LastPage`) and because
its total was not outdated. `OptInHonoured` is left to TLC.

*AuditText.* A set of values is `Clean` if its members hold a secret under hidden names
only and contain, elsewhere, members of the set. `LevelIsMasked`: one level of the
sanitizer hands up no secret from a clean set if the level below it handed up none. The
levels are counted by a recursive function on the naturals, which `LeftExists` shows to
be well defined and along which `NothingSecretShown` goes up to `MAX_DEPTH + 1` levels,
by induction over a set of naturals (`CountingUp`). Bodies are clean by what "secret"
means; a form's summary is clean (`SummaryIsClean`) unless it shows a field as it came,
since a value taken from `redacted_scalars` is the mask or the last value of a name that
is neither masked nor left out (`RedactedFields`). That is the one exception of
`SecretsMasked`, and it is exact: `OutOfReach` is where the code keeps the value.

Only model-checked: the liveness properties (`KeepsPromise`'s fairness part,
`StopTerminates`, `EventuallySettled`, `DeleteEnds`, `CreationEnds`,
`HandlerAnswers`, `FallbackRecovers`), which are beyond the prover, and `OptInHonoured`.

## 5. Plan

In order, the most important behaviour first:

1. done: the queue and its promise, the audit log on top of it, API keys, tokens,
   soft delete, the status map; proofs for the queue, the status map and token
   rotation.
2. done: users and roles, authentication and permissions; the shared objects with
   `drain_all`, proved; outbound calls; settings, readiness, sanitizing, listing;
   hard deletes.
3. done: proofs for API keys and their creation, users and requests, the audit log and
   the cascades.
4. done: proofs for readiness, the start of a process, outbound calls and paged reads.
5. done: proofs for the sanitizers; every end of a session accounted for; a bound on the
   statements of a cascade.
6. `bulk_create`, `bulk_update` and `cascade_soft_delete=False` of the service layer.

Not modelled, and why: response, envelope and schema layout (formatting); metrics,
`log_duration`, `log_function` and the request log (they only write log lines, and most
are dormant); `/metrics` and `csp_report` (one stateless check each); throttles and
Celery queues (declarations; the counting and the delivery are DRF's and Celery's);
the internals of `resilience_kit` (external, modelled as far as the helpers see it);
building URLs and clients for Valkey, AWS and SQLAlchemy (one call each); settings that
are plain constants; the lint scripts (they read source text); encryption of key secrets
and timing-safe comparison (a client either holds the key or not).
