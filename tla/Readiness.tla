------------------------------ MODULE Readiness ------------------------------
(* The probes of core/lifecycle/healthcheck.py behind the views health_check and     *)
(* readiness_check. Dependencies come and go while a request walks through its        *)
(* probes, the orchestrator asks again and again, and the cache probe is what brings  *)
(* a backend that was built without Valkey out of its in-memory fallback.             *)
EXTENDS Naturals, Sequences, FiniteSets

CONSTANTS Askers,       \* callers of the two endpoints
          MaxFaults     \* bound: outages, evictions and failures of the recovery

Deps == {"database", "cache", "celery_broker"}

ASSUME ReadinessAssumption == MaxFaults \in Nat

VARIABLES
    up,         \* the dependencies that answer
    sentinel,   \* the key _health_check is in the cache
    fallback,   \* a backend of the kit is in BOOT_FALLBACK
    ask,        \* per caller, the view asked: none, health or ready
    stage,      \* per caller, the probes left, the first one under way
    gotSet,     \* per caller, the cache probe has done its set()
    healthy,    \* per caller, the probes that came back healthy
    reply,      \* per caller, the status code, 0 until it is sent
    wasUp, wasDown,
                \* history, per caller: dependencies that answered, and that did not, at
                \* some moment since the request came
    faults

readyVars == <<up, sentinel, fallback, ask, stage, gotSet, healthy, reply, wasUp, wasDown, faults>>
requestVars == <<ask, stage, gotSet, healthy, reply>>

ReadinessTypeOK ==
    /\ up \subseteq Deps /\ sentinel \in BOOLEAN /\ fallback \in BOOLEAN
    /\ ask \in [Askers -> {"none", "health", "ready"}] /\ stage \in [Askers -> Seq(Deps)]
    /\ gotSet \in [Askers -> BOOLEAN] /\ healthy \in [Askers -> SUBSET Deps]
    /\ reply \in [Askers -> {0, 200, 503}] /\ faults \in 0..MaxFaults
    /\ wasUp \in [Askers -> SUBSET Deps] /\ wasDown \in [Askers -> SUBSET (Deps \cup {"sentinel"})]

ReadinessInit ==
    /\ up \in SUBSET Deps /\ sentinel = FALSE
    /\ fallback = ("cache" \notin up)      \* the kit pings Valkey when it is built
    /\ ask = [a \in Askers |-> "none"] /\ stage = [a \in Askers |-> <<>>]
    /\ gotSet = [a \in Askers |-> FALSE] /\ healthy = [a \in Askers |-> {}]
    /\ reply = [a \in Askers |-> 0]
    /\ wasUp = [a \in Askers |-> {}] /\ wasDown = [a \in Askers |-> {}] /\ faults = 0

(* The checks each view passes to run_checks.                                         *)
Checks(view) == IF view = "health" THEN <<"database">> ELSE <<"database", "cache", "celery_broker">>

(* ------------------------------------------------------------------- dependencies *)

Serving(a) == ask[a] # "none" /\ reply[a] = 0
Note(ups, downs) ==
    /\ wasUp' = [a \in Askers |-> IF Serving(a) THEN wasUp[a] \cup ups ELSE wasUp[a]]
    /\ wasDown' = [a \in Askers |-> IF Serving(a) THEN wasDown[a] \cup downs ELSE wasDown[a]]

(* A dependency fails, or comes back. A cache that restarts is empty.                  *)
Flip(d) ==
    /\ d \in up => faults < MaxFaults
    /\ faults' = IF d \in up THEN faults + 1 ELSE faults
    /\ up' = IF d \in up THEN up \ {d} ELSE up \cup {d}
    /\ sentinel' = (sentinel /\ d # "cache")
    /\ Note(up', Deps \ up')
    /\ UNCHANGED <<fallback, requestVars>>

(* The five seconds of the key run out, or it is evicted.                             *)
Evict ==
    /\ sentinel /\ faults < MaxFaults /\ sentinel' = FALSE /\ faults' = faults + 1
    /\ Note(up, {"sentinel"}) /\ UNCHANGED <<up, fallback, requestVars>>

(* ------------------------------------------------------------------------ requests *)

Ask(a) ==
    \E view \in {"health", "ready"} :
        /\ ~Serving(a) /\ reply' = [reply EXCEPT ![a] = 0]
        /\ ask' = [ask EXCEPT ![a] = view] /\ stage' = [stage EXCEPT ![a] = Checks(view)]
        /\ wasUp' = [wasUp EXCEPT ![a] = up] /\ wasDown' = [wasDown EXCEPT ![a] = Deps \ up]
        /\ UNCHANGED <<up, sentinel, fallback, gotSet, healthy, faults>>

At(a, d) == stage[a] # <<>> /\ Head(stage[a]) = d

(* run_checks stops at the first probe that is not healthy. *)
MutantEndProbe(a, ok) ==
    /\ stage' = [stage EXCEPT ![a] = IF ok THEN Tail(@) ELSE <<>>]
    /\ healthy' = [healthy EXCEPT ![a] = IF ok THEN @ \cup {Head(stage[a])} ELSE @]

(* run_checks: the result is kept and the next probe runs, whatever the result.         *)
EndProbe(a, ok) ==
    /\ stage' = [stage EXCEPT ![a] = Tail(@)]
    /\ healthy' = [healthy EXCEPT ![a] = IF ok THEN @ \cup {Head(stage[a])} ELSE @]

(* db_check and celery_broker_check fold any exception into an unhealthy result.        *)
Probe(a) ==
    \E d \in {"database", "celery_broker"} :
        /\ At(a, d) /\ EndProbe(a, d \in up)
        /\ UNCHANGED <<up, sentinel, fallback, ask, gotSet, reply, wasUp, wasDown, faults>>

(* cache_check: set() raises when the cache is away ...                                *)
CacheSet(a) ==
    /\ At(a, "cache") /\ ~gotSet[a]
    /\ IF "cache" \in up
       THEN sentinel' = TRUE /\ gotSet' = [gotSet EXCEPT ![a] = TRUE] /\ UNCHANGED <<stage, healthy>>
       ELSE EndProbe(a, FALSE) /\ UNCHANGED <<sentinel, gotSet>>
    /\ UNCHANGED <<up, fallback, ask, reply, wasUp, wasDown, faults>>

(* ... get() may raise too, or miss: "round-trip failed" ...                           *)
CacheGetFails(a) ==
    /\ At(a, "cache") /\ gotSet[a] /\ ~("cache" \in up /\ sentinel)
    /\ EndProbe(a, FALSE)
    /\ UNCHANGED <<up, sentinel, fallback, ask, gotSet, reply, wasUp, wasDown, faults>>

(* ... on a hit attempt_recover_all rebuilds the backends ...                          *)
CacheGetRecovers(a) ==
    /\ At(a, "cache") /\ gotSet[a] /\ "cache" \in up /\ sentinel
    /\ fallback' = FALSE /\ EndProbe(a, TRUE)
    /\ UNCHANGED <<up, sentinel, ask, gotSet, reply, wasUp, wasDown, faults>>

(* The exception reaches the outer handler. *)
MutantRecoverFails(a) ==
    /\ At(a, "cache") /\ gotSet[a] /\ "cache" \in up /\ sentinel
    /\ faults < MaxFaults /\ faults' = faults + 1 /\ EndProbe(a, FALSE)
    /\ UNCHANGED <<up, sentinel, fallback, ask, gotSet, reply, wasUp, wasDown>>

(* ... and if that raises, it is logged: the cache itself is healthy.                   *)
RecoverFails(a) ==
    /\ At(a, "cache") /\ gotSet[a] /\ "cache" \in up /\ sentinel
    /\ faults < MaxFaults /\ faults' = faults + 1 /\ EndProbe(a, TRUE)
    /\ UNCHANGED <<up, sentinel, fallback, ask, gotSet, reply, wasUp, wasDown>>

(* The view answers 200 if every result is healthy, else 503; who may see the details   *)
(* of the checks does not matter here.                                                *)
Answer(a) ==
    /\ Serving(a) /\ stage[a] = <<>>
    /\ reply' = [reply EXCEPT ![a] =
                   IF \A i \in DOMAIN Checks(ask[a]) : Checks(ask[a])[i] \in healthy[a] THEN 200 ELSE 503]
    /\ healthy' = [healthy EXCEPT ![a] = {}] /\ gotSet' = [gotSet EXCEPT ![a] = FALSE]
    /\ UNCHANGED <<up, sentinel, fallback, ask, stage, wasUp, wasDown, faults>>

Serve(a) ==
    Probe(a) \/ CacheSet(a) \/ CacheGetFails(a) \/ CacheGetRecovers(a) \/ RecoverFails(a) \/ Answer(a)

ReadinessNext ==
    \/ \E d \in Deps : Flip(d)
    \/ Evict
    \/ \E a \in Askers : Ask(a) \/ Serve(a)

ReadinessSpec == ReadinessInit /\ [][ReadinessNext]_readyVars

AskReady(a) == Ask(a) /\ ask'[a] = "ready"

(* The server finishes a request, and the orchestrator keeps polling readiness.         *)
ReadinessFairness == \A a \in Askers : WF_readyVars(Serve(a)) /\ SF_readyVars(AskReady(a))

------------------------------------------------------------------------------
(* What must hold. *)

(* What a view's 503 may be due to: the dependencies it probes, and for readiness the        *)
(* sentinel of its cache probe.                                                             *)
Suspects(view) ==
    {Checks(view)[i] : i \in DOMAIN Checks(view)} \cup (IF view = "ready" THEN {"sentinel"} ELSE {})

(* An answer is about the time of its request: 200 means that each dependency the view      *)
(* asked for probes answered at some moment of it (not all at the same one), and 503 that    *)
(* one of these was away, or readiness lost the sentinel meanwhile. What the view does not   *)
(* probe (the cache and the broker, for health_check) or a failure of the recovery alone     *)
(* never turns traffic away from a node.                                                    *)
AnswersAboutRequest ==
    \A a \in Askers :
        /\ reply[a] = 200 => \A i \in DOMAIN Checks(ask[a]) : Checks(ask[a])[i] \in wasUp[a]
        /\ reply[a] = 503 => wasDown[a] \cap Suspects(ask[a]) # {}

(* A backend that started without Valkey does not stay in its fallback: once the cache     *)
(* stays up, polling recovers it, whatever the database and the broker do.                *)
FallbackRecovers == <>[]("cache" \in up) => <>(~fallback)
==============================================================================
