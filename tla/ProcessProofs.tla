---------------------------- MODULE ProcessProofs -----------------------------
(* Proofs about the parts of a worker process that share no state: its shared objects,  *)
(* its readiness probes, its start, its calls of AWS and its paged reads, each for any    *)
(* number of threads, callers, machines, calls or rows.                                *)
EXTENDS SharedObjects, OutboundCalls, SettingsBoot, Readiness, Listing, FiniteSetTheorems, TLAPS

-------------------------------------------------------------------------------
(* Shared objects. *)

(* What the cache holds was built for its slot.                                       *)
Slotted == \A s \in Slots : slot[s] # None => slot[s] \in DOMAIN made /\ made[slot[s]] = s

(* Whoever is in a locked section holds the lock, and whoever builds found the slot    *)
(* empty: nobody else can have filled it since.                                       *)
Locked ==
    \A t \in AllThreads :
        /\ tpc[t] \in {"wait", "inside", "build"} => want[t] \in Slots
        /\ tpc[t] \in {"inside", "build"} => owner[LockOf(want[t])] = t
        /\ tpc[t] = "build" => slot[want[t]] = None

(* Engines that were taken out are not in the cache, are in one thread's hands only,    *)
(* and are not disposed of yet; the backend is never taken out.                        *)
Owned ==
    /\ disposed \subseteq DOMAIN made
    /\ \A t \in AllThreads : hand[t] \subseteq DOMAIN made
    /\ \A t \in AllThreads : \A i \in hand[t] : i \notin disposed /\ slot[made[i]] # i
    /\ \A t, u \in AllThreads : t # u => hand[t] \cap hand[u] = {}
    /\ \A s \in Slots : slot[s] \notin disposed
    /\ \A i \in DOMAIN made : slot[made[i]] = i \/ i \in disposed \/ \E t \in AllThreads : i \in hand[t]
    /\ \A i \in DOMAIN made : made[i] = "backend" => slot["backend"] = i

EmptyHands == \A t \in AllThreads : tpc[t] # "dispose" => hand[t] = {}

(* Only the thread that runs ready() constructs the audit log's queue, before any      *)
(* request thread runs.                                                              *)
Booting ==
    /\ booted => queueOf["api_log"] # None
    /\ booted => tpc[Main] = "idle"
    /\ ~booted => queueOf["api_log"] = None /\ \A t \in Threads : tpc[t] = "idle"
    /\ ~booted => tpc[Main] \in {"wait", "inside", "build", "ensure", "create"}
    /\ tpc[Main] \in {"wait", "inside", "build"} => want[Main] = "backend"
    /\ \A t \in Threads : tpc[t] # "create"

Listed ==
    /\ \A i \in DOMAIN queueMade : queueOf[queueMade[i]] = i
    /\ \A q \in Queues : queueOf[q] = None => \A i \in DOMAIN queueMade : queueMade[i] # q

SInv == SharedTypeOK /\ Slotted /\ Locked /\ Owned /\ EmptyHands /\ Booting /\ Listed

-------------------------------------------------------------------------------
LEMMA AppendFacts ==
    ASSUME NEW S, NEW s \in Seq(S), NEW e \in S
    PROVE  /\ Append(s, e) \in Seq(S) /\ Len(s) + 1 \in Nat
           /\ DOMAIN Append(s, e) = DOMAIN s \cup {Len(s) + 1} /\ Len(s) + 1 \notin DOMAIN s
           /\ Append(s, e)[Len(s) + 1] = e
           /\ \A i \in DOMAIN s : i \in Nat /\ Append(s, e)[i] = s[i]
  OBVIOUS

LEMMA InitInv == SharedInit => SInv
<1> SUFFICES ASSUME SharedInit PROVE SInv
  OBVIOUS
<1> USE SharedAssumption DEF SharedInit
<1>1. SharedTypeOK
  <2>1. /\ made \in Seq(Slots) /\ queueMade \in Seq(Queues)
        /\ slot \in [Slots -> Nat \cup {None}] /\ queueOf \in [Queues -> Nat \cup {None}]
        /\ owner \in [Locks -> AllThreads \cup {None}] /\ hand \in [AllThreads -> SUBSET Nat]
    OBVIOUS
  <2>2. /\ tpc \in [AllThreads -> {"idle", "wait", "inside", "build", "dispose", "ensure", "create"}]
        /\ want \in [AllThreads -> Slots \cup {None}]
    BY DEF Slots
  <2>3. /\ uses \in [AllThreads -> Nat] /\ pending \in [Queues -> Nat] /\ clock \in Nat
        /\ deadline \in Nat /\ qdeadline \in Nat /\ slept \in Nat
    OBVIOUS
  <2> QED
    BY <2>1, <2>2, <2>3 DEF SharedTypeOK
<1>2. Slotted /\ Owned /\ Listed
  BY DEF Slotted, Owned, Listed
<1>3. Locked /\ Booting /\ EmptyHands
  BY DEF Locked, Booting, EmptyHands, AllThreads, Slots
<1> QED
  BY <1>1, <1>2, <1>3 DEF SInv

(* The steps that touch no cache slot, no engine and no queue.                         *)
LEMMA QuietStep ==
    ASSUME SInv, SharedTypeOK', UNCHANGED <<booted, objectVars, tpc, queueMade, queueOf>>
    PROVE  SInv'
  BY DEF SInv, Slotted, Locked, Owned, Booting, EmptyHands, Listed, objectVars

(* The steps of a thread on the cache leave the registry of queues alone.              *)
LEMMA LookStep ==
    ASSUME SInv, NEW t \in AllThreads, NEW s \in Slots, Look(t, s) PROVE SInv'
<1> USE SharedAssumption DEF Look, MayCall, objectVars, drainVars
<1>1. Slotted' /\ Owned' /\ Listed'
  BY DEF SInv, Slotted, Owned, Listed
<1>2. uses' \in [AllThreads -> Nat]
  BY DEF SInv, SharedTypeOK
<1>3. CASE slot[s] # None
  <2>1. UNCHANGED <<tpc, want>>
    BY <1>3
  <2>2. SharedTypeOK' /\ Locked' /\ Booting' /\ EmptyHands'
    BY <2>1, <1>2 DEF SInv, SharedTypeOK, Locked, Booting, EmptyHands
  <2> QED
    BY <1>1, <2>2 DEF SInv
<1>4. CASE slot[s] = None
  <2>1. tpc' = [tpc EXCEPT ![t] = "wait"] /\ want' = [want EXCEPT ![t] = s]
    BY <1>4
  <2>2. SharedTypeOK'
    BY <2>1, <1>2 DEF SInv, SharedTypeOK
  <2>3. Locked'
    BY <2>1 DEF SInv, Locked, SharedTypeOK
  <2>4. Booting' /\ EmptyHands'
    BY <2>1 DEF SInv, Booting, EmptyHands, SharedTypeOK, AllThreads
  <2> QED
    BY <1>1, <2>2, <2>3, <2>4 DEF SInv
<1> QED
  BY <1>3, <1>4

LEMMA EnterStep ==
    ASSUME SInv, NEW t \in AllThreads, Enter(t) PROVE SInv'
<1> USE SharedAssumption DEF Enter, objectVars, drainVars
<1>0. want[t] \in Slots /\ LockOf(want[t]) \in Locks
  BY DEF SInv, Locked, LockOf, Locks
<1>1. SharedTypeOK'
  BY <1>0 DEF SInv, SharedTypeOK
<1>2. Slotted' /\ Owned' /\ Listed'
  BY DEF SInv, Slotted, Owned, Listed
<1>3. Locked'
  BY <1>0 DEF SInv, Locked, SharedTypeOK, LockOf, Locks
<1>4. Booting' /\ EmptyHands'
  BY DEF SInv, Booting, EmptyHands, SharedTypeOK, AllThreads
<1> QED
  BY <1>1, <1>2, <1>3, <1>4 DEF SInv

LEMMA LeaveFacts ==
    ASSUME SInv, NEW t \in AllThreads, tpc[t] \in {"inside", "build"}, Leave(t)
    PROVE  /\ want[t] \in Slots /\ LockOf(want[t]) \in Locks /\ owner[LockOf(want[t])] = t
           /\ owner' \in [Locks -> AllThreads \cup {None}]
           /\ want' \in [AllThreads -> Slots \cup {None}]
           /\ tpc' \in [AllThreads -> {"idle", "wait", "inside", "build", "dispose", "ensure", "create"}]
           /\ \A l \in Locks : l # LockOf(want[t]) => owner'[l] = owner[l]
           /\ \A u \in AllThreads : u # t => want'[u] = want[u] /\ tpc'[u] = tpc[u]
           /\ tpc'[t] = (IF t = Main THEN "ensure" ELSE "idle")
           /\ \A u \in AllThreads : u # t /\ tpc[u] \in {"inside", "build"}
                 => LockOf(want[u]) # LockOf(want[t]) /\ LockOf(want[u]) \in Locks
  BY SharedAssumption DEF SInv, Locked, SharedTypeOK, Leave, LockOf, Locks

LEMMA LookAgainStep ==
    ASSUME SInv, NEW t \in AllThreads, LookAgain(t) PROVE SInv'
<1> USE SharedAssumption DEF LookAgain, objectVars, drainVars
<1>1. CASE slot[want[t]] # None
  <2>1. Leave(t) /\ UNCHANGED slot
    BY <1>1
  <2>2. SharedTypeOK'
    BY <2>1, LeaveFacts DEF SInv, SharedTypeOK
  <2>3. Slotted' /\ Owned' /\ Listed'
    BY DEF SInv, Slotted, Owned, Listed
  <2>4. Locked'
    BY <2>1, LeaveFacts DEF SInv, Locked
  <2>5. Booting' /\ EmptyHands'
    BY <2>1, LeaveFacts DEF SInv, Booting, EmptyHands, AllThreads
  <2> QED
    BY <2>2, <2>3, <2>4, <2>5 DEF SInv
<1>2. CASE slot[want[t]] = None
  <2>2. SharedTypeOK'
    BY <1>2 DEF SInv, SharedTypeOK
  <2>3. Slotted' /\ Owned' /\ Listed'
    BY DEF SInv, Slotted, Owned, Listed
  <2>4. Locked'
    BY <1>2 DEF SInv, Locked, SharedTypeOK
  <2>5. Booting' /\ EmptyHands'
    BY <1>2 DEF SInv, Booting, EmptyHands, AllThreads, SharedTypeOK
  <2> QED
    BY <2>2, <2>3, <2>4, <2>5 DEF SInv
<1> QED
  BY <1>1, <1>2

LEMMA BuildStep ==
    ASSUME SInv, NEW t \in AllThreads, Build(t) PROVE SInv'
<1> DEFINE n == Len(made) + 1
<1> USE SharedAssumption
<1>1. /\ Leave(t) /\ tpc[t] = "build" /\ made' = Append(made, want[t])
      /\ slot' = [slot EXCEPT ![want[t]] = n]
      /\ UNCHANGED <<booted, disposed, hand, uses, queueMade, queueOf, pending, clock, drainVars, wasEmpty>>
  BY DEF Build
<1>2. /\ made' \in Seq(Slots) /\ n \in Nat /\ n # None
      /\ DOMAIN made' = DOMAIN made \cup {n} /\ n \notin DOMAIN made
      /\ made'[n] = want[t] /\ \A i \in DOMAIN made : i \in Nat /\ made'[i] = made[i]
  BY <1>1, LeaveFacts, AppendFacts DEF SInv, SharedTypeOK
<1>3. /\ slot[want[t]] = None /\ slot' \in [Slots -> Nat \cup {None}]
      /\ slot'[want[t]] = n /\ \A s \in Slots : s # want[t] => slot'[s] = slot[s]
  BY <1>1, <1>2, LeaveFacts DEF SInv, Locked, SharedTypeOK
<1>4. SharedTypeOK'
  BY <1>1, <1>2, <1>3, LeaveFacts DEF SInv, SharedTypeOK, drainVars
<1>5. Slotted'
  BY <1>2, <1>3 DEF SInv, Slotted
<1>6. Locked'
  BY <1>1, <1>3, LeaveFacts DEF SInv, Locked
<1>7. Owned'
  <2>0. \A i \in DOMAIN made : made[i] \in Slots
    BY DEF SInv, SharedTypeOK
  <2>1. disposed' \subseteq DOMAIN made' /\ \A u \in AllThreads : hand'[u] \subseteq DOMAIN made'
    BY <1>1, <1>2 DEF SInv, Owned
  <2>2. \A u \in AllThreads : \A i \in hand'[u] : i \notin disposed' /\ slot'[made'[i]] # i
    BY <1>1, <1>2, <1>3, <2>0 DEF SInv, Owned
  <2>3. \A u, v \in AllThreads : u # v => hand'[u] \cap hand'[v] = {}
    BY <1>1 DEF SInv, Owned
  <2>4. \A s \in Slots : slot'[s] \notin disposed'
    BY <1>1, <1>2, <1>3 DEF SInv, Owned
  <2>5. \A i \in DOMAIN made' : slot'[made'[i]] = i \/ i \in disposed' \/ \E u \in AllThreads : i \in hand'[u]
    BY <1>1, <1>2, <1>3, <2>0 DEF SInv, Owned
  <2>6. \A i \in DOMAIN made' : made'[i] = "backend" => slot'["backend"] = i
    BY <1>2, <1>3, <2>0 DEF SInv, Owned
  <2> QED
    BY <2>1, <2>2, <2>3, <2>4, <2>5, <2>6 DEF Owned
<1>8. Booting' /\ EmptyHands' /\ Listed'
  BY <1>1, LeaveFacts DEF SInv, Booting, EmptyHands, Listed, AllThreads
<1> QED
  BY <1>4, <1>5, <1>6, <1>7, <1>8 DEF SInv

LEMMA BuildFailsStep ==
    ASSUME SInv, NEW t \in AllThreads, BuildFails(t) PROVE SInv'
<1> USE SharedAssumption DEF BuildFails
<1>1. SharedTypeOK'
  BY LeaveFacts DEF SInv, SharedTypeOK, drainVars
<1>2. Slotted' /\ Owned' /\ Listed'
  BY DEF SInv, Slotted, Owned, Listed
<1>3. Locked'
  BY LeaveFacts DEF SInv, Locked
<1>4. Booting' /\ EmptyHands'
  BY LeaveFacts DEF SInv, Booting, EmptyHands, AllThreads
<1> QED
  BY <1>1, <1>2, <1>3, <1>4 DEF SInv

(* Taking engines out moves them from the cache into one thread's hands.               *)
LEMMA TakeOutStep ==
    ASSUME SInv, NEW t \in AllThreads, NEW urls \in SUBSET Urls, TakeOut(t, urls) PROVE SInv'
<1> USE SharedAssumption
<1> DEFINE out == {slot[u] : u \in urls} \ {None}
<1>1. /\ t \in Threads /\ booted /\ tpc[t] = "idle" /\ owner["_engine_cache_lock"] = None
      /\ hand' = [hand EXCEPT ![t] = out]
      /\ slot' = [s \in Slots |-> IF s \in urls THEN None ELSE slot[s]]
      /\ tpc' = [tpc EXCEPT ![t] = "dispose"] /\ uses' = [uses EXCEPT ![t] = @ + 1]
      /\ UNCHANGED <<booted, made, disposed, owner, want, queueMade, queueOf, pending, clock, drainVars, wasEmpty>>
  BY DEF TakeOut, MayCall
<1>2. urls \subseteq Slots /\ "backend" \in Slots \ urls
  BY DEF Slots
<1>3. out \subseteq DOMAIN made /\ DOMAIN made \subseteq Nat /\ \A i \in out : made[i] \in urls /\ slot[made[i]] = i
  BY <1>2 DEF SInv, Slotted, SharedTypeOK
<1>4. SharedTypeOK'
  BY <1>1, <1>3 DEF SInv, SharedTypeOK, drainVars
<1>5. Slotted'
  BY <1>1 DEF SInv, Slotted
<1>6. Locked'
  BY <1>1 DEF SInv, Locked, SharedTypeOK
<1>7. Booting' /\ EmptyHands' /\ Listed'
  BY <1>1 DEF SInv, Booting, EmptyHands, Listed, SharedTypeOK, AllThreads
<1>8. Owned'
  <2>0. \A i \in DOMAIN made : made[i] \in Slots /\ i \in Nat /\ i # None
    BY DEF SInv, SharedTypeOK
  <2>1. /\ hand'[t] = out /\ \A u \in AllThreads : u # t => hand'[u] = hand[u]
        /\ \A s \in Slots : slot'[s] = IF s \in urls THEN None ELSE slot[s]
    BY <1>1 DEF SInv, SharedTypeOK
  <2>2. disposed' \subseteq DOMAIN made' /\ \A u \in AllThreads : hand'[u] \subseteq DOMAIN made'
    BY <1>1, <1>3, <2>1 DEF SInv, Owned
  <2>3. \A u \in AllThreads : \A i \in hand'[u] : i \notin disposed' /\ slot'[made'[i]] # i
    BY <1>1, <1>2, <1>3, <2>0, <2>1 DEF SInv, Owned
  <2>4. \A u, v \in AllThreads : u # v => hand'[u] \cap hand'[v] = {}
    BY <1>1, <1>3, <2>1 DEF SInv, Owned
  <2>5. \A s \in Slots : slot'[s] \notin disposed'
    BY <1>1, <2>0, <2>1 DEF SInv, Owned
  <2>7. \A i \in DOMAIN made' : made'[i] = "backend" => slot'["backend"] = i
    BY <1>1, <1>2, <2>1 DEF SInv, Owned
  <2>6. ASSUME NEW i \in DOMAIN made
        PROVE  slot'[made[i]] = i \/ i \in disposed \/ \E u \in AllThreads : i \in hand'[u]
    <3>1. CASE slot[made[i]] = i /\ made[i] \in urls
      BY <3>1, <2>0, <2>1
    <3>2. CASE slot[made[i]] = i /\ made[i] \notin urls
      BY <3>2, <2>0, <2>1
    <3>3. CASE i \in disposed
      BY <3>3
    <3>4. ASSUME NEW u \in AllThreads, i \in hand[u] PROVE \E v \in AllThreads : i \in hand'[v]
      <4>1. CASE u # t
        BY <4>1, <3>4, <2>1
      <4>2. CASE u = t
        BY <4>2, <3>4, <1>1 DEF SInv, EmptyHands
      <4> QED
        BY <4>1, <4>2
    <3> QED
      BY <3>1, <3>2, <3>3, <3>4 DEF SInv, Owned
  <2> QED
    BY <1>1, <2>2, <2>3, <2>4, <2>5, <2>6, <2>7 DEF Owned
<1> QED
  BY <1>4, <1>5, <1>6, <1>7, <1>8 DEF SInv

LEMMA DisposeStep ==
    ASSUME SInv, NEW t \in AllThreads, Dispose(t) PROVE SInv'
<1> USE SharedAssumption
<1>1. CASE hand[t] = {}
  <2>1. /\ tpc[t] = "dispose" /\ tpc' = [tpc EXCEPT ![t] = "idle"]
        /\ UNCHANGED <<booted, objectVars, uses, queueMade, queueOf, pending, clock, drainVars, wasEmpty>>
    BY <1>1 DEF Dispose, objectVars
  <2>2. SharedTypeOK'
    BY <2>1 DEF SInv, SharedTypeOK, drainVars, objectVars
  <2>3. Slotted' /\ Owned' /\ Listed'
    BY <2>1 DEF SInv, Slotted, Owned, Listed, objectVars
  <2>4. Locked'
    BY <2>1 DEF SInv, Locked, SharedTypeOK, objectVars
  <2>5. Booting' /\ EmptyHands'
    BY <1>1, <2>1 DEF SInv, Booting, EmptyHands, SharedTypeOK, AllThreads, objectVars
  <2> QED
    BY <2>2, <2>3, <2>4, <2>5 DEF SInv
<1>2. CASE hand[t] # {}
  <2>1. PICK e \in hand[t] : /\ disposed' = disposed \cup {e}
                             /\ hand' = [hand EXCEPT ![t] = @ \ {e}]
    BY <1>2 DEF Dispose
  <2>2. /\ tpc[t] = "dispose"
        /\ UNCHANGED <<booted, made, slot, owner, want, tpc, uses, queueMade, queueOf, pending, clock,
                       drainVars, wasEmpty>>
    BY <1>2 DEF Dispose
  <2>3. /\ hand'[t] = hand[t] \ {e} /\ \A u \in AllThreads : u # t => hand'[u] = hand[u]
        /\ e \in DOMAIN made /\ e \in Nat /\ made[e] \in Slots
    BY <2>1 DEF SInv, SharedTypeOK, Owned
  <2>4. SharedTypeOK'
    BY <2>1, <2>2, <2>3 DEF SInv, SharedTypeOK, drainVars
  <2>5. Slotted' /\ Locked' /\ Listed' /\ Booting'
    BY <2>2 DEF SInv, Slotted, Locked, Listed, Booting
  <2>6. EmptyHands'
    BY <2>2, <2>3 DEF SInv, EmptyHands
  <2>7. Owned'
    <3>1. disposed' \subseteq DOMAIN made' /\ \A u \in AllThreads : hand'[u] \subseteq DOMAIN made'
      BY <2>1, <2>2, <2>3 DEF SInv, Owned
    <3>2. \A u \in AllThreads : \A i \in hand'[u] : i \notin disposed' /\ slot'[made'[i]] # i
      BY <2>1, <2>2, <2>3 DEF SInv, Owned
    <3>3. \A u, v \in AllThreads : u # v => hand'[u] \cap hand'[v] = {}
      BY <2>3 DEF SInv, Owned
    <3>4. \A s \in Slots : slot'[s] \notin disposed'
      BY <2>1, <2>2, <2>3 DEF SInv, Owned, Slotted
    <3>5. \A i \in DOMAIN made' : slot'[made'[i]] = i \/ i \in disposed' \/ \E u \in AllThreads : i \in hand'[u]
      BY <2>1, <2>2, <2>3 DEF SInv, Owned
    <3>6. \A i \in DOMAIN made' : made'[i] = "backend" => slot'["backend"] = i
      BY <2>2 DEF SInv, Owned
    <3> QED
      BY <3>1, <3>2, <3>3, <3>4, <3>5, <3>6 DEF Owned
  <2> QED
    BY <2>4, <2>5, <2>6, <2>7 DEF SInv
<1> QED
  BY <1>1, <1>2

(* A thread asks for the queue, or looks for it: only the one in ready() misses it.     *)
LEMMA AskQueueStep ==
    ASSUME SInv, NEW t \in AllThreads, AskQueue(t) PROVE SInv'
<1> USE SharedAssumption
<1>0. /\ t \in Threads /\ booted /\ tpc[t] = "idle" /\ tpc' = [tpc EXCEPT ![t] = "ensure"]
      /\ uses' = [uses EXCEPT ![t] = @ + 1]
      /\ UNCHANGED <<booted, objectVars, queueMade, queueOf, pending, clock, drainVars, wasEmpty>>
  BY DEF AskQueue, MayCall
<1>1. SharedTypeOK'
  BY <1>0 DEF SInv, SharedTypeOK, drainVars, objectVars
<1>2. Slotted' /\ Owned' /\ Listed'
  BY <1>0 DEF SInv, Slotted, Owned, Listed, objectVars
<1>3. Locked'
  BY <1>0 DEF SInv, Locked, SharedTypeOK, objectVars
<1>4. Booting' /\ EmptyHands'
  BY <1>0 DEF SInv, Booting, EmptyHands, SharedTypeOK, AllThreads, objectVars
<1> QED
  BY <1>1, <1>2, <1>3, <1>4 DEF SInv

LEMMA EnsureGetStep ==
    ASSUME SInv, NEW t \in AllThreads, EnsureGet(t) PROVE SInv'
<1> USE SharedAssumption
<1>0. /\ tpc[t] = "ensure"
      /\ \/ tpc' = [tpc EXCEPT ![t] = "idle"] /\ t \in Threads
         \/ tpc' = [tpc EXCEPT ![t] = "create"] /\ t = Main
      /\ UNCHANGED <<booted, objectVars, uses, queueMade, queueOf, pending, clock, drainVars, wasEmpty>>
  <2>1. CASE t = Main
    <3>1. ~booted /\ queueOf["api_log"] = None
      BY <2>1 DEF SInv, Booting, EnsureGet
    <3> QED
      BY <2>1, <3>1 DEF EnsureGet
  <2>2. CASE t # Main
    <3>1. t \in Threads /\ booted /\ queueOf["api_log"] # None
      BY <2>2 DEF SInv, Booting, EnsureGet, AllThreads
    <3> QED
      BY <3>1 DEF EnsureGet
  <2> QED
    BY <2>1, <2>2
<1>1. SharedTypeOK'
  BY <1>0 DEF SInv, SharedTypeOK, drainVars, objectVars
<1>2. Slotted' /\ Owned' /\ Listed'
  BY <1>0 DEF SInv, Slotted, Owned, Listed, objectVars
<1>3. Locked'
  BY <1>0 DEF SInv, Locked, SharedTypeOK, objectVars
<1>4. Booting' /\ EmptyHands'
  BY <1>0 DEF SInv, Booting, EmptyHands, SharedTypeOK, AllThreads, objectVars
<1> QED
  BY <1>1, <1>2, <1>3, <1>4 DEF SInv

LEMMA ConstructFacts ==
    ASSUME SInv, NEW q \in Queues, queueOf[q] = None, Construct(q)
    PROVE  /\ Listed' /\ queueMade' \in Seq(Queues) /\ queueOf' \in [Queues -> Nat \cup {None}]
           /\ queueOf'[q] \in Nat /\ queueOf'[q] # None
           /\ \A r \in Queues : r # q => queueOf'[r] = queueOf[r]
<1> DEFINE n == Len(queueMade) + 1
<1> USE SharedAssumption
<1>1. /\ queueMade' \in Seq(Queues) /\ n \in Nat /\ n # None
      /\ DOMAIN queueMade' = DOMAIN queueMade \cup {n} /\ queueMade'[n] = q
      /\ \A i \in DOMAIN queueMade : queueMade'[i] = queueMade[i] /\ queueMade[i] \in Queues
  BY AppendFacts DEF SInv, SharedTypeOK, Construct
<1>2. /\ queueOf' \in [Queues -> Nat \cup {None}] /\ queueOf'[q] = n
      /\ \A r \in Queues : r # q => queueOf'[r] = queueOf[r]
  BY <1>1 DEF SInv, SharedTypeOK, Construct
<1>3. Listed'
  BY <1>1, <1>2 DEF SInv, Listed
<1> QED
  BY <1>1, <1>2, <1>3

LEMMA CreateStep ==
    ASSUME SInv, NEW t \in AllThreads, EnsureCreate(t) PROVE SInv'
<1> USE SharedAssumption
<1>1. /\ t = Main /\ ~booted /\ queueOf["api_log"] = None /\ booted' = TRUE
      /\ tpc[t] = "create" /\ Construct("api_log") /\ tpc' = [tpc EXCEPT ![t] = "idle"]
      /\ UNCHANGED <<objectVars, uses, pending, clock, drainVars, wasEmpty>>
  BY DEF SInv, Booting, EnsureCreate, AllThreads
<1>2. SharedTypeOK' /\ Listed'
  BY <1>1, ConstructFacts DEF SInv, SharedTypeOK, objectVars, drainVars
<1>3. Slotted' /\ Owned'
  BY <1>1 DEF SInv, Slotted, Owned, objectVars
<1>4. Locked'
  BY <1>1 DEF SInv, Locked, SharedTypeOK, objectVars
<1>5. Booting' /\ EmptyHands'
  BY <1>1, ConstructFacts DEF SInv, Booting, EmptyHands, SharedTypeOK, AllThreads, objectVars
<1> QED
  BY <1>2, <1>3, <1>4, <1>5 DEF SInv

LEMMA ImportStep ==
    ASSUME SInv, NEW q \in Queues, ImportQueue(q) PROVE SInv'
<1> USE SharedAssumption DEF ImportQueue
<1>1. SharedTypeOK' /\ Listed'
  BY ConstructFacts DEF SInv, SharedTypeOK, objectVars, drainVars
<1>2. Slotted' /\ Owned' /\ Locked' /\ EmptyHands'
  BY DEF SInv, Slotted, Owned, Locked, EmptyHands, objectVars
<1>3. Booting'
  BY ConstructFacts DEF SInv, Booting, objectVars
<1> QED
  BY <1>1, <1>2, <1>3 DEF SInv

(* drain_all and the tasks of the queues.                                             *)
LEMMA DrainStep ==
    ASSUME SInv, NEW q \in Queues,
           Submit(q) \/ Consume(q) \/ DrainPoll(q) \/ Tick \/ DrainAll \/ DrainNext \/ DrainDone
    PROVE  SInv'
<1> USE SharedAssumption DEF drainVars
<1>1. CASE Submit(q)
  BY <1>1, QuietStep DEF Submit, SInv, SharedTypeOK, objectVars
<1>2. CASE Consume(q)
  <2>1. SharedTypeOK'
    BY <1>2 DEF Consume, SInv, SharedTypeOK, objectVars
  <2> QED
    BY <1>2, <2>1, QuietStep DEF Consume
<1>3. CASE DrainPoll(q)
  <2>1. SharedTypeOK'
    BY <1>3 DEF DrainPoll, SInv, SharedTypeOK, objectVars
  <2> QED
    BY <1>3, <2>1, QuietStep DEF DrainPoll
<1>4. CASE Tick
  <2>1. SharedTypeOK'
    BY <1>4 DEF Tick, SInv, SharedTypeOK, objectVars
  <2> QED
    BY <1>4, <2>1, QuietStep DEF Tick
<1>5. CASE DrainAll
  <2>1. deadline' \in Nat /\ todo' \subseteq Queues /\ wasEmpty' \subseteq Queues
    BY <1>5 DEF DrainAll, SInv, SharedTypeOK
  <2>2. SharedTypeOK'
    BY <1>5, <2>1 DEF DrainAll, SInv, SharedTypeOK, objectVars
  <2> QED
    BY <1>5, <2>2, QuietStep DEF DrainAll
<1>6. CASE DrainNext
  <2>1. SharedTypeOK'
    BY <1>6 DEF DrainNext, SInv, SharedTypeOK, objectVars
  <2> QED
    BY <1>6, <2>1, QuietStep DEF DrainNext
<1>7. CASE DrainDone
  BY <1>7, QuietStep DEF DrainDone, SInv, SharedTypeOK, objectVars
<1> QED
  BY <1>1, <1>2, <1>3, <1>4, <1>5, <1>6, <1>7

LEMMA Invariance == SharedSpec => []SInv
<1>1. ASSUME SInv, [SharedNext]_sharedVars PROVE SInv'
  <2>1. ASSUME NEW t \in AllThreads, NEW s \in Slots, Look(t, s) PROVE SInv'
    BY <1>1, <2>1, LookStep
  <2>2. ASSUME NEW t \in AllThreads, DisposeEngine(t) \/ DisposeAllEngines(t) PROVE SInv'
    BY <1>1, <2>2, TakeOutStep DEF DisposeEngine, DisposeAllEngines
  <2>3. ASSUME NEW t \in AllThreads,
               \/ Enter(t) \/ LookAgain(t) \/ Build(t) \/ BuildFails(t) \/ Dispose(t)
               \/ AskQueue(t) \/ EnsureGet(t) \/ EnsureCreate(t)
        PROVE  SInv'
    BY <1>1, <2>3, EnterStep, LookAgainStep, BuildStep, BuildFailsStep, DisposeStep, AskQueueStep,
       EnsureGetStep, CreateStep
  <2>4. ASSUME NEW q \in Queues, ImportQueue(q) PROVE SInv'
    BY <1>1, <2>4, ImportStep
  <2>5. ASSUME NEW q \in Queues, Submit(q) \/ Consume(q) \/ DrainPoll(q) PROVE SInv'
    BY <1>1, <2>5, DrainStep
  <2>6. CASE Tick \/ DrainAll \/ DrainNext \/ DrainDone
    BY <1>1, <2>6, DrainStep, SharedAssumption
  <2>7. CASE UNCHANGED sharedVars
    <3>1. SharedTypeOK'
      BY <1>1, <2>7 DEF sharedVars, SInv, SharedTypeOK, objectVars, drainVars
    <3> QED
      BY <1>1, <2>7, <3>1, QuietStep DEF sharedVars
  <2> QED
    BY <1>1, <2>1, <2>2, <2>3, <2>4, <2>5, <2>6, <2>7 DEF SharedNext
<1> QED
  BY <1>1, InitInv, PTL DEF SharedSpec

(* The variables of the shared objects keep their types.                              *)
THEOREM SharedTypes == SharedSpec => []SharedTypeOK
  BY Invariance, PTL DEF SInv

(* However the threads that look up, build and dispose interleave, get_engine,          *)
(* dispose_engine, get_backend and _ensure_queue orphan nothing they built.            *)
THEOREM NothingOrphaned == SharedSpec => []ObjectsAccountedFor
<1>1. SInv => ObjectsAccountedFor
  BY DEF SInv, Owned, Listed, ObjectsAccountedFor
<1> QED
  BY <1>1, Invariance, PTL

-------------------------------------------------------------------------------
(* drain_all: every sleep is a tick since it began, and it sleeps only before the one    *)
(* deadline; a queue that is not on the list any more, or is new, was found empty.        *)
Budget ==
    /\ dpc = "idle" => slept = 0
    /\ dpc # "idle" => slept + deadline <= clock + Timeout
    /\ dpc \in {"poll", "sleep"} => qdeadline <= clock \/ qdeadline = deadline
    /\ dpc = "sleep" => clock < deadline
    /\ slept <= Timeout

Emptied ==
    /\ \A q \in Queues : queueOf[q] = None => pending[q] = 0
    /\ dpc # "idle" => \A q \in Queues : pending[q] = 0 => q \in wasEmpty
    /\ dpc # "idle" /\ verdict => \A q \in Queues : queueOf[q] # None => q \in todo \cup wasEmpty
    /\ dpc = "done" => todo = {}

DInv == Budget /\ Emptied

LEMMA DrainInit == SharedInit => DInv
  BY SharedAssumption DEF SharedInit, DInv, Budget, Emptied

LEMMA DrainInvStep == SInv /\ DInv /\ [SharedNext]_sharedVars => DInv'
<1> SUFFICES ASSUME SInv, DInv, [SharedNext]_sharedVars PROVE DInv'
  OBVIOUS
<1> USE SharedAssumption
<1>0. SharedTypeOK
  BY DEF SInv
<1>1. CASE UNCHANGED <<queueOf, pending, clock, drainVars, wasEmpty>>
  BY <1>1 DEF DInv, Budget, Emptied, drainVars
<1>2. ASSUME NEW q \in Queues, queueOf[q] = None, Construct(q),
             UNCHANGED <<pending, clock, drainVars, wasEmpty>>
      PROVE  DInv'
  <2>1. Budget'
    BY <1>2 DEF DInv, Budget, drainVars
  <2>2. Emptied'
    BY <1>2, ConstructFacts DEF DInv, Emptied, drainVars
  <2> QED
    BY <2>1, <2>2 DEF DInv
<1>3. ASSUME NEW q \in Queues, Submit(q) PROVE DInv'
  <2>1. Budget'
    BY <1>3 DEF DInv, Budget, drainVars, Submit
  <2>2. Emptied'
    BY <1>0, <1>3 DEF DInv, Emptied, drainVars, Submit, SharedTypeOK
  <2> QED
    BY <2>1, <2>2 DEF DInv
<1>4. ASSUME NEW q \in Queues, Consume(q) PROVE DInv'
  <2>1. Budget'
    BY <1>4 DEF DInv, Budget, drainVars, Consume
  <2>2. Emptied'
    BY <1>0, <1>4 DEF DInv, Emptied, drainVars, Consume, SharedTypeOK
  <2> QED
    BY <2>1, <2>2 DEF DInv
<1>5. ASSUME NEW q \in Queues, DrainPoll(q) PROVE DInv'
  <2>1. Budget'
    BY <1>0, <1>5 DEF DInv, Budget, DrainPoll, SharedTypeOK
  <2>2. Emptied'
    BY <1>0, <1>5 DEF DInv, Emptied, DrainPoll, SharedTypeOK
  <2> QED
    BY <2>1, <2>2 DEF DInv
<1>6. CASE Tick
  <2>1. Budget'
    BY <1>0, <1>6 DEF DInv, Budget, Tick, SharedTypeOK
  <2>2. Emptied'
    BY <1>6 DEF DInv, Emptied, Tick
  <2> QED
    BY <2>1, <2>2 DEF DInv
<1>7. CASE DrainAll
  <2>1. Budget'
    BY <1>0, <1>7 DEF DInv, Budget, DrainAll, SharedTypeOK
  <2>2. Emptied'
    BY <1>0, <1>7 DEF DInv, Emptied, DrainAll, SharedTypeOK
  <2> QED
    BY <2>1, <2>2 DEF DInv
<1>8. CASE DrainNext
  <2>1. Budget'
    BY <1>0, <1>8 DEF DInv, Budget, DrainNext, SharedTypeOK
  <2>2. Emptied'
    BY <1>8 DEF DInv, Emptied, DrainNext
  <2> QED
    BY <2>1, <2>2 DEF DInv
<1>9. CASE DrainDone
  BY <1>9 DEF DInv, Budget, Emptied, DrainDone
<1>10. ASSUME NEW t \in AllThreads, EnsureCreate(t) PROVE DInv'
  <2>1. queueOf["api_log"] = None
    BY <1>10 DEF SInv, Booting, EnsureCreate, AllThreads
  <2> QED
    BY <1>2, <1>10, <2>1 DEF EnsureCreate
<1>11. ASSUME NEW q \in Queues, ImportQueue(q) PROVE DInv'
  BY <1>2, <1>11 DEF ImportQueue
<1>12. ASSUME NEW t \in AllThreads,
              \/ Enter(t) \/ LookAgain(t) \/ Build(t) \/ BuildFails(t) \/ Dispose(t) \/ AskQueue(t)
              \/ EnsureGet(t) \/ DisposeEngine(t) \/ DisposeAllEngines(t) \/ \E s \in Slots : Look(t, s)
       PROVE  DInv'
  BY <1>1, <1>12 DEF Enter, LookAgain, Build, BuildFails, Dispose, AskQueue, EnsureGet, DisposeEngine,
                     DisposeAllEngines, TakeOut, Look
<1>13. CASE UNCHANGED sharedVars
  BY <1>1, <1>13 DEF sharedVars
<1> QED
  BY <1>3, <1>4, <1>5, <1>6, <1>7, <1>8, <1>9, <1>10, <1>11, <1>12, <1>13 DEF SharedNext

(* drain_all keeps to one budget however many queues are registered, and its True is     *)
(* about all of them.                                                                  *)
THEOREM DrainAllIsHonest == SharedSpec => []DrainAllHonest
<1>1. DInv => DrainAllHonest
  BY DEF DInv, Budget, Emptied, DrainAllHonest
<1> QED
  BY <1>1, DrainInit, DrainInvStep, Invariance, PTL DEF SharedSpec

-------------------------------------------------------------------------------
(* Readiness. *)

(* The probes a view asks for, and the lists a request is left with as it goes through  *)
(* them.                                                                              *)
Names(list) == {list[i] : i \in DOMAIN list}
Lists == {<<>>, <<"celery_broker">>, <<"cache", "celery_broker">>,
          <<"database", "cache", "celery_broker">>, <<"database">>}

(* What a request's view probes and was lost since the request came.                    *)
Blamed(a) == wasDown[a] \cap Suspects(ask[a])

(* What is known of a request while it is served: a probe found healthy has answered     *)
(* since the request came, one that is not was either away or is still to come, and the   *)
(* sentinel that was written is there unless something was lost meanwhile.               *)
Served(a) ==
    /\ up \subseteq wasUp[a] /\ Deps \ up \subseteq wasDown[a] /\ healthy[a] \subseteq wasUp[a]
    /\ Blamed(a) # {} \/ Names(Checks(ask[a])) \subseteq healthy[a] \cup Names(stage[a])
    /\ Names(stage[a]) \subseteq Names(Checks(ask[a]))
    /\ gotSet[a] => {"cache", "sentinel"} \subseteq Suspects(ask[a]) /\ (sentinel \/ Blamed(a) # {})
Rests(a) == stage[a] = <<>> /\ healthy[a] = {} /\ ~gotSet[a]

RInv ==
    /\ ReadinessTypeOK /\ AnswersAboutRequest
    /\ \A a \in Askers : stage[a] \in Lists /\ (Serving(a) => Served(a)) /\ (~Serving(a) => Rests(a))

LEMMA ListFacts ==
    /\ \A s \in Lists : s \in Seq(Deps)
    /\ \A s \in Lists : s # <<>> => Tail(s) \in Lists /\ Head(s) \in Deps /\ Names(s) = {Head(s)} \cup Names(Tail(s))
    /\ Names(<<>>) = {}
<1>1. ASSUME NEW s \in Lists PROVE s \in Seq(Deps)
  <2>1. /\ <<>> \in Seq(Deps) /\ <<"celery_broker">> \in Seq(Deps) /\ <<"database">> \in Seq(Deps)
        /\ <<"cache", "celery_broker">> \in Seq(Deps)
        /\ <<"database", "cache", "celery_broker">> \in Seq(Deps)
    BY DEF Deps
  <2> QED
    BY <2>1 DEF Lists
<1>2. Names(<<>>) = {}
  BY DEF Names
<1>3. ASSUME NEW s \in Lists, s # <<>>
      PROVE  Tail(s) \in Lists /\ Head(s) \in Deps /\ Names(s) = {Head(s)} \cup Names(Tail(s))
  <2>1. CASE s = <<"celery_broker">>
    BY <2>1 DEF Lists, Deps, Names
  <2>2. CASE s = <<"database">>
    BY <2>2 DEF Lists, Deps, Names
  <2>3. CASE s = <<"cache", "celery_broker">>
    BY <2>3 DEF Lists, Deps, Names
  <2>4. CASE s = <<"database", "cache", "celery_broker">>
    BY <2>4 DEF Lists, Deps, Names
  <2> QED
    BY <1>3, <2>1, <2>2, <2>3, <2>4 DEF Lists
<1> QED
  BY <1>1, <1>2, <1>3

LEMMA CheckFacts ==
    ASSUME NEW view PROVE Checks(view) \in Lists \ {<<>>}
  BY DEF Checks, Lists

LEMMA SuspectFacts ==
    ASSUME NEW view \in {"none", "health", "ready"}
    PROVE  /\ Names(Checks(view)) \subseteq Suspects(view)
           /\ view # "none" /\ "cache" \in Names(Checks(view)) => {"cache", "sentinel"} \subseteq Suspects(view)
<1>1. Names(Checks(view)) \subseteq Suspects(view)
  BY DEF Names, Suspects
<1>2. Names(Checks("health")) = {"database"}
  BY DEF Names, Checks
<1>3. "sentinel" \in Suspects("ready")
  BY DEF Suspects
<1> QED
  BY <1>1, <1>2, <1>3

LEMMA FaultCounted ==
    ASSUME NEW n \in 0..MaxFaults, n < MaxFaults PROVE n + 1 \in 0..MaxFaults
  BY ReadinessAssumption

LEMMA ReadyInit == ReadinessInit => RInv
<1> SUFFICES ASSUME ReadinessInit PROVE RInv
  OBVIOUS
<1>1. sentinel \in BOOLEAN /\ fallback \in BOOLEAN /\ gotSet \in [Askers -> BOOLEAN]
  <2>1. sentinel \in BOOLEAN /\ gotSet \in [Askers -> BOOLEAN]
    BY DEF ReadinessInit
  <2>2. fallback \in BOOLEAN
    BY ZenonT(20) DEF ReadinessInit
  <2> QED
    BY <2>1, <2>2
<1>2. ReadinessTypeOK
  BY <1>1, ReadinessAssumption DEF ReadinessInit, ReadinessTypeOK
<1> QED
  BY <1>2 DEF ReadinessInit, RInv, AnswersAboutRequest, Serving, Rests, Lists

(* Whatever happens to the dependencies, every request that is served takes note.        *)
LEMMA WorldStep ==
    ASSUME RInv, NEW d \in Deps, Flip(d) \/ Evict PROVE RInv'
<1>1. UNCHANGED requestVars
  BY DEF Flip, Evict
<1>2. ReadinessTypeOK'
  <2>1. CASE Flip(d)
    <3>1. up' \subseteq Deps /\ sentinel' \in BOOLEAN /\ faults' \in 0..MaxFaults
      BY <2>1, ReadinessAssumption DEF Flip, RInv, ReadinessTypeOK
    <3>2. wasUp' \in [Askers -> SUBSET Deps] /\ wasDown' \in [Askers -> SUBSET (Deps \cup {"sentinel"})]
      BY <2>1, <3>1 DEF Flip, Note, RInv, ReadinessTypeOK
    <3> QED
      BY <2>1, <3>1, <3>2 DEF Flip, RInv, ReadinessTypeOK, requestVars
  <2>2. CASE Evict
    <3>1. wasUp' \in [Askers -> SUBSET Deps] /\ wasDown' \in [Askers -> SUBSET (Deps \cup {"sentinel"})]
      BY <2>2 DEF Evict, Note, RInv, ReadinessTypeOK
    <3>2. faults \in 0..MaxFaults /\ faults < MaxFaults /\ faults' = faults + 1 /\ sentinel' = FALSE
      BY <2>2 DEF Evict, RInv, ReadinessTypeOK
    <3>3. sentinel' \in BOOLEAN /\ faults' \in 0..MaxFaults
      BY <3>2, FaultCounted
    <3> QED
      BY <2>2, <3>1, <3>3 DEF Evict, RInv, ReadinessTypeOK, requestVars
  <2> QED
    BY <2>1, <2>2
<1>3. ASSUME NEW a \in Askers PROVE Serving(a)' = Serving(a) /\ Rests(a)' = Rests(a) /\ stage'[a] = stage[a]
  BY <1>1 DEF requestVars, Serving, Rests
<1>4. ASSUME NEW a \in Askers, ~Serving(a) PROVE wasUp'[a] = wasUp[a] /\ wasDown'[a] = wasDown[a]
  BY <1>4 DEF Flip, Evict, Note
<1>5. ASSUME NEW a \in Askers, Serving(a) PROVE Served(a)'
  <2>1. Served(a)
    BY <1>5 DEF RInv
  <2>2. CASE Flip(d)
    <3>1. wasUp'[a] = wasUp[a] \cup up' /\ wasDown'[a] = wasDown[a] \cup (Deps \ up')
      BY <1>5, <2>2 DEF Flip, Note
    <3>0. ask'[a] = ask[a] /\ gotSet'[a] = gotSet[a] /\ Blamed(a) \subseteq Blamed(a)'
      BY <1>1, <3>1 DEF requestVars, Blamed
    <3>2. gotSet'[a] => sentinel' \/ Blamed(a)' # {}
      <4>1. CASE d = "cache"
        <5>1. CASE d \in up
          BY <5>1, <3>0, <3>1, <2>1, <2>2, <4>1 DEF Flip, Served, Blamed
        <5>2. CASE d \notin up
          BY <5>2, <3>0, <3>1, <2>1, <4>1 DEF Served, Blamed
        <5> QED
          BY <5>1, <5>2
      <4>2. CASE d # "cache"
        BY <4>2, <2>1, <2>2, <3>0 DEF Flip, Served
      <4> QED
        BY <4>1, <4>2
    <3> QED
      BY <1>1, <2>1, <3>0, <3>1, <3>2 DEF Served, requestVars
  <2>3. CASE Evict
    <3>1. /\ wasUp'[a] = wasUp[a] \cup up /\ wasDown'[a] = wasDown[a] \cup {"sentinel"} /\ up' = up
          /\ ask'[a] = ask[a] /\ stage'[a] = stage[a] /\ healthy'[a] = healthy[a] /\ gotSet'[a] = gotSet[a]
      BY <1>1, <1>5, <2>3 DEF Evict, Note, requestVars
    <3>2. Blamed(a) \subseteq Blamed(a)' /\ (gotSet[a] => Blamed(a)' # {})
      BY <2>1, <3>1 DEF Served, Blamed
    <3> QED
      BY <2>1, <3>1, <3>2 DEF Served
  <2> QED
    BY <2>2, <2>3
<1>6. AnswersAboutRequest'
  <2> SUFFICES ASSUME NEW a \in Askers
               PROVE  /\ reply'[a] = 200 => \A i \in DOMAIN Checks(ask'[a]) : Checks(ask'[a])[i] \in wasUp'[a]
                      /\ reply'[a] = 503 => wasDown'[a] \cap Suspects(ask'[a]) # {}
    BY DEF AnswersAboutRequest
  <2>1. CASE Serving(a)
    BY <1>1, <2>1 DEF Serving, requestVars
  <2>2. CASE ~Serving(a)
    BY <1>1, <1>4, <2>2 DEF RInv, AnswersAboutRequest, requestVars
  <2> QED
    BY <2>1, <2>2
<1> QED
  BY <1>2, <1>3, <1>5, <1>6 DEF RInv

(* A request comes, with nothing left from the one before.                             *)
LEMMA AskStep ==
    ASSUME RInv, NEW a \in Askers, Ask(a) PROVE RInv'
<1>1. PICK view \in {"health", "ready"} :
        /\ ~Serving(a) /\ reply' = [reply EXCEPT ![a] = 0]
        /\ ask' = [ask EXCEPT ![a] = view] /\ stage' = [stage EXCEPT ![a] = Checks(view)]
        /\ wasUp' = [wasUp EXCEPT ![a] = up] /\ wasDown' = [wasDown EXCEPT ![a] = Deps \ up]
        /\ UNCHANGED <<up, sentinel, fallback, gotSet, healthy, faults>>
  BY DEF Ask
<1>2. Checks(view) \in Lists /\ Checks(view) \in Seq(Deps)
  BY CheckFacts, ListFacts
<1>3. ReadinessTypeOK'
  BY <1>1, <1>2 DEF RInv, ReadinessTypeOK
<1>4. /\ reply'[a] = 0 /\ ask'[a] = view /\ stage'[a] = Checks(view) /\ wasUp'[a] = up
      /\ wasDown'[a] = Deps \ up
  BY <1>1 DEF RInv, ReadinessTypeOK
<1>5. ASSUME NEW b \in Askers, b # a
      PROVE  /\ reply'[b] = reply[b] /\ ask'[b] = ask[b] /\ stage'[b] = stage[b]
             /\ wasUp'[b] = wasUp[b] /\ wasDown'[b] = wasDown[b]
  BY <1>1, <1>5 DEF RInv, ReadinessTypeOK
<1>6. AnswersAboutRequest'
  BY <1>4, <1>5 DEF RInv, AnswersAboutRequest
<1>7. stage'[a] \in Lists /\ Serving(a)' /\ Served(a)'
  <2>1. healthy'[a] = {} /\ ~gotSet'[a]
    BY <1>1 DEF RInv, Rests
  <2> QED
    BY <1>1, <1>2, <1>4, <2>1 DEF Serving, Served
<1>8. ASSUME NEW b \in Askers, b # a
      PROVE  stage'[b] \in Lists /\ (Serving(b)' => Served(b)') /\ (~Serving(b)' => Rests(b)')
  BY <1>1, <1>5, <1>8 DEF RInv, Serving, Served, Blamed, Rests
<1> QED
  BY <1>3, <1>6, <1>7, <1>8 DEF RInv

(* A probe ends: healthy with its dependency up, or not healthy and something was lost    *)
(* since the request came.                                                             *)
LEMMA ProbeEnds ==
    ASSUME RInv, NEW a \in Askers, stage[a] # <<>>, stage' = [stage EXCEPT ![a] = Tail(@)],
           \/ healthy' = [healthy EXCEPT ![a] = @ \cup {Head(stage[a])}] /\ Head(stage[a]) \in up
           \/ healthy' = healthy /\ Blamed(a) # {},
           fallback' \in BOOLEAN, faults' \in 0..MaxFaults,
           UNCHANGED <<up, sentinel, gotSet, ask, reply, wasUp, wasDown>>
    PROVE  RInv'
<1>1. /\ Tail(stage[a]) \in Lists /\ Tail(stage[a]) \in Seq(Deps) /\ Head(stage[a]) \in Deps
      /\ Names(stage[a]) = {Head(stage[a])} \cup Names(Tail(stage[a]))
  BY ListFacts DEF RInv
<1>2. Serving(a) /\ Served(a)
  BY DEF RInv, Rests
<1>3. ReadinessTypeOK'
  <2>0. ReadinessTypeOK
    BY DEF RInv
  <2>1. stage' \in [Askers -> Seq(Deps)]
    BY <1>1, <2>0 DEF ReadinessTypeOK
  <2>2. healthy' \in [Askers -> SUBSET Deps]
    <3>1. healthy' = healthy \/ healthy' = [healthy EXCEPT ![a] = @ \cup {Head(stage[a])}]
      OBVIOUS
    <3>2. healthy \in [Askers -> SUBSET Deps]
      BY <2>0 DEF ReadinessTypeOK
    <3>3. CASE healthy' = healthy
      BY <3>2, <3>3
    <3>4. CASE healthy' = [healthy EXCEPT ![a] = @ \cup {Head(stage[a])}]
      <4>1. healthy[a] \cup {Head(stage[a])} \in SUBSET Deps
        BY <1>1, <3>2
      <4> QED
        BY <3>2, <3>4, <4>1
    <3> QED
      BY <3>1, <3>3, <3>4
  <2>3. up' \subseteq Deps /\ sentinel' \in BOOLEAN /\ gotSet' \in [Askers -> BOOLEAN]
    BY <2>0 DEF ReadinessTypeOK
  <2>4. /\ ask' \in [Askers -> {"none", "health", "ready"}] /\ reply' \in [Askers -> {0, 200, 503}]
        /\ wasUp' \in [Askers -> SUBSET Deps] /\ wasDown' \in [Askers -> SUBSET (Deps \cup {"sentinel"})]
    BY <2>0 DEF ReadinessTypeOK
  <2> QED
    BY <2>1, <2>2, <2>3, <2>4 DEF ReadinessTypeOK
<1>4. stage'[a] = Tail(stage[a]) /\ \A b \in Askers : b # a => stage'[b] = stage[b] /\ healthy'[b] = healthy[b]
  BY DEF RInv, ReadinessTypeOK
<1>5. AnswersAboutRequest'
  BY DEF RInv, AnswersAboutRequest
<1>6. Served(a)'
  <2>1. CASE healthy' = [healthy EXCEPT ![a] = @ \cup {Head(stage[a])}] /\ Head(stage[a]) \in up
    <3>1. healthy'[a] = healthy[a] \cup {Head(stage[a])}
      BY <2>1 DEF RInv, ReadinessTypeOK
    <3> QED
      BY <1>1, <1>2, <1>4, <2>1, <3>1 DEF Served, Blamed
  <2>2. CASE healthy' = healthy /\ Blamed(a) # {}
    <3>1. Served(a)' <=> /\ up \subseteq wasUp[a] /\ Deps \ up \subseteq wasDown[a] /\ healthy[a] \subseteq wasUp[a]
                         /\ Blamed(a) # {} \/ Names(Checks(ask[a])) \subseteq healthy[a] \cup Names(Tail(stage[a]))
                         /\ Names(Tail(stage[a])) \subseteq Names(Checks(ask[a]))
                         /\ gotSet[a] => {"cache", "sentinel"} \subseteq Suspects(ask[a]) /\ (sentinel \/ Blamed(a) # {})
      BY <1>4, <2>2 DEF Served, Blamed
    <3> QED
      BY <1>1, <1>2, <2>2, <3>1 DEF Served
  <2> QED
    BY <2>1, <2>2
<1>7. \A b \in Askers : Serving(b)' = Serving(b)
  BY DEF Serving
<1>8. ASSUME NEW b \in Askers, b # a
      PROVE  stage'[b] \in Lists /\ (Serving(b) => Served(b)') /\ (~Serving(b) => Rests(b)')
  BY <1>4, <1>8 DEF RInv, Served, Blamed, Rests
<1> QED
  BY <1>1, <1>2, <1>3, <1>4, <1>5, <1>6, <1>7, <1>8 DEF RInv

(* What is away, or was evicted, has been noted by the request that meets it.           *)
LEMMA Noted ==
    ASSUME RInv, NEW a \in Askers, stage[a] # <<>>
    PROVE  /\ Head(stage[a]) \notin up => Blamed(a) # {}
           /\ gotSet[a] /\ ~("cache" \in up /\ sentinel) => Blamed(a) # {}
<1>1. Served(a)
  BY DEF RInv, Rests
<1>2. Head(stage[a]) \in Deps /\ Head(stage[a]) \in Suspects(ask[a])
  <2>1. Head(stage[a]) \in Deps /\ Head(stage[a]) \in Names(stage[a])
    <3>1. stage[a] \in Lists
      BY DEF RInv
    <3> QED
      BY <3>1, ListFacts
  <2>2. Names(Checks(ask[a])) \subseteq Suspects(ask[a])
    <3>1. ask[a] \in {"none", "health", "ready"}
      BY DEF RInv, ReadinessTypeOK
    <3> QED
      BY <3>1, SuspectFacts
  <2> QED
    BY <1>1, <2>1, <2>2 DEF Served
<1> QED
  BY <1>1, <1>2 DEF Served, Blamed, Deps

LEMMA ServeStep ==
    ASSUME RInv, NEW a \in Askers, Serve(a) PROVE RInv'
<1>0. ReadinessTypeOK /\ faults \in 0..MaxFaults /\ fallback \in BOOLEAN
  BY DEF RInv, ReadinessTypeOK
<1>a. healthy = [healthy EXCEPT ![a] = @] 
  BY <1>0 DEF ReadinessTypeOK
<1>1. CASE Probe(a)
  <2>1. PICK d \in {"database", "celery_broker"} : At(a, d) /\ EndProbe(a, d \in up)
    BY <1>1 DEF Probe
  <2>2. UNCHANGED <<up, sentinel, fallback, ask, gotSet, reply, wasUp, wasDown, faults>>
    BY <1>1 DEF Probe
  <2>3. stage[a] # <<>> /\ Head(stage[a]) = d /\ d \in Deps
    BY <2>1 DEF At, Deps
  <2>4. CASE d \in up
    <3>1. /\ stage' = [stage EXCEPT ![a] = Tail(@)] /\ Head(stage[a]) \in up
          /\ healthy' = [healthy EXCEPT ![a] = @ \cup {Head(stage[a])}]
      BY <2>1, <2>3, <2>4 DEF EndProbe
    <3> QED
      BY <1>0, <2>2, <2>3, <3>1, ProbeEnds
  <2>5. CASE d \notin up
    <3>1. stage' = [stage EXCEPT ![a] = Tail(@)] /\ healthy' = healthy /\ Blamed(a) # {}
      BY <1>a, <2>1, <2>3, <2>5, Noted DEF EndProbe
    <3> QED
      BY <1>0, <2>2, <2>3, <3>1, ProbeEnds
  <2> QED
    BY <2>4, <2>5
<1>2. CASE CacheSet(a)
  <2>1. stage[a] # <<>>
    BY <1>2 DEF CacheSet, At
  <2>2. CASE "cache" \in up
    <3>1. /\ sentinel' = TRUE /\ gotSet' = [gotSet EXCEPT ![a] = TRUE]
          /\ UNCHANGED <<stage, healthy, up, fallback, ask, reply, wasUp, wasDown, faults>>
      BY <1>2, <2>2 DEF CacheSet
    <3>2. ReadinessTypeOK'
      BY <1>0, <3>1 DEF ReadinessTypeOK
    <3>3. Serving(a)
      BY <2>1 DEF RInv, Rests
    <3>4. ASSUME NEW b \in Askers PROVE (Serving(b) => Served(b)') /\ (~Serving(b) => Rests(b)')
      <4>1. b # a => gotSet'[b] = gotSet[b]
        BY <1>0, <3>1 DEF ReadinessTypeOK
      <4> QED
        <5>1. "cache" \in Names(stage[a]) /\ ask[a] # "none"
          <6>1. stage[a] \in Lists /\ Head(stage[a]) = "cache" /\ ask[a] # "none"
            BY <1>2, <3>3 DEF RInv, CacheSet, At, Serving
          <6> QED
            BY <2>1, <6>1, ListFacts
        <5>2. {"cache", "sentinel"} \subseteq Suspects(ask[a])
          <6>1. ask[a] \in {"none", "health", "ready"}
            BY <1>0 DEF ReadinessTypeOK
          <6>2. Names(stage[a]) \subseteq Names(Checks(ask[a]))
            BY <3>3 DEF RInv, Served
          <6> QED
            BY <5>1, <6>1, <6>2, SuspectFacts
        <5> QED
          BY <3>1, <3>3, <4>1, <5>2 DEF RInv, Served, Blamed, Rests
    <3>5. AnswersAboutRequest' /\ \A b \in Askers : Serving(b)' = Serving(b) /\ stage'[b] \in Lists
      BY <3>1 DEF RInv, AnswersAboutRequest, Serving
    <3> QED
      BY <3>2, <3>4, <3>5 DEF RInv
  <2>3. CASE "cache" \notin up
    <3>1. /\ stage' = [stage EXCEPT ![a] = Tail(@)] /\ healthy' = healthy /\ Blamed(a) # {}
          /\ UNCHANGED <<sentinel, gotSet, up, fallback, ask, reply, wasUp, wasDown, faults>>
      BY <1>a, <1>2, <2>1, <2>3, Noted DEF CacheSet, EndProbe, At
    <3> QED
      BY <1>0, <2>1, <3>1, ProbeEnds
  <2> QED
    BY <2>2, <2>3
<1>3. CASE CacheGetFails(a)
  <2>1. stage[a] # <<>> /\ gotSet[a] /\ ~("cache" \in up /\ sentinel)
    BY <1>3 DEF CacheGetFails, At
  <2>2. /\ stage' = [stage EXCEPT ![a] = Tail(@)] /\ healthy' = healthy /\ Blamed(a) # {}
        /\ UNCHANGED <<sentinel, gotSet, up, fallback, ask, reply, wasUp, wasDown, faults>>
    BY <1>a, <1>3, <2>1, Noted DEF CacheGetFails, EndProbe
  <2> QED
    BY <1>0, <2>1, <2>2, ProbeEnds
<1>4. CASE CacheGetRecovers(a) \/ RecoverFails(a)
  <2>1. stage[a] # <<>> /\ Head(stage[a]) \in up
    BY <1>4 DEF CacheGetRecovers, RecoverFails, At
  <2>2. /\ stage' = [stage EXCEPT ![a] = Tail(@)]
        /\ healthy' = [healthy EXCEPT ![a] = @ \cup {Head(stage[a])}]
        /\ UNCHANGED <<sentinel, gotSet, up, ask, reply, wasUp, wasDown>>
    BY <1>4 DEF CacheGetRecovers, RecoverFails, EndProbe
  <2>3. fallback' \in BOOLEAN
    BY <1>0, <1>4 DEF CacheGetRecovers, RecoverFails
  <2>4. faults' \in 0..MaxFaults
    <3>1. faults' = faults \/ (faults < MaxFaults /\ faults' = faults + 1)
      BY <1>4 DEF CacheGetRecovers, RecoverFails
    <3> QED
      BY <1>0, <3>1, FaultCounted
  <2> QED
    BY <2>1, <2>2, <2>3, <2>4, ProbeEnds
<1>5. CASE Answer(a)
  <2>1. Serving(a) /\ Served(a) /\ stage[a] = <<>>
    BY <1>5 DEF Answer, RInv
  <2>2. /\ healthy' = [healthy EXCEPT ![a] = {}] /\ gotSet' = [gotSet EXCEPT ![a] = FALSE]
        /\ UNCHANGED <<up, sentinel, fallback, ask, stage, wasUp, wasDown, faults>>
    BY <1>5 DEF Answer
  <2>3. /\ reply' \in [Askers -> {0, 200, 503}] /\ \A b \in Askers : b # a => reply'[b] = reply[b]
        /\ reply'[a] = IF Names(Checks(ask[a])) \subseteq healthy[a] THEN 200 ELSE 503
    BY <1>0, <1>5 DEF Answer, ReadinessTypeOK, Names
  <2>4. ReadinessTypeOK'
    BY <1>0, <2>2, <2>3 DEF ReadinessTypeOK
  <2>5. AnswersAboutRequest'
    <3>1. Names(stage[a]) = {}
      BY <2>1, ListFacts
    <3>2. reply'[a] = 200 => \A i \in DOMAIN Checks(ask[a]) : Checks(ask[a])[i] \in wasUp[a]
      BY <2>1, <2>3 DEF Served, Names
    <3>3. reply'[a] = 503 => wasDown[a] \cap Suspects(ask[a]) # {}
      BY <2>1, <2>3, <3>1 DEF Served, Blamed
    <3> QED
      BY <2>2, <2>3, <3>2, <3>3 DEF RInv, AnswersAboutRequest
  <2>6. ~Serving(a)' /\ Rests(a)' /\ stage'[a] \in Lists
    BY <1>0, <2>1, <2>2, <2>3 DEF ReadinessTypeOK, Serving, Rests, Lists
  <2>7. ASSUME NEW b \in Askers, b # a
        PROVE  stage'[b] \in Lists /\ (Serving(b)' => Served(b)') /\ (~Serving(b)' => Rests(b)')
    <3>1. gotSet'[b] = gotSet[b] /\ healthy'[b] = healthy[b]
      BY <1>0, <2>2, <2>7 DEF ReadinessTypeOK
    <3> QED
      BY <2>2, <2>3, <2>7, <3>1 DEF RInv, Serving, Served, Blamed, Rests
  <2> QED
    BY <2>4, <2>5, <2>6, <2>7 DEF RInv
<1> QED
  BY <1>1, <1>2, <1>3, <1>4, <1>5 DEF Serve

LEMMA ReadyInvariance == ReadinessSpec => []RInv
<1>1. ASSUME RInv, [ReadinessNext]_readyVars PROVE RInv'
  <2>1. CASE UNCHANGED readyVars
    <3>1. ReadinessTypeOK' /\ AnswersAboutRequest'
      BY <1>1, <2>1 DEF readyVars, RInv, ReadinessTypeOK, AnswersAboutRequest
    <3> QED
      BY <1>1, <2>1, <3>1 DEF readyVars, RInv, Serving, Served, Blamed, Rests
  <2>2. CASE Evict
    BY <1>1, <2>2, WorldStep DEF Deps
  <2> QED
    BY <1>1, <2>1, <2>2, WorldStep, AskStep, ServeStep DEF ReadinessNext
<1> QED
  BY <1>1, ReadyInit, PTL DEF ReadinessSpec

(* The state of the probes keeps its types, for any number of callers and faults.         *)
THEOREM ReadinessTypes == ReadinessSpec => []ReadinessTypeOK
<1>1. RInv => ReadinessTypeOK
  BY DEF RInv
<1> QED
  BY <1>1, ReadyInvariance, PTL

(* However dependencies come and go between the probes of however many callers: a 200 of   *)
(* health_check or readiness_check names only dependencies that answered during the        *)
(* request, and a 503 is due to one that the view probes, never to the recovery of the     *)
(* cache alone.                                                                           *)
THEOREM AnswersAreAboutRequest == ReadinessSpec => []AnswersAboutRequest
<1>1. RInv => AnswersAboutRequest
  BY DEF RInv
<1> QED
  BY <1>1, ReadyInvariance, PTL

-------------------------------------------------------------------------------
(* The start of a process. *)

Values == (Texts \X {"os", "file", "secret", "default"}) \cup {Unset}

BootTypes ==
    /\ machine \in [os : Layer, file : Layer, secret : Layer] /\ environ \in [Keys -> Values]
    /\ fetched \in BOOLEAN

(* Once os.environ is read, the operator's values stand; a default is seeded only for      *)
(* tests; a secret has been fetched; and prod leaves the loader only without a name for    *)
(* the secret, or with the secret.                                                       *)
Layered ==
    /\ bpc = "env" => \A k \in Keys : environ[k] = Unset
    /\ bpc # "env" => \A k \in Keys : machine.os[k] # "unset" => environ[k] = <<machine.os[k], "os">>
    /\ \A k \in Keys : environ[k][2] = "default" => env = "test"
    /\ \A k \in Keys : environ[k][2] = "secret" => env \in {"dev", "prod"} /\ fetched
    /\ \A k \in Keys : env = "test" => environ[k][2] \in {"os", "default", "none"}
    /\ bpc \in {"module", "booted"} => (env = "prod" => fetched \/ ~Truthy(environ, "AWS_SECRET_NAME"))

(* A process that came up shows what its module made of the environment it accepted.       *)
Accepted == bpc = "booted" => settings = Module(env, environ) /\ ~Refuses(env, environ)

BInv == BootTypes /\ Layered /\ Accepted

LEMMA OverlayFacts ==
    ASSUME NEW e \in [Keys -> Values], NEW layer \in Layer, NEW name \in {"os", "file", "secret"}
    PROVE  /\ Overlay(e, layer, name) \in [Keys -> Values]
           /\ \A k \in Keys : e[k] # Unset => Overlay(e, layer, name)[k] = e[k]
           /\ \A k \in Keys : e[k] = Unset /\ layer[k] # "unset" => Overlay(e, layer, name)[k] = <<layer[k], name>>
           /\ \A k \in Keys : Overlay(e, layer, name)[k] = e[k] \/ Overlay(e, layer, name)[k][2] = name
<1>1. ASSUME NEW k \in Keys, layer[k] # "unset" PROVE <<layer[k], name>> \in Values
  BY <1>1 DEF Layer, Values
<1> QED
  BY <1>1 DEF Overlay, Has

LEMMA BootInitInv == BootInit => BInv
<1> SUFFICES ASSUME BootInit PROVE BInv
  OBVIOUS
<1>1. BootTypes
  BY SettingsAssumption DEF BootInit, BootTypes, Values
<1>2. Layered
  BY DEF BootInit, Layered, Unset
<1>3. Accepted
  BY DEF BootInit, Accepted
<1> QED
  BY <1>1, <1>2, <1>3 DEF BInv

LEMMA SelectStep == ASSUME BInv, SelectEnv PROVE BInv'
<1>1. /\ bpc = "env" /\ environ' = Overlay(environ, machine.os, "os") /\ bpc' \in {"dotenv", "refused"}
      /\ UNCHANGED <<env, machine, fetched, settings, starts>>
  BY DEF SelectEnv
<1>2. machine.os \in Layer /\ environ \in [Keys -> Values] /\ \A k \in Keys : environ[k] = Unset
  BY <1>1 DEF BInv, BootTypes, Layered
<1>3. BootTypes'
  BY <1>1, <1>2, OverlayFacts DEF BInv, BootTypes
<1>4. \A k \in Keys : /\ machine.os[k] # "unset" => environ'[k] = <<machine.os[k], "os">>
                      /\ environ'[k] = Unset \/ environ'[k][2] = "os"
  BY <1>1, <1>2, OverlayFacts
<1>5. Layered'
  BY <1>1, <1>4 DEF Layered, Unset
<1>6. Accepted'
  BY <1>1 DEF Accepted
<1> QED
  BY <1>3, <1>5, <1>6 DEF BInv

(* A later layer fills what the earlier ones left open, and nothing else.                 *)
LEMMA LayerStep ==
    ASSUME BInv, NEW layer \in Layer, NEW name \in {"file", "secret"}, bpc \in {"dotenv", "secrets"},
           environ' = Overlay(environ, layer, name), bpc' \in {"secrets", "module"}, env # "test",
           name = "secret" => env \in {"dev", "prod"} /\ fetched', fetched' \in BOOLEAN,
           fetched => fetched', bpc' = "module" => fetched',
           UNCHANGED <<env, machine, settings, starts>>
    PROVE  BInv'
<1>1. environ \in [Keys -> Values]
  BY DEF BInv, BootTypes
<1>2. BootTypes'
  BY <1>1, OverlayFacts DEF BInv, BootTypes
<1>3. \A k \in Keys : machine.os[k] # "unset" => environ'[k] = <<machine.os[k], "os">>
  BY <1>1, OverlayFacts DEF BInv, Layered, Unset
<1>4. \A k \in Keys : environ'[k] = environ[k] \/ environ'[k][2] = name
  BY <1>1, OverlayFacts
<1>5. Layered'
  <2>1. \A k \in Keys : environ'[k][2] = "default" => env' = "test"
    BY <1>4 DEF BInv, Layered
  <2>2. \A k \in Keys : environ'[k][2] = "secret" => env' \in {"dev", "prod"} /\ fetched'
    BY <1>4 DEF BInv, Layered
  <2> QED
    BY <1>3, <2>1, <2>2 DEF Layered
<1>6. Accepted'
  BY DEF Accepted
<1> QED
  BY <1>2, <1>5, <1>6 DEF BInv

(* Stages that leave os.environ as it is.                                                *)
LEMMA PassStep ==
    ASSUME BInv, bpc # "env", bpc' \in {"secrets", "module", "refused"},
           bpc' = "module" => ~Asks \/ env # "prod",
           UNCHANGED <<env, machine, environ, fetched, settings, starts>>
    PROVE  BInv'
<1>1. BootTypes' /\ Accepted'
  BY DEF BInv, BootTypes, Accepted
<1>2. Layered'
  BY DEF BInv, Layered, Asks, Truthy, Has, ValueText
<1> QED
  BY <1>1, <1>2 DEF BInv

LEMMA ImportModuleStep == ASSUME BInv, ImportModule PROVE BInv'
<1>1. /\ bpc = "module" /\ environ' = IF env = "test" THEN TestEnviron(environ) ELSE environ
      /\ bpc' \in {"refused", "booted"} /\ UNCHANGED <<env, machine, fetched, starts>>
      /\ bpc' = "booted" => ~Refuses(env, environ') /\ settings' = Module(env, environ')
  BY DEF ImportModule
<1>2. environ \in [Keys -> Values] /\ "SECRET_KEY" \in Keys /\ <<"good", "default">> \in Values
  BY DEF BInv, BootTypes, Keys, Values, Texts
<1>3. /\ environ' \in [Keys -> Values]
      /\ \A k \in Keys : environ'[k] = environ[k]
                         \/ (env = "test" /\ environ[k] = Unset /\ environ'[k] = <<"good", "default">>)
  BY <1>1, <1>2 DEF TestEnviron, Has
<1>4. BootTypes'
  BY <1>1, <1>3 DEF BInv, BootTypes
<1>5. Layered'
  <2>1. \A k \in Keys : machine.os[k] # "unset" => environ'[k] = <<machine.os[k], "os">>
    BY <1>1, <1>3 DEF BInv, Layered, Unset
  <2>2. \A k \in Keys : environ'[k][2] = "default" => env = "test"
    BY <1>3 DEF BInv, Layered
  <2>3. \A k \in Keys : environ'[k][2] = "secret" => env \in {"dev", "prod"} /\ fetched
    BY <1>3 DEF BInv, Layered
  <2>4. \A k \in Keys : env = "test" => environ'[k][2] \in {"os", "default", "none"}
    BY <1>3 DEF BInv, Layered
  <2>5. env = "prod" => fetched \/ ~Truthy(environ', "AWS_SECRET_NAME")
    BY <1>1 DEF BInv, Layered
  <2> QED
    BY <1>1, <2>1, <2>2, <2>3, <2>4, <2>5 DEF Layered
<1>6. Accepted'
  BY <1>1 DEF Accepted
<1> QED
  BY <1>4, <1>5, <1>6 DEF BInv

LEMMA RestartStep == ASSUME BInv, Restart PROVE BInv'
<1>1. BootTypes'
  BY DEF BInv, BootTypes, Restart, Values
<1>2. Layered'
  BY DEF Layered, Restart, Unset
<1> QED
  BY <1>1, <1>2 DEF BInv, Accepted, Restart

LEMMA BootInvariance == BootSpec => []BInv
<1>1. ASSUME BInv, [BootNext]_bootVars PROVE BInv'
  <2>0. /\ machine.file \in Layer /\ machine.secret \in Layer /\ fetched \in BOOLEAN
    BY <1>1 DEF BInv, BootTypes
  <2>1. CASE LoadDotenv
    <3>1. CASE env = "test"
      BY <1>1, <2>1, <3>1, PassStep DEF LoadDotenv
    <3>2. CASE env # "test"
      BY <1>1, <2>0, <2>1, <3>2, LayerStep DEF LoadDotenv
    <3> QED
      BY <3>1, <3>2
  <2>2. CASE SkipSecrets \/ SecretsRefused \/ SecretsUnreachable
    <3>1. /\ bpc = "secrets" /\ bpc' \in {"module", "refused"} /\ (bpc' = "module" => ~Asks \/ env # "prod")
          /\ UNCHANGED <<env, machine, environ, fetched, settings, starts>>
      BY <2>2 DEF SkipSecrets, SecretsRefused, SecretsUnreachable
    <3> QED
      BY <1>1, <3>1, PassStep
  <2>3. CASE LoadSecrets
    <3>1. env \in {"dev", "prod"} /\ env # "test"
      BY <2>3 DEF LoadSecrets, Asks
    <3> QED
      BY <1>1, <2>0, <2>3, <3>1, LayerStep DEF LoadSecrets
  <2>4. CASE UNCHANGED bootVars
    BY <1>1, <2>4 DEF BInv, BootTypes, Layered, Accepted, bootVars
  <2> QED
    BY <1>1, <2>1, <2>2, <2>3, <2>4, SelectStep, ImportModuleStep, RestartStep DEF BootNext
<1> QED
  BY <1>1, BootInitInv, PTL DEF BootSpec

(* For every way to fill the environment, the .env file and the secret: the operator's       *)
(* values win, and each layer reaches only the environments it is meant for.               *)
THEOREM LayersAreKept == BootSpec => []LayersKept
<1>1. BInv => LayersKept
  BY DEF BInv, Layered, LayersKept
<1> QED
  BY <1>1, BootInvariance, PTL

(* What the accepted environment gives a deployed process.                                *)
LEMMA DeployedIsConfigured ==
    ASSUME NEW n \in {"dev", "uat", "prod"}, NEW e \in [Keys -> Values],
           \A k \in Keys : e[k][2] # "default", ~Refuses(n, e)
    PROVE  LET s == Module(n, e)
           IN  /\ s.SIGNING_KEY = e["JWT_SIGNING_KEY"]
               /\ s.field_encryption_key = e["FIELD_ENCRYPTION_KEY"]
               /\ s.DATABASES.HOST[2] # "default" /\ s.DATABASES.NAME[2] # "default"
               /\ s.ALLOWED_HOSTS /\ s.THROTTLES = Throttled
               /\ n # "dev" => /\ s.CACHES[2] # "default" /\ s.CELERY_BROKER_URL[2] # "default"
                               /\ ~s.DEBUG /\ ~s.CORS_ALLOW_ALL_ORIGINS
<1>1. Hosts(e) /\ \A k \in Required : Truthy(e, k)
  BY DEF Refuses, DevRefuses, UatRefuses, ProdRefuses
<1>2. n # "dev" => /\ Truthy(e, "VALKEY_CACHE_URL") /\ Truthy(e, "CELERY_BROKER_URL") /\ ~CorsAllowAll(e)
  BY DEF Refuses, UatRefuses, ProdRefuses
<1>3. /\ SigningKey(e) = e["JWT_SIGNING_KEY"] /\ FieldEncryptionKey(e) = e["FIELD_ENCRYPTION_KEY"]
      /\ Databases(e).HOST = e["POSTGRES_HOST"] /\ Databases(e).NAME = e["POSTGRES_DB"]
  BY <1>1 DEF SigningKey, FieldEncryptionKey, Or, Databases, Getenv, Truthy, Required
<1>4. n # "dev" => CacheLocation(e) = e["VALKEY_CACHE_URL"] /\ BrokerUrl(e) = e["CELERY_BROKER_URL"]
  BY <1>2 DEF CacheLocation, BrokerUrl, Getenv, Truthy
<1>5. /\ {"POSTGRES_HOST", "POSTGRES_DB", "VALKEY_CACHE_URL", "CELERY_BROKER_URL"} \subseteq Keys
  BY DEF Keys, Required
<1>6. CASE n = "dev"
  <2>1. Module(n, e) = BaseModule(e)
    BY <1>6 DEF Module
  <2> QED
    BY <1>1, <1>3, <1>5, <1>6, <2>1 DEF BaseModule
<1>7. CASE n # "dev"
  <2>1. Module(n, e) = [BaseModule(e) EXCEPT !.DEBUG = FALSE]
    BY <1>7 DEF Module
  <2> QED
    BY <1>1, <1>2, <1>3, <1>4, <1>5, <1>7, <2>1 DEF BaseModule
<1> QED
  BY <1>6, <1>7

(* No way to fill the three layers brings a deployed process up on a developer's defaults.  *)
THEOREM BootedAreConfigured == BootSpec => []BootedIsConfigured
<1>1. ASSUME BInv PROVE BootedIsConfigured
  <2> SUFFICES ASSUME bpc = "booted", Deployed PROVE BootedIsConfigured
    BY DEF BootedIsConfigured
  <2>1. /\ settings = Module(env, environ) /\ ~Refuses(env, environ) /\ environ \in [Keys -> Values]
        /\ env \in {"dev", "uat", "prod"} /\ \A k \in Keys : environ[k][2] # "default"
    BY <1>1 DEF BInv, Accepted, BootTypes, Layered, Deployed
  <2>2. Strict => env # "dev"
    BY DEF Strict
  <2> QED
    BY <2>1, <2>2, DeployedIsConfigured DEF BootedIsConfigured
<1> QED
  BY <1>1, BootInvariance, PTL

-------------------------------------------------------------------------------
(* The exception classes that the AWS helpers raise. *)

LEMMA TableDomains ==
    /\ DOMAIN KitClasses = {"ResilienceKitError", "resilience_kit.TransientError",
                            "resilience_kit.ExternalTimeoutError"}
    /\ DOMAIN BaseClass = {"BaseCustomError"}
    /\ DOMAIN InfrastructureClasses = {"InfrastructureError", "ServiceUnavailableError",
                                       "ExternalServiceError", "TransientError", "ExternalTimeoutError"}
    /\ DOMAIN ClientClasses = {"S3Exception", "S3NotFoundError", "SESException",
                               "OutboundURLNotAllowedError", "PartnerPushError"}
    /\ DOMAIN RepositoryClasses = {"RepositoryError", "EntityNotFoundError", "InactiveParentError",
                                   "InvalidInputError"}
    /\ DOMAIN AuthClasses = {"AuthenticationFailedError", "APIKeyRevokedError", "PermissionDeniedError",
                             "TokenExpiredError", "TokenInvalidError", "TokenRevokedError"}
    /\ DOMAIN ApiClass = {"APIError"} /\ DOMAIN RateLimitClass = {"RateLimitError"}
    /\ DOMAIN ValidationClass = {"ValidationError"}
    /\ DOMAIN AccountClasses = {"APIKeyGenerationError", "NoFieldsToUpdateError", "InvalidTimezoneError"}
  BY DEF KitClasses, BaseClass, InfrastructureClasses, ClientClasses, RepositoryClasses, AuthClasses,
         ApiClass, RateLimitClass, ValidationClass, AccountClasses

LEMMA ClassEntry ==
    ASSUME NEW t \in ClassTables, NEW c \in DOMAIN t, \A u \in ClassTables : c \in DOMAIN u => u = t
    PROVE  c \in ClassNames /\ ClassOfName[c] = t[c]
<1>1. c \in ClassNames
  BY DEF ClassNames
<1>2. (CHOOSE u \in ClassTables : c \in DOMAIN u) = t
  OBVIOUS
<1> QED
  BY <1>1, <1>2 DEF ClassOfName

LEMMA ClassEntries ==
    /\ \A c \in DOMAIN KitClasses : c \in ClassNames /\ ClassOfName[c] = KitClasses[c]
    /\ \A c \in DOMAIN BaseClass : c \in ClassNames /\ ClassOfName[c] = BaseClass[c]
    /\ \A c \in DOMAIN InfrastructureClasses : c \in ClassNames /\ ClassOfName[c] = InfrastructureClasses[c]
    /\ \A c \in DOMAIN ClientClasses : c \in ClassNames /\ ClassOfName[c] = ClientClasses[c]
    /\ \A c \in DOMAIN RepositoryClasses : c \in ClassNames /\ ClassOfName[c] = RepositoryClasses[c]
<1> USE TableDomains DEF ClassTables
<1>1. \A c \in DOMAIN KitClasses : c \in ClassNames /\ ClassOfName[c] = KitClasses[c]
  BY ClassEntry
<1>2. \A c \in DOMAIN BaseClass : c \in ClassNames /\ ClassOfName[c] = BaseClass[c]
  BY ClassEntry
<1>3. \A c \in DOMAIN InfrastructureClasses : c \in ClassNames /\ ClassOfName[c] = InfrastructureClasses[c]
  BY ClassEntry
<1>4. \A c \in DOMAIN ClientClasses : c \in ClassNames /\ ClassOfName[c] = ClientClasses[c]
  BY ClassEntry
<1>5. \A c \in DOMAIN RepositoryClasses : c \in ClassNames /\ ClassOfName[c] = RepositoryClasses[c]
  BY ClassEntry
<1> QED
  BY <1>1, <1>2, <1>3, <1>4, <1>5

LEMMA NoSuchClass == "none" \notin ClassNames /\ "Exception" \notin ClassNames
  BY TableDomains DEF ClassNames, ClassTables

(* The chains of bases, and that no class on them sets a status.                         *)
Chain == {"ResilienceKitError", "BaseCustomError", "InfrastructureError", "ServiceUnavailableError",
          "ExternalServiceError", "TransientError", "S3Exception", "S3NotFoundError", "SESException",
          "RepositoryError", "InvalidInputError"}

LEMMA KitRoot ==
    /\ "ResilienceKitError" \in ClassNames
    /\ ClassOfName["ResilienceKitError"].base = "Exception" /\ ClassOfName["ResilienceKitError"].status = 0
<1>1. KitClasses["ResilienceKitError"] = Class("Exception", 0)
  BY DEF KitClasses
<1>2. "ResilienceKitError" \in ClassNames /\ ClassOfName["ResilienceKitError"] = Class("Exception", 0)
  BY <1>1, TableDomains, ClassEntries
<1> QED
  BY <1>2 DEF Class

LEMMA Bases ==
    /\ Base("S3NotFoundError") = "S3Exception" /\ Base("S3Exception") = "ExternalServiceError"
    /\ Base("SESException") = "ExternalServiceError" /\ Base("TransientError") = "ExternalServiceError"
    /\ Base("ExternalServiceError") = "InfrastructureError"
    /\ Base("ServiceUnavailableError") = "InfrastructureError"
    /\ Base("InvalidInputError") = "RepositoryError" /\ Base("RepositoryError") = "BaseCustomError"
    /\ Base("InfrastructureError") = "BaseCustomError" /\ Base("BaseCustomError") = "ResilienceKitError"
    /\ Base("ResilienceKitError") = "Exception" /\ Base("Exception") = "Exception" /\ Base("none") = "none"
<1> USE TableDomains, ClassEntries DEF Base, Class
<1>1. Base("Exception") = "Exception" /\ Base("none") = "none"
  BY NoSuchClass
<1>2. /\ Base("S3NotFoundError") = "S3Exception" /\ Base("S3Exception") = "ExternalServiceError"
      /\ Base("SESException") = "ExternalServiceError"
  BY DEF ClientClasses
<1>3. /\ Base("TransientError") = "ExternalServiceError" /\ Base("ExternalServiceError") = "InfrastructureError"
      /\ Base("ServiceUnavailableError") = "InfrastructureError" /\ Base("InfrastructureError") = "BaseCustomError"
  BY DEF InfrastructureClasses
<1>4. Base("InvalidInputError") = "RepositoryError" /\ Base("RepositoryError") = "BaseCustomError"
  BY DEF RepositoryClasses
<1>5. Base("BaseCustomError") = "ResilienceKitError"
  BY DEF BaseClass
<1>6. Base("ResilienceKitError") = "Exception"
  BY KitRoot
<1> QED
  BY <1>1, <1>2, <1>3, <1>4, <1>5, <1>6

LEMMA NoStatus == \A c \in Chain : ClassOfName[c].status = 0
<1> USE TableDomains, ClassEntries DEF Class
<1>2. \A c \in {"S3NotFoundError", "S3Exception", "SESException"} : ClassOfName[c].status = 0
  BY DEF ClientClasses
<1>3. \A c \in {"TransientError", "ExternalServiceError", "ServiceUnavailableError", "InfrastructureError"} :
         ClassOfName[c].status = 0
  BY DEF InfrastructureClasses
<1>4. \A c \in {"InvalidInputError", "RepositoryError"} : ClassOfName[c].status = 0
  BY DEF RepositoryClasses
<1>5. ClassOfName["BaseCustomError"].status = 0
  BY DEF BaseClass
<1> QED
  BY <1>2, <1>3, <1>4, <1>5, KitRoot DEF Chain

LEMMA InstanceOf ==
    ASSUME NEW c, NEW d
    PROVE  IsInstance(c, d) <=> d \in {c, Base(c), Base(Base(c)), Base(Base(Base(c))),
                                       Base(Base(Base(Base(c)))), Base(Base(Base(Base(Base(c)))))}
<1> DEFINE b1 == Base(c) b2 == Base(b1) b3 == Base(b2) b4 == Base(b3) b5 == Base(b4)
<1>1. Mro(c) = <<c, b1, b2, b3, b4, b5>>
  BY DEF Mro
<1> HIDE DEF b1, b2, b3, b4, b5
<1>2. IsInstance(c, d) <=> d \in {c, b1, b2, b3, b4, b5}
  BY <1>1 DEF IsInstance
<1> QED
  BY <1>2 DEF b1, b2, b3, b4, b5

(* What the AWS helpers raise, and what of it is the service's failure.                   *)
ServiceErrors == {"S3Exception", "S3NotFoundError", "SESException", "TransientError"}
Errors == ServiceErrors \cup {"none", "ServiceUnavailableError", "InvalidInputError"}

(* The retry policy names the kit's classes, and the project's TransientError is none of    *)
(* them: nothing the helpers raise is retried.                                           *)
LEMMA NothingRetried == \A e \in Errors : ~Retryable(e)
  BY Bases, InstanceOf DEF Errors, ServiceErrors, Retryable, RetryOn

LEMMA ServiceErrorFacts ==
    /\ \A e \in Errors : IsInstance(e, "ExternalServiceError") <=> e \in ServiceErrors
    /\ \A e \in ServiceErrors : ~IsInstance(e, "EntityNotFoundError") /\ ~IsInstance(e, "ServiceUnavailableError")
    /\ IsInstance("S3NotFoundError", "S3NotFoundError")
<1>1. \A e \in ServiceErrors : /\ IsInstance(e, "ExternalServiceError") /\ ~IsInstance(e, "EntityNotFoundError")
                               /\ ~IsInstance(e, "ServiceUnavailableError")
  BY Bases, InstanceOf DEF ServiceErrors
<1>2. \A e \in {"none", "ServiceUnavailableError", "InvalidInputError"} : ~IsInstance(e, "ExternalServiceError")
  BY Bases, InstanceOf
<1>3. IsInstance("S3NotFoundError", "S3NotFoundError")
  BY InstanceOf
<1> QED
  BY <1>1, <1>2, <1>3 DEF Errors, ServiceErrors

LEMMA NoAttribute == \A e \in ServiceErrors : StatusAttribute(e, 0) = 0
<1> SUFFICES ASSUME NEW e \in ServiceErrors PROVE StatusAttribute(e, 0) = 0
  OBVIOUS
<1>1. \A i \in DOMAIN Mro(e) : Mro(e)[i] \in Chain \cup {"Exception"}
  <2>1. \A d : IsInstance(e, d) => d \in Chain \cup {"Exception"}
    BY Bases, InstanceOf DEF ServiceErrors, Chain
  <2> QED
    BY <2>1 DEF IsInstance
<1>2. {i \in DOMAIN Mro(e) : Mro(e)[i] \in ClassNames /\ ClassOfName[Mro(e)[i]].status # 0} = {}
  BY <1>1, NoStatus, NoSuchClass
<1> QED
  BY <1>2 DEF StatusAttribute

(* The handler maps each of them to 502.                                                  *)
LEMMA BadGateway ==
    ASSUME NEW e \in ServiceErrors
    PROVE  HandlerStatus(e, 0, CoreMappings \o AccountMappings) = 502
<1> DEFINE ms == CoreMappings \o AccountMappings
           matching == {i \in DOMAIN ms : IsInstance(e, ms[i][1])}
           first == CHOOSE i \in matching : \A j \in matching : i <= j
<1>1. /\ DOMAIN ms = 1..12 /\ \A i \in 1..9 : ms[i] = CoreMappings[i]
  BY DEF CoreMappings, AccountMappings
<1>2. /\ ms[1] = <<"EntityNotFoundError", 404>> /\ ms[2] = <<"ServiceUnavailableError", 503>>
      /\ ms[3][2] = 502 /\ ms[4][2] = 502 /\ ms[5][2] = 502 /\ ms[6] = <<"ExternalServiceError", 502>>
  BY <1>1 DEF CoreMappings
<1> HIDE DEF ms
<1>3. matching \subseteq 1..12 /\ 6 \in matching /\ 1 \notin matching /\ 2 \notin matching
  BY <1>1, <1>2, ServiceErrorFacts DEF Errors
<1>4. \E i \in matching : \A j \in matching : i <= j
  <2> HIDE DEF matching
  <2>1. CASE 3 \in matching
    BY <1>3, <2>1
  <2>2. CASE 3 \notin matching /\ 4 \in matching
    BY <1>3, <2>2
  <2>3. CASE 3 \notin matching /\ 4 \notin matching /\ 5 \in matching
    BY <1>3, <2>3
  <2>4. CASE 3 \notin matching /\ 4 \notin matching /\ 5 \notin matching
    BY <1>3, <2>4
  <2> QED
    BY <2>1, <2>2, <2>3, <2>4
<1>5. first \in matching /\ first <= 6
  <2> HIDE DEF matching
  <2>1. first \in matching /\ \A j \in matching : first <= j
    BY <1>4
  <2> QED
    BY <1>3, <2>1
<1>6. ms[first][2] = 502
  <2> HIDE DEF matching, first
  <2>1. first \in {3, 4, 5, 6}
    BY <1>3, <1>5
  <2> QED
    BY <1>2, <2>1
<1>7. HandlerStatus(e, 0, ms) = 502
  BY <1>3, <1>6, NoAttribute DEF HandlerStatus
<1> QED
  BY <1>7 DEF ms

-------------------------------------------------------------------------------
(* Outbound calls. *)

OTypes ==
    /\ kind \in [Calls -> Kinds] /\ object \in Contents
    /\ breaker \in [Services -> {"closed", "open", "half_open"}]
    /\ failures \in [Services -> Nat] /\ harm \in [Services -> Nat]
    /\ cpc \in [Calls -> {"start", "attempt", "record", "done"}] /\ tries \in [Calls -> Nat]
    /\ error \in [Calls -> Errors] /\ stream \in [Calls -> BOOLEAN]
    /\ stored \in [Calls -> Contents] /\ seen \in [Calls -> SUBSET Contents]

(* The breaker's count never runs ahead of the failures that were the service's own, and   *)
(* it leaves closed only when there were enough of them.                                 *)
Breakers == \A s \in Services : failures[s] <= harm[s] /\ (breaker[s] # "closed" => harm[s] >= FailMax)

(* A file is read by one attempt only; what a finished attempt claims is so; and "no such    *)
(* object" comes only from the store.                                                     *)
Honest(c) ==
    /\ cpc[c] \in {"start", "attempt"} /\ kind[c] = "upload_file_to_s3" => ~stream[c]
    /\ cpc[c] \in {"record", "done"} /\ error[c] = "none" =>
          /\ kind[c] \in Uploads => stored[c] = "whole"
          /\ kind[c] = "send_email" => <<c, tries[c]>> \in mails
          /\ kind[c] \in Reads => seen[c] \ {"absent"} # {}
    /\ error[c] = "S3NotFoundError" => "absent" \in seen[c] /\ kind[c] # "send_email"

OInv == OTypes /\ Breakers /\ \A c \in Calls : Honest(c)

(* What a helper makes of an attempt.                                                    *)
LEMMA TranslateFacts ==
    ASSUME OTypes, NEW c \in Calls, NEW outcome \in Outcomes(c)
    PROVE  /\ Translate(c, outcome) \in Errors
           /\ Translate(c, outcome) = "none" /\ kind[c] # "delete_s3_object" => outcome = "done"
           /\ Translate(c, outcome) = "S3NotFoundError" => object = "absent" /\ kind[c] \in Reads
           /\ outcome = "done" /\ kind[c] \in Reads => object # "absent"
<1> USE DEF Errors, ServiceErrors, S3Call
<1>0. kind[c] \in Kinds
  BY DEF OTypes
<1>1. CASE kind[c] = "send_email"
  <2>1. Translate(c, outcome) = SendEmail(outcome)
    BY <1>1 DEF Translate
  <2> QED
    BY <1>1, <2>1 DEF SendEmail, ClassifySes, Reads
<1>2. CASE kind[c] \in Reads
  <2>1. outcome \in {"no_such_key", "done"} => (object = "absent" <=> outcome = "no_such_key")
    BY <1>2 DEF Outcomes, Reads
  <2>2. /\ Translate(c, outcome) \in {"none", S3Call(outcome), "S3Exception"}
        /\ Translate(c, outcome) \in {"none", "S3NotFoundError"} => outcome \in {"no_such_key", "done"}
        /\ Translate(c, outcome) = "none" => outcome = "done"
        /\ Translate(c, outcome) = "S3NotFoundError" => outcome = "no_such_key"
    BY <1>2 DEF Translate, Reads, FetchJson, FetchBytes
  <2> QED
    BY <1>2, <2>1, <2>2
<1>3. CASE kind[c] = "delete_s3_object"
  <2>1. Translate(c, outcome) = DeleteObject(outcome)
    BY <1>3 DEF Translate
  <2> QED
    BY <1>3, <2>1 DEF DeleteObject, Reads
<1>4. CASE kind[c] \in Uploads \cup {"generate_presigned_url"}
  <2>1. outcome # "no_such_key"
    BY <1>4 DEF Outcomes, Uploads, Reads
  <2>2. Translate(c, outcome) = IF outcome = "done" THEN "none" ELSE S3Call(outcome)
    BY <1>4 DEF Translate, Uploads
  <2> QED
    BY <1>4, <2>1, <2>2 DEF Uploads, Reads
<1> QED
  BY <1>0, <1>1, <1>2, <1>3, <1>4 DEF Kinds

LEMMA OutInit == OutboundInit => OInv
<1> SUFFICES ASSUME OutboundInit PROVE OInv
  OBVIOUS
<1>1. OTypes
  BY OutboundAssumption DEF OutboundInit, OTypes, Contents, Errors, ServiceErrors
<1>2. Breakers
  BY DEF OutboundInit, Breakers
<1>3. \A c \in Calls : Honest(c)
  BY DEF OutboundInit, Honest
<1> QED
  BY <1>1, <1>2, <1>3 DEF OInv

LEMMA BeginStep == ASSUME OInv, NEW c \in Calls, Begin(c) PROVE OInv'
<1>1. PICK e \in Errors, p \in {"attempt", "record", "done"} :
        /\ cpc[c] = "start" /\ error' = [error EXCEPT ![c] = e] /\ cpc' = [cpc EXCEPT ![c] = p]
        /\ e # "S3NotFoundError" /\ (p # "attempt" => e # "none")
        /\ UNCHANGED <<worldVars, breaker, failures, tries, stream, harm, resets>>
  BY DEF Begin, Errors, ServiceErrors
<1>2. OTypes'
  BY <1>1 DEF OInv, OTypes, worldVars
<1>3. Breakers'
  BY <1>1 DEF OInv, Breakers
<1>4. /\ error'[c] = e /\ cpc'[c] = p
      /\ \A b \in Calls : b # c => error'[b] = error[b] /\ cpc'[b] = cpc[b]
  BY <1>1 DEF OInv, OTypes
<1>5. Honest(c)'
  BY <1>1, <1>4 DEF OInv, Honest, worldVars
<1>6. \A b \in Calls : b # c => Honest(b)'
  BY <1>1, <1>4 DEF OInv, Honest, worldVars
<1> QED
  BY <1>2, <1>3, <1>5, <1>6 DEF OInv

LEMMA AttemptStep == ASSUME OInv, NEW c \in Calls, Attempt(c) PROVE OInv'
<1>1. PICK outcome \in Outcomes(c) :
        LET k == kind[c]
            carriedOut == outcome \in {"done", "lost"}
        IN  /\ cpc[c] = "attempt"
            /\ tries' = [tries EXCEPT ![c] = @ + 1]
            /\ stream' = [stream EXCEPT ![c] = @ \/ k = "upload_file_to_s3"]
            /\ object' = IF ~carriedOut THEN object ELSE IF k \in Uploads THEN UploadContent(c)
                         ELSE IF k = "delete_s3_object" THEN "absent" ELSE object
            /\ stored' = IF carriedOut /\ k \in Uploads THEN [stored EXCEPT ![c] = UploadContent(c)] ELSE stored
            /\ seen' = [seen EXCEPT ![c] = @ \cup {object'}]
            /\ mails' = IF carriedOut /\ k = "send_email" THEN mails \cup {<<c, tries'[c]>>} ELSE mails
            /\ error' = [error EXCEPT ![c] = Translate(c, outcome)]
            /\ cpc' = [cpc EXCEPT ![c] =
                         IF Translate(c, outcome) # "none" /\ Retryable(Translate(c, outcome)) /\ tries'[c] < MaxAttempts
                         THEN "attempt" ELSE "record"]
            /\ UNCHANGED <<kind, breaker, failures, harm, rewrites, resets>>
  BY DEF Attempt
<1> DEFINE raised == Translate(c, outcome)
<1>2. /\ raised \in Errors /\ (raised = "none" /\ kind[c] # "delete_s3_object" => outcome = "done")
      /\ raised = "S3NotFoundError" => object = "absent" /\ kind[c] \in Reads
      /\ outcome = "done" /\ kind[c] \in Reads => object # "absent"
  BY TranslateFacts DEF OInv
<1>3. cpc' = [cpc EXCEPT ![c] = "record"] /\ error' = [error EXCEPT ![c] = raised]
  BY <1>1, <1>2, NothingRetried
<1> HIDE DEF raised
<1>4. /\ OTypes /\ kind[c] \in Kinds /\ object \in Contents /\ UploadContent(c) \in Contents
      /\ Uploads \cap Reads = {} /\ "send_email" \notin Uploads \cup Reads /\ "delete_s3_object" \notin Uploads \cup Reads
  BY DEF OInv, OTypes, UploadContent, Contents, Uploads, Reads
<1>5. object' \in Contents
  BY <1>1, <1>4 DEF Contents
<1>6. OTypes'
  <2>1. stored' \in [Calls -> Contents] /\ seen' \in [Calls -> SUBSET Contents]
    BY <1>1, <1>4, <1>5 DEF OTypes
  <2>2. error' \in [Calls -> Errors] /\ tries' \in [Calls -> Nat]
        /\ cpc' \in [Calls -> {"start", "attempt", "record", "done"}]
    BY <1>1, <1>2, <1>3, <1>4 DEF OTypes
  <2>3. stream' \in [Calls -> BOOLEAN]
    <3>1. (stream[c] \/ kind[c] = "upload_file_to_s3") \in BOOLEAN
      BY Zenon
    <3>2. stream' = [stream EXCEPT ![c] = stream[c] \/ kind[c] = "upload_file_to_s3"] /\ stream \in [Calls -> BOOLEAN]
      BY <1>1, <1>4 DEF OTypes
    <3> QED
      BY <3>1, <3>2, Zenon
  <2> QED
    BY <1>1, <1>4, <1>5, <2>1, <2>2, <2>3 DEF OTypes
<1>7. Breakers'
  BY <1>1 DEF OInv, Breakers
<1>8. /\ cpc'[c] = "record" /\ error'[c] = raised /\ seen'[c] = seen[c] \cup {object'} /\ kind' = kind
      /\ kind[c] = "send_email" /\ outcome = "done" => <<c, tries'[c]>> \in mails'
      /\ kind[c] \in Reads => object' = object
  BY <1>1, <1>3, <1>4 DEF OTypes
<1>9. kind[c] \in Uploads /\ outcome = "done" => stored'[c] = "whole"
  <2>1. UploadContent(c) = "whole"
    BY <1>1 DEF OInv, Honest, UploadContent
  <2> QED
    BY <1>1, <1>4, <2>1 DEF OTypes
<1>10. Honest(c)'
  <2>1. raised = "none" =>
          /\ kind[c] \in Uploads => stored'[c] = "whole"
          /\ kind[c] = "send_email" => <<c, tries'[c]>> \in mails'
          /\ kind[c] \in Reads => seen'[c] \ {"absent"} # {}
    BY <1>2, <1>4, <1>8, <1>9
  <2>2. raised = "S3NotFoundError" => "absent" \in seen'[c] /\ kind[c] # "send_email"
    BY <1>2, <1>4, <1>8
  <2> QED
    BY <1>8, <2>1, <2>2 DEF Honest
<1>11. ASSUME NEW b \in Calls, b # c PROVE Honest(b)'
  <2>1. /\ tries'[b] = tries[b] /\ stream'[b] = stream[b] /\ stored'[b] = stored[b] /\ seen'[b] = seen[b]
        /\ error'[b] = error[b] /\ cpc'[b] = cpc[b] /\ mails \subseteq mails' /\ kind' = kind
    BY <1>1, <1>3, <1>4, <1>11 DEF OTypes
  <2> QED
    BY <2>1 DEF OInv, Honest
<1> QED
  BY <1>6, <1>7, <1>10, <1>11 DEF OInv

LEMMA RecordStep == ASSUME OInv, NEW c \in Calls, Record(c) PROVE OInv'
<1> DEFINE s == ServiceOf(kind[c])
           e == error[c]
<1>0. /\ s \in Services /\ e \in Errors /\ OTypes /\ Breakers /\ kind[c] \in Kinds
      /\ failures[s] \in Nat /\ harm[s] \in Nat /\ failures[s] <= harm[s]
      /\ breaker[s] # "closed" => harm[s] >= FailMax
  BY DEF OInv, OTypes, Breakers, ServiceOf, Services
<1>1. /\ cpc[c] = "record" /\ cpc' = [cpc EXCEPT ![c] = "done"]
      /\ failures' = [failures EXCEPT ![s] = IF e = "none" THEN 0 ELSE IF Counted(s, e) THEN @ + 1 ELSE @]
      /\ breaker' = [breaker EXCEPT ![s] =
                       IF e = "none" THEN IF @ = "open" THEN @ ELSE "closed"
                       ELSE IF Counted(s, e) /\ (@ = "half_open" \/ failures'[s] >= FailMax)
                       THEN "open" ELSE @]
      /\ harm' = [harm EXCEPT ![s] = IF e = "none" THEN IF breaker[s] = "open" THEN @ ELSE 0
                                     ELSE IF e = "S3NotFoundError" THEN @ ELSE @ + 1]
      /\ UNCHANGED <<worldVars, tries, error, stream, resets>>
  BY DEF Record
<1>2. e = "S3NotFoundError" => ~Counted(s, e)
  BY ServiceErrorFacts DEF OInv, Honest, Counted, Excluded, ServiceOf
<1> HIDE DEF s, e
<1>3. OTypes'
  <2>1. failures' \in [Services -> Nat] /\ harm' \in [Services -> Nat]
    BY <1>0, <1>1 DEF OTypes
  <2>2. breaker' \in [Services -> {"closed", "open", "half_open"}]
    BY <1>0, <1>1 DEF OTypes
  <2>3. cpc' \in [Calls -> {"start", "attempt", "record", "done"}]
    BY <1>0, <1>1 DEF OTypes
  <2> QED
    BY <1>0, <1>1, <2>1, <2>2, <2>3 DEF OTypes, worldVars
<1>4. Breakers'
  <2>1. /\ failures'[s] = IF e = "none" THEN 0 ELSE IF Counted(s, e) THEN failures[s] + 1 ELSE failures[s]
        /\ harm'[s] = IF e = "none" THEN IF breaker[s] = "open" THEN harm[s] ELSE 0
                      ELSE IF e = "S3NotFoundError" THEN harm[s] ELSE harm[s] + 1
    BY <1>0, <1>1 DEF OTypes
  <2>2. breaker'[s] = IF e = "none" THEN IF breaker[s] = "open" THEN "open" ELSE "closed"
                      ELSE IF Counted(s, e) /\ (breaker[s] = "half_open" \/ failures'[s] >= FailMax)
                      THEN "open" ELSE breaker[s]
    BY <1>0, <1>1 DEF OTypes
  <2>3. failures'[s] <= harm'[s] /\ (breaker'[s] # "closed" => harm'[s] >= FailMax)
    BY <1>0, <1>2, <2>1, <2>2, OutboundAssumption
  <2>4. \A t \in Services : t # s => failures'[t] = failures[t] /\ harm'[t] = harm[t] /\ breaker'[t] = breaker[t]
    BY <1>0, <1>1 DEF OTypes
  <2> QED
    BY <1>0, <2>3, <2>4 DEF Breakers
<1>5. ASSUME NEW b \in Calls PROVE Honest(b)'
  <2>1. cpc'[b] = cpc[b] \/ (cpc[b] = "record" /\ cpc'[b] = "done")
    BY <1>0, <1>1 DEF OTypes
  <2> QED
    BY <1>1, <2>1 DEF OInv, Honest, worldVars
<1> QED
  BY <1>3, <1>4, <1>5 DEF OInv

LEMMA OutboundInvariance == OutboundSpec => []OInv
<1>1. ASSUME OInv, [OutboundNext]_outboundVars PROVE OInv'
  <2>1. ASSUME NEW s \in Services, HalfOpen(s) PROVE OInv'
    <3>1. OTypes'
      BY <1>1, <2>1 DEF OInv, OTypes, HalfOpen, worldVars
    <3>2. Breakers'
      BY <1>1, <2>1 DEF OInv, OTypes, Breakers, HalfOpen
    <3> QED
      BY <1>1, <2>1, <3>1, <3>2 DEF OInv, Honest, HalfOpen, worldVars
  <2>2. CASE Rewrite
    <3>1. OTypes'
      BY <1>1, <2>2 DEF OInv, OTypes, Rewrite
    <3> QED
      BY <1>1, <2>2, <3>1 DEF OInv, Breakers, Honest, Rewrite
  <2>3. CASE UNCHANGED outboundVars
    <3>1. OTypes'
      BY <1>1, <2>3 DEF OInv, OTypes, outboundVars
    <3> QED
      BY <1>1, <2>3, <3>1 DEF OInv, Breakers, Honest, outboundVars
  <2> QED
    BY <1>1, <2>1, <2>2, <2>3, BeginStep, AttemptStep, RecordStep DEF OutboundNext
<1> QED
  BY <1>1, OutInit, PTL DEF OutboundSpec

(* For any calls, retries and thresholds: looking for objects that are not there never opens *)
(* the breaker of s3, in whatever order concurrent calls report.                            *)
THEOREM AbsentNeverBlocksCalls == OutboundSpec => []AbsentNeverBlocks
<1>1. OInv => AbsentNeverBlocks
  BY DEF OInv, Breakers, AbsentNeverBlocks
<1> QED
  BY <1>1, OutboundInvariance, PTL

(* For any number of calls and of other writers: what an AWS helper returns was so, and a   *)
(* failure of the service is answered 502.                                                 *)
THEOREM AnswersAreTruthful == OutboundSpec => []AnswersTruthful
<1>1. ASSUME OInv PROVE AnswersTruthful
  <2>1. ASSUME NEW c \in Calls, IsInstance(error[c], "ExternalServiceError")
        PROVE  HandlerStatus(error[c], 0, CoreMappings \o AccountMappings) = 502
    <3>1. error[c] \in ServiceErrors
      BY <1>1, <2>1, ServiceErrorFacts DEF OInv, OTypes
    <3> QED
      BY <3>1, BadGateway
  <2> QED
    BY <1>1, <2>1 DEF OInv, Honest, AnswersTruthful, Returned
<1> QED
  BY <1>1, OutboundInvariance, PTL

-------------------------------------------------------------------------------
(* Paged reads. *)

LTypes ==
    /\ active \subseteq rows /\ shown \subseteq rows /\ walk \in {"on", "ended", "refused"}
    /\ limit \in Nat /\ page \in Nat /\ deletes \in Nat /\ query \in (Nat \X Nat) \cup {<<>>}
    /\ way \in {"service", "repository"} /\ stale \in BOOLEAN /\ (order # <<>> => order \in Orders)
    /\ InitialRows <= Cardinality(rows) /\ Cardinality(rows) <= MaxRows
    /\ Cardinality(rows) \in Nat /\ rows = 1..Cardinality(rows)

(* Rows already shown have a place within the pages that were fetched, as long as no row    *)
(* came before them: deleting only moves rows forward.                                     *)
Behind ==
    order # <<>> /\ (Ascending \/ rows = 1..InitialRows) =>
        again = {} /\ \A r \in shown \cap active : Place(r) <= page * limit

(* The slice to be fetched is the next page, cut short only by the clamp.                  *)
Slice ==
    /\ walk # "on" => query = <<>>
    /\ query # <<>> => /\ query[1] = page * limit /\ query[2] <= page * limit + limit
                       /\ limit <= max_page_size => query[2] = page * limit + limit

(* While no row was deleted, a first row that was not shown has its place behind the pages   *)
(* that were fetched, as new rows only move it further, and at the end there is none.       *)
Ahead == \A r \in 1..InitialRows : r \in shown \/ page * limit < Place(r)
Covered ==
    /\ deletes = 0 => active = rows
    /\ order # <<>> /\ deletes = 0 /\ limit \in 1..max_page_size =>
          /\ Ahead
          /\ way = "repository" /\ query # <<>> /\ ~more /\ ~stale => Cardinality(rows) <= page * limit + limit
          /\ walk = "ended" /\ ~stale => 1..InitialRows \subseteq shown

LInv == LTypes /\ Behind /\ Slice /\ Covered

LEMMA NextPage ==
    ASSUME NEW p \in Nat, NEW n \in Nat
    PROVE  p * n \in Nat /\ (p + 1) * n \in Nat /\ (p + 1) * n = p * n + n
  OBVIOUS

(* has_next is false only when the pages reach the total.                                 *)
LEMMA LastPage ==
    ASSUME NEW p \in Nat, NEW n \in Nat, n > 0, NEW total \in Nat, ~HasNext(p + 1, total, n)
    PROVE  total <= p * n + n
<1> DEFINE t == total + n - 1
           q == t \div n
<1>1. t \in Nat
  OBVIOUS
<1> HIDE DEF t
<1>2. q \in Nat /\ t < q * n + n
  BY <1>1
<1>3. q <= p + 1
  BY <1>2 DEF HasNext, TotalPages, t
<1> HIDE DEF q
<1>4. q * n <= (p + 1) * n
  BY <1>2, <1>3
<1>5. (p + 1) * n = p * n + n /\ p * n \in Nat /\ q * n \in Nat
  BY <1>2, NextPage
<1> QED
  BY <1>2, <1>4, <1>5 DEF t

LEMMA KeysUpTo == ASSUME NEW n \in Nat PROVE IsFiniteSet(1..n) /\ Cardinality(1..n) = n
<1>1. IsFiniteSet(1..n) /\ Cardinality(1..n) = IF 1 > n THEN 0 ELSE n - 1 + 1
  BY FS_Interval
<1> QED
  BY <1>1

LEMMA FiniteRows == LTypes => IsFiniteSet(rows) /\ IsFiniteSet(active)
<1> SUFFICES ASSUME LTypes PROVE IsFiniteSet(rows) /\ IsFiniteSet(active)
  OBVIOUS
<1>1. IsFiniteSet(rows)
  BY FS_Interval DEF LTypes
<1> QED
  BY <1>1, FS_Subset DEF LTypes

LEMMA PlaceFacts ==
    ASSUME LTypes, NEW r
    PROVE  /\ IsFiniteSet({x \in active : order[x] <= order[r]}) /\ Place(r) \in Nat
           /\ Place(r) <= Cardinality(active) /\ Cardinality(active) \in Nat
<1>1. IsFiniteSet(active) /\ Cardinality(active) \in Nat
  BY FiniteRows, FS_CardinalityType
<1>2. IsFiniteSet({x \in active : order[x] <= order[r]}) /\ Place(r) <= Cardinality(active)
  BY <1>1, FS_Subset DEF Place
<1> QED
  BY <1>1, <1>2, FS_CardinalityType DEF Place

LEMMA Ranks ==
    ASSUME LTypes, order # <<>>
    PROVE  /\ \A r \in rows : order[r] \in Nat
           /\ \A r, s \in rows : order[r] = order[s] => r = s
<1>1. order \in [1..MaxRows -> Nat] /\ \A r, s \in 1..MaxRows : order[r] = order[s] => r = s
  BY ListingAssumption DEF LTypes
<1>2. \A r \in rows : r \in 1..MaxRows
  BY ListingAssumption DEF LTypes
<1> QED
  BY <1>1, <1>2

(* An active row counts itself.                                                           *)
LEMMA PlacePositive ==
    ASSUME LTypes, order # <<>>, NEW r \in active PROVE Place(r) >= 1
<1>1. r \in {x \in active : order[x] <= order[r]}
  BY Ranks DEF LTypes
<1>2. Cardinality({x \in active : order[x] <= order[r]}) # 0
  BY <1>1, PlaceFacts, FS_EmptySet
<1> QED
  BY <1>2, PlaceFacts DEF Place

(* Ranks are distinct, so the places of the active rows are 1, 2, ... in some order.        *)
LEMMA PlacesFilled ==
    ASSUME LTypes, order # <<>>, NEW k \in 1..Cardinality(active)
    PROVE  \E r \in active : Place(r) = k
<1> DEFINE n == Cardinality(active)
           place == [r \in active |-> Place(r)]
<1>1. IsFiniteSet(active) /\ n \in Nat
  BY FiniteRows, FS_CardinalityType
<1>2. ASSUME NEW r \in active, NEW s \in active, order[r] < order[s] PROVE Place(r) # Place(s)
  <2> DEFINE R == {x \in active : order[x] <= order[r]}
             S == {x \in active : order[x] <= order[s]}
  <2>1. \A x \in active : order[x] \in Nat
    BY Ranks DEF LTypes
  <2>2. R \in SUBSET S
    BY <1>2, <2>1
  <2>3. s \in S /\ s \notin R
    BY <1>2, <2>1
  <2>4. IsFiniteSet(S)
    BY PlaceFacts
  <2> HIDE DEF R, S
  <2>5. Cardinality(R) # Cardinality(S)
    BY <2>2, <2>3, <2>4, FS_Subset
  <2> QED
    BY <2>5 DEF Place, R, S
<1>3. ASSUME NEW r \in active PROVE Place(r) \in 1..n
  <2>1. Place(r) \in Nat /\ Place(r) <= n
    BY <1>1, PlaceFacts
  <2>2. Place(r) >= 1
    BY PlacePositive
  <2> HIDE DEF n
  <2> QED
    BY <1>1, <2>1, <2>2
<1>4. place \in [active -> 1..n]
  BY <1>3
<1>5. \A r, s \in active : place[r] = place[s] => r = s
  <2> SUFFICES ASSUME NEW r \in active, NEW s \in active, r # s PROVE Place(r) # Place(s)
    OBVIOUS
  <2>1. order[r] \in Nat /\ order[s] \in Nat /\ order[r] # order[s]
    BY Ranks DEF LTypes
  <2> QED
    BY <1>2, <2>1
<1> HIDE DEF place
<1>6. place \in Injection(active, 1..n)
  BY <1>4, <1>5 DEF Injection, IsInjective
<1>7. IsFiniteSet(1..n) /\ Cardinality(1..n) = n
  BY <1>1, KeysUpTo
<1>8. place \in Surjection(active, 1..n)
  BY <1>6, <1>7, FS_Injection
<1>9. \E r \in active : place[r] = k
  BY <1>8 DEF Surjection
<1> QED
  BY <1>9 DEF place

LEMMA ListInit == ListingInit => LInv
<1> SUFFICES ASSUME ListingInit PROVE LInv
  OBVIOUS
<1>1. /\ rows = 1..InitialRows /\ active = rows /\ page = 0 /\ limit \in Nat /\ InitialRows \in Nat
      /\ query = <<>> /\ shown = {} /\ deletes = 0 /\ walk = "on" /\ way \in {"service", "repository"}
      /\ stale = FALSE /\ (order # <<>> => order \in Orders) /\ InitialRows <= MaxRows
  BY ListingAssumption DEF ListingInit
<1>2. LTypes
  <2>1. Cardinality(rows) = InitialRows
    BY <1>1, KeysUpTo
  <2>2. rows = 1..Cardinality(rows) /\ Cardinality(rows) <= MaxRows
    BY <1>1, <2>1
  <2>3. active \subseteq rows /\ shown \subseteq rows /\ stale \in BOOLEAN
    BY <1>1
  <2>4. page \in Nat /\ deletes \in Nat /\ query \in (Nat \X Nat) \cup {<<>>}
    BY <1>1
  <2>5. walk \in {"on", "ended", "refused"} /\ InitialRows <= Cardinality(rows) /\ Cardinality(rows) \in Nat
    BY <1>1, <2>1
  <2> QED
    BY <1>1, <2>2, <2>3, <2>4, <2>5 DEF LTypes
<1>3. Behind /\ Slice
  BY DEF ListingInit, Behind, Slice
<1>4. Covered
  <2>1. page * limit = 0
    BY <1>1
  <2>2. ASSUME order # <<>>, NEW r \in 1..InitialRows PROVE 0 < Place(r)
    <3>1. r \in active
      BY <1>1
    <3>2. Place(r) >= 1
      BY <1>2, <2>2, <3>1, PlacePositive
    <3>3. Place(r) \in Nat
      BY <1>2, <2>2, <3>1, PlaceFacts
    <3> QED
      BY <3>2, <3>3
  <2> QED
    BY <1>1, <2>1, <2>2 DEF Covered, Ahead
<1> QED
  BY <1>2, <1>3, <1>4 DEF LInv

LEMMA ListStep ==
    ASSUME LInv, ServiceList \/ ServiceListRefused \/ ServiceOrderRefused \/ RepositoryList
    PROVE  LInv'
<1>0. LTypes /\ Behind /\ Slice /\ Covered /\ page * limit \in Nat
  BY NextPage DEF LInv, LTypes
<1>1. /\ UNCHANGED <<rows, active, way, limit, order, page, shown, again, stale, deletes>>
      /\ walk = "on" /\ query = <<>>
  BY DEF ServiceList, ServiceListRefused, ServiceOrderRefused, RepositoryList
<1>2. \/ walk' = "refused" /\ query' = <<>> /\ way = "service"
      \/ /\ walk' = "on" /\ query' \in Nat \X Nat /\ query'[1] = page * limit
         /\ query'[2] <= page * limit + limit /\ (limit <= max_page_size => query'[2] = page * limit + limit)
  <2>1. CASE ServiceListRefused \/ ServiceOrderRefused
    BY <2>1 DEF ServiceListRefused, ServiceOrderRefused
  <2>2. CASE ServiceList
    <3>1. query' = <<page * limit, page * limit + CappedLimit(limit)>> /\ walk' = "on"
      BY <2>2, <1>1 DEF ServiceList, ServiceSlice
    <3>2. CappedLimit(limit) \in Nat /\ CappedLimit(limit) <= limit /\ (limit <= max_page_size => CappedLimit(limit) = limit)
      BY <1>0, ListingAssumption DEF CappedLimit, LTypes
    <3> QED
      BY <1>0, <3>1, <3>2 DEF LTypes
  <2>3. CASE RepositoryList
    <3>1. page \in Nat /\ limit \in Nat
      BY <1>0 DEF LTypes
    <3>2. (IF page + 1 > 1 THEN page + 1 - 1 ELSE 0) = page
      BY <3>1
    <3>3. query' = PageSlice(page + 1, limit) /\ walk' = "on"
      BY <2>3, <1>1 DEF RepositoryList
    <3>4. query' = <<page * limit, page * limit + limit>>
      <4>1. PageOffset(page + 1, limit) = page * limit
        BY <3>1, <3>2 DEF PageOffset
      <4> QED
        BY <3>3, <4>1 DEF PageSlice
    <3> QED
      BY <1>0, <3>1, <3>3, <3>4
  <2> QED
    BY <2>1, <2>2, <2>3
<1>3. way = "repository" /\ ~more' /\ deletes = 0 /\ limit \in 1..max_page_size =>
        Cardinality(rows) <= page * limit + limit
  <2> SUFFICES ASSUME way = "repository", ~more', deletes = 0, limit \in 1..max_page_size
               PROVE  Cardinality(rows) <= page * limit + limit
    OBVIOUS
  <2>1. ~HasNext(page + 1, Cardinality(active), limit) /\ active = rows
    BY <1>0 DEF ServiceList, ServiceListRefused, ServiceOrderRefused, RepositoryList, Covered
  <2>2. Cardinality(rows) \in Nat /\ page \in Nat /\ limit \in Nat /\ limit > 0
    BY <1>0, ListingAssumption DEF LTypes
  <2> QED
    BY <2>1, <2>2, LastPage
<1>4. LTypes'
  BY <1>0, <1>1, <1>2 DEF LTypes
<1>5. Behind'
  BY <1>0, <1>1 DEF Behind, Place, Ascending
<1>6. Slice'
  BY <1>1, <1>2 DEF Slice
<1>7. Covered'
  <2>1. Ahead' <=> Ahead
    BY <1>1 DEF Ahead, Place
  <2> QED
    BY <1>0, <1>1, <1>2, <1>3, <2>1 DEF Covered
<1> QED
  BY <1>4, <1>5, <1>6, <1>7 DEF LInv

(* The page of an ordered walk that is fetched.                                            *)
NextRows == {r \in active : InSlice(Place(r))}

(* A full page, or nothing behind it.                                                      *)
LEMMA ShortPage ==
    ASSUME LTypes, order # <<>>, query = <<page * limit, page * limit + limit>>, limit > 0,
           Cardinality(NextRows) < limit, NEW r \in active
    PROVE  Place(r) <= page * limit + limit
<1> DEFINE b == page * limit
           slots == (b + 1)..(b + limit)
           place == [x \in NextRows |-> Place(x)]
<1>1. b \in Nat /\ limit \in Nat /\ page \in Nat
  BY NextPage DEF LTypes
<1> HIDE DEF b
<1>2. query[1] = b /\ query[2] = b + limit
  BY DEF b
<1>3. \A x \in active : Place(x) \in Nat /\ Place(x) <= Cardinality(active) /\ Cardinality(active) \in Nat
  BY PlaceFacts
<1> SUFFICES ASSUME b + limit < Place(r) PROVE FALSE
  BY <1>1, <1>3 DEF b
<1>4. place \in [NextRows -> slots]
  BY <1>1, <1>2, <1>3 DEF NextRows, InSlice
<1>5. ASSUME NEW k \in slots PROVE \E x \in NextRows : place[x] = k
  <2>1. k \in 1..Cardinality(active)
    BY <1>1, <1>3
  <2>2. PICK x \in active : Place(x) = k
    BY <2>1, PlacesFilled
  <2>3. x \in NextRows
    BY <1>1, <1>2, <2>2 DEF NextRows, InSlice
  <2> QED
    BY <2>2, <2>3
<1> HIDE DEF place, slots
<1>6. place \in Surjection(NextRows, slots)
  BY <1>4, <1>5 DEF Surjection
<1>7. IsFiniteSet(NextRows)
  BY FiniteRows, FS_Subset DEF NextRows
<1>8. Cardinality(slots) <= Cardinality(NextRows) /\ Cardinality(NextRows) \in Nat
  BY <1>6, <1>7, FS_Surjection, FS_CardinalityType
<1>9. Cardinality(slots) = limit
  BY <1>1, FS_Interval DEF slots
<1> QED
  BY <1>1, <1>8, <1>9

LEMMA FetchStep == ASSUME LInv, Fetch PROVE LInv'
<1> DEFINE behind == page * limit
<1>0. /\ LTypes /\ Behind /\ Slice /\ Covered /\ behind \in Nat /\ limit \in Nat /\ page \in Nat
      /\ (page + 1) * limit = behind + limit
  BY NextPage DEF LInv, LTypes
<1>1. PICK got \in Results :
        /\ shown' = shown \cup got /\ again' = again \cup (shown \cap got) /\ walk' \in {"on", "ended"}
        /\ walk' = "ended" <=> (way = "service" /\ Cardinality(got) < limit) \/ (way = "repository" /\ ~more) \/ limit = 0
  BY DEF Fetch
<1>2. /\ query # <<>> /\ query' = <<>> /\ page' = page + 1
      /\ UNCHANGED <<rows, active, way, limit, order, more, stale, deletes>>
  BY DEF Fetch
<1>3. /\ query[1] = behind /\ query[2] <= behind + limit /\ query[1] \in Nat /\ query[2] \in Nat
      /\ limit <= max_page_size => query[2] = behind + limit
      /\ query = <<query[1], query[2]>>
  BY <1>0, <1>2 DEF Slice, LTypes
<1>4. page' * limit' = behind + limit
  BY <1>0, <1>2
<1>5. got \subseteq active /\ (order # <<>> => got = NextRows)
  BY DEF Results, NextRows
<1>6. \A r : Place(r) \in Nat /\ Place(r)' = Place(r)
  BY <1>0, <1>2, PlaceFacts DEF Place
<1> HIDE DEF behind
<1>7. LTypes'
  BY <1>0, <1>1, <1>2, <1>5 DEF LTypes
<1>8. Behind'
  <2> SUFFICES ASSUME order # <<>>, Ascending \/ rows = 1..InitialRows
               PROVE  again' = {} /\ \A r \in shown' \cap active' : Place(r)' <= page' * limit'
    BY <1>2 DEF Behind, Ascending
  <2>1. again = {} /\ \A r \in shown \cap active : Place(r) <= behind
    BY <1>0 DEF Behind, behind
  <2>2. \A r \in got : behind < Place(r) /\ Place(r) <= behind + limit
    BY <1>0, <1>3, <1>5, <1>6 DEF NextRows, InSlice
  <2>3. shown \cap got = {}
    BY <1>0, <1>5, <1>6, <2>1, <2>2
  <2>4. ASSUME NEW r \in shown' \cap active' PROVE Place(r)' <= page' * limit'
    BY <1>0, <1>1, <1>2, <1>4, <1>6, <2>1, <2>2, <2>4
  <2> QED
    BY <1>1, <2>1, <2>3, <2>4
<1>9. Slice'
  BY <1>2 DEF Slice
<1>10. Covered'
  <2>1. deletes' = 0 => active' = rows'
    BY <1>0, <1>2 DEF Covered
  <2>2. ASSUME order # <<>>, deletes = 0, limit \in 1..max_page_size
        PROVE  /\ Ahead' /\ (walk' = "ended" /\ ~stale => 1..InitialRows \subseteq shown')
    <3>0. /\ active = rows /\ query = <<behind, behind + limit>> /\ limit > 0 /\ 1..InitialRows \subseteq active
      BY <1>0, <1>3, <2>2, ListingAssumption DEF Covered, LTypes
    <3>1. Ahead
      BY <1>0, <2>2 DEF Covered
    <3>2. ASSUME NEW r \in 1..InitialRows PROVE r \in shown' \/ behind + limit < Place(r)
      <4>1. r \in shown \/ behind < Place(r)
        BY <3>1 DEF Ahead, behind
      <4>2. behind < Place(r) /\ Place(r) <= behind + limit => r \in got
        BY <1>5, <2>2, <3>0 DEF NextRows, InSlice
      <4> QED
        BY <1>0, <1>1, <1>6, <4>1, <4>2
    <3>3. ASSUME walk' = "ended", ~stale, NEW r \in 1..InitialRows PROVE Place(r) <= behind + limit
      <4>1. CASE way = "service"
        <5>1. Cardinality(NextRows) < limit
          BY <1>1, <1>5, <2>2, <3>0, <3>3, <4>1
        <5> QED
          BY <1>0, <2>2, <3>0, <5>1, ShortPage DEF behind
      <4>2. CASE way = "repository"
        <5>1. ~more
          BY <1>1, <3>0, <3>3, <4>2
        <5>2. Cardinality(rows) <= behind + limit
          BY <1>0, <1>2, <2>2, <3>3, <4>2, <5>1 DEF Covered, behind
        <5>3. Place(r) <= Cardinality(rows) /\ Cardinality(rows) \in Nat
          BY <1>0, <3>0, PlaceFacts
        <5> QED
          BY <1>0, <1>6, <5>2, <5>3
      <4> QED
        BY <1>0, <4>1, <4>2 DEF LTypes
    <3>4. Ahead'
      BY <1>4, <1>6, <3>2 DEF Ahead
    <3>5. walk' = "ended" /\ ~stale => 1..InitialRows \subseteq shown'
      BY <1>0, <1>6, <3>2, <3>3
    <3> QED
      BY <3>4, <3>5
  <2> QED
    BY <1>2, <2>1, <2>2 DEF Covered
<1> QED
  BY <1>7, <1>8, <1>9, <1>10 DEF LInv

(* Deleting a row moves the ones behind it forward.                                        *)
LEMMA DeleteStep ==
    ASSUME LInv, NEW r, SoftDelete(r) PROVE LInv'
<1>0. LTypes /\ Behind /\ Slice /\ Covered /\ IsFiniteSet(active)
  BY FiniteRows DEF LInv
<1>1. UNCHANGED <<rows, walkVars, stale>> /\ active' = active \ {r} /\ deletes' = deletes + 1
  BY DEF SoftDelete
<1>2. LTypes'
  BY <1>0, <1>1 DEF LTypes, walkVars
<1>3. ASSUME NEW s PROVE Place(s)' <= Place(s)
  <2>1. {x \in active' : order[x] <= order[s]} \in SUBSET {x \in active : order[x] <= order[s]}
    BY <1>1
  <2>2. Cardinality({x \in active' : order[x] <= order[s]}) <= Cardinality({x \in active : order[x] <= order[s]})
    BY <1>0, <2>1, PlaceFacts, FS_Subset
  <2> QED
    BY <1>1, <2>2 DEF Place, walkVars
<1>4. Behind'
  <2> SUFFICES ASSUME order # <<>>, Ascending \/ rows = 1..InitialRows
               PROVE  again = {} /\ \A s \in shown \cap active' : Place(s)' <= page * limit
    BY <1>1 DEF Behind, Ascending, walkVars
  <2>1. again = {} /\ \A s \in shown \cap active : Place(s) <= page * limit
    BY <1>0 DEF Behind
  <2>2. ASSUME NEW s \in shown \cap active' PROVE Place(s)' <= page * limit
    <3>1. Place(s) <= page * limit /\ Place(s)' <= Place(s)
      BY <1>1, <1>3, <2>1, <2>2
    <3>2. Place(s) \in Nat /\ page * limit \in Nat
      BY <1>0, PlaceFacts, NextPage DEF LTypes
    <3>3. Place(s)' \in Nat
      <4>1. IsFiniteSet({x \in active' : order'[x] <= order'[s]})
        <5>1. IsFiniteSet(active')
          BY <1>0, <1>1, FS_Subset
        <5> QED
          BY <5>1, FS_Subset
      <4> QED
        BY <4>1, FS_CardinalityType DEF Place
    <3> QED
      BY <3>1, <3>2, <3>3
  <2> QED
    BY <2>1, <2>2
<1>5. Slice'
  BY <1>0, <1>1 DEF Slice, walkVars
<1>6. Covered'
  <2>1. deletes' # 0
    BY <1>0, <1>1 DEF LTypes
  <2> QED
    BY <2>1 DEF Covered
<1> QED
  BY <1>2, <1>4, <1>5, <1>6 DEF LInv

(* A new row moves others back, but none when the order puts new rows last.                *)
LEMMA NewRowStep == ASSUME LInv, Create PROVE LInv'
<1> DEFINE n == Cardinality(rows)
<1>0. /\ LTypes /\ Behind /\ Slice /\ Covered /\ IsFiniteSet(active)
  BY FiniteRows DEF LInv
<1>1. /\ n \in Nat /\ n < MaxRows /\ rows = 1..n /\ rows' = rows \cup {n + 1} /\ active' = active \cup {n + 1}
      /\ InitialRows <= n /\ UNCHANGED <<walkVars, deletes>>
  BY <1>0 DEF LTypes, Create
<1>2. /\ stale' \in BOOLEAN /\ (~stale' => ~stale /\ ~(way = "repository" /\ query # <<>> /\ ~more))
  <2>1. stale' = (stale \/ (way = "repository" /\ query # <<>> /\ ~more))
    BY DEF Create
  <2> QED
    BY <2>1, Zenon
<1> HIDE DEF n
<1>3. /\ rows' = 1..(n + 1) /\ n + 1 \in Nat /\ InitialRows <= n + 1 /\ n + 1 <= MaxRows
      /\ Cardinality(rows') = n + 1
  <2>1. rows' = 1..(n + 1) /\ n + 1 \in Nat /\ InitialRows <= n + 1 /\ n + 1 <= MaxRows
    BY <1>1, ListingAssumption
  <2>2. Cardinality(1..(n + 1)) = n + 1
    BY <2>1, KeysUpTo
  <2> QED
    BY <2>1, <2>2
<1>4. LTypes'
  BY <1>0, <1>1, <1>2, <1>3 DEF LTypes, walkVars
<1>5. Behind'
  <2> SUFFICES ASSUME order # <<>>, Ascending
               PROVE  again = {} /\ \A s \in shown \cap active' : Place(s)' <= page * limit
    <3>1. rows' # 1..InitialRows
      <4>1. n + 1 \in rows' /\ n + 1 \notin 1..InitialRows
        BY <1>1, <1>3, ListingAssumption
      <4> QED
        BY <4>1
    <3> QED
      BY <1>1, <3>1 DEF Behind, Ascending, walkVars
  <2>1. again = {} /\ \A s \in shown \cap active : Place(s) <= page * limit
    BY <1>0 DEF Behind
  <2>2. ASSUME NEW s \in shown \cap active' PROVE Place(s)' <= page * limit
    <3>1. s \in rows /\ s \in active
      BY <1>0, <1>1, <2>2 DEF LTypes
    <3>2. s < n + 1 /\ s \in 1..MaxRows /\ n + 1 \in 1..MaxRows
      BY <1>1, <3>1, ListingAssumption
    <3>3. order[s] \in Nat /\ order[n + 1] \in Nat /\ order[s] < order[n + 1]
      BY <1>0, <3>2, ListingAssumption DEF LTypes, Ascending
    <3>4. {x \in active' : order[x] <= order[s]} = {x \in active : order[x] <= order[s]}
      BY <1>1, <3>3
    <3>5. Place(s)' = Place(s)
      BY <1>1, <3>4 DEF Place, walkVars
    <3> QED
      BY <2>1, <2>2, <3>1, <3>5
  <2> QED
    BY <2>1, <2>2
<1>6. Slice'
  BY <1>0, <1>1 DEF Slice, walkVars
<1>7. Covered'
  <2>1. deletes' = 0 => deletes = 0 /\ active' = rows'
    BY <1>0, <1>1 DEF Covered
  <2>2. ASSUME NEW s PROVE Place(s) <= Place(s)' /\ Place(s)' \in Nat
    <3>1. IsFiniteSet(active')
      BY <1>0, <1>1, FS_AddElement
    <3>2. IsFiniteSet({x \in active' : order[x] <= order[s]})
      BY <3>1, FS_Subset
    <3>3. {x \in active : order[x] <= order[s]} \in SUBSET {x \in active' : order[x] <= order[s]}
      BY <1>1
    <3>4. /\ Cardinality({x \in active : order[x] <= order[s]}) <= Cardinality({x \in active' : order[x] <= order[s]})
          /\ Cardinality({x \in active' : order[x] <= order[s]}) \in Nat
      BY <3>2, <3>3, FS_Subset, FS_CardinalityType
    <3> QED
      BY <1>1, <3>4 DEF Place, walkVars
  <2>3. Ahead => Ahead'
    <3> SUFFICES ASSUME NEW s \in 1..InitialRows, page * limit < Place(s) PROVE page * limit < Place(s)'
      BY <1>1 DEF Ahead, walkVars
    <3>1. Place(s) \in Nat /\ page * limit \in Nat
      BY <1>0, PlaceFacts, NextPage DEF LTypes
    <3> QED
      BY <2>2, <3>1
  <2> QED
    BY <1>0, <1>1, <1>2, <2>1, <2>3 DEF Covered, walkVars
<1> QED
  BY <1>4, <1>5, <1>6, <1>7 DEF LInv

LEMMA WalkRests ==
    ASSUME LInv, UNCHANGED <<rows, active, walkVars, stale, deletes>> PROVE LInv'
<1>1. LTypes' /\ Slice'
  BY DEF LInv, LTypes, Slice, walkVars
<1>2. Behind'
  BY DEF LInv, Behind, Place, Ascending, walkVars
<1>3. Covered'
  BY DEF LInv, Covered, Ahead, Place, walkVars
<1> QED
  BY <1>1, <1>2, <1>3 DEF LInv

LEMMA ListingInvariance == ListingSpec => []LInv
<1>1. ASSUME LInv, [ListingNext]_listingVars PROVE LInv'
  <2>1. CASE AuditorList
    BY <1>1, <2>1, WalkRests DEF AuditorList
  <2>2. CASE UNCHANGED listingVars
    BY <1>1, <2>2, WalkRests DEF listingVars
  <2> QED
    BY <1>1, <2>1, <2>2, ListStep, FetchStep, DeleteStep, NewRowStep DEF ListingNext
<1> QED
  BY <1>1, ListInit, PTL DEF ListingSpec

(* list and list_paginated, for any table, order, page size and clamp: an ordered walk shows  *)
(* no row twice while rows are deleted, and while rows are created if the order puts these    *)
(* last; and it misses none of the first rows while rows are created anywhere in the order,   *)
(* without deletes and with a total that holds when the last page is read.                   *)
THEOREM PagesAreFaithful == ListingSpec => []PagesFaithful
<1>1. LInv => PagesFaithful
  BY DEF LInv, Behind, Covered, PagesFaithful
<1> QED
  BY <1>1, ListingInvariance, PTL
==============================================================================
