--------------------------- MODULE StatusMapProofs --------------------------
(***************************************************************************)
(* Proofs about StatusMap, for any classes, any registrations and any      *)
(* number of handlers: what the unlocked first look of _get_status_map may *)
(* find, and that no race changes the status of an exception.              *)
(***************************************************************************)
EXTENDS StatusMap, WellFoundedInduction, TLAPS

InMap(m, map) == \E i \in 1..Len(map) : map[i] = m

PrefixOf(s, t) == Len(s) <= Len(t) /\ \A i \in 1..Len(s) : s[i] = t[i]

(* _status_map_lock is held exactly in the two critical sections.          *)
LockInv ==
  /\ \A m \in Mappings : rpc[m] \in {"append", "invalidate"} <=> lock = m
  /\ \A h \in Handlers : hpc[h] = "build" <=> lock = h

(* A registration that has appended is in the list for good.               *)
BuilderInv == \A m \in Mappings : rpc[m] \in {"invalidate", "done"} => InMap(m, builder)

(* A handler that has a map has an earlier state of the list, and what it  *)
(* is due has been registered.                                             *)
HandlerInv ==
  \A h \in Handlers :
    /\ due[h] \subseteq Registered
    /\ local[h] # None => PrefixOf(local[h], builder)
    /\ hpc[h] \in {"resolve", "done"} => local[h] # None

(* A status that has been answered is the first match's.                   *)
FirstMatch(map, c, m) ==
  \E i \in Matches(map, c) : map[i] = m /\ \A j \in Matches(map, c) : i <= j

AnswerInv ==
  \A h \in Handlers :
    answer[h] # None => hpc[h] = "done" /\ FirstMatch(local[h], exc[h], answer[h])

IInv ==
  /\ TypeOK
  /\ LockInv
  /\ BuilderInv
  /\ CacheCurrent
  /\ HandlerInv
  /\ NoLostMapping
  /\ AnswerInv

-----------------------------------------------------------------------------
(* Facts about sequences and numbers.                                      *)

LEMMA AppendInMap ==
  ASSUME NEW s \in Seq(Mappings), NEW m \in Mappings, NEW n \in Mappings
  PROVE  InMap(n, Append(s, m)) <=> n = m \/ InMap(n, s)
<1>1. Append(s, m) \in Seq(Mappings) /\ Len(Append(s, m)) = Len(s) + 1 /\ Len(s) \in Nat
  OBVIOUS
<1>2. \A i \in 1..Len(s) : Append(s, m)[i] = s[i]
  OBVIOUS
<1>3. Append(s, m)[Len(s) + 1] = m
  OBVIOUS
<1>4. 1..(Len(s) + 1) = (1..Len(s)) \cup {Len(s) + 1}
  BY <1>1
<1> QED
  BY <1>1, <1>2, <1>3, <1>4 DEF InMap

LEMMA AppendPrefix ==
  ASSUME NEW s \in Seq(Mappings), NEW t \in Seq(Mappings), NEW m \in Mappings, PrefixOf(s, t)
  PROVE  PrefixOf(s, Append(t, m))
<1>1. Len(s) \in Nat /\ Len(t) \in Nat /\ Len(Append(t, m)) = Len(t) + 1
  OBVIOUS
<1>2. \A i \in 1..Len(t) : Append(t, m)[i] = t[i]
  OBVIOUS
<1>3. \A i \in 1..Len(s) : i \in 1..Len(t)
  BY <1>1 DEF PrefixOf
<1> QED
  BY <1>1, <1>2, <1>3 DEF PrefixOf

LEMMA LeastElement ==
  ASSUME NEW S, S \subseteq Nat, S # {}
  PROVE  \E i \in S : \A j \in S : i <= j
<1> DEFINE R == {ss \in Nat \X Nat : ss[1] < ss[2]}
<1>1. IsWellFoundedOn(R, Nat)
  BY NatLessThanWellFounded, Zenon DEF OpToRel
<1>2. PICK i \in S : \A j \in S : ~(<<j, i>> \in R)
  <2> HIDE DEF R
  <2> QED
    BY <1>1, WFMin, Zenon
<1>3. ASSUME NEW j \in S PROVE i <= j
  <2>1. i \in Nat /\ j \in Nat
    OBVIOUS
  <2>2. ~(j < i)
    BY <1>2, <2>1
  <2> QED
    BY <2>1, <2>2
<1> QED
  BY <1>3

(* Two prefixes of one list agree on the first match, if both have one.    *)
LEMMA SameFirstMatch ==
  ASSUME NEW s \in Seq(Mappings), NEW t \in Seq(Mappings), NEW b \in Seq(Mappings),
         PrefixOf(s, b), PrefixOf(t, b), NEW c,
         NEW m, NEW n, FirstMatch(s, c, m), FirstMatch(t, c, n)
  PROVE  m = n
<1>1. PICK i \in Matches(s, c) : s[i] = m /\ \A k \in Matches(s, c) : i <= k
  BY DEF FirstMatch
<1>2. PICK j \in Matches(t, c) : t[j] = n /\ \A k \in Matches(t, c) : j <= k
  BY DEF FirstMatch
<1>3. /\ Len(s) \in Nat /\ Len(t) \in Nat
      /\ i \in 1..Len(s) /\ j \in 1..Len(t)
      /\ s[i] = b[i] /\ t[j] = b[j]
  BY <1>1, <1>2 DEF Matches, PrefixOf
<1>4. CASE i <= j
  <2>1. i \in 1..Len(t)
    BY <1>3, <1>4
  <2>2. i \in Matches(t, c)
    BY <1>1, <1>3, <2>1 DEF Matches, PrefixOf
  <2>3. j <= i
    BY <1>2, <2>2
  <2> QED
    BY <1>1, <1>2, <1>3, <1>4, <2>3
<1>5. CASE j <= i
  <2>1. j \in 1..Len(s)
    BY <1>3, <1>5
  <2>2. j \in Matches(s, c)
    BY <1>2, <1>3, <2>1 DEF Matches, PrefixOf
  <2>3. i <= j
    BY <1>1, <2>2
  <2> QED
    BY <1>1, <1>2, <1>3, <1>5, <2>3
<1> QED
  BY <1>3, <1>4, <1>5

-----------------------------------------------------------------------------
(* The parts of the inductive invariant, each with one step per action.    *)

LEMMA InitInv == Init => IInv
<1> SUFFICES ASSUME Init PROVE IInv
  OBVIOUS
<1>1. TypeOK
  BY StatusMapAssumption DEF Init, TypeOK
<1>2. LockInv /\ BuilderInv /\ CacheCurrent /\ HandlerInv /\ NoLostMapping /\ AnswerInv
  BY StatusMapAssumption
     DEF Init, LockInv, BuilderInv, CacheCurrent, HandlerInv, NoLostMapping, AnswerInv, Registered
<1> QED
  BY <1>1, <1>2 DEF IInv

(* A map found in the cache has every finished registration.               *)
LEMMA CacheHasRegistered ==
  ASSUME TypeOK, BuilderInv, CacheCurrent, cache # None, NEW n \in Registered
  PROVE  InMap(n, cache)
<1>1. n \in Mappings /\ rpc[n] = "done" /\ cache \in Seq(Mappings)
  BY DEF Registered, TypeOK
<1>2. InMap(n, builder)
  BY <1>1 DEF BuilderInv
<1>3. CASE cache = builder
  BY <1>2, <1>3
<1>4. ASSUME NEW m \in Mappings, rpc[m] = "invalidate", builder = Append(cache, m)
      PROVE  InMap(n, cache)
  <2>1. n # m
    BY <1>1, <1>4
  <2> QED
    BY <1>1, <1>2, <1>4, <2>1, AppendInMap
<1> QED
  BY <1>3, <1>4 DEF CacheCurrent

LEMMA ResolveType ==
  ASSUME NEW map \in Seq(Mappings), NEW c, Matches(map, c) # {}
  PROVE  LET found == Matches(map, c)
             m == map[CHOOSE i \in found : \A j \in found : i <= j]
         IN  m \in Mappings /\ FirstMatch(map, c, m)
<1> DEFINE found == Matches(map, c)
           i0 == CHOOSE i \in found : \A j \in found : i <= j
<1>1. found \subseteq 1..Len(map) /\ Len(map) \in Nat
  BY DEF Matches
<1>2. \E i \in found : \A j \in found : i <= j
  <2>1. found \subseteq Nat
    BY <1>1
  <2> QED
    BY <2>1, LeastElement
<1>3. i0 \in found /\ \A j \in found : i0 <= j
  <2> HIDE DEF found
  <2> QED
    BY <1>2
<1>4. map[i0] \in Mappings
  <2>1. i0 \in 1..Len(map)
    BY <1>1, <1>3
  <2> HIDE DEF i0
  <2> QED
    BY <2>1
<1>5. FirstMatch(map, c, map[i0])
  <2> HIDE DEF i0
  <2> QED
    BY <1>3 DEF FirstMatch
<1> QED
  BY <1>4, <1>5

LEMMA NextInv == IInv /\ [Next]_vars => IInv'
<1> SUFFICES ASSUME IInv, [Next]_vars PROVE IInv'
  OBVIOUS
<1> USE StatusMapAssumption
<1>0. /\ TypeOK /\ LockInv /\ BuilderInv /\ CacheCurrent
      /\ HandlerInv /\ NoLostMapping /\ AnswerInv
  BY DEF IInv
<1>1. ASSUME NEW m \in Mappings, RegisterAcquire(m) PROVE IInv'
  <2> USE <1>0, <1>1 DEF RegisterAcquire
  <2>1. TypeOK'
    BY DEF TypeOK
  <2>2. LockInv'
    BY DEF LockInv, TypeOK
  <2>3. /\ Registered' = Registered
        /\ \A n \in Mappings :
             rpc[n] \in {"invalidate", "done"} <=> rpc'[n] \in {"invalidate", "done"}
    BY DEF Registered, TypeOK
  <2>4. BuilderInv'
    BY <2>3 DEF BuilderInv, InMap
  <2>5. CacheCurrent'
    BY DEF CacheCurrent, TypeOK
  <2>6. HandlerInv'
    BY <2>3 DEF HandlerInv, PrefixOf
  <2>7. NoLostMapping'
    BY DEF NoLostMapping
  <2>8. AnswerInv'
    BY DEF AnswerInv, FirstMatch, Matches
  <2> QED
    BY <2>1, <2>2, <2>4, <2>5, <2>6, <2>7, <2>8 DEF IInv
<1>2. ASSUME NEW m \in Mappings, RegisterAppend(m) PROVE IInv'
  <2> USE <1>0, <1>2 DEF RegisterAppend
  <2>0. builder \in Seq(Mappings) /\ builder' \in Seq(Mappings)
    BY DEF TypeOK
  <2>1. TypeOK'
    BY <2>0 DEF TypeOK
  <2>2. LockInv'
    BY DEF LockInv, TypeOK
  <2>3. Registered' = Registered
    BY DEF Registered, TypeOK
  <2>4. BuilderInv'
    BY <2>0, AppendInMap DEF BuilderInv, TypeOK
  <2>5. CacheCurrent'
    <3>1. \A n \in Mappings : rpc[n] # "invalidate"
      BY DEF LockInv, TypeOK
    <3>2. cache # None => cache = builder
      BY <3>1 DEF CacheCurrent
    <3>3. rpc'[m] = "invalidate"
      BY DEF TypeOK
    <3> QED
      BY <3>2, <3>3 DEF CacheCurrent
  <2>6. HandlerInv'
    <3>1. ASSUME NEW h \in Handlers, local[h] # None PROVE PrefixOf(local[h], builder')
      <4>1. local[h] \in Seq(Mappings)
        BY <3>1 DEF TypeOK
      <4> QED
        BY <2>0, <3>1, <4>1, AppendPrefix DEF HandlerInv
    <3> QED
      BY <2>3, <3>1 DEF HandlerInv
  <2>7. NoLostMapping'
    BY DEF NoLostMapping
  <2>8. AnswerInv'
    BY DEF AnswerInv, FirstMatch, Matches
  <2> QED
    BY <2>1, <2>2, <2>4, <2>5, <2>6, <2>7, <2>8 DEF IInv
<1>3. ASSUME NEW m \in Mappings, RegisterInvalidate(m) PROVE IInv'
  <2> USE <1>0, <1>3 DEF RegisterInvalidate
  <2>1. TypeOK'
    BY DEF TypeOK
  <2>2. LockInv'
    BY DEF LockInv, TypeOK
  <2>3. Registered \subseteq Registered'
    BY DEF Registered, TypeOK
  <2>4. BuilderInv'
    BY DEF BuilderInv, InMap, TypeOK
  <2>5. CacheCurrent'
    BY DEF CacheCurrent
  <2>6. HandlerInv'
    BY <2>3 DEF HandlerInv, PrefixOf
  <2>7. NoLostMapping'
    BY DEF NoLostMapping
  <2>8. AnswerInv'
    BY DEF AnswerInv, FirstMatch, Matches
  <2> QED
    BY <2>1, <2>2, <2>4, <2>5, <2>6, <2>7, <2>8 DEF IInv
<1>4. ASSUME NEW h \in Handlers, NEW c \in Classes, FastPath(h, c) PROVE IInv'
  <2> USE <1>0, <1>4 DEF FastPath
  <2>1. TypeOK'
    BY DEF TypeOK, Registered
  <2>2. LockInv'
    BY DEF LockInv, TypeOK
  <2>3. Registered' = Registered
    BY DEF Registered
  <2>4. BuilderInv'
    BY DEF BuilderInv, InMap
  <2>5. CacheCurrent'
    BY DEF CacheCurrent
  <2>6. HandlerInv'
    <3>1. cache # None => PrefixOf(cache, builder)
      <4>1. CASE cache = builder
        BY <4>1 DEF PrefixOf, TypeOK
      <4>2. ASSUME NEW m \in Mappings, cache # None, builder = Append(cache, m)
            PROVE  PrefixOf(cache, builder)
        <5>1. cache \in Seq(Mappings) /\ PrefixOf(cache, cache)
          BY <4>2 DEF TypeOK, PrefixOf
        <5> QED
          BY <4>2, <5>1, AppendPrefix
      <4> QED
        BY <4>1, <4>2 DEF CacheCurrent
    <3>2. ASSUME NEW g \in Handlers, g # h
          PROVE  /\ due'[g] = due[g] /\ local'[g] = local[g] /\ hpc'[g] = hpc[g]
      BY <3>2 DEF TypeOK
    <3>3. due'[h] = Registered /\ local'[h] = cache /\ hpc'[h] = IF cache = None THEN "lock" ELSE "resolve"
      BY DEF TypeOK
    <3>4. ASSUME NEW g \in Handlers
          PROVE  /\ due'[g] \subseteq Registered'
                 /\ local'[g] # None => PrefixOf(local'[g], builder')
                 /\ hpc'[g] \in {"resolve", "done"} => local'[g] # None
      <4>1. CASE g = h
        BY <2>3, <3>1, <3>3, <4>1
      <4>2. CASE g # h
        BY <2>3, <3>2, <4>2 DEF HandlerInv
      <4> QED
        BY <4>1, <4>2
    <3> QED
      BY <3>4 DEF HandlerInv
  <2>7. NoLostMapping'
    <3>1. cache # None => \A n \in Registered : InMap(n, cache)
      BY CacheHasRegistered
    <3> QED
      BY <3>1 DEF NoLostMapping, InMap, TypeOK
  <2>8. AnswerInv'
    <3>1. answer[h] = None
      BY DEF AnswerInv
    <3>2. \A g \in Handlers \ {h} : local'[g] = local[g] /\ exc'[g] = exc[g] /\ hpc'[g] = hpc[g]
      BY DEF TypeOK
    <3> QED
      BY <3>1, <3>2 DEF AnswerInv
  <2> QED
    BY <2>1, <2>2, <2>4, <2>5, <2>6, <2>7, <2>8 DEF IInv
<1>5. ASSUME NEW h \in Handlers, SlowPathAcquire(h) PROVE IInv'
  <2> USE <1>0, <1>5 DEF SlowPathAcquire
  <2>1. TypeOK'
    BY DEF TypeOK
  <2>2. LockInv'
    BY DEF LockInv, TypeOK
  <2>3. Registered' = Registered
    BY DEF Registered
  <2>4. BuilderInv'
    BY DEF BuilderInv, InMap
  <2>5. CacheCurrent'
    BY DEF CacheCurrent
  <2>6. HandlerInv'
    BY <2>3 DEF HandlerInv, PrefixOf, TypeOK
  <2>7. NoLostMapping'
    BY DEF NoLostMapping, TypeOK
  <2>8. AnswerInv'
    BY DEF AnswerInv, TypeOK
  <2> QED
    BY <2>1, <2>2, <2>4, <2>5, <2>6, <2>7, <2>8 DEF IInv
<1>6. ASSUME NEW h \in Handlers, SlowPathBuild(h) PROVE IInv'
  <2> USE <1>0, <1>6 DEF SlowPathBuild
  <2>0. /\ builder \in Seq(Mappings) /\ cache' \in Seq(Mappings) /\ cache' # None
        /\ local'[h] = cache' /\ hpc'[h] = "resolve"
        /\ \A g \in Handlers \ {h} : local'[g] = local[g] /\ hpc'[g] = hpc[g]
    BY DEF TypeOK
  <2>1. TypeOK'
    BY <2>0 DEF TypeOK
  <2>2. LockInv'
    BY DEF LockInv, TypeOK
  <2>3. Registered' = Registered
    BY DEF Registered
  <2>4. BuilderInv'
    BY DEF BuilderInv, InMap
  <2>5. cache' = builder
    <3>1. \A m \in Mappings : rpc[m] # "invalidate"
      BY DEF LockInv, TypeOK
    <3> QED
      BY <3>1 DEF CacheCurrent
  <2>6. CacheCurrent'
    BY <2>5 DEF CacheCurrent
  <2>7. HandlerInv'
    <3>1. PrefixOf(builder, builder)
      BY <2>0 DEF PrefixOf
    <3>2. ASSUME NEW g \in Handlers
          PROVE  /\ due'[g] \subseteq Registered'
                 /\ local'[g] # None => PrefixOf(local'[g], builder')
                 /\ hpc'[g] \in {"resolve", "done"} => local'[g] # None
      <4>1. CASE g = h
        BY <2>0, <2>3, <2>5, <3>1, <4>1 DEF HandlerInv
      <4>2. CASE g # h
        BY <2>0, <2>3, <4>2 DEF HandlerInv
      <4> QED
        BY <4>1, <4>2
    <3> QED
      BY <3>2 DEF HandlerInv
  <2>8. NoLostMapping'
    <3>1. \A m \in due[h] : InMap(m, builder)
      BY DEF HandlerInv, Registered, BuilderInv
    <3>2. ASSUME NEW g \in Handlers, hpc'[g] \in {"resolve", "done"}, NEW m \in due'[g]
          PROVE  \E i \in 1..Len(local'[g]) : local'[g][i] = m
      <4>1. CASE g = h
        BY <2>0, <2>5, <3>1, <3>2, <4>1 DEF InMap
      <4>2. CASE g # h
        BY <2>0, <3>2, <4>2 DEF NoLostMapping
      <4> QED
        BY <4>1, <4>2
    <3> QED
      BY <3>2 DEF NoLostMapping
  <2>9. AnswerInv'
    <3>1. answer[h] = None
      BY DEF AnswerInv
    <3> QED
      BY <2>0, <3>1 DEF AnswerInv
  <2> QED
    BY <2>1, <2>2, <2>4, <2>6, <2>7, <2>8, <2>9 DEF IInv
<1>7. ASSUME NEW h \in Handlers, Resolve(h) PROVE IInv'
  <2> USE <1>0, <1>7 DEF Resolve
  <2> DEFINE found == Matches(local[h], exc[h])
  <2>0. /\ local[h] \in Seq(Mappings)
        /\ hpc'[h] = "done"
        /\ \A g \in Handlers \ {h} : answer'[g] = answer[g] /\ hpc'[g] = hpc[g]
    BY DEF TypeOK, HandlerInv
  <2>a. answer'[h] = IF found = {} THEN None
                     ELSE local[h][CHOOSE i \in found : \A j \in found : i <= j]
    BY DEF TypeOK
  <2>b. answer'[h] \in Mappings \cup {None}
    <3> HIDE DEF found
    <3>1. CASE found = {}
      BY <2>a, <3>1
    <3>2. CASE found # {}
      BY <2>0, <2>a, <3>2, ResolveType DEF found
    <3> QED
      BY <3>1, <3>2
  <2>c. answer'[h] # None => FirstMatch(local[h], exc[h], answer'[h])
    <3>1. CASE found = {}
      BY <2>a, <3>1
    <3>2. CASE found # {}
      BY <2>0, <2>a, <3>2, ResolveType
    <3> QED
      BY <3>1, <3>2
  <2>1. TypeOK'
    <3>1. answer' = [answer EXCEPT ![h] = answer'[h]]
      BY DEF TypeOK
    <3> QED
      BY <2>b, <3>1 DEF TypeOK
  <2> HIDE DEF found
  <2>2. LockInv'
    BY DEF LockInv, TypeOK
  <2>3. Registered' = Registered
    BY DEF Registered
  <2>4. BuilderInv'
    BY DEF BuilderInv, InMap
  <2>5. CacheCurrent'
    BY DEF CacheCurrent
  <2>6. HandlerInv'
    BY <2>0, <2>3 DEF HandlerInv, PrefixOf
  <2>7. NoLostMapping'
    BY <2>0 DEF NoLostMapping
  <2>8. AnswerInv'
    <3>1. ASSUME NEW g \in Handlers, answer'[g] # None
          PROVE  hpc'[g] = "done" /\ FirstMatch(local[g], exc[g], answer'[g])
      <4>1. CASE g = h
        BY <2>0, <2>c, <3>1, <4>1
      <4>2. CASE g # h
        BY <2>0, <3>1, <4>2 DEF AnswerInv
      <4> QED
        BY <4>1, <4>2
    <3> QED
      BY <3>1 DEF AnswerInv
  <2> QED
    BY <2>1, <2>2, <2>4, <2>5, <2>6, <2>7, <2>8 DEF IInv
<1>8. CASE UNCHANGED vars
  BY <1>0, <1>8 DEF vars, IInv, TypeOK, LockInv, BuilderInv, InMap, CacheCurrent, HandlerInv,
     PrefixOf, Registered, NoLostMapping, AnswerInv, FirstMatch, Matches
<1> QED
  BY <1>1, <1>2, <1>3, <1>4, <1>5, <1>6, <1>7, <1>8 DEF Next, Register, Handle

LEMMA Invariance == SafeSpec => []IInv
  BY InitInv, NextInv, PTL DEF SafeSpec

-----------------------------------------------------------------------------
(* The type invariant.                                                     *)
THEOREM TypeCorrect == SafeSpec => []TypeOK
<1>1. IInv => TypeOK
  BY DEF IInv
<1> QED
  BY <1>1, Invariance, PTL

(* A map read without _status_map_lock is the whole list, or all of it but *)
(* the one registration that is about to drop that map.                    *)
THEOREM UnlockedReadIsSound == SafeSpec => []CacheCurrent
<1>1. IInv => CacheCurrent
  BY DEF IInv
<1> QED
  BY <1>1, Invariance, PTL

(* A handler that begins after register_exception_mapping returned uses    *)
(* that mapping.                                                           *)
THEOREM RegistrationTakesEffect == SafeSpec => []NoLostMapping
<1>1. IInv => NoLostMapping
  BY DEF IInv
<1> QED
  BY <1>1, Invariance, PTL

(* Any two handlers that map the same class give the same status: each has *)
(* a prefix of the one list, and takes the first match in it.              *)
THEOREM StatusIsStable == SafeSpec => []AnswersAgree
<1>1. IInv => AnswersAgree
  <2> SUFFICES ASSUME IInv, NEW g \in Handlers, NEW h \in Handlers,
                      exc[g] = exc[h], answer[g] # None, answer[h] # None
               PROVE  answer[g] = answer[h]
    BY DEF AnswersAgree
  <2>1. /\ FirstMatch(local[g], exc[g], answer[g])
        /\ FirstMatch(local[h], exc[g], answer[h])
        /\ hpc[g] = "done" /\ hpc[h] = "done"
    BY DEF IInv, AnswerInv
  <2>2. /\ local[g] \in Seq(Mappings) /\ local[h] \in Seq(Mappings) /\ builder \in Seq(Mappings)
        /\ PrefixOf(local[g], builder) /\ PrefixOf(local[h], builder)
    BY <2>1 DEF IInv, TypeOK, HandlerInv
  <2> QED
    BY <2>1, <2>2, SameFirstMatch
<1> QED
  BY <1>1, Invariance, PTL
=============================================================================
