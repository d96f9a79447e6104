--------------------------- MODULE ApiKeysProofs ----------------------------
(***************************************************************************)
(* Proofs about ApiKeys and ApiKeyCreation, for any keys and any number of *)
(* concurrent calls: what the row lock, the order of the last_used_at      *)
(* stamp and its debounce entry, and the unique index on the prefix give.  *)
(***************************************************************************)
EXTENDS ApiKeys, ApiKeyCreation, TLAPS

(* A row lock is held by the one revoke or delete that is between its      *)
(* SELECT ... FOR UPDATE and its end, and a revoke that holds it has seen  *)
(* that the key is not revoked.                                            *)
LockInv ==
  /\ \A a \in Callers : ast[a] = "locked" =>
       a \in Revokers \cup Deleters /\ target[a] \in Keys /\ lock[target[a]] = a
  /\ \A a \in Revokers : ast[a] = "locked" => row[target[a]].revoked = None

(* A call that has begun is about a key, and an open form has its copy.    *)
CallInv ==
  /\ \A a \in Callers : ast[a] # "idle" => target[a] \in Keys
  /\ \A a \in Callers : ast[a] = "form" => a \in Editors
  /\ \A a \in Editors : ast[a] = "form" => copy[a] \in Columns

(* Whoever was told that it revoked the key is the one on the row.         *)
NowInv ==
  \A a \in Revokers :
    ast[a] = "now" /\ target[a] \notin clobbered => row[target[a]].revoked = a

(* The stamp is on the row before its debounce entry is there.             *)
StampInv ==
  /\ \A k \in debounce \ clobbered : row[k].used
  /\ \A a \in Callers :
       ast[a] \in {"set", "ok"} /\ target[a] \notin clobbered => row[target[a]].used

KeyInv ==
  /\ TypeOK
  /\ CallInv
  /\ LockInv
  /\ NowInv
  /\ StampInv

-----------------------------------------------------------------------------
LEMMA KeyInit == Init => KeyInv
  BY ApiKeysAssumption
     DEF Init, KeyInv, TypeOK, CallInv, LockInv, NowInv, StampInv, Callers, Columns, CallEnds

(* A step of one call that writes no row and takes or frees no lock.       *)
LEMMA KeyQuiet ==
  ASSUME KeyInv, NEW a \in Callers, NEW l, NEW k \in Keys,
         l \in {"found", "write", "ok", "denied", "error", "already", "missing"},
         ast[a] # "locked",
         ast' = [ast EXCEPT ![a] = l],
         target' = [target EXCEPT ![a] = k],
         debounce' \subseteq Keys,
         \A x \in debounce' \ clobbered : row[x].used,
         l = "ok" /\ k \notin clobbered => row[k].used,
         UNCHANGED <<row, lock, copy, userActive, clobbered>>
  PROVE  KeyInv'
<1> USE DEF KeyInv
<1>1. TypeOK'
  BY DEF TypeOK, CallEnds
<1>2. /\ ast'[a] = l /\ target'[a] = k
      /\ \A b \in Callers \ {a} : ast'[b] = ast[b] /\ target'[b] = target[b]
  BY DEF TypeOK
<1>3. CallInv'
  BY <1>2 DEF CallInv, Callers
<1>4. LockInv'
  BY <1>2 DEF LockInv, Callers
<1>5. NowInv'
  BY <1>2 DEF NowInv, Callers
<1>6. StampInv'
  BY <1>2 DEF StampInv
<1> QED
  BY <1>1, <1>3, <1>4, <1>5, <1>6

LEMMA KeyNext == KeyInv /\ [Next]_vars => KeyInv'
<1> SUFFICES ASSUME KeyInv, [Next]_vars PROVE KeyInv'
  OBVIOUS
<1> USE ApiKeysAssumption
<1>0. TypeOK /\ CallInv /\ LockInv /\ NowInv /\ StampInv
  BY DEF KeyInv
<1>1. ASSUME NEW a \in Clients, NEW k \in Keys, Lookup(a, k) PROVE KeyInv'
  <2>1. a \in Callers
    BY DEF Callers
  <2>2. PICK l \in {"found", "denied"} : ast' = [ast EXCEPT ![a] = l]
    BY <1>1 DEF Lookup
  <2> QED
    BY <1>0, <1>1, <2>1, <2>2, KeyQuiet DEF Lookup, TypeOK, StampInv
<1>2. ASSUME NEW a \in Clients, DebounceGet(a) PROVE KeyInv'
  <2>1. a \in Callers /\ target[a] \in Keys
    BY <1>0, <1>2 DEF Callers, CallInv, DebounceGet
  <2>2. target' = [target EXCEPT ![a] = target[a]]
    BY <1>0, <1>2 DEF TypeOK, DebounceGet
  <2> QED
    BY <1>0, <1>2, <2>1, <2>2, KeyQuiet DEF DebounceGet, TypeOK, StampInv
<1>3. ASSUME NEW a \in Clients, WriteUsed(a) PROVE KeyInv'
  <2>1. a \in Callers /\ target[a] \in Keys
    BY <1>0, <1>3 DEF Callers, CallInv, WriteUsed
  <2>2. PICK b \in BOOLEAN : b = TRUE
    OBVIOUS
  <2> DEFINE new == [row[target[a]] EXCEPT !.used = b]
  <2>3. new \in Columns /\ new.revoked = row[target[a]].revoked /\ new.used = b
    BY <1>0, <2>1 DEF TypeOK, Columns
  <2>4. row' = [row EXCEPT ![target[a]] = new]
    BY <1>3, <2>2 DEF WriteUsed
  <2> HIDE DEF new
  <2>5. row' \in [Keys -> Columns]
    BY <1>0, <2>1, <2>3, <2>4 DEF TypeOK
  <2>6. TypeOK'
    BY <1>0, <1>3, <2>1, <2>5 DEF WriteUsed, TypeOK, CallEnds
  <2>7. /\ ast'[a] = "set" /\ \A d \in Callers \ {a} : ast'[d] = ast[d]
        /\ UNCHANGED <<lock, target, copy, debounce, clobbered>>
    BY <1>0, <1>3, <2>1 DEF WriteUsed, TypeOK
  <2>8. /\ row'[target[a]].used
        /\ \A k \in Keys : row'[k].revoked = row[k].revoked /\ (row[k].used => row'[k].used)
    BY <1>0, <2>1, <2>2, <2>3, <2>4 DEF TypeOK
  <2>9. CallInv'
    BY <1>0, <2>1, <2>7 DEF CallInv, Callers
  <2>10. LockInv'
    BY <1>0, <2>1, <2>7, <2>8 DEF LockInv, Callers
  <2>11. NowInv'
    BY <1>0, <2>1, <2>7, <2>8 DEF NowInv, Callers, CallInv
  <2>12. StampInv'
    BY <1>0, <2>1, <2>7, <2>8 DEF StampInv, CallInv, TypeOK
  <2> QED
    BY <2>6, <2>9, <2>10, <2>11, <2>12 DEF KeyInv
<1>4. ASSUME NEW a \in Clients, WriteUsedFails(a) PROVE KeyInv'
  <2>1. a \in Callers /\ target[a] \in Keys
    BY <1>0, <1>4 DEF Callers, CallInv, WriteUsedFails
  <2>2. target' = [target EXCEPT ![a] = target[a]]
    BY <1>0, <1>4 DEF TypeOK, WriteUsedFails
  <2> QED
    BY <1>0, <1>4, <2>1, <2>2, KeyQuiet DEF WriteUsedFails, TypeOK, StampInv
<1>5. ASSUME NEW a \in Clients, DebounceSet(a) PROVE KeyInv'
  <2>1. a \in Callers /\ target[a] \in Keys
    BY <1>0, <1>5 DEF Callers, CallInv, DebounceSet
  <2>2. target' = [target EXCEPT ![a] = target[a]]
    BY <1>0, <1>5 DEF TypeOK, DebounceSet
  <2> QED
    BY <1>0, <1>5, <2>1, <2>2, KeyQuiet DEF DebounceSet, TypeOK, StampInv
<1>6. ASSUME NEW k \in Keys, DebounceExpires(k) PROVE KeyInv'
  BY <1>0, <1>6
     DEF DebounceExpires, callVars, KeyInv, TypeOK, CallInv, LockInv, NowInv, StampInv
<1>7. ASSUME DisableUser PROVE KeyInv'
  BY <1>0, <1>7
     DEF DisableUser, callVars, KeyInv, TypeOK, CallInv, LockInv, NowInv, StampInv
(* The lock is free before, so nobody else holds it after.                 *)
<1>8. ASSUME NEW a \in Callers, NEW k \in Keys, ast[a] = "idle", lock[k] = None,
             NEW l \in {"locked", "missing", "already"},
             ast' = [ast EXCEPT ![a] = l],
             target' = [target EXCEPT ![a] = k],
             lock' = [lock EXCEPT ![k] = IF l = "locked" THEN a ELSE None],
             a \in Revokers \cup Deleters,
             a \in Revokers /\ l = "locked" => row[k].revoked = None,
             UNCHANGED <<row, copy, debounce, userActive, clobbered>>
      PROVE  KeyInv'
  <2> USE <1>0, <1>8
  <2>1. TypeOK'
    BY DEF TypeOK, CallEnds
  <2>2. /\ ast'[a] = l /\ target'[a] = k
        /\ \A b \in Callers \ {a} : ast'[b] = ast[b] /\ target'[b] = target[b]
    BY DEF TypeOK
  <2>3. CallInv'
    BY <2>2 DEF CallInv, Callers
  <2>4. LockInv'
    <3>1. \A b \in Callers \ {a} : ast[b] = "locked" => target[b] # k
      BY DEF LockInv
    <3>2. lock'[k] = (IF l = "locked" THEN a ELSE None) /\ \A x \in Keys \ {k} : lock'[x] = lock[x]
      BY DEF TypeOK
    <3> QED
      BY <2>2, <3>1, <3>2 DEF LockInv, Callers
  <2>5. NowInv'
    BY <2>2 DEF NowInv, Callers
  <2>6. StampInv'
    BY <2>2 DEF StampInv
  <2> QED
    BY <2>1, <2>3, <2>4, <2>5, <2>6 DEF KeyInv
<1>9. ASSUME NEW a \in Revokers, NEW k \in Keys, RevokeLock(a, k) PROVE KeyInv'
  <2> DEFINE l == IF ~row[k].active THEN "missing"
                  ELSE IF row[k].revoked # None THEN "already" ELSE "locked"
  <2>1. a \in Callers /\ l \in {"locked", "missing", "already"}
    BY DEF Callers
  <2>2. ast'[a] = l
    BY <1>0, <1>9, <2>1 DEF RevokeLock, TypeOK
  <2> QED
    BY <1>8, <1>9, <2>1, <2>2 DEF RevokeLock
<1>10. ASSUME NEW a \in Deleters, NEW k \in Keys, DeleteLock(a, k) PROVE KeyInv'
  <2> DEFINE l == IF row[k].active THEN "locked" ELSE "missing"
  <2>1. a \in Callers /\ l \in {"locked", "missing", "already"} /\ a \notin Revokers
    BY DEF Callers
  <2>2. lock' = [lock EXCEPT ![k] = IF l = "locked" THEN a ELSE None]
    BY <1>10 DEF DeleteLock
  <2> QED
    BY <1>8, <1>10, <2>1, <2>2 DEF DeleteLock
(* The holder of a lock ends: it writes its own column, or none.           *)
<1>11. ASSUME NEW a \in Callers, ast[a] = "locked",
              NEW l \in {"now", "deleted", "error"},
              ast' = [ast EXCEPT ![a] = l],
              lock' = [lock EXCEPT ![target[a]] = None],
              row' \in [Keys -> Columns],
              \A k \in Keys : row'[k].used = row[k].used,
              \A k \in Keys \ {target[a]} : row'[k].revoked = row[k].revoked,
              l # "now" => row'[target[a]].revoked = row[target[a]].revoked,
              l = "now" => a \in Revokers /\ row'[target[a]].revoked = a,
              UNCHANGED <<target, copy, debounce, userActive, clobbered>>
       PROVE  KeyInv'
  <2> USE <1>0, <1>11
  <2>1. TypeOK'
    BY DEF TypeOK, CallEnds
  <2>2. /\ ast'[a] = l /\ target'[a] = target[a] /\ target[a] \in Keys /\ lock[target[a]] = a
        /\ \A b \in Callers \ {a} : ast'[b] = ast[b] /\ target'[b] = target[b]
    BY DEF TypeOK, LockInv
  <2>3. CallInv'
    BY <2>2 DEF CallInv, Callers
  <2>4. LockInv'
    <3>1. \A b \in Callers \ {a} : ast[b] = "locked" => target[b] # target[a]
      BY <2>2 DEF LockInv
    <3>2. \A x \in Keys \ {target[a]} : lock'[x] = lock[x]
      BY DEF TypeOK
    <3> QED
      BY <2>2, <3>1, <3>2 DEF LockInv, Callers
  <2>5. NowInv'
    <3>1. ASSUME NEW b \in Revokers, ast'[b] = "now", target'[b] \notin clobbered'
          PROVE  row'[target'[b]].revoked = b
      <4>1. CASE b = a
        BY <2>2, <3>1, <4>1
      <4>2. CASE b # a
        <5>1. b \in Callers /\ ast[b] = "now" /\ target[b] \notin clobbered /\ target[b] \in Keys
              /\ row[target[b]].revoked = b
          BY <2>2, <3>1, <4>2 DEF NowInv, Callers, CallInv
        <5>2. target[b] = target[a] => l # "now"
          BY <5>1 DEF LockInv
        <5> QED
          BY <2>2, <5>1, <5>2
      <4> QED
        BY <4>1, <4>2
    <3> QED
      BY <3>1 DEF NowInv
  <2>6. StampInv'
    BY <2>2 DEF StampInv, CallInv, TypeOK
  <2> QED
    BY <2>1, <2>3, <2>4, <2>5, <2>6 DEF KeyInv
<1>12. ASSUME NEW a \in Revokers, RevokeCommit(a) PROVE KeyInv'
  <2>1. a \in Callers /\ target[a] \in Keys
    BY <1>0, <1>12 DEF Callers, CallInv, RevokeCommit
  <2>2. /\ row' \in [Keys -> Columns]
        /\ \A k \in Keys : row'[k].used = row[k].used
        /\ \A k \in Keys \ {target[a]} : row'[k].revoked = row[k].revoked
        /\ row'[target[a]].revoked = a
    BY <1>0, <1>12, <2>1 DEF RevokeCommit, TypeOK, Columns
  <2> QED
    BY <1>11, <1>12, <2>1, <2>2 DEF RevokeCommit
<1>13. ASSUME NEW a \in Deleters, DeleteCommit(a) PROVE KeyInv'
  <2>1. a \in Callers /\ target[a] \in Keys
    BY <1>0, <1>13 DEF Callers, CallInv, DeleteCommit
  <2>2. /\ row' \in [Keys -> Columns]
        /\ \A k \in Keys : row'[k].used = row[k].used /\ row'[k].revoked = row[k].revoked
    <3>0. PICK b \in BOOLEAN : b = FALSE
      OBVIOUS
    <3> DEFINE new == [row[target[a]] EXCEPT !.active = b]
    <3>1. new \in Columns /\ new.revoked = row[target[a]].revoked /\ new.used = row[target[a]].used
      BY <1>0, <2>1 DEF TypeOK, Columns
    <3>2. row' = [row EXCEPT ![target[a]] = new]
      BY <1>13, <3>0 DEF DeleteCommit
    <3> HIDE DEF new
    <3> QED
      BY <1>0, <2>1, <3>1, <3>2 DEF TypeOK
  <2> QED
    BY <1>11, <1>13, <2>1, <2>2 DEF DeleteCommit
<1>14. ASSUME NEW a \in Callers, Rollback(a) PROVE KeyInv'
  <2>1. row' \in [Keys -> Columns]
    BY <1>0, <1>14 DEF Rollback, TypeOK
  <2> QED
    BY <1>11, <1>14, <2>1 DEF Rollback
<1>15. ASSUME NEW a \in Editors, NEW k \in Keys, EditRead(a, k) PROVE KeyInv'
  <2> USE <1>0, <1>15 DEF EditRead
  <2>1. a \in Callers
    BY DEF Callers
  <2>2. TypeOK'
    BY <2>1 DEF TypeOK, CallEnds
  <2>3. /\ ast'[a] = "form" /\ target'[a] = k /\ copy'[a] = row[k] /\ row[k] \in Columns
        /\ \A b \in Callers \ {a} : ast'[b] = ast[b] /\ target'[b] = target[b]
        /\ \A b \in Editors \ {a} : copy'[b] = copy[b]
    BY <2>1 DEF TypeOK
  <2>4. CallInv'
    BY <2>1, <2>3 DEF CallInv, Callers
  <2>5. LockInv'
    BY <2>3 DEF LockInv, Callers
  <2>6. NowInv'
    BY <2>3 DEF NowInv, Callers
  <2>7. StampInv'
    BY <2>3 DEF StampInv
  <2> QED
    BY <2>2, <2>4, <2>5, <2>6, <2>7 DEF KeyInv
<1>16. ASSUME NEW a \in Editors, NEW b \in BOOLEAN, EditSave(a, b) PROVE KeyInv'
  <2> DEFINE k == target[a]
  <2> USE <1>0, <1>16 DEF EditSave
  <2>1. a \in Callers /\ k \in Keys /\ copy[a] \in Columns
    BY DEF Callers, CallInv
  <2>2. [copy[a] EXCEPT !.active = b] \in Columns
    BY <2>1 DEF Columns
  <2>3. TypeOK'
    BY <2>1, <2>2 DEF TypeOK, CallEnds
  <2>4. /\ ast'[a] = "saved" /\ \A d \in Callers \ {a} : ast'[d] = ast[d]
        /\ \A x \in Keys \ {k} : row'[x] = row[x]
        /\ k \in clobbered' \/ (row'[k].revoked = row[k].revoked /\ row'[k].used = row[k].used)
        /\ clobbered \subseteq clobbered'
    BY <2>1 DEF TypeOK, Columns
  <2>5. CallInv'
    BY <2>1, <2>4 DEF CallInv, Callers
  <2>6. LockInv'
    <3>1. \A d \in Callers : ast[d] = "locked" => target[d] # k
      BY <2>1 DEF LockInv
    <3> QED
      BY <2>1, <2>4, <3>1 DEF LockInv, Callers
  <2>7. NowInv'
    BY <2>1, <2>4 DEF NowInv, Callers, CallInv
  <2>8. StampInv'
    BY <2>1, <2>4 DEF StampInv, CallInv, TypeOK
  <2> QED
    BY <2>3, <2>5, <2>6, <2>7, <2>8 DEF KeyInv
<1>17. CASE UNCHANGED vars
  BY <1>0, <1>17
     DEF vars, callVars, KeyInv, TypeOK, CallInv, LockInv, NowInv, StampInv
<1> QED
  BY <1>1, <1>2, <1>3, <1>4, <1>5, <1>6, <1>7, <1>9, <1>10, <1>12, <1>13, <1>14, <1>15, <1>16, <1>17
     DEF Next, Authenticate, Revoke, Delete, Edit, Callers

(* The conjunction of the invariants of the life of API keys holds of      *)
(* every behaviour of authentication, revoke, delete and the admin.        *)
THEOREM KeyInvariant == Spec => []KeyInv
<1> QED
  BY KeyInit, KeyNext, PTL DEF Spec

(* Every row, lock, call and copy has its type.                            *)
THEOREM KeyTypes == Spec => []TypeOK
<1>1. KeyInv => TypeOK
  BY DEF KeyInv
<1> QED
  BY <1>1, KeyInvariant, PTL

(* APIKeyService.revoke: of concurrent revocations of a key one is told    *)
(* that it did it.                                                         *)
THEOREM KeyRevokedOnce == Spec => []RevokedNowOnce
<1>1. KeyInv => RevokedNowOnce
  BY DEF KeyInv, NowInv, RevokedNowOnce
<1> QED
  BY <1>1, KeyInvariant, PTL

(* APIKeyAuthentication.authenticate: a key that let somebody in has its   *)
(* use on record, whatever fails between the UPDATE and the cache entry.   *)
THEOREM KeyUseRecorded == Spec => []UseRecorded
<1>1. KeyInv => UseRecorded
  BY DEF KeyInv, StampInv, UseRecorded, Callers
<1> QED
  BY <1>1, KeyInvariant, PTL

(* A step moves revoked_at of a revoked key only if it is the save of an   *)
(* outdated change form.                                                   *)
LEMMA StampStep ==
  ASSUME KeyInv, [Next]_vars, NEW k \in Keys, row[k].revoked # None
  PROVE  row'[k].revoked = row[k].revoked \/ k \in clobbered'
<1>0. TypeOK /\ CallInv /\ LockInv
  BY DEF KeyInv
<1>1. ASSUME NEW a \in Clients, WriteUsed(a) PROVE row'[k].revoked = row[k].revoked
  BY <1>0, <1>1 DEF WriteUsed, TypeOK, Columns
<1>2. ASSUME NEW a \in Revokers, RevokeCommit(a) PROVE row'[k].revoked = row[k].revoked
  <2>1. a \in Callers /\ row[target[a]].revoked = None
    BY <1>0, <1>2 DEF RevokeCommit, LockInv, Callers
  <2> QED
    BY <1>0, <1>2, <2>1 DEF RevokeCommit, TypeOK
<1>3. ASSUME NEW a \in Deleters, DeleteCommit(a) PROVE row'[k].revoked = row[k].revoked
  BY <1>0, <1>3 DEF DeleteCommit, TypeOK, Columns
<1>4. ASSUME NEW a \in Editors, NEW b \in BOOLEAN, EditSave(a, b)
      PROVE  row'[k].revoked = row[k].revoked \/ k \in clobbered'
  <2>1. a \in Callers /\ target[a] \in Keys /\ copy[a] \in Columns
    BY <1>0, <1>4 DEF EditSave, Callers, CallInv
  <2> QED
    BY <1>0, <1>4, <2>1 DEF EditSave, TypeOK, Columns
<1> QED
  BY <1>1, <1>2, <1>3, <1>4
     DEF Next, Authenticate, Revoke, Delete, Edit, vars, callVars, Lookup, DebounceGet,
         WriteUsedFails, DebounceSet, DebounceExpires, DisableUser, RevokeLock, DeleteLock,
         Rollback, EditRead

(* A revoked key stays revoked, since the first call that revoked it: no   *)
(* revoke, delete or authentication moves revoked_at.                      *)
THEOREM KeyStampMovesOnce == Spec => StampMovesOnce
<1>1. KeyInv /\ [Next]_vars =>
        [\A k \in Keys : row[k].revoked # None =>
             row'[k].revoked = row[k].revoked \/ k \in clobbered']_vars
  BY StampStep
<1> QED
  BY <1>1, KeyInvariant, PTL DEF Spec, StampMovesOnce

-----------------------------------------------------------------------------
(* Creation: the loop of create_key against the unique index.              *)

CreationTypeOK ==
  /\ stored \in [Creators -> Prefixes \cup {NoPrefix}]
  /\ committed \subseteq Creators
  /\ cst \in [Creators -> {"idle", "clean", "insert", "retry", "pending", "created"} \cup Failures]
  /\ prefix \in [Creators -> Prefixes \cup {NoPrefix}]
  /\ tries \in [Creators -> 0..MaxTries]
  /\ broken \subseteq InAdmin

(* The row of a call is there from its INSERT to the end, under the prefix *)
(* of the last attempt, unless the transaction is rolled back.             *)
RowInv ==
  \A c \in Creators :
    /\ cst[c] \in {"clean", "insert", "pending", "created"} => prefix[c] \in Prefixes
    /\ stored[c] = IF cst[c] \in {"pending", "created"} THEN prefix[c] ELSE NoPrefix
    /\ c \in committed <=> cst[c] = "created"

(* In a transaction that a collision has broken create_key retries, but no *)
(* statement of it gets through: APIKeyAdmin's add view cannot be saved by *)
(* the retry that create_key makes on an IntegrityError.                   *)
BrokenStoresNothing ==
  \A c \in broken : cst[c] \in {"retry", "clean"} \cup Failures /\ stored[c] = NoPrefix

CreationInv == CreationTypeOK /\ RowInv /\ PrefixUnique /\ BrokenStoresNothing

LEMMA CreationInitInv == CreationInit => CreationInv
  BY ApiKeyCreationAssumption
     DEF CreationInit, CreationInv, CreationTypeOK, RowInv, PrefixUnique, BrokenStoresNothing

LEMMA CreationNextInv == CreationInv /\ [CreationNext]_creationVars => CreationInv'
<1> SUFFICES ASSUME CreationInv, [CreationNext]_creationVars PROVE CreationInv'
  OBVIOUS
<1> USE ApiKeyCreationAssumption
<1>0. CreationTypeOK /\ RowInv /\ PrefixUnique /\ BrokenStoresNothing
  BY DEF CreationInv
<1>1. ASSUME NEW c \in Creators, NEW p \in Prefixes, Generate(c, p) PROVE CreationInv'
  <2> USE <1>0, <1>1 DEF Generate, Move
  <2>1. CreationTypeOK'
    <3>1. tries[c] + 1 \in 0..MaxTries
      BY DEF CreationTypeOK
    <3> QED
      BY <3>1 DEF CreationTypeOK, Failures
  <2>2. RowInv'
    BY DEF RowInv, CreationTypeOK
  <2>3. PrefixUnique' /\ BrokenStoresNothing'
    BY DEF PrefixUnique, BrokenStoresNothing, CreationTypeOK
  <2> QED
    BY <2>1, <2>2, <2>3 DEF CreationInv
(* The steps that store nothing and end or go on with the attempt.         *)
<1>2. ASSUME NEW c \in Creators, NEW l \in {"insert", "retry"} \cup Failures,
             cst[c] \in {"clean", "insert", "retry"},
             cst' = [cst EXCEPT ![c] = l],
             l = "insert" => c \notin broken /\ cst[c] = "clean",
             broken' \in SUBSET InAdmin, broken \subseteq broken', broken' \subseteq broken \cup {c},
             c \in broken' => l # "insert",
             UNCHANGED <<stored, committed, prefix, tries>>
      PROVE  CreationInv'
  <2> USE <1>0, <1>2
  <2>1. CreationTypeOK'
    BY DEF CreationTypeOK, Failures
  <2>2. RowInv'
    BY DEF RowInv, CreationTypeOK, Failures
  <2>3. PrefixUnique'
    BY DEF PrefixUnique
  <2>4. BrokenStoresNothing'
    BY DEF BrokenStoresNothing, CreationTypeOK, RowInv, Failures
  <2> QED
    BY <2>1, <2>2, <2>3, <2>4 DEF CreationInv
<1>3. ASSUME NEW c \in Creators, GiveUp(c) PROVE CreationInv'
  BY <1>0, <1>2, <1>3 DEF GiveUp, Move, Failures, CreationTypeOK
<1>4. ASSUME NEW c \in Creators, FullClean(c) PROVE CreationInv'
  <2> DEFINE l == IF c \in broken THEN "transaction_error"
                  ELSE IF Taken(prefix[c], committed) THEN "validation_error" ELSE "insert"
  <2>1. l \in {"insert", "retry"} \cup Failures /\ (l = "insert" => c \notin broken)
    BY DEF Failures
  <2>2. cst[c] = "clean" /\ cst' = [cst EXCEPT ![c] = l] /\ UNCHANGED <<stored, committed, prefix, tries, broken>>
    BY <1>4 DEF FullClean, Move
  <2> HIDE DEF l
  <2> QED
    BY <1>0, <1>2, <2>1, <2>2 DEF CreationTypeOK
<1>5. ASSUME NEW c \in Creators, Insert(c) PROVE CreationInv'
  <2>1. /\ cst[c] = "insert" /\ c \notin broken
        /\ stored' = [stored EXCEPT ![c] = prefix[c]]
        /\ \A d \in Creators : stored[d] # prefix[c]
        /\ UNCHANGED <<prefix, tries, broken>>
    BY <1>0, <1>5 DEF Insert, Store, Move, Taken, BrokenStoresNothing, Failures
  <2>2. PICK l \in {"pending", "created"} :
           /\ cst' = [cst EXCEPT ![c] = l]
           /\ committed' = IF l = "created" THEN committed \cup {c} ELSE committed
    BY <1>5 DEF Insert, Store, Move
  <2>3. prefix[c] \in Prefixes
    BY <1>0, <2>1 DEF RowInv
  <2>4. CreationTypeOK'
    BY <1>0, <2>1, <2>2, <2>3 DEF CreationTypeOK
  <2>5. RowInv'
    BY <1>0, <2>1, <2>2, <2>3 DEF RowInv, CreationTypeOK
  <2>6. PrefixUnique'
    BY <1>0, <2>1, <2>3 DEF PrefixUnique, CreationTypeOK
  <2>7. BrokenStoresNothing'
    BY <1>0, <2>1, <2>2 DEF BrokenStoresNothing, CreationTypeOK
  <2> QED
    BY <2>4, <2>5, <2>6, <2>7 DEF CreationInv
<1>6. ASSUME NEW c \in Creators, InsertCollides(c) PROVE CreationInv'
  BY <1>0, <1>2, <1>6 DEF InsertCollides, Move, CreationTypeOK
<1>7. ASSUME NEW c \in Creators, AdminAddCommits(c) PROVE CreationInv'
  <2> USE <1>0, <1>7 DEF AdminAddCommits, Move
  <2>1. CreationTypeOK'
    BY DEF CreationTypeOK
  <2>2. RowInv'
    BY DEF RowInv, CreationTypeOK
  <2>3. PrefixUnique' /\ BrokenStoresNothing'
    BY DEF PrefixUnique, BrokenStoresNothing, CreationTypeOK, Failures
  <2> QED
    BY <2>1, <2>2, <2>3 DEF CreationInv
<1>8. ASSUME NEW c \in Creators, AdminAddRollsBack(c) PROVE CreationInv'
  <2> USE <1>0, <1>8 DEF AdminAddRollsBack, Move
  <2>1. CreationTypeOK'
    BY DEF CreationTypeOK, Failures
  <2>2. RowInv'
    BY DEF RowInv, CreationTypeOK
  <2>3. PrefixUnique' /\ BrokenStoresNothing'
    BY DEF PrefixUnique, BrokenStoresNothing, CreationTypeOK, Failures
  <2> QED
    BY <2>1, <2>2, <2>3 DEF CreationInv
<1>9. CASE UNCHANGED creationVars
  BY <1>0, <1>9 DEF creationVars, CreationInv, CreationTypeOK, RowInv, PrefixUnique, BrokenStoresNothing
<1> QED
  BY <1>1, <1>3, <1>4, <1>5, <1>6, <1>7, <1>8, <1>9 DEF CreationNext, CreateKey

(* The conjunction of the invariants of create_key holds of every          *)
(* interleaving of its calls.                                              *)
THEOREM CreationInvariant == CreationSpec => []CreationInv
<1> QED
  BY CreationInitInv, CreationNextInv, PTL DEF CreationSpec

(* APIKey.create_key: the caller holds a raw key exactly if its row is     *)
(* committed, under that key's prefix, which no other key has; no failure  *)
(* leaves a row behind.                                                    *)
THEOREM CreationIsAllOrNothing == CreationSpec => []CreationAllOrNothing
<1>1. CreationInv => CreationAllOrNothing
  BY DEF CreationInv, RowInv, CreationAllOrNothing, Failures
<1> QED
  BY <1>1, CreationInvariant, PTL

(* A create_key inside a transaction that a collision has broken stores    *)
(* nothing, however often it retries.                                      *)
THEOREM BrokenCreationFails == CreationSpec => []BrokenStoresNothing
<1>1. CreationInv => BrokenStoresNothing
  BY DEF CreationInv
<1> QED
  BY <1>1, CreationInvariant, PTL
=============================================================================
