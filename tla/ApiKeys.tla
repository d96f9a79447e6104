------------------------------ MODULE ApiKeys -------------------------------
(***************************************************************************)
(* The life of API keys in apps/accounts: authentication with its          *)
(* debounced last_used_at stamp, revoke, soft delete and the admin's       *)
(* change form, all at work on one PostgreSQL table at READ COMMITTED.     *)
(*                                                                         *)
(* A step is one statement, or the part of a transaction between two       *)
(* points at which another session can come in between.  A statement that  *)
(* writes a row waits for the session that holds the row's lock; a plain   *)
(* SELECT does not.  The keys have been created (ApiKeyCreation); the time *)
(* in revoked_at is abstracted to the call that put it there.              *)
(***************************************************************************)
CONSTANTS
  Keys,       \* the rows of APIKey
  Clients,    \* requests that present a key
  Revokers,   \* requests to APIKeyRevokeView
  Deleters,   \* requests to APIKeyDeleteView
  Editors,    \* submissions of the admin's change form
  None

ASSUME ApiKeysAssumption ==
  /\ None \notin Keys \cup Revokers \cup Deleters
  /\ Revokers \cap Deleters = {}

VARIABLES
  row,        \* row[k]: the row of key k
  lock,       \* lock[k]: who holds the row lock (select_for_update), or None
  ast,        \* ast[a]: where call a (client, revoker, deleter, editor) stands
  target,     \* target[a]: the key it is about
  copy,       \* copy[e]: the row as the change form's view read it
  debounce,   \* the keys with an apikey_used_ entry in the rate_limit cache
  userActive, \* user.is_active of the owner
  clobbered   \* history: keys to which a change form wrote an outdated column back

callVars == <<ast, target, copy>>
vars == <<row, lock, callVars, debounce, userActive, clobbered>>

Callers == Clients \cup Revokers \cup Deleters \cup Editors

Columns == [active : BOOLEAN, revoked : Revokers \cup {None}, used : BOOLEAN]

CallEnds == {"ok", "denied", "error", "now", "already", "missing", "deleted", "saved"}

TypeOK ==
  /\ row \in [Keys -> Columns]
  /\ lock \in [Keys -> Revokers \cup Deleters \cup {None}]
  /\ ast \in [Callers -> {"idle", "found", "write", "set", "locked", "form"} \cup CallEnds]
  /\ target \in [Callers -> Keys \cup {None}]
  /\ copy \in [Editors -> Columns \cup {None}]
  /\ debounce \subseteq Keys
  /\ userActive \in BOOLEAN
  /\ clobbered \subseteq Keys

Init ==
  /\ row = [k \in Keys |-> [active |-> TRUE, revoked |-> None, used |-> FALSE]]
  /\ lock = [k \in Keys |-> None]
  /\ ast = [a \in Callers |-> "idle"]
  /\ target = [a \in Callers |-> None]
  /\ copy = [e \in Editors |-> None]
  /\ debounce = {}
  /\ userActive = TRUE
  /\ clobbered = {}

-----------------------------------------------------------------------------
(* APIKeyAuthentication.authenticate for a client that holds the raw key.  *)

Usable(k) == row[k].active /\ row[k].revoked = None

Lookup(a, k) ==
  /\ ast[a] = "idle"
  /\ ast' = [ast EXCEPT ![a] = IF Usable(k) /\ userActive THEN "found" ELSE "denied"]
  /\ target' = [target EXCEPT ![a] = k]
  /\ UNCHANGED <<copy, row, lock, debounce, userActive, clobbered>>

DebounceGet(a) ==
  /\ ast[a] = "found"
  /\ ast' = [ast EXCEPT ![a] = IF target[a] \in debounce THEN "ok" ELSE "write"]
  /\ UNCHANGED <<target, copy, row, lock, debounce, userActive, clobbered>>

MutantWriteUsed(a) ==   \* api_key.save(), with the columns as they were looked up
  /\ ast[a] = "write"
  /\ lock[target[a]] = None
  /\ row' = [row EXCEPT ![target[a]] =
                [@ EXCEPT !.used = TRUE, !.active = TRUE, !.revoked = None]]
  /\ ast' = [ast EXCEPT ![a] = "set"]
  /\ UNCHANGED <<lock, target, copy, debounce, userActive, clobbered>>

(* .filter(pk).update(last_used_at=now): that column alone. *)
WriteUsed(a) ==
  /\ ast[a] = "write"
  /\ lock[target[a]] = None
  /\ row' = [row EXCEPT ![target[a]] = [@ EXCEPT !.used = TRUE]]
  /\ ast' = [ast EXCEPT ![a] = "set"]
  /\ UNCHANGED <<lock, target, copy, debounce, userActive, clobbered>>

MutantWriteUsedFails(a) ==   \* the entry is set before the UPDATE
  /\ ast[a] = "write"
  /\ debounce' = debounce \cup {target[a]}
  /\ ast' = [ast EXCEPT ![a] = "error"]
  /\ UNCHANGED <<row, lock, target, copy, userActive, clobbered>>

WriteUsedFails(a) ==
  /\ ast[a] = "write"
  /\ ast' = [ast EXCEPT ![a] = "error"]
  /\ UNCHANGED <<row, lock, target, copy, debounce, userActive, clobbered>>

DebounceSet(a) ==
  /\ ast[a] = "set"
  /\ debounce' = debounce \cup {target[a]}
  /\ ast' = [ast EXCEPT ![a] = "ok"]
  /\ UNCHANGED <<row, lock, target, copy, userActive, clobbered>>

Authenticate(a) ==
  \/ \E k \in Keys : Lookup(a, k)
  \/ DebounceGet(a)
  \/ WriteUsed(a)
  \/ WriteUsedFails(a)
  \/ DebounceSet(a)

DebounceExpires(k) ==
  /\ k \in debounce
  /\ debounce' = debounce \ {k}
  /\ UNCHANGED <<row, lock, callVars, userActive, clobbered>>

DisableUser ==
  /\ userActive
  /\ userActive' = FALSE
  /\ UNCHANGED <<row, lock, callVars, debounce, clobbered>>

-----------------------------------------------------------------------------
(* APIKeyService.revoke and BaseService.delete: both lock the active row,  *)
(* decide, and write only their own columns before they commit.            *)

MutantRevokeLock(a, k) ==   \* without select_for_update
  /\ ast[a] = "idle"
  /\ lock[k] = None
  /\ target' = [target EXCEPT ![a] = k]
  /\ ast' = [ast EXCEPT ![a] = IF ~row[k].active THEN "missing"
                               ELSE IF row[k].revoked # None THEN "already"
                               ELSE "locked"]
  /\ UNCHANGED <<row, lock, copy, debounce, userActive, clobbered>>

RevokeLock(a, k) ==
  /\ ast[a] = "idle"
  /\ lock[k] = None
  /\ target' = [target EXCEPT ![a] = k]
  /\ ast' = [ast EXCEPT ![a] = IF ~row[k].active THEN "missing"
                               ELSE IF row[k].revoked # None THEN "already"
                               ELSE "locked"]
  /\ lock' = [lock EXCEPT ![k] = IF ast'[a] = "locked" THEN a ELSE None]
  /\ UNCHANGED <<row, copy, debounce, userActive, clobbered>>

RevokeCommit(a) ==
  /\ ast[a] = "locked"
  /\ row' = [row EXCEPT ![target[a]] = [@ EXCEPT !.revoked = a]]
  /\ lock' = [lock EXCEPT ![target[a]] = None]
  /\ ast' = [ast EXCEPT ![a] = "now"]
  /\ UNCHANGED <<target, copy, debounce, userActive, clobbered>>

DeleteLock(a, k) ==
  /\ ast[a] = "idle"
  /\ lock[k] = None
  /\ target' = [target EXCEPT ![a] = k]
  /\ ast' = [ast EXCEPT ![a] = IF row[k].active THEN "locked" ELSE "missing"]
  /\ lock' = [lock EXCEPT ![k] = IF row[k].active THEN a ELSE None]
  /\ UNCHANGED <<row, copy, debounce, userActive, clobbered>>

DeleteCommit(a) ==
  /\ ast[a] = "locked"
  /\ row' = [row EXCEPT ![target[a]] = [@ EXCEPT !.active = FALSE]]
  /\ lock' = [lock EXCEPT ![target[a]] = None]
  /\ ast' = [ast EXCEPT ![a] = "deleted"]
  /\ UNCHANGED <<target, copy, debounce, userActive, clobbered>>

(* save() raises, in full_clean or in the database: @transaction.atomic    *)
(* rolls back and the row is free again.                                   *)
Rollback(a) ==
  /\ ast[a] = "locked"
  /\ lock' = [lock EXCEPT ![target[a]] = None]
  /\ ast' = [ast EXCEPT ![a] = "error"]
  /\ UNCHANGED <<row, target, copy, debounce, userActive, clobbered>>

Revoke(a) == (\E k \in Keys : RevokeLock(a, k)) \/ RevokeCommit(a) \/ Rollback(a)
Delete(a) == (\E k \in Keys : DeleteLock(a, k)) \/ DeleteCommit(a) \/ Rollback(a)

-----------------------------------------------------------------------------
(* APIKeyAdmin: the view reads the row without a lock, the form sets       *)
(* is_active, save_model saves the whole object.                           *)

EditRead(a, k) ==
  /\ ast[a] = "idle"
  /\ copy' = [copy EXCEPT ![a] = row[k]]
  /\ target' = [target EXCEPT ![a] = k]
  /\ ast' = [ast EXCEPT ![a] = "form"]
  /\ UNCHANGED <<row, lock, debounce, userActive, clobbered>>

EditSave(a, active) ==
  LET k == target[a] IN
  /\ ast[a] = "form"
  /\ lock[k] = None
  /\ row' = [row EXCEPT ![k] = [copy[a] EXCEPT !.active = active]]
  /\ clobbered' = IF copy[a].revoked # row[k].revoked \/ copy[a].used # row[k].used
                  THEN clobbered \cup {k} ELSE clobbered
  /\ ast' = [ast EXCEPT ![a] = "saved"]
  /\ UNCHANGED <<lock, target, copy, debounce, userActive>>

Edit(a) == (\E k \in Keys : EditRead(a, k)) \/ \E b \in BOOLEAN : EditSave(a, b)

-----------------------------------------------------------------------------
Next ==
  \/ \E a \in Clients : Authenticate(a)
  \/ \E k \in Keys : DebounceExpires(k)
  \/ DisableUser
  \/ \E a \in Revokers : Revoke(a)
  \/ \E a \in Deleters : Delete(a)
  \/ \E a \in Editors : Edit(a)

Spec == Init /\ [][Next]_vars

-----------------------------------------------------------------------------
(* Properties.                                                             *)

(* A revoked key stays revoked, since the first call that revoked it: once *)
(* revoked_at is set no later revoke moves it, and no request that looked  *)
(* the key up before clears it when it writes last_used_at.  Only a change *)
(* form that read the row before does.                                     *)
StampMovesOnce ==
  [][\A k \in Keys :
       row[k].revoked # None =>
         row'[k].revoked = row[k].revoked \/ k \in clobbered']_vars

(* Of concurrent revocations of a key one is told that it did it.          *)
RevokedNowOnce ==
  \A a, b \in Revokers :
    ast[a] = "now" /\ ast[b] = "now" /\ target[a] = target[b] /\ target[a] \notin clobbered
      => a = b

(* A key that let somebody in has its use on record: the debounce entry is *)
(* only there once the row has been written, also when that write fails.   *)
UseRecorded ==
  \A a \in Clients :
    ast[a] = "ok" /\ target[a] \notin clobbered => row[target[a]].used

-----------------------------------------------------------------------------
(* What the repository says and the code does not do.                      *)

(* APIKeyRevokeView: the key is refused "on the next request that presents *)
(* the key".                                                               *)
RevokedIsRefused ==
  \A a \in Revokers : ast[a] \in {"now", "already"} => ~Usable(target[a])
=============================================================================
