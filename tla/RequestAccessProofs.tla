------------------------- MODULE RequestAccessProofs ------------------------
(***************************************************************************)
(* Proofs about AccountStore and RequestAccess, for any users, roles,      *)
(* permissions, signups, PATCH requests and API requests: what the caches  *)
(* of a request may answer while the admin changes the rows, what a signup *)
(* leaves behind, and what PATCH requests and the admin's change forms     *)
(* leave in the profile.                                                   *)
(***************************************************************************)
EXTENDS RequestAccess, FiniteSetTheorems, TLAPS

(* The fields a PATCH writes.                                              *)
Sets(p) == DOMAIN DataOf[p] \cap Writable

(* A signup that has inserted its row, committed or not.                   *)
Holds(s) == InTransaction(s) \/ spc[s] = "created"

(* The unique index: one signup at a time has a row for an email, and none *)
(* has one for an email that was there before.                             *)
SignupInv ==
  /\ \A s, t \in Signups : EmailOf[s] = EmailOf[t] /\ Holds(s) /\ Holds(t) => s = t
  /\ \A s \in Signups : InTransaction(s) => status[EmailOf[s]] = "absent"
  /\ \A s \in Signups : spc[s] = "created" =>
       status[EmailOf[s]] # "absent" /\ EmailOf[s] \notin Existing
  /\ \A e \in Existing : status[e] # "absent"
  /\ \A e \in Emails \ Existing : status[e] # "absent" =>
       \E s \in Signups : spc[s] = "created" /\ EmailOf[s] = e

(* Without default roles a signup has seen that there are none.            *)
BareInv ==
  /\ \A s \in Signups : InTransaction(s) /\ (spc[s] = "bareadd" \/ defaults = {}) => s \in bare
  /\ \A s \in Signups : spc[s] = "created" /\ draft[s] = {} => s \in bare

(* The row lock of UserRepository.update: one request at a time is between *)
(* SELECT ... FOR UPDATE and UPDATE, with an instance that agrees with the *)
(* row and with the body; and its user exists.                             *)
PatchInv ==
  /\ DOMAIN profile = Emails /\ DOMAIN seen = Patches
  /\ \A p \in Patches : ppc[p] \in {"lock", "save", "saved"} => status[OwnerOf[p]] # "absent"
  /\ \A p, q \in Patches :
       ppc[p] = "save" /\ ppc[q] = "save" /\ OwnerOf[p] = OwnerOf[q] => p = q
  /\ \A p \in Patches : ppc[p] = "save" =>
       \A f \in Writable :
         seen[p][f] = IF f \in Sets(p) THEN DataOf[p][f] ELSE profile[OwnerOf[p]][f]

(* The writers of a column, and where a value of it may come from: it was  *)
(* there at the start, an admin typed it, or a finished request wrote it.  *)
Writer(p, e, f) == ppc[p] = "saved" /\ OwnerOf[p] = e /\ f \in Sets(p)

Sourced(e, f, v) ==
  v = None \/ v \in Typed \/ \E p \in Patches : Writer(p, e, f) /\ v = DataOf[p][f]

(* What a column holds and what an open form would write to it has a       *)
(* source; and a column that no form has changed has not lost a write.     *)
ColumnInv ==
  /\ \A e \in Emails, f \in Writable : Sourced(e, f, profile[e][f])
  /\ \A g \in Forms, f \in Writable : form[g] # None => Sourced(form[g], f, copy[g].profile[f])
  /\ \A e \in Emails, f \in Writable : <<e, f>> \notin formWrote =>
       \/ (\A p \in Patches : ~Writer(p, e, f)) /\ profile[e][f] = None
       \/ \E p \in Patches : Writer(p, e, f) /\ profile[e][f] = DataOf[p][f]

(* A form shows a user who exists, with a profile of the right shape.      *)
FormInv ==
  /\ \A e \in Emails : profile[e] = [f \in Writable |-> profile[e][f]]
  /\ \A g \in Forms : form[g] # None =>
       /\ status[form[g]] # "absent"
       /\ copy[g] = [status |-> copy[g].status, roles |-> copy[g].roles, profile |-> copy[g].profile]
       /\ copy[g].profile = [f \in Writable |-> copy[g].profile[f]]

StoreInv == StoreTypeOK /\ SignupInv /\ BareInv /\ PatchInv /\ ColumnInv /\ FormInv

-----------------------------------------------------------------------------
(* A request that is not authenticated has asked nothing.                  *)
FreshInv ==
  \A r \in Requests : rpc[r] \in {"start", "walk", "auth"} =>
    /\ answers[r] = <<>> /\ isSuper[r] = None
    /\ \A x \in Permissions : cache[r][x] = None

(* A check is made for a known user, of a known pair; the query over the   *)
(* roles only for a pair that neither cache answers.                       *)
CheckInv ==
  /\ \A r \in Requests : rpc[r] \in {"user", "super", "roles"} => who[r] \in Emails
  /\ \A r \in Requests : rpc[r] \in {"super", "roles"} => asked[r] \in Permissions
  /\ \A r \in Requests : rpc[r] = "roles" =>
       isSuper[r] = FALSE /\ (passed[r] => cache[r][asked[r]] = None)

(* What the caches say was held at some moment of the request, and so is   *)
(* what the user holds now.                                                *)
HeldInv ==
  \A r \in Requests :
    /\ who[r] # None => HeldBy(who[r]) \subseteq everHeld[r]
    /\ isSuper[r] = TRUE => Permissions \subseteq everHeld[r]
    /\ \A x \in Permissions : cache[r][x] = TRUE => x \in everHeld[r]

(* Every answer so far that was given with the request is what the caches  *)
(* would answer again; with a superuser role every answer was yes.         *)
CachedInv ==
  \A r \in Requests : \A i \in DOMAIN answers[r] :
    /\ isSuper[r] # None
    /\ isSuper[r] = TRUE => answers[r][i][2] = TRUE
    /\ isSuper[r] = FALSE /\ answers[r][i][3] = TRUE => cache[r][answers[r][i][1]] = answers[r][i][2]

(* Every yes so far was held.                                              *)
GrantInv ==
  \A r \in Requests : \A i \in DOMAIN answers[r] :
    answers[r][i][2] = TRUE => answers[r][i][1] \in everHeld[r]

RequestInv ==
  /\ TypeOK
  /\ toRegister \in Seq(Models \X Resources)
  /\ FreshInv /\ CheckInv /\ HeldInv /\ CachedInv /\ GrantInv

-----------------------------------------------------------------------------
(* The store.                                                              *)

LEMMA UpdateDomain ==
  ASSUME NEW p
  PROVE  /\ DOMAIN UpdateData(p) = Sets(p)
         /\ \A f \in Sets(p) : UpdateData(p)[f] = DataOf[p][f]
  BY DEF UpdateData, Sets

LEMMA StoreInitInv == StoreInit => StoreInv
<1> SUFFICES ASSUME StoreInit PROVE StoreInv
  OBVIOUS
<1> USE StoreAssumption
<1>1. StoreTypeOK
  <2>1. PICK row \in InitialRows : /\ roles = row.roles /\ perms = row.perms
                                   /\ super = row.super /\ defaults = row.defaults
                                   /\ superusers = row.superusers
    BY DEF StoreInit
  <2>2. /\ row.roles \in [Emails -> SUBSET Roles] /\ row.perms \in [Roles -> SUBSET Permissions]
        /\ row.super \in SUBSET Roles /\ row.defaults \in SUBSET Roles
        /\ row.superusers \in SUBSET Existing
    <3>1. row \in [roles : [Emails -> SUBSET Roles], perms : [Roles -> SUBSET Permissions],
                   super : SUBSET Roles, defaults : SUBSET Roles, superusers : SUBSET Existing]
      OBVIOUS
    <3> QED
      BY ONLY <3>1
  <2>3. /\ status \in [Emails -> {"absent", "active", "inactive"}]
        /\ spc \in [Signups -> {"callback", "insert", "exists", "add", "bareadd"} \cup Outcomes]
        /\ draft \in [Signups -> SUBSET Roles] /\ bare \subseteq Signups
        /\ ppc \in [Patches -> {"start", "lock", "save", "saved", "refused"}]
        /\ form \in [Forms -> Emails \cup {None}] /\ DOMAIN copy = Forms
        /\ \A g \in Forms : form[g] = None
        /\ changes \in 0..MaxChanges
    BY DEF StoreInit
  <2> QED
    BY <2>1, <2>2, <2>3 DEF StoreTypeOK
<1>2. SignupInv /\ BareInv
  BY DEF StoreInit, SignupInv, BareInv, Holds, InTransaction
<1>3. PatchInv /\ ColumnInv /\ FormInv
  BY DEF StoreInit, PatchInv, ColumnInv, FormInv, Writer, Sourced, NewProfile
<1> QED
  BY <1>1, <1>2, <1>3 DEF StoreInv

(* A step of a signup that neither inserts nor commits a row.              *)
LEMMA SignupMove ==
  ASSUME StoreInv, NEW s \in Signups,
         NEW l \in {"insert", "add", "bareadd", "linked", "rejected", "failed"},
         spc[s] \notin Outcomes,
         l \in {"add", "bareadd"} => InTransaction(s),
         l = "bareadd" => defaults = {},
         spc' = [spc EXCEPT ![s] = l],
         UNCHANGED <<status, roles, profile, perms, super, defaults, superusers, draft, bare, patchVars,
                     formVars, changes>>
  PROVE  StoreInv'
<1> USE DEF StoreInv, patchVars, formVars
<1>1. StoreTypeOK'
  BY DEF StoreTypeOK, Outcomes
<1>2. spc'[s] = l /\ \A t \in Signups \ {s} : spc'[t] = spc[t]
  BY DEF StoreTypeOK
<1>3. /\ \A t \in Signups : InTransaction(t)' => InTransaction(t)
      /\ \A t \in Signups : spc'[t] = "created" <=> spc[t] = "created"
  BY <1>2 DEF InTransaction, Outcomes
<1>4. SignupInv'
  <2>1. \A t \in Signups : Holds(t)' => Holds(t)
    BY <1>3 DEF Holds
  <2> QED
    BY <1>3, <2>1 DEF SignupInv
<1>5. BareInv'
  BY <1>2, <1>3 DEF BareInv
<1>6. PatchInv' /\ ColumnInv' /\ FormInv'
  BY DEF PatchInv, ColumnInv, FormInv, Writer, Sourced
<1> QED
  BY <1>1, <1>4, <1>5, <1>6

(* The transaction of a signup commits the user with the granted roles.    *)
LEMMA SignupCommit ==
  ASSUME StoreInv, NEW s \in Signups, NEW granted \in SUBSET Roles, InTransaction(s),
         Commit(s, granted), granted = {} => s \in bare,
         UNCHANGED <<perms, super, defaults, superusers, bare, patchVars, formVars, changes>>
  PROVE  StoreInv'
<1> USE StoreAssumption DEF StoreInv, patchVars, formVars
<1> DEFINE e == EmailOf[s]
<1>0. e \in Emails /\ status[e] = "absent" /\ e \notin Existing
  BY DEF SignupInv
<1>1. StoreTypeOK'
  BY <1>0 DEF Commit, StoreTypeOK, Outcomes
<1>2. /\ spc'[s] = "created" /\ draft'[s] = granted
      /\ \A t \in Signups \ {s} : spc'[t] = spc[t] /\ draft'[t] = draft[t]
  BY DEF Commit, StoreTypeOK
<1>3. /\ status'[e] = "active" /\ profile'[e] = NewProfile
      /\ \A d \in Emails \ {e} : status'[d] = status[d] /\ profile'[d] = profile[d]
  BY <1>0 DEF Commit, StoreTypeOK, PatchInv
<1>4. SignupInv'
  <2>1. \A t \in Signups \ {s} : (Holds(t)' <=> Holds(t)) /\ (InTransaction(t)' <=> InTransaction(t))
    BY <1>2 DEF Holds, InTransaction
  <2>2. Holds(s) /\ ~InTransaction(s)' /\ \A t \in Signups \ {s} : Holds(t) => EmailOf[t] # e
    BY <1>2 DEF Holds, InTransaction, SignupInv
  <2>3. \A t, u \in Signups : EmailOf[t] = EmailOf[u] /\ Holds(t)' /\ Holds(u)' => t = u
    BY <2>1, <2>2 DEF SignupInv
  <2>4. \A t \in Signups : InTransaction(t)' => status'[EmailOf[t]] = "absent"
    BY <1>3, <2>1, <2>2 DEF SignupInv, Holds
  <2>5. \A t \in Signups : spc'[t] = "created" =>
          status'[EmailOf[t]] # "absent" /\ EmailOf[t] \notin Existing
    BY <1>0, <1>2, <1>3 DEF SignupInv
  <2>6. \A d \in Existing : status'[d] # "absent"
    BY <1>0, <1>3 DEF SignupInv
  <2>7. ASSUME NEW d \in Emails \ Existing, status'[d] # "absent"
        PROVE  \E t \in Signups : spc'[t] = "created" /\ EmailOf[t] = d
    BY <1>2, <1>3, <2>7 DEF SignupInv
  <2> QED
    BY <2>3, <2>4, <2>5, <2>6, <2>7 DEF SignupInv
<1>5. BareInv'
  BY <1>2 DEF BareInv, InTransaction
<1>6. PatchInv'
  <2>1. \A p \in Patches : ppc[p] \in {"lock", "save", "saved"} => OwnerOf[p] \in Emails \ {e}
    BY <1>0 DEF PatchInv
  <2>2. DOMAIN profile' = Emails
    BY DEF Commit, PatchInv
  <2> QED
    BY <1>3, <2>1, <2>2 DEF PatchInv
<1>7. ColumnInv'
  <2>1. \A p \in Patches, d \in Emails, f \in Writable : Writer(p, d, f) => d # e
    BY <1>0 DEF Writer, PatchInv
  <2>2. \A f \in Writable : profile'[e][f] = None
    BY <1>3 DEF NewProfile
  <2>3. /\ \A p, d, f : Writer(p, d, f)' <=> Writer(p, d, f)
        /\ \A d, f, v : Sourced(d, f, v)' <=> Sourced(d, f, v)
    BY DEF Writer, Sourced
  <2>4. \A d \in Emails, f \in Writable : Sourced(d, f, profile[d][f])'
    BY <1>3, <2>2, <2>3 DEF ColumnInv, Sourced
  <2>5. \A g \in Forms, f \in Writable : form'[g] # None => Sourced(form[g], f, copy[g].profile[f])'
    BY <2>3 DEF ColumnInv
  <2>6. \A d \in Emails, f \in Writable : <<d, f>> \notin formWrote' =>
          \/ (\A p \in Patches : ~Writer(p, d, f)') /\ profile'[d][f] = None
          \/ \E p \in Patches : Writer(p, d, f)' /\ profile'[d][f] = DataOf[p][f]
    BY <1>3, <2>1, <2>2, <2>3 DEF ColumnInv
  <2> QED
    BY <2>4, <2>5, <2>6 DEF ColumnInv
<1>8. FormInv'
  <2>1. \A g \in Forms : form[g] # None => form[g] \in Emails \ {e}
    BY <1>0 DEF FormInv, StoreTypeOK
  <2>2. profile'[e] = [f \in Writable |-> profile'[e][f]]
    BY <1>3 DEF NewProfile
  <2> QED
    BY <1>3, <2>1, <2>2 DEF FormInv
<1> QED
  BY <1>1, <1>4, <1>5, <1>6, <1>7, <1>8

LEMMA SaveUserInv ==
  ASSUME StoreInv, NEW s \in Signups, SaveUser(s)
  PROVE  StoreInv'
<1> USE StoreAssumption DEF StoreInv, patchVars, formVars, SaveUser
<1>1. StoreTypeOK'
  BY DEF StoreTypeOK, Outcomes
<1>2. spc'[s] = "exists" /\ \A t \in Signups \ {s} : spc'[t] = spc[t]
  BY DEF StoreTypeOK
<1>3. SignupInv'
  <2>1. \A t \in Signups \ {s} : (Holds(t)' <=> Holds(t)) /\ (InTransaction(t)' <=> InTransaction(t))
    BY <1>2 DEF Holds, InTransaction
  <2>2. \A t \in Signups \ {s} : Holds(t) => EmailOf[t] # EmailOf[s]
    BY DEF Holds, SignupInv
  <2> QED
    BY <1>2, <2>1, <2>2 DEF SignupInv
<1>4. BareInv'
  BY <1>2 DEF BareInv, InTransaction
<1>5. PatchInv' /\ ColumnInv' /\ FormInv'
  BY DEF PatchInv, ColumnInv, FormInv, Writer, Sourced
<1> QED
  BY <1>1, <1>3, <1>4, <1>5

(* A step of a PATCH request changes neither users nor signups.            *)
LEMMA PatchQuiet ==
  ASSUME StoreInv, UNCHANGED <<status, roles, perms, super, defaults, superusers, signupVars, formVars, changes>>,
         ppc' \in [Patches -> {"start", "lock", "save", "saved", "refused"}]
  PROVE  StoreTypeOK' /\ SignupInv' /\ BareInv'
<1> USE DEF StoreInv, signupVars, formVars
<1>1. StoreTypeOK'
  BY DEF StoreTypeOK
<1>2. SignupInv' /\ BareInv'
  BY DEF SignupInv, BareInv, Holds, InTransaction
<1> QED
  BY <1>1, <1>2

LEMMA UpdateProfileInv ==
  ASSUME StoreInv, NEW p \in Patches, UpdateProfile(p)
  PROVE  StoreInv'
<1> USE StoreAssumption
<1>1. PICK l \in {"refused", "lock"} : ppc' = [ppc EXCEPT ![p] = l]
  BY DEF UpdateProfile
<1>2. /\ ppc[p] = "start" /\ status[OwnerOf[p]] = "active"
      /\ UNCHANGED <<status, roles, profile, perms, super, defaults, superusers, signupVars, seen, formVars, changes>>
  BY DEF UpdateProfile
<1>3. ppc'[p] = l /\ \A q \in Patches \ {p} : ppc'[q] = ppc[q]
  BY <1>1 DEF StoreInv, StoreTypeOK
<1>4. StoreTypeOK' /\ SignupInv' /\ BareInv'
  <2>1. ppc' \in [Patches -> {"start", "lock", "save", "saved", "refused"}]
    BY <1>1 DEF StoreInv, StoreTypeOK
  <2> QED
    BY <1>2, <2>1, PatchQuiet
<1>5. PatchInv'
  BY <1>2, <1>3 DEF StoreInv, PatchInv
<1>6. ColumnInv'
  <2>1. \A q \in Patches : ppc'[q] = "saved" <=> ppc[q] = "saved"
    BY <1>2, <1>3
  <2> QED
    BY <1>2, <2>1 DEF StoreInv, ColumnInv, Writer, Sourced, formVars
<1>7. FormInv'
  BY <1>2 DEF StoreInv, FormInv, formVars
<1> QED
  BY <1>4, <1>5, <1>6, <1>7 DEF StoreInv

LEMMA LockUserInv ==
  ASSUME StoreInv, NEW p \in Patches, LockUser(p)
  PROVE  StoreInv'
<1> USE StoreAssumption
<1> DEFINE inst == [f \in Writable |-> IF f \in Sets(p) THEN DataOf[p][f] ELSE profile[OwnerOf[p]][f]]
<1>1. /\ ppc[p] = "lock" /\ ppc' = [ppc EXCEPT ![p] = "save"]
      /\ \A q \in Patches : ppc[q] = "save" => OwnerOf[q] # OwnerOf[p]
      /\ UNCHANGED <<status, roles, profile, perms, super, defaults, superusers, signupVars, formVars, changes>>
  BY DEF LockUser
<1>2. seen' = [seen EXCEPT ![p] = inst]
  <2>1. inst = [f \in Writable |-> IF f \in DOMAIN UpdateData(p) THEN UpdateData(p)[f]
                                   ELSE profile[OwnerOf[p]][f]]
    BY UpdateDomain
  <2> QED
    BY <2>1 DEF LockUser
<1>3. /\ ppc'[p] = "save" /\ \A q \in Patches \ {p} : ppc'[q] = ppc[q]
      /\ seen'[p] = inst /\ \A q \in Patches \ {p} : seen'[q] = seen[q]
      /\ DOMAIN seen' = Patches
  BY <1>1, <1>2 DEF StoreInv, StoreTypeOK, PatchInv
<1>4. StoreTypeOK' /\ SignupInv' /\ BareInv'
  <2>1. ppc' \in [Patches -> {"start", "lock", "save", "saved", "refused"}]
    BY <1>1 DEF StoreInv, StoreTypeOK
  <2> QED
    BY <1>1, <2>1, PatchQuiet
<1>5. PatchInv'
  BY <1>1, <1>3 DEF StoreInv, PatchInv, Sets
<1>6. ColumnInv'
  <2>1. \A q \in Patches : ppc'[q] = "saved" <=> ppc[q] = "saved"
    BY <1>1, <1>3
  <2> QED
    BY <1>1, <2>1 DEF StoreInv, ColumnInv, Writer, Sourced, formVars
<1>7. FormInv'
  BY <1>1 DEF StoreInv, FormInv, formVars
<1> QED
  BY <1>4, <1>5, <1>6, <1>7 DEF StoreInv

LEMMA SaveProfileInv ==
  ASSUME StoreInv, NEW p \in Patches, SaveProfile(p)
  PROVE  StoreInv'
<1> USE StoreAssumption
<1> DEFINE e == OwnerOf[p]
           new == [f \in Writable |-> IF f \in Sets(p) THEN seen[p][f] ELSE profile[e][f]]
<1>1. /\ ppc[p] = "save" /\ ppc' = [ppc EXCEPT ![p] = "saved"]
      /\ UNCHANGED <<status, roles, perms, super, defaults, superusers, signupVars, seen, formVars, changes>>
  BY DEF SaveProfile
<1>2. profile' = [profile EXCEPT ![e] = new]
  BY UpdateDomain DEF SaveProfile
<1>3. /\ ppc'[p] = "saved" /\ \A q \in Patches \ {p} : ppc'[q] = ppc[q]
      /\ profile'[e] = new /\ \A d \in Emails \ {e} : profile'[d] = profile[d]
      /\ DOMAIN profile' = Emails /\ e \in Emails
  BY <1>1, <1>2 DEF StoreInv, StoreTypeOK, PatchInv
<1>4. StoreTypeOK' /\ SignupInv' /\ BareInv'
  <2>1. ppc' \in [Patches -> {"start", "lock", "save", "saved", "refused"}]
    BY <1>1 DEF StoreInv, StoreTypeOK
  <2> QED
    BY <1>1, <2>1, PatchQuiet
<1>5. \A f \in Sets(p) : new[f] = DataOf[p][f]
  BY <1>1 DEF StoreInv, PatchInv, Sets
<1>6. PatchInv'
  <2>1. \A q \in Patches : ppc'[q] = "save" => ppc[q] = "save" /\ OwnerOf[q] \in Emails \ {e}
    BY <1>1, <1>3 DEF StoreInv, PatchInv
  <2>2. \A q \in Patches : ppc'[q] \in {"lock", "save", "saved"} => ppc[q] \in {"lock", "save", "saved"}
    BY <1>1, <1>3
  <2> QED
    BY <1>1, <1>3, <2>1, <2>2 DEF StoreInv, PatchInv
<1>7. ColumnInv'
  <2>1. /\ \A q \in Patches : \A d, f : Writer(q, d, f)' <=> Writer(q, d, f) \/ (q = p /\ d = e /\ f \in Sets(p))
        /\ \A d, f, v : Sourced(d, f, v) => Sourced(d, f, v)'
    <3>1. \A q \in Patches : \A d, f : Writer(q, d, f)' <=> Writer(q, d, f) \/ (q = p /\ d = e /\ f \in Sets(p))
      BY <1>1, <1>3 DEF Writer
    <3> QED
      BY <3>1 DEF Sourced
  <2>2. ASSUME NEW d \in Emails, NEW f \in Writable
        PROVE  /\ Sourced(d, f, profile[d][f])'
               /\ <<d, f>> \notin formWrote' =>
                     \/ (\A q \in Patches : ~Writer(q, d, f)') /\ profile'[d][f] = None
                     \/ \E q \in Patches : Writer(q, d, f)' /\ profile'[d][f] = DataOf[q][f]
    <3>1. CASE d = e /\ f \in Sets(p)
      <4>1. Writer(p, d, f)' /\ profile'[d][f] = DataOf[p][f]
        BY <1>3, <1>5, <2>1, <3>1
      <4> QED
        BY <4>1 DEF Sourced
    <3>2. CASE ~(d = e /\ f \in Sets(p))
      <4>1. profile'[d][f] = profile[d][f] /\ formWrote' = formWrote
        BY <1>1, <1>3, <3>2 DEF formVars
      <4>2. \A q \in Patches : Writer(q, d, f)' <=> Writer(q, d, f)
        BY <2>1, <3>2
      <4> QED
        BY <2>1, <4>1, <4>2 DEF StoreInv, ColumnInv
    <3> QED
      BY <3>1, <3>2
  <2>3. \A g \in Forms, f \in Writable : form'[g] # None => Sourced(form[g], f, copy[g].profile[f])'
    BY <1>1, <2>1 DEF StoreInv, ColumnInv, formVars
  <2> QED
    BY <2>2, <2>3 DEF ColumnInv
<1>8. FormInv'
  <2>1. new = [f \in Writable |-> new[f]]
    OBVIOUS
  <2>2. \A d \in Emails : profile'[d] = [f \in Writable |-> profile'[d][f]]
    BY <1>3, <2>1 DEF StoreInv, FormInv
  <2> QED
    BY <1>1, <2>2 DEF StoreInv, FormInv, formVars
<1> QED
  BY <1>4, <1>6, <1>7, <1>8 DEF StoreInv

LEMMA OpenFormInv ==
  ASSUME StoreInv, NEW g \in Forms, NEW e \in Emails, OpenForm(g, e)
  PROVE  StoreInv'
<1> USE StoreAssumption
<1> DEFINE row == [status |-> status[e], roles |-> roles[e], profile |-> profile[e]]
<1>1. /\ form' = [form EXCEPT ![g] = e] /\ copy' = [copy EXCEPT ![g] = row] /\ status[e] # "absent"
      /\ UNCHANGED <<status, roles, profile, perms, super, defaults, superusers, signupVars, patchVars,
                     formWrote, changes>>
  BY DEF OpenForm
<1>2. /\ form'[g] = e /\ copy'[g] = row /\ DOMAIN copy' = Forms
      /\ \A h \in Forms \ {g} : form'[h] = form[h] /\ copy'[h] = copy[h]
  BY <1>1 DEF StoreInv, StoreTypeOK
<1>3. StoreTypeOK'
  <2>1. row.status \in {"active", "inactive"} /\ row.roles \subseteq Roles
    BY <1>1 DEF StoreInv, StoreTypeOK
  <2>2. form' \in [Forms -> Emails \cup {None}]
    BY <1>1 DEF StoreInv, StoreTypeOK
  <2>3. \A h \in Forms : form'[h] # None =>
          copy'[h].status \in {"active", "inactive"} /\ copy'[h].roles \subseteq Roles
    BY <1>2, <2>1 DEF StoreInv, StoreTypeOK
  <2> HIDE DEF row
  <2> QED
    BY <1>1, <1>2, <2>2, <2>3 DEF StoreInv, StoreTypeOK, signupVars, patchVars
<1>4. SignupInv' /\ BareInv' /\ PatchInv'
  BY <1>1 DEF StoreInv, SignupInv, BareInv, PatchInv, signupVars, patchVars, Holds, InTransaction
<1>5. row.profile = profile[e]
  OBVIOUS
<1>6. ColumnInv'
  <2>1. /\ \A p, d, f : Writer(p, d, f)' <=> Writer(p, d, f)
        /\ \A d, f, v : Sourced(d, f, v)' <=> Sourced(d, f, v)
    BY <1>1 DEF Writer, Sourced, patchVars
  <2>2. \A h \in Forms, f \in Writable : form'[h] # None => Sourced(form'[h], f, copy'[h].profile[f])
    BY <1>2, <1>5 DEF StoreInv, ColumnInv
  <2> HIDE DEF row
  <2> QED
    BY <1>1, <2>1, <2>2 DEF StoreInv, ColumnInv
<1>7. FormInv'
  <2>1. row = [status |-> row.status, roles |-> row.roles, profile |-> row.profile]
    OBVIOUS
  <2>2. row.profile = [f \in Writable |-> row.profile[f]]
    BY <1>5 DEF StoreInv, FormInv
  <2> HIDE DEF row
  <2> QED
    <3>1. \A h \in Forms : form'[h] # None =>
            /\ status[form'[h]] # "absent"
            /\ copy'[h] = [status |-> copy'[h].status, roles |-> copy'[h].roles, profile |-> copy'[h].profile]
            /\ copy'[h].profile = [f \in Writable |-> copy'[h].profile[f]]
      <4>1. ASSUME NEW h \in Forms \ {g}, form'[h] # None
            PROVE  /\ status[form'[h]] # "absent"
                   /\ copy'[h] = [status |-> copy'[h].status, roles |-> copy'[h].roles, profile |-> copy'[h].profile]
                   /\ copy'[h].profile = [f \in Writable |-> copy'[h].profile[f]]
        BY <1>2, <4>1, Zenon DEF StoreInv, FormInv
      <4> QED
        BY <1>1, <1>2, <2>1, <2>2, <4>1, Zenon
    <3>2. \A d \in Emails : profile[d] = [f \in Writable |-> profile[d][f]]
      BY DEF StoreInv, FormInv
    <3> QED
      BY <1>1, <3>1, <3>2, Zenon DEF FormInv
<1> QED
  BY <1>3, <1>4, <1>6, <1>7 DEF StoreInv

(* What a form sends is a row whose values have a source.                  *)
LEMMA EditedRow ==
  ASSUME StoreInv, NEW g \in Forms, form[g] # None, NEW row \in Edited(copy[g])
  PROVE  /\ row.status \in {"active", "inactive"} /\ row.roles \subseteq Roles
         /\ row.profile = [f \in Writable |-> row.profile[f]]
         /\ \A f \in Writable : Sourced(form[g], f, row.profile[f])
<1> DEFINE c == copy[g]
<1>1. /\ c = [status |-> c.status, roles |-> c.roles, profile |-> c.profile]
      /\ c.profile = [f \in Writable |-> c.profile[f]]
      /\ c.status \in {"active", "inactive"} /\ c.roles \subseteq Roles
      /\ \A f \in Writable : Sourced(form[g], f, c.profile[f])
  BY DEF StoreInv, StoreTypeOK, FormInv, ColumnInv
<1> HIDE DEF c
<1>2. CASE \E st \in {"active", "inactive"} : row = [c EXCEPT !.status = st]
  BY <1>1, <1>2
<1>3. CASE \E rs \in SUBSET Roles : row = [c EXCEPT !.roles = rs]
  BY <1>1, <1>3
<1>4. CASE \E f \in Writable, v \in Typed : row = [c EXCEPT !.profile[f] = v]
  <2>1. PICK f \in Writable, v \in Typed : row = [c EXCEPT !.profile[f] = v]
    BY <1>4
  <2>2. /\ row.status = c.status /\ row.roles = c.roles
        /\ row.profile = [c.profile EXCEPT ![f] = v]
    BY <1>1, <2>1
  <2>3. /\ row.profile = [h \in Writable |-> row.profile[h]]
        /\ row.profile[f] = v /\ \A h \in Writable \ {f} : row.profile[h] = c.profile[h]
    BY <1>1, <2>2
  <2> QED
    BY <1>1, <2>2, <2>3 DEF Sourced
<1> QED
  BY <1>2, <1>3, <1>4 DEF Edited, c

LEMMA SaveFormInv ==
  ASSUME StoreInv, NEW g \in Forms, SaveForm(g)
  PROVE  StoreInv'
<1> USE StoreAssumption
<1> DEFINE e == form[g]
<1>1. /\ e # None /\ changes' = changes + 1 /\ changes < MaxChanges
      /\ \A p \in Patches : ppc[p] = "save" => OwnerOf[p] # e
      /\ form' = [form EXCEPT ![g] = None] /\ copy' = [copy EXCEPT ![g] = NoCopy]
      /\ UNCHANGED <<perms, super, defaults, superusers, signupVars, patchVars>>
  BY DEF SaveForm
<1>2. PICK row \in Edited(copy[g]) :
        /\ status' = [status EXCEPT ![e] = row.status]
        /\ roles' = [roles EXCEPT ![e] = row.roles]
        /\ profile' = [profile EXCEPT ![e] = row.profile]
        /\ formWrote' = formWrote \cup {<<e, f>> : f \in {x \in Writable : row.profile[x] # profile[e][x]}}
  BY DEF SaveForm
<1>3. /\ row.status \in {"active", "inactive"} /\ row.roles \subseteq Roles
      /\ row.profile = [f \in Writable |-> row.profile[f]]
      /\ \A f \in Writable : Sourced(e, f, row.profile[f])
  BY <1>1, <1>2, EditedRow
<1>4. e \in Emails /\ status[e] # "absent"
  BY <1>1 DEF StoreInv, StoreTypeOK, FormInv
<1>5. /\ form'[g] = None /\ DOMAIN copy' = Forms
      /\ \A h \in Forms \ {g} : form'[h] = form[h] /\ copy'[h] = copy[h]
  BY <1>1 DEF StoreInv, StoreTypeOK
<1> HIDE DEF e
<1>6. /\ profile'[e] = row.profile /\ DOMAIN profile' = Emails
      /\ \A d \in Emails \ {e} : profile'[d] = profile[d]
  BY <1>2, <1>4 DEF StoreInv, PatchInv
<1>7. \A d \in Emails : status'[d] = "absent" <=> status[d] = "absent"
  BY <1>2, <1>3, <1>4 DEF StoreInv, StoreTypeOK
<1>8. StoreTypeOK'
  <2>1. changes' \in 0..MaxChanges
    BY <1>1 DEF StoreInv, StoreTypeOK
  <2>2. status' \in [Emails -> {"absent", "active", "inactive"}] /\ roles' \in [Emails -> SUBSET Roles]
    BY <1>2, <1>3, <1>4 DEF StoreInv, StoreTypeOK
  <2>3. form' \in [Forms -> Emails \cup {None}]
    BY <1>1 DEF StoreInv, StoreTypeOK
  <2>4. \A h \in Forms : form'[h] # None =>
          copy'[h].status \in {"active", "inactive"} /\ copy'[h].roles \subseteq Roles
    BY <1>5 DEF StoreInv, StoreTypeOK
  <2> QED
    BY <1>1, <1>5, <2>1, <2>2, <2>3, <2>4 DEF StoreInv, StoreTypeOK, signupVars, patchVars
<1>9. SignupInv' /\ BareInv'
  BY <1>1, <1>7 DEF StoreInv, SignupInv, BareInv, signupVars, Holds, InTransaction
<1>10. PatchInv'
  BY <1>1, <1>6, <1>7 DEF StoreInv, PatchInv, patchVars
<1>11. ColumnInv'
  <2>1. /\ \A p, d, f : Writer(p, d, f)' <=> Writer(p, d, f)
        /\ \A d, f, v : Sourced(d, f, v)' <=> Sourced(d, f, v)
    BY <1>1 DEF Writer, Sourced, patchVars
  <2>2. \A d \in Emails, f \in Writable : Sourced(d, f, profile'[d][f])
    BY <1>3, <1>6 DEF StoreInv, ColumnInv
  <2>3. \A h \in Forms, f \in Writable : form'[h] # None => Sourced(form'[h], f, copy'[h].profile[f])
    BY <1>5 DEF StoreInv, ColumnInv
  <2>4. ASSUME NEW d \in Emails, NEW f \in Writable, <<d, f>> \notin formWrote'
        PROVE  /\ <<d, f>> \notin formWrote
               /\ profile'[d][f] = profile[d][f]
    BY <1>2, <1>6, <2>4
  <2> QED
    BY <2>1, <2>2, <2>3, <2>4 DEF StoreInv, ColumnInv
<1>12. FormInv'
  <2>1. \A d \in Emails : profile'[d] = [f \in Writable |-> profile'[d][f]]
    BY <1>3, <1>6 DEF StoreInv, FormInv
  <2>2. \A h \in Forms : form'[h] # None => form'[h] = form[h] /\ copy'[h] = copy[h] /\ form[h] \in Emails
    BY <1>5 DEF StoreInv, StoreTypeOK
  <2> QED
    BY <1>7, <2>1, <2>2 DEF StoreInv, FormInv
<1> QED
  BY <1>8, <1>9, <1>10, <1>11, <1>12 DEF StoreInv

LEMMA AdminRoleInv ==
  ASSUME StoreInv, NEW r \in Roles, AdminRole(r)
  PROVE  StoreInv'
<1> USE StoreAssumption
<1>1. /\ changes' = changes + 1 /\ changes < MaxChanges
      /\ bare' = IF defaults' = {} THEN bare \cup {s \in Signups : InTransaction(s)} ELSE bare
      /\ UNCHANGED <<status, roles, profile, superusers, spc, draft, patchVars, formVars>>
  BY DEF AdminRole
<1>2. perms' \in [Roles -> SUBSET Permissions] /\ super' \subseteq Roles /\ defaults' \subseteq Roles
  BY DEF AdminRole, StoreInv, StoreTypeOK
<1>3. StoreTypeOK'
  <2>1. changes' \in 0..MaxChanges
    BY <1>1 DEF StoreInv, StoreTypeOK
  <2>2. bare' \subseteq Signups
    BY <1>1 DEF StoreInv, StoreTypeOK
  <2> QED
    BY <1>1, <1>2, <2>1, <2>2 DEF StoreInv, StoreTypeOK, patchVars, formVars
<1>4. SignupInv'
  BY <1>1 DEF StoreInv, SignupInv, Holds, InTransaction
<1>5. BareInv'
  BY <1>1 DEF StoreInv, BareInv, InTransaction
<1>6. PatchInv' /\ ColumnInv' /\ FormInv'
  BY <1>1 DEF StoreInv, PatchInv, ColumnInv, FormInv, Writer, Sourced, patchVars, formVars
<1> QED
  BY <1>3, <1>4, <1>5, <1>6 DEF StoreInv

LEMMA StoreNextInv == StoreInv /\ StoreNext => StoreInv'
<1> SUFFICES ASSUME StoreInv, StoreNext PROVE StoreInv'
  OBVIOUS
<1>1. ASSUME NEW s \in Signups, CallbackRejected(s) PROVE StoreInv'
  BY <1>1, SignupMove DEF CallbackRejected, Outcomes
<1>2. ASSUME NEW s \in Signups, PreSocialLogin(s) PROVE StoreInv'
  <2>1. PICK l \in {"linked", "insert"} : spc' = [spc EXCEPT ![s] = l]
    BY <1>2 DEF PreSocialLogin
  <2> QED
    BY <1>2, <2>1, SignupMove DEF PreSocialLogin, Outcomes
<1>3. ASSUME NEW s \in Signups, SaveUserCollides(s) PROVE StoreInv'
  BY <1>3, SignupMove DEF SaveUserCollides, Outcomes
<1>4. ASSUME NEW s \in Signups, DefaultRolesExist(s) PROVE StoreInv'
  <2>1. PICK l \in {"add", "bareadd"} : spc' = [spc EXCEPT ![s] = l] /\ (l = "bareadd" => defaults = {})
    BY <1>4 DEF DefaultRolesExist
  <2> QED
    BY <1>4, <2>1, SignupMove DEF DefaultRolesExist, Outcomes, InTransaction
<1>5. ASSUME NEW s \in Signups, AddDefaultRoles(s) PROVE StoreInv'
  <2>1. InTransaction(s) /\ defaults \in SUBSET Roles /\ (defaults = {} => s \in bare)
    BY <1>5 DEF AddDefaultRoles, InTransaction, StoreInv, StoreTypeOK, BareInv
  <2> QED
    BY <1>5, <2>1, SignupCommit DEF AddDefaultRoles
<1>6. ASSUME NEW s \in Signups, AddNoRoles(s) PROVE StoreInv'
  <2>1. InTransaction(s) /\ {} \in SUBSET Roles /\ s \in bare
    BY <1>6 DEF AddNoRoles, InTransaction, StoreInv, BareInv
  <2> QED
    BY <1>6, <2>1, SignupCommit DEF AddNoRoles
<1>7. ASSUME NEW s \in Signups, SaveUserFails(s) PROVE StoreInv'
  BY <1>7, SignupMove DEF SaveUserFails, Outcomes, InTransaction
<1> QED
  BY <1>1, <1>2, <1>3, <1>4, <1>5, <1>6, <1>7, SaveUserInv, UpdateProfileInv, LockUserInv,
     SaveProfileInv, OpenFormInv, SaveFormInv, AdminRoleInv
     DEF StoreNext

-----------------------------------------------------------------------------
(* The requests.                                                           *)

LEMMA HeldTyped ==
  ASSUME StoreTypeOK, NEW u \in Emails
  PROVE  HeldBy(u) \subseteq Permissions
  BY DEF StoreTypeOK, HeldBy, Held

LEMMA RequestInitInv == Init => RequestInv
<1> SUFFICES ASSUME Init PROVE RequestInv
  OBVIOUS
<1> USE AccessAssumption
<1>1. StoreTypeOK
  BY StoreInitInv DEF Init, StoreInv
<1>2. TypeOK
  <2>1. answers \in [Requests -> Seq(Permissions \X BOOLEAN \X BOOLEAN)]
    BY DEF Init
  <2>2. cache \in [Requests -> [Permissions -> BOOLEAN \cup {None}]]
    BY DEF Init
  <2> QED
    BY <1>1, <2>1, <2>2 DEF Init, TypeOK
<1>3. toRegister \in Seq(Models \X Resources)
  BY DEF Init
<1>4. FreshInv /\ CheckInv /\ CachedInv
  BY DEF Init, FreshInv, CheckInv, CachedInv
<1>5. HeldInv
  BY DEF Init, HeldInv
<1>6. GrantInv
  <2>1. \A r \in Requests : answers[r] = <<>>
    BY DEF Init
  <2>2. \A r \in Requests : DOMAIN answers[r] = {}
    BY <2>1
  <2> QED
    BY <2>2 DEF GrantInv
<1> QED
  BY <1>2, <1>3, <1>4, <1>5, <1>6 DEF RequestInv

(* The step of a request that answers no check.                            *)
LEMMA RequestMove ==
  ASSUME RequestInv, NEW r \in Requests,
         NEW l \in {"walk", "auth", "super", "401", "403"}, NEW x \in Permissions \cup {None},
         rpc[r] \notin {"super", "roles"},
         l \in {"walk", "auth"} => rpc[r] \in {"start", "walk", "auth"},
         l = "super" => rpc[r] = "user" /\ x \in Permissions,
         rpc' = [rpc EXCEPT ![r] = l],
         asked' = [asked EXCEPT ![r] = x],
         passed' \in [Requests -> BOOLEAN], \A q \in Requests \ {r} : passed'[q] = passed[q],
         UNCHANGED <<storeVars, bootVars, registry, who, isSuper, cache, answers, everHeld>>
  PROVE  RequestInv'
<1>0. UNCHANGED <<roles, perms, super>>
  BY DEF storeVars
<1>1. /\ rpc' \in [Requests -> {"start", "walk", "auth", "user", "super", "roles", "401", "403"}]
      /\ asked' \in [Requests -> Permissions \cup {None}]
  BY DEF RequestInv, TypeOK
<1>2. TypeOK'
  <2>1. StoreTypeOK'
    BY DEF RequestInv, TypeOK, StoreTypeOK, storeVars
  <2> QED
    BY <1>1, <2>1 DEF RequestInv, TypeOK, bootVars
<1>3. toRegister' \in Seq(Models \X Resources)
  BY DEF RequestInv, bootVars
<1>4. /\ rpc'[r] = l /\ asked'[r] = x
      /\ \A q \in Requests \ {r} : rpc'[q] = rpc[q] /\ asked'[q] = asked[q]
  BY DEF RequestInv, TypeOK
<1>5. FreshInv'
  BY <1>4 DEF RequestInv, FreshInv
<1>6. CheckInv'
  BY <1>4 DEF RequestInv, CheckInv
<1>7. HeldInv'
  BY <1>0 DEF RequestInv, HeldInv, HeldBy
<1>8. CachedInv' /\ GrantInv'
  BY DEF RequestInv, CachedInv, GrantInv
<1> QED
  BY <1>2, <1>3, <1>5, <1>6, <1>7, <1>8 DEF RequestInv

(* Registering changes the registries only.                                *)
LEMMA BootMove ==
  ASSUME RequestInv, UNCHANGED <<storeVars, requestVars, everHeld>>,
         boot' \in {"registering", "serving", "failed"},
         resourceFor' \in [Models -> Resources \cup {None}],
         registry' \subseteq Providers,
         toRegister' \in Seq(Models \X Resources)
  PROVE  RequestInv'
<1>1. TypeOK'
  <2>1. StoreTypeOK'
    BY DEF RequestInv, TypeOK, StoreTypeOK, storeVars
  <2> QED
    BY <2>1 DEF RequestInv, TypeOK, requestVars
<1>2. FreshInv' /\ CheckInv' /\ CachedInv' /\ GrantInv'
  BY DEF RequestInv, requestVars, FreshInv, CheckInv, CachedInv, GrantInv
<1>3. HeldInv'
  BY DEF RequestInv, requestVars, HeldInv, HeldBy, storeVars
<1> QED
  BY <1>1, <1>2, <1>3 DEF RequestInv

LEMMA RegisterResourceInv ==
  ASSUME RequestInv, RegisterResource
  PROVE  RequestInv'
<1>1. /\ toRegister \in Seq(Models \X Resources) /\ toRegister # <<>>
      /\ resourceFor \in [Models -> Resources \cup {None}]
      /\ boot \in {"registering", "serving", "failed"} /\ registry \subseteq Providers
  BY DEF RequestInv, TypeOK, RegisterResource
<1>2. Head(toRegister) \in Models \X Resources /\ Tail(toRegister) \in Seq(Models \X Resources)
  BY <1>1
<1>3. /\ toRegister' \in Seq(Models \X Resources)
      /\ resourceFor' \in [Models -> Resources \cup {None}]
      /\ boot' \in {"registering", "serving", "failed"} /\ registry' = registry
      /\ UNCHANGED <<storeVars, requestVars, everHeld>>
  BY <1>1, <1>2 DEF RegisterResource
<1> QED
  BY <1>1, <1>3, BootMove

LEMMA TryProviderInv ==
  ASSUME RequestInv, NEW r \in Requests, TryProvider(r)
  PROVE  RequestInv'
<1> USE AccessAssumption, StoreAssumption
<1> DEFINE found == Authenticate(r, chain[r][pos[r]])
<1>0. /\ rpc[r] = "auth"
      /\ UNCHANGED <<storeVars, bootVars, registry, isSuper, asked, passed, cache, answers>>
      /\ passed \in [Requests -> BOOLEAN]
  BY DEF TryProvider, RequestInv, TypeOK
<1>1. CASE UNCHANGED <<rpc, who, everHeld>>
  <2>1. rpc' = [rpc EXCEPT ![r] = "auth"] /\ asked' = [asked EXCEPT ![r] = asked[r]]
        /\ asked[r] \in Permissions \cup {None}
    BY <1>0, <1>1 DEF RequestInv, TypeOK
  <2> QED
    BY <1>0, <1>1, <2>1, RequestMove
<1>2. CASE rpc' = [rpc EXCEPT ![r] = Denial(r)] /\ UNCHANGED <<who, everHeld>>
  <2>1. PICK l \in {"401", "403"} : rpc' = [rpc EXCEPT ![r] = l]
    BY <1>2 DEF Denial
  <2>2. asked' = [asked EXCEPT ![r] = asked[r]] /\ asked[r] \in Permissions \cup {None}
    BY <1>0 DEF RequestInv, TypeOK
  <2> QED
    BY <1>0, <1>2, <2>1, <2>2, RequestMove
<1>3. ASSUME NEW u \in Emails,
             who' = [who EXCEPT ![r] = u], rpc' = [rpc EXCEPT ![r] = "user"],
             everHeld' = [everHeld EXCEPT ![r] = HeldBy(u)]
      PROVE  RequestInv'
  <2>1. HeldBy(u) \subseteq Permissions
    BY HeldTyped DEF RequestInv, TypeOK
  <2>2. TypeOK'
    <3>1. StoreTypeOK'
      BY <1>0 DEF RequestInv, TypeOK, StoreTypeOK, storeVars
    <3> QED
      BY <1>0, <1>3, <2>1, <3>1 DEF RequestInv, TypeOK, bootVars
  <2>3. /\ rpc'[r] = "user" /\ who'[r] = u /\ everHeld'[r] = HeldBy(u)
        /\ \A q \in Requests \ {r} : rpc'[q] = rpc[q] /\ who'[q] = who[q] /\ everHeld'[q] = everHeld[q]
    BY <1>3 DEF RequestInv, TypeOK
  <2>4. toRegister' \in Seq(Models \X Resources)
    BY <1>0 DEF RequestInv, bootVars
  <2>5. FreshInv' /\ CheckInv' /\ CachedInv' /\ GrantInv'
    <3>1. FreshInv'
      BY <1>0, <2>3 DEF RequestInv, FreshInv
    <3>2. CheckInv'
      BY <1>0, <2>3 DEF RequestInv, CheckInv
    <3>3. CachedInv'
      BY <1>0 DEF RequestInv, CachedInv
    <3>4. GrantInv'
      <4>1. answers[r] = <<>> /\ \A q \in Requests \ {r} : everHeld'[q] = everHeld[q]
        BY <1>0, <2>3 DEF RequestInv, FreshInv
      <4> QED
        BY <1>0, <4>1 DEF RequestInv, GrantInv
    <3> QED
      BY <3>1, <3>2, <3>3, <3>4
  <2>6. HeldInv'
    <3>1. \A v : HeldBy(v)' = HeldBy(v)
      BY <1>0 DEF HeldBy, storeVars
    <3>2. isSuper[r] # TRUE /\ \A x \in Permissions : cache[r][x] # TRUE
      BY <1>0 DEF RequestInv, FreshInv
    <3> QED
      BY <1>0, <2>3, <3>1, <3>2 DEF RequestInv, HeldInv
  <2> QED
    BY <2>2, <2>4, <2>5, <2>6 DEF RequestInv
<1> QED
  BY <1>1, <1>2, <1>3 DEF TryProvider

LEMMA AppendFacts ==
  ASSUME NEW S, NEW q \in Seq(S), NEW e \in S
  PROVE  /\ Append(q, e) \in Seq(S)
         /\ \A i \in DOMAIN Append(q, e) :
              Append(q, e)[i] = e \/ (i \in DOMAIN q /\ Append(q, e)[i] = q[i])
  OBVIOUS

(* A check is answered, from the flag f, from the cache or from the rows;  *)
(* w tells whether it was given the request.                               *)
LEMMA AnswerStep ==
  ASSUME RequestInv, NEW r \in Requests, NEW x \in Permissions, NEW b \in BOOLEAN, NEW f \in BOOLEAN,
         NEW w \in BOOLEAN,
         NEW l \in {"user", "403"}, rpc[r] \in {"super", "roles"},
         isSuper[r] \in {None, f},
         f = TRUE => b = TRUE /\ Permissions \subseteq everHeld[r] /\ cache' = cache,
         f = FALSE /\ w = TRUE => cache'[r][x] = b,
         b = TRUE => x \in everHeld[r],
         cache' = cache \/ (cache[r][x] = None /\ cache' = [cache EXCEPT ![r][x] = b]),
         rpc' = [rpc EXCEPT ![r] = l],
         isSuper' = [isSuper EXCEPT ![r] = f],
         answers' = [answers EXCEPT ![r] = Append(@, <<x, b, w>>)],
         UNCHANGED <<storeVars, bootVars, registry, who, asked, passed, everHeld>>
  PROVE  RequestInv'
<1> USE AccessAssumption
<1>1. /\ rpc'[r] = l /\ isSuper'[r] = f /\ answers'[r] = Append(answers[r], <<x, b, w>>)
      /\ \A q \in Requests \ {r} :
           rpc'[q] = rpc[q] /\ isSuper'[q] = isSuper[q] /\ answers'[q] = answers[q] /\ cache'[q] = cache[q]
  BY DEF RequestInv, TypeOK
<1>2. answers[r] \in Seq(Permissions \X BOOLEAN \X BOOLEAN) /\ <<x, b, w>> \in Permissions \X BOOLEAN \X BOOLEAN
  BY DEF RequestInv, TypeOK
<1>3. /\ answers'[r] \in Seq(Permissions \X BOOLEAN \X BOOLEAN)
      /\ \A i \in DOMAIN answers'[r] :
           answers'[r][i] = <<x, b, w>> \/ (i \in DOMAIN answers[r] /\ answers'[r][i] = answers[r][i])
  BY <1>1, <1>2, AppendFacts
<1>4. /\ cache' \in [Requests -> [Permissions -> BOOLEAN \cup {None}]]
      /\ \A y \in Permissions : cache'[r][y] = cache[r][y]
                                \/ (y = x /\ cache[r][x] = None /\ cache'[r][x] = b)
  <2>1. CASE cache' = cache
    BY <2>1 DEF RequestInv, TypeOK
  <2>2. CASE cache[r][x] = None /\ cache' = [cache EXCEPT ![r][x] = b]
    <3>1. [cache[r] EXCEPT ![x] = b] \in [Permissions -> BOOLEAN \cup {None}]
      BY DEF RequestInv, TypeOK
    <3>2. cache' = [cache EXCEPT ![r] = [cache[r] EXCEPT ![x] = b]]
      BY <2>2 DEF RequestInv, TypeOK
    <3>3. cache'[r] = [cache[r] EXCEPT ![x] = b]
      BY <3>2 DEF RequestInv, TypeOK
    <3>4. cache[r] \in [Permissions -> BOOLEAN \cup {None}]
      BY DEF RequestInv, TypeOK
    <3>5. \A y \in Permissions : cache'[r][y] = cache[r][y] \/ (y = x /\ cache'[r][x] = b)
      BY <3>3, <3>4
    <3> QED
      BY <2>2, <3>1, <3>2, <3>5 DEF RequestInv, TypeOK
  <2> QED
    BY <2>1, <2>2
<1>5. TypeOK'
  <2>1. StoreTypeOK'
    BY DEF RequestInv, TypeOK, StoreTypeOK, storeVars
  <2>2. answers' \in [Requests -> Seq(Permissions \X BOOLEAN \X BOOLEAN)]
    BY <1>1, <1>3 DEF RequestInv, TypeOK
  <2>3. isSuper' \in [Requests -> BOOLEAN \cup {None}]
    BY DEF RequestInv, TypeOK
  <2>4. rpc' \in [Requests -> {"start", "walk", "auth", "user", "super", "roles", "401", "403"}]
    BY DEF RequestInv, TypeOK
  <2> QED
    BY <1>4, <2>1, <2>2, <2>3, <2>4 DEF RequestInv, TypeOK, bootVars
<1>6. toRegister' \in Seq(Models \X Resources)
  BY DEF RequestInv, bootVars
<1>7. FreshInv'
  BY <1>1 DEF RequestInv, FreshInv
<1>8. CheckInv'
  BY <1>1 DEF RequestInv, CheckInv
<1>9. HeldInv'
  <2>1. \A v : HeldBy(v)' = HeldBy(v)
    BY DEF HeldBy, storeVars
  <2>2. isSuper'[r] = TRUE => Permissions \subseteq everHeld'[r]
    BY <1>1
  <2>3. \A y \in Permissions : cache'[r][y] = TRUE => y \in everHeld'[r]
    BY <1>4 DEF RequestInv, HeldInv
  <2> QED
    BY <1>1, <2>1, <2>2, <2>3 DEF RequestInv, HeldInv
<1>10. CachedInv' /\ GrantInv'
  <2> DEFINE Fits(q, i) ==
        /\ isSuper'[q] # None
        /\ isSuper'[q] = TRUE => answers'[q][i][2] = TRUE
        /\ isSuper'[q] = FALSE /\ answers'[q][i][3] = TRUE => cache'[q][answers'[q][i][1]] = answers'[q][i][2]
        /\ answers'[q][i][2] = TRUE => answers'[q][i][1] \in everHeld'[q]
  <2>1. ASSUME NEW i \in DOMAIN answers'[r]
        PROVE  Fits(r, i)
    <3>0. isSuper'[r] = f /\ f # None /\ everHeld'[r] = everHeld[r]
      BY <1>1
    <3>1. CASE answers'[r][i] = <<x, b, w>>
      BY <3>0, <3>1
    <3>2. CASE i \in DOMAIN answers[r] /\ answers'[r][i] = answers[r][i]
      <4>1. PICK y \in Permissions, d \in BOOLEAN, v \in BOOLEAN : answers[r][i] = <<y, d, v>>
        BY <1>2, <3>2
      <4>2. /\ isSuper[r] # None /\ (isSuper[r] = TRUE => d = TRUE)
            /\ (isSuper[r] = FALSE /\ v = TRUE => cache[r][y] = d)
            /\ (d = TRUE => y \in everHeld[r])
        <5>1. answers[r][i][1] = y /\ answers[r][i][2] = d /\ answers[r][i][3] = v
          BY <4>1
        <5>2. /\ isSuper[r] # None /\ (isSuper[r] = TRUE => answers[r][i][2] = TRUE)
              /\ (isSuper[r] = FALSE /\ answers[r][i][3] = TRUE =>
                    cache[r][answers[r][i][1]] = answers[r][i][2])
              /\ (answers[r][i][2] = TRUE => answers[r][i][1] \in everHeld[r])
          BY <3>2 DEF RequestInv, CachedInv, GrantInv
        <5> QED
          BY <5>1, <5>2
      <4>3. cache[r][y] = d => cache'[r][y] = d
        BY <1>4
      <4>4. isSuper[r] = f
        BY <4>2
      <4> QED
        BY <3>0, <3>2, <4>1, <4>2, <4>3, <4>4
    <3> QED
      BY <1>3, <3>1, <3>2
  <2>2. ASSUME NEW q \in Requests, q # r, NEW i \in DOMAIN answers'[q]
        PROVE  Fits(q, i)
    <3>1. isSuper'[q] = isSuper[q] /\ answers'[q] = answers[q] /\ cache'[q] = cache[q] /\ everHeld'[q] = everHeld[q]
      BY <1>1, <2>2
    <3> QED
      BY <2>2, <3>1 DEF RequestInv, CachedInv, GrantInv
  <2>3. ASSUME NEW q \in Requests, NEW i \in DOMAIN answers'[q]
        PROVE  Fits(q, i)
    <3> HIDE DEF Fits
    <3>1. CASE q = r
      BY ONLY <2>1, <2>3, <3>1
    <3>2. CASE q # r
      BY ONLY <2>2, <2>3, <3>2
    <3> QED
      BY <3>1, <3>2
  <2> QED
    BY <2>3 DEF CachedInv, GrantInv
<1> QED
  BY <1>5, <1>6, <1>7, <1>8, <1>9, <1>10 DEF RequestInv

LEMMA CheckSuperInv ==
  ASSUME RequestInv, NEW r \in Requests, CheckSuper(r)
  PROVE  RequestInv'
<1> USE AccessAssumption
<1> DEFINE x == asked[r]
<1>0. /\ rpc[r] = "super" /\ x \in Permissions /\ who[r] \in Emails
      /\ isSuper[r] \in BOOLEAN \cup {None} /\ cache[r] \in [Permissions -> BOOLEAN \cup {None}]
      /\ passed[r] \in BOOLEAN
      /\ UNCHANGED <<storeVars, bootVars, registry, who, asked, passed, everHeld, cache>>
  BY DEF CheckSuper, RequestInv, CheckInv, TypeOK
<1>1. PICK f \in BOOLEAN : f = (IF isSuper[r] = None THEN roles[who[r]] \cap super # {} ELSE isSuper[r])
  BY <1>0
<1>2. /\ isSuper' = [isSuper EXCEPT ![r] = f]
      /\ IF f THEN Answer(r, TRUE)
         ELSE IF passed[r] /\ cache[r][x] # None THEN Answer(r, cache[r][x])
         ELSE rpc' = [rpc EXCEPT ![r] = "roles"] /\ UNCHANGED answers
  BY <1>1 DEF CheckSuper
<1>3. isSuper[r] \in {None, f}
  BY <1>1
<1>4. CASE f = TRUE
  <2>1. Permissions \subseteq everHeld[r]
    <3>1. CASE isSuper[r] = None
      <4>1. HeldBy(who[r]) = Permissions
        BY <1>1, <1>4, <3>1 DEF HeldBy, Held
      <4> QED
        BY <1>0, <4>1, StoreAssumption DEF RequestInv, HeldInv
    <3>2. CASE isSuper[r] # None
      BY <1>3, <1>4, <3>2 DEF RequestInv, HeldInv
    <3> QED
      BY <3>1, <3>2
  <2>2. PICK b \in BOOLEAN : b = TRUE
    OBVIOUS
  <2>3. Answer(r, b)
    BY <1>2, <1>4, <2>2
  <2>4. PICK l \in {"user", "403"} : rpc' = [rpc EXCEPT ![r] = l]
    BY <2>3 DEF Answer
  <2>5. answers' = [answers EXCEPT ![r] = Append(@, <<x, b, passed[r]>>)]
    BY <2>3 DEF Answer
  <2> HIDE DEF x
  <2> QED
    BY <1>0, <1>2, <1>3, <1>4, <2>1, <2>2, <2>4, <2>5, AnswerStep
<1>5. CASE f = FALSE /\ passed[r] /\ cache[r][x] # None
  <2>1. PICK b \in BOOLEAN : b = cache[r][x]
    BY <1>0, <1>5
  <2>2. Answer(r, b)
    BY <1>2, <1>5, <2>1
  <2>3. b = TRUE => x \in everHeld[r]
    BY <1>0, <2>1 DEF RequestInv, HeldInv
  <2>4. PICK l \in {"user", "403"} : rpc' = [rpc EXCEPT ![r] = l]
    BY <2>2 DEF Answer
  <2>5. answers' = [answers EXCEPT ![r] = Append(@, <<x, b, passed[r]>>)]
    BY <2>2 DEF Answer
  <2> HIDE DEF x
  <2>6. cache'[r][x] = b
    BY <1>0, <2>1
  <2> QED
    BY <1>0, <1>2, <1>3, <1>5, <2>3, <2>4, <2>5, <2>6, AnswerStep
<1>6. CASE f = FALSE /\ ~(passed[r] /\ cache[r][x] # None)
  <2>1. rpc' = [rpc EXCEPT ![r] = "roles"] /\ answers' = answers
    BY <1>2, <1>6
  <2>2. /\ rpc'[r] = "roles" /\ isSuper'[r] = FALSE
        /\ \A q \in Requests \ {r} : rpc'[q] = rpc[q] /\ isSuper'[q] = isSuper[q]
    BY <1>2, <1>6, <2>1 DEF RequestInv, TypeOK
  <2>3. TypeOK'
    <3>1. StoreTypeOK'
      BY <1>0 DEF RequestInv, TypeOK, StoreTypeOK, storeVars
    <3>2. /\ isSuper' \in [Requests -> BOOLEAN \cup {None}]
          /\ rpc' \in [Requests -> {"start", "walk", "auth", "user", "super", "roles", "401", "403"}]
      BY <1>2, <2>1 DEF RequestInv, TypeOK
    <3> QED
      BY <1>0, <2>1, <3>1, <3>2 DEF RequestInv, TypeOK, bootVars
  <2>4. toRegister' \in Seq(Models \X Resources)
    BY <1>0 DEF RequestInv, bootVars
  <2>5. FreshInv'
    BY <1>0, <2>1, <2>2 DEF RequestInv, FreshInv
  <2>6. CheckInv'
    BY <1>0, <1>6, <2>2 DEF RequestInv, CheckInv
  <2>7. HeldInv'
    <3>1. \A v : HeldBy(v)' = HeldBy(v)
      BY <1>0 DEF HeldBy, storeVars
    <3> QED
      BY <1>0, <2>2, <3>1 DEF RequestInv, HeldInv
  <2>8. CachedInv' /\ GrantInv'
    <3>1. \A q \in Requests : isSuper[q] # None => isSuper'[q] = isSuper[q]
      BY <1>3, <1>6, <2>2
    <3>2. \A q \in Requests : \A i \in DOMAIN answers[q] : isSuper[q] # None
      BY DEF RequestInv, CachedInv
    <3> QED
      BY <1>0, <2>1, <3>1, <3>2 DEF RequestInv, CachedInv, GrantInv
  <2> QED
    BY <2>3, <2>4, <2>5, <2>6, <2>7, <2>8 DEF RequestInv
<1> QED
  BY <1>4, <1>5, <1>6

(* The query over the rows, with the request (the cache keeps the result)  *)
(* or without (it does not).                                               *)
LEMMA CheckRolesInv ==
  ASSUME RequestInv, NEW r \in Requests, CheckRoles(r) \/ CheckRolesUncached(r)
  PROVE  RequestInv'
<1> USE AccessAssumption
<1> DEFINE x == asked[r]
<1>0. /\ rpc[r] = "roles" /\ x \in Permissions /\ who[r] \in Emails
      /\ isSuper[r] = FALSE /\ passed[r] \in BOOLEAN
      /\ UNCHANGED <<storeVars, bootVars, registry, who, asked, passed, everHeld, isSuper>>
  BY DEF CheckRoles, CheckRolesUncached, RequestInv, CheckInv, TypeOK
<1>1. PICK b \in BOOLEAN : b = HasPair(who[r], x)
  BY DEF HasPair
<1>2. /\ Answer(r, b)
      /\ \/ passed[r] = TRUE /\ cache[r][x] = None /\ cache' = [cache EXCEPT ![r][x] = b]
         \/ passed[r] = FALSE /\ cache' = cache
  BY <1>0, <1>1 DEF CheckRoles, CheckRolesUncached, RequestInv, CheckInv
<1>3. b = TRUE => x \in everHeld[r]
  <2>1. b = TRUE => x \in HeldBy(who[r])
    BY <1>0, <1>1 DEF HeldBy, Held, HasPair
  <2> QED
    BY <1>0, <2>1, StoreAssumption DEF RequestInv, HeldInv
<1>4. PICK l \in {"user", "403"} : rpc' = [rpc EXCEPT ![r] = l]
  BY <1>2 DEF Answer
<1>5. answers' = [answers EXCEPT ![r] = Append(@, <<x, b, passed[r]>>)]
  BY <1>2 DEF Answer
<1>6. PICK f \in BOOLEAN : f = FALSE
  OBVIOUS
<1>7. isSuper' = [isSuper EXCEPT ![r] = f] /\ isSuper[r] \in {None, f}
  BY <1>0, <1>6 DEF RequestInv, TypeOK
<1>8. passed[r] = TRUE => cache'[r][x] = b
  BY <1>0, <1>2 DEF RequestInv, TypeOK
<1> HIDE DEF x
<1> QED
  BY <1>0, <1>2, <1>3, <1>4, <1>5, <1>6, <1>7, <1>8, AnswerStep

(* The rows change, and what the users of requests held is kept on record. *)
LEMMA StoreStepInv ==
  ASSUME RequestInv, StoreStep, StoreTypeOK'
  PROVE  RequestInv'
<1> USE StoreAssumption
<1> DEFINE H(u) == Held(roles'[u], perms', super')
<1>1. /\ everHeld' = [r \in Requests |-> IF who[r] = None THEN everHeld[r]
                                        ELSE everHeld[r] \cup H(who[r])]
      /\ UNCHANGED <<bootVars, registry, requestVars>>
  BY DEF StoreStep
<1>2. \A u \in Emails : H(u) \subseteq Permissions
  BY DEF StoreTypeOK, Held
<1> HIDE DEF H
<1>3. \A r \in Requests : /\ everHeld[r] \subseteq everHeld'[r]
                          /\ who[r] # None => H(who[r]) \subseteq everHeld'[r]
  BY <1>1
<1>4. TypeOK'
  <2>1. everHeld' \in [Requests -> SUBSET Permissions]
    BY <1>1, <1>2 DEF RequestInv, TypeOK
  <2>2. UNCHANGED <<boot, resourceFor, registry, rpc, who, isSuper, asked, passed, cache, answers>>
    BY <1>1 DEF bootVars, requestVars
  <2> QED
    BY <2>1, <2>2 DEF RequestInv, TypeOK
<1>5. toRegister' \in Seq(Models \X Resources)
  BY <1>1 DEF RequestInv, bootVars
<1>6. FreshInv' /\ CheckInv' /\ CachedInv' /\ GrantInv'
  <2>1. FreshInv' /\ CheckInv' /\ CachedInv'
    BY <1>1 DEF RequestInv, requestVars, FreshInv, CheckInv, CachedInv
  <2>2. GrantInv'
    BY <1>1, <1>3 DEF RequestInv, requestVars, GrantInv
  <2> QED
    BY <2>1, <2>2
<1>7. HeldInv'
  <2>1. UNCHANGED <<who, isSuper, cache>>
    BY <1>1 DEF requestVars
  <2>2. \A r \in Requests : who'[r] # None => H(who'[r]) \subseteq everHeld'[r]
    BY <1>3, <2>1
  <2>3. ASSUME NEW r \in Requests
        PROVE  /\ isSuper'[r] = TRUE => Permissions \subseteq everHeld'[r]
               /\ \A x \in Permissions : cache'[r][x] = TRUE => x \in everHeld'[r]
    BY <1>3, <2>1 DEF RequestInv, HeldInv
  <2> QED
    BY <2>2, <2>3 DEF HeldInv, HeldBy, H
<1> QED
  BY <1>4, <1>5, <1>6, <1>7 DEF RequestInv

AccessInv == StoreInv /\ RequestInv

LEMMA AccessNext == AccessInv /\ [Next]_vars => AccessInv'
<1> SUFFICES ASSUME StoreInv, RequestInv, [Next]_vars PROVE StoreInv' /\ RequestInv'
  BY DEF AccessInv
<1>0. ASSUME UNCHANGED storeVars PROVE StoreInv'
  <2>1. StoreTypeOK'
    BY <1>0 DEF StoreInv, StoreTypeOK, storeVars
  <2>2. SignupInv' /\ BareInv'
    BY <1>0 DEF StoreInv, SignupInv, BareInv, Holds, InTransaction, storeVars
  <2>3. PatchInv' /\ ColumnInv' /\ FormInv'
    BY <1>0 DEF StoreInv, PatchInv, ColumnInv, FormInv, Writer, Sourced, storeVars
  <2> QED
    BY <2>1, <2>2, <2>3 DEF StoreInv
<1>1. CASE StoreStep
  <2>1. StoreInv'
    BY <1>1, StoreNextInv DEF StoreStep
  <2> QED
    BY <1>1, <2>1, StoreStepInv DEF StoreInv
<1>2. ASSUME NEW r \in Requests PROVE /\ asked = [asked EXCEPT ![r] = asked[r]] /\ asked[r] \in Permissions \cup {None}
                                       /\ passed \in [Requests -> BOOLEAN]
  BY <1>2 DEF RequestInv, TypeOK
<1>3. CASE RegisterResource
  <2>1. UNCHANGED storeVars
    BY <1>3 DEF RegisterResource
  <2> QED
    BY <1>0, <1>3, <2>1, RegisterResourceInv
<1>4. CASE Register
  <2>1. UNCHANGED storeVars
    BY <1>4 DEF Register
  <2>2. RequestInv'
    BY <1>4, BootMove DEF Register, RequestInv, TypeOK
  <2> QED
    BY <1>0, <2>1, <2>2
<1>5. ASSUME NEW r \in Requests, Begin(r) PROVE StoreInv' /\ RequestInv'
  BY <1>0, <1>2, <1>5, RequestMove DEF Begin
<1>6. ASSUME NEW r \in Requests, EnabledProvider(r) PROVE StoreInv' /\ RequestInv'
  <2>1. rpc' = [rpc EXCEPT ![r] = "walk"]
    BY <1>6 DEF EnabledProvider, RequestInv, TypeOK
  <2> QED
    BY <1>0, <1>2, <1>6, <2>1, RequestMove DEF EnabledProvider
<1>7. ASSUME NEW r \in Requests, ChainBuilt(r) PROVE StoreInv' /\ RequestInv'
  BY <1>0, <1>2, <1>7, RequestMove DEF ChainBuilt
<1>8. ASSUME NEW r \in Requests, TryProvider(r) PROVE StoreInv' /\ RequestInv'
  <2>1. UNCHANGED storeVars
    BY <1>8 DEF TryProvider
  <2> QED
    BY <1>0, <1>8, <2>1, TryProviderInv
<1>9. ASSUME NEW r \in Requests, Anonymous(r) PROVE StoreInv' /\ RequestInv'
  <2>1. PICK l \in {"401", "403"} : rpc' = [rpc EXCEPT ![r] = l]
    BY <1>9 DEF Anonymous, Denial
  <2>2. /\ rpc[r] = "auth"
        /\ UNCHANGED <<storeVars, bootVars, registry, who, isSuper, asked, passed, cache, answers, everHeld>>
    BY <1>9 DEF Anonymous
  <2> QED
    BY <1>0, <1>2, <2>1, <2>2, RequestMove
<1>10. ASSUME NEW r \in Requests, Ask(r) PROVE StoreInv' /\ RequestInv'
  <2>1. PICK x \in Permissions : asked' = [asked EXCEPT ![r] = x]
    BY <1>10 DEF Ask
  <2>2. passed' \in [Requests -> BOOLEAN] /\ \A q \in Requests \ {r} : passed'[q] = passed[q]
    BY <1>2, <1>10 DEF Ask
  <2> QED
    BY <1>0, <1>10, <2>1, <2>2, RequestMove DEF Ask
<1>11. ASSUME NEW r \in Requests, NothingDeclared(r) PROVE StoreInv' /\ RequestInv'
  BY <1>0, <1>2, <1>11, RequestMove DEF NothingDeclared
<1>12. ASSUME NEW r \in Requests, CheckSuper(r) PROVE StoreInv' /\ RequestInv'
  <2>1. UNCHANGED storeVars
    BY <1>12 DEF CheckSuper
  <2> QED
    BY <1>0, <1>12, <2>1, CheckSuperInv
<1>13. ASSUME NEW r \in Requests, CheckRoles(r) \/ CheckRolesUncached(r) PROVE StoreInv' /\ RequestInv'
  <2>1. UNCHANGED storeVars
    BY <1>13 DEF CheckRoles, CheckRolesUncached
  <2> QED
    BY <1>0, <1>13, <2>1, CheckRolesInv
<1>14. CASE UNCHANGED vars
  <2>1. UNCHANGED <<storeVars, bootVars, registry, requestVars, everHeld>>
    BY <1>14 DEF vars
  <2>2. RequestInv'
    BY <2>1, BootMove DEF RequestInv, TypeOK, bootVars
  <2> QED
    BY <1>0, <2>1, <2>2
<1> QED
  BY <1>1, <1>3, <1>4, <1>5, <1>6, <1>7, <1>8, <1>9, <1>10, <1>11, <1>12, <1>13, <1>14
     DEF Next, RequestNext

(* The conjunction of the invariants of the store and of the requests      *)
(* holds of every behaviour.                                               *)
THEOREM AccessInvariant == Spec => []AccessInv
<1>1. Init => AccessInv
  BY StoreInitInv, RequestInitInv DEF Init, AccessInv
<1> QED
  BY <1>1, AccessNext, PTL DEF Spec

(* Rows, requests and registries have their types: no query ever meets a   *)
(* user, a role or a permission that is not there.                         *)
THEOREM AccessTypes == Spec => []TypeOK
<1>1. AccessInv => TypeOK
  BY DEF AccessInv, RequestInv
<1> QED
  BY <1>1, AccessInvariant, PTL

(* user_has_permission: a check answers yes only for what the user of the  *)
(* request did hold at some moment since authentication, whatever the      *)
(* admin changed meanwhile and however the two caches were filled.         *)
THEOREM AccessGrantsHeld == Spec => []GrantWasHeld
<1>1. AccessInv => GrantWasHeld
  <2> SUFFICES ASSUME RequestInv, NEW r \in Requests, NEW i \in DOMAIN answers[r], answers[r][i][2]
               PROVE  answers[r][i][1] \in everHeld[r]
    BY DEF GrantWasHeld, AccessInv
  <2>1. answers[r] \in Seq(Permissions \X BOOLEAN \X BOOLEAN)
    BY DEF RequestInv, TypeOK
  <2>2. answers[r][i] \in Permissions \X BOOLEAN \X BOOLEAN
    BY <2>1
  <2>3. answers[r][i][2] \in BOOLEAN
    BY <2>2
  <2>4. answers[r][i][2] = TRUE
    BY <2>3
  <2> QED
    BY <2>4 DEF RequestInv, GrantInv
<1> QED
  BY <1>1, AccessInvariant, PTL

(* Within one request a pair has one answer among the checks that were     *)
(* given the request, although roles change between them and uncached      *)
(* checks come in between; with has_superuser_role every check says yes.   *)
THEOREM AccessAnswersOnce == Spec => []OneAnswerPerRequest
<1>1. AccessInv => OneAnswerPerRequest
  <2> SUFFICES ASSUME RequestInv, NEW r \in Requests,
                      NEW i \in DOMAIN answers[r], NEW j \in DOMAIN answers[r]
               PROVE  /\ (/\ answers[r][i][1] = answers[r][j][1]
                          /\ answers[r][i][3] /\ answers[r][j][3]) => answers[r][i][2] = answers[r][j][2]
                      /\ isSuper[r] = TRUE => answers[r][i][2]
    BY DEF OneAnswerPerRequest, AccessInv
  <2> DEFINE a == answers[r][i]
             b == answers[r][j]
  <2>1. answers[r] \in Seq(Permissions \X BOOLEAN \X BOOLEAN) /\ isSuper[r] \in BOOLEAN \cup {None}
    BY DEF RequestInv, TypeOK
  <2>2. a \in Permissions \X BOOLEAN \X BOOLEAN /\ b \in Permissions \X BOOLEAN \X BOOLEAN
    BY <2>1
  <2>3. /\ isSuper[r] # None
        /\ isSuper[r] = TRUE => a[2] = TRUE /\ b[2] = TRUE
        /\ isSuper[r] = FALSE /\ a[3] = TRUE => cache[r][a[1]] = a[2]
        /\ isSuper[r] = FALSE /\ b[3] = TRUE => cache[r][b[1]] = b[2]
    BY DEF RequestInv, CachedInv
  <2>4. a[3] \in BOOLEAN /\ b[3] \in BOOLEAN
    BY <2>2
  <2> HIDE DEF a, b
  <2>5. isSuper[r] = TRUE \/ isSuper[r] = FALSE
    BY <2>1, <2>3
  <2>6. isSuper[r] = TRUE => a[2]
    BY <2>3
  <2>7. ASSUME a[1] = b[1], a[3], b[3] PROVE a[2] = b[2]
    <3>1. a[3] = TRUE /\ b[3] = TRUE
      BY <2>4, <2>7
    <3>2. CASE isSuper[r] = TRUE
      <4>1. a[2] = TRUE /\ b[2] = TRUE
        BY <2>3, <3>2
      <4> QED
        BY <4>1
    <3>3. CASE isSuper[r] = FALSE
      <4>1. cache[r][a[1]] = a[2] /\ cache[r][b[1]] = b[2]
        BY <2>3, <3>1, <3>3
      <4> QED
        BY <2>7, <4>1, Zenon
    <3> QED
      BY <2>5, <3>2, <3>3
  <2> QED
    BY <2>6, <2>7 DEF a, b
<1> QED
  BY <1>1, AccessInvariant, PTL

(* The adapters' save_user: a user who was not there at the start was made *)
(* by exactly one signup, a signup that did not end well made none, and a  *)
(* user was made without roles only if there was a moment without default  *)
(* roles during the signup.                                                *)
THEOREM SignupsMakeWholeUsers == Spec => []SignupMakesWholeUser
<1>1. AccessInv => SignupMakesWholeUser
  <2> SUFFICES ASSUME SignupInv, BareInv PROVE SignupMakesWholeUser
    BY DEF AccessInv, StoreInv
  <2>1. ASSUME NEW e \in Emails, e \in Existing \/ status[e] = "absent"
        PROVE  Cardinality(CreatedFor(e)) = 0
    <3>1. CreatedFor(e) = {}
      BY <2>1 DEF CreatedFor, SignupInv
    <3> QED
      BY <3>1, FS_EmptySet
  <2>2. ASSUME NEW e \in Emails, ~(e \in Existing \/ status[e] = "absent")
        PROVE  Cardinality(CreatedFor(e)) = 1
    <3>1. PICK s \in Signups : spc[s] = "created" /\ EmailOf[s] = e
      BY <2>2 DEF SignupInv
    <3>2. CreatedFor(e) = {s}
      BY <3>1 DEF CreatedFor, SignupInv, Holds
    <3> QED
      BY <3>2, FS_Singleton
  <2>3. \A s \in Signups : spc[s] = "created" /\ draft[s] = {} => s \in bare
    BY DEF BareInv
  <2> QED
    BY <2>1, <2>2, <2>3 DEF SignupMakesWholeUser
<1> QED
  BY <1>1, AccessInvariant, PTL

(* UserRepository.update next to UserAdmin's unlocked change form:         *)
(* overlapping PATCH requests do not lose each other's fields, a request   *)
(* answers with the row as it commits it, a column no form has changed     *)
(* keeps what a finished request wrote, and every value a column holds was *)
(* there at the start, was typed by an admin or was written to it by a     *)
(* finished request.                                                       *)
THEOREM PatchesKeepWrites == Spec => []ProfileWritesKept
<1>1. AccessInv => ProfileWritesKept
  <2> SUFFICES ASSUME PatchInv, ColumnInv PROVE ProfileWritesKept
    BY DEF AccessInv, StoreInv
  <2>1. ASSUME NEW p \in Patches, ppc[p] = "save", NEW f \in Writable \ DOMAIN UpdateData(p)
        PROVE  seen[p][f] = profile[OwnerOf[p]][f]
    BY <2>1, UpdateDomain DEF PatchInv
  <2>2. ASSUME NEW e \in Emails, NEW f \in Writable
        PROVE  LET writers == {p \in Patches : ppc[p] = "saved" /\ OwnerOf[p] = e /\ f \in DOMAIN UpdateData(p)}
                   written == {DataOf[p][f] : p \in writers}
               IN  /\ <<e, f>> \notin formWrote => profile[e][f] \in (IF writers = {} THEN {None} ELSE written)
                   /\ profile[e][f] \in {None} \cup Typed \cup written
    <3> DEFINE writers == {p \in Patches : ppc[p] = "saved" /\ OwnerOf[p] = e /\ f \in DOMAIN UpdateData(p)}
               written == {DataOf[p][f] : p \in writers}
    <3>1. writers = {p \in Patches : Writer(p, e, f)}
      BY UpdateDomain DEF Writer
    <3> HIDE DEF writers
    <3>2. <<e, f>> \notin formWrote => profile[e][f] \in (IF writers = {} THEN {None} ELSE written)
      BY <3>1 DEF ColumnInv
    <3>3. profile[e][f] \in {None} \cup Typed \cup written
      BY <3>1 DEF ColumnInv, Sourced
    <3> QED
      BY <3>2, <3>3 DEF writers
  <2> QED
    BY <2>1, <2>2 DEF ProfileWritesKept
<1> QED
  BY <1>1, AccessInvariant, PTL

-----------------------------------------------------------------------------
(* The admin site.                                                         *)

LEMMA ActionMap ==
  /\ DOMAIN PERM_ACTION_MAP = {"view", "add", "change", "delete"}
  /\ \A act \in Actions : \E prefix \in DOMAIN PERM_ACTION_MAP : PERM_ACTION_MAP[prefix] = act
<1>1. DOMAIN PERM_ACTION_MAP = {"view", "add", "change", "delete"}
  BY DEF PERM_ACTION_MAP
<1>2. /\ PERM_ACTION_MAP["view"] = "read" /\ PERM_ACTION_MAP["add"] = "create"
      /\ PERM_ACTION_MAP["change"] = "update" /\ PERM_ACTION_MAP["delete"] = "delete"
  BY DEF PERM_ACTION_MAP
<1> QED
  BY <1>1, <1>2 DEF Actions

(* RBACBackend.has_module_perms and has_perm: the backend shows an app in  *)
(* the side bar exactly if it shows a page of it.                          *)
LEMMA BackendShown ==
  ASSUME TypeOK, NEW u \in Emails, status[u] = "active", NEW n \in Models
  PROVE  BackendHasModulePerms(u, AppOf[n]) <=>
           \E m \in Models, prefix \in DOMAIN PERM_ACTION_MAP :
              AppOf[m] = AppOf[n] /\ BackendHasPerm(u, prefix, m)
<1> USE AccessAssumption
<1> DEFINE app == AppOf[n]
<1>1. CASE HasSuperRole(u)
  <2>1. "view" \in DOMAIN PERM_ACTION_MAP /\ BackendHasPerm(u, "view", n)
    BY <1>1, ActionMap DEF BackendHasPerm
  <2>2. BackendHasModulePerms(u, AppOf[n])
    BY <1>1 DEF BackendHasModulePerms
  <2> QED
    BY <2>1, <2>2
<1>2. CASE ~HasSuperRole(u)
  <2>1. ASSUME BackendHasModulePerms(u, app)
        PROVE  \E m \in Models, prefix \in DOMAIN PERM_ACTION_MAP : AppOf[m] = app /\ BackendHasPerm(u, prefix, m)
    <3>1. PICK role \in roles[u], x \in Permissions : x[1] \in AppResources(app) /\ x \in perms[role]
      BY <1>2, <2>1 DEF BackendHasModulePerms
    <3>2. PICK m \in Models : AppOf[m] = app /\ resourceFor[m] = x[1] /\ x[1] # None
      BY <3>1 DEF AppResources
    <3>3. x \in Resources \X Actions
      OBVIOUS
    <3>4. PICK prefix \in DOMAIN PERM_ACTION_MAP : PERM_ACTION_MAP[prefix] = x[2]
      BY <3>3, ActionMap
    <3>5. x = <<resourceFor[m], PERM_ACTION_MAP[prefix]>>
      BY <3>2, <3>3, <3>4
    <3>6. BackendHasPerm(u, prefix, m)
      BY <3>1, <3>2, <3>4, <3>5 DEF BackendHasPerm, HasPair
    <3> QED
      BY <3>2, <3>4, <3>6
  <2>2. ASSUME NEW m \in Models, NEW prefix \in DOMAIN PERM_ACTION_MAP,
               AppOf[m] = app, BackendHasPerm(u, prefix, m)
        PROVE  BackendHasModulePerms(u, app)
    <3> DEFINE x == <<resourceFor[m], PERM_ACTION_MAP[prefix]>>
    <3>1. PICK role \in roles[u] : resourceFor[m] # None /\ x \in perms[role]
      BY <1>2, <2>2 DEF BackendHasPerm, HasPair
    <3>2. x \in Permissions /\ x[1] = resourceFor[m]
      BY <3>1 DEF TypeOK, StoreTypeOK
    <3>3. resourceFor[m] \in AppResources(app)
      BY <2>2, <3>1 DEF AppResources
    <3> HIDE DEF x
    <3> QED
      BY <3>1, <3>2, <3>3 DEF BackendHasModulePerms
  <2> QED
    BY <2>1, <2>2
<1> QED
  BY <1>1, <1>2

(* And so does the admin site, which asks PermissionsMixin: a user with    *)
(* is_superuser sees every app and every page.                             *)
LEMMA SidebarShown ==
  ASSUME TypeOK, NEW u \in Emails, status[u] = "active", NEW n \in Models
  PROVE  HasModulePerms(u, AppOf[n]) <=>
           \E m \in Models, prefix \in DOMAIN PERM_ACTION_MAP :
              AppOf[m] = AppOf[n] /\ HasPerm(u, prefix, m)
<1>1. CASE Bypasses(u)
  <2>1. "view" \in DOMAIN PERM_ACTION_MAP /\ HasPerm(u, "view", n) /\ HasModulePerms(u, AppOf[n])
    BY <1>1, ActionMap DEF HasPerm, HasModulePerms
  <2> QED
    BY <2>1
<1>2. CASE ~Bypasses(u)
  <2>1. /\ HasModulePerms(u, AppOf[n]) <=> BackendHasModulePerms(u, AppOf[n])
        /\ \A m, prefix : HasPerm(u, prefix, m) <=> BackendHasPerm(u, prefix, m)
    BY <1>2 DEF HasPerm, HasModulePerms
  <2> QED
    BY <2>1, BackendShown
<1> QED
  BY <1>1, <1>2

(* A page of the admin is shown exactly to those to whom user_has_permission *)
(* grants the model's resource, and to users with is_superuser.            *)
LEMMA PageShown ==
  ASSUME TypeOK, NEW u \in Emails, status[u] = "active",
         NEW m \in Models, NEW prefix \in DOMAIN PERM_ACTION_MAP,
         <<resourceFor[m], PERM_ACTION_MAP[prefix]>> \in Permissions
  PROVE  HasPerm(u, prefix, m) <=>
           <<resourceFor[m], PERM_ACTION_MAP[prefix]>> \in HeldBy(u) \/ u \in superusers
<1> DEFINE x == <<resourceFor[m], PERM_ACTION_MAP[prefix]>>
<1>1. resourceFor[m] # None
  <2>1. x \in Resources \X Actions
    BY AccessAssumption
  <2> QED
    BY <2>1, AccessAssumption
<1>2. HasPerm(u, prefix, m) <=>
        u \in superusers \/ HasSuperRole(u) \/ \E role \in roles[u] : x \in perms[role]
  BY <1>1 DEF HasPerm, Bypasses, BackendHasPerm, HasPair
<1> HIDE DEF x
<1>3. x \in HeldBy(u) <=> HasSuperRole(u) \/ \E role \in roles[u] : x \in perms[role]
  <2>1. x \in Permissions
    BY DEF x
  <2> QED
    BY <2>1 DEF HeldBy, Held, HasSuperRole
<1> QED
  BY <1>2, <1>3 DEF x

(* The admin's side bar and its pages agree on what a user may see, in     *)
(* every state of the registries and of the rows; the pages and the API    *)
(* agree but for the users with Django's is_superuser, whom the admin      *)
(* shows everything.                                                       *)
THEOREM AdminMatchesApi == Spec => []SidebarMatchesPages
<1>1. TypeOK => SidebarMatchesPages
  BY SidebarShown, PageShown DEF SidebarMatchesPages
<1> QED
  BY <1>1, AccessTypes, PTL
=============================================================================
