---------------------------- MODULE AccountStore ----------------------------
(* The rows of users and roles and who writes them: signup and social login      *)
(* (accounts/adapters.py, GoogleLogin of accounts/views.py), PATCH /me            *)
(* (UserService.update_profile over UserRepository.update) and the admin. A user  *)
(* is named by the email, which is unique. A step is one statement of a           *)
(* transaction at READ COMMITTED; what a signup has not committed is in `draft`.  *)
EXTENDS Naturals, FiniteSets

CONSTANTS Emails,         \* users, by email
          Existing,       \* the users there are at the start
          Roles,          \* rows of Role
          Permissions,    \* rows of Permission: pairs of a resource and an action
          Signups,        \* calls of an adapter's save_user
          EmailOf,        \* the email a signup is for
          Social,         \* the signups that come from GoogleLogin
          BadRedirect,    \* those of them whose redirect_uri is not on the allow list
          Patches,        \* PATCH requests to /me
          OwnerOf,        \* the user a PATCH is of
          DataOf,         \* the body of a PATCH: a function from field names to values
          Timezones,      \* zoneinfo.available_timezones()
          Forms,          \* change forms of UserAdmin, each open for one user at a time
          Typed,          \* what an admin may type into a profile column
          InitialRows,    \* the rows there may be at the start: records of roles, perms, super,
                          \* defaults and superusers
          MaxChanges,     \* bound: changes the admin saves
          None

Writable == {"timezone", "first_name", "last_name"}

ASSUME StoreAssumption ==
    /\ Existing \subseteq Emails /\ Social \subseteq Signups /\ BadRedirect \subseteq Social
    /\ EmailOf \in [Signups -> Emails] /\ OwnerOf \in [Patches -> Emails]
    /\ InitialRows \subseteq [roles : [Emails -> SUBSET Roles], perms : [Roles -> SUBSET Permissions],
                              super : SUBSET Roles, defaults : SUBSET Roles, superusers : SUBSET Existing]
    /\ MaxChanges \in Nat /\ None \notin Emails

VARIABLES
    status,     \* per user: "absent", "active" or "inactive"
    roles,      \* per user, the roles held
    profile,    \* per user, the committed profile columns
    perms,      \* per role, its permissions
    super,      \* the roles with is_superuser_role
    defaults,   \* the roles with is_default
    superusers, \* the users with Django's is_superuser (create_superuser)
    spc,        \* per signup, the next statement or the outcome
    draft,      \* per signup, the roles its transaction has assigned
    bare,       \* history: signups during which there was a moment without default roles
    ppc,        \* per PATCH, the next statement or the outcome
    seen,       \* per PATCH, the user instance read under the lock
    form,       \* per change form, the user it is open for, or None
    copy,       \* per change form, the row as the page showed it
    formWrote,  \* history: the profile columns, <<user, field>>, whose value a form has changed
    changes     \* changes saved by the admin

storeVars == <<status, roles, profile, perms, super, defaults, superusers, spc, draft, bare,
               ppc, seen, form, copy, formWrote, changes>>
signupVars == <<spc, draft, bare>>
patchVars == <<ppc, seen>>
formVars == <<form, copy, formWrote>>

Outcomes == {"created", "linked", "rejected", "failed"}

StoreTypeOK ==
    /\ status \in [Emails -> {"absent", "active", "inactive"}]
    /\ roles \in [Emails -> SUBSET Roles]
    /\ perms \in [Roles -> SUBSET Permissions]
    /\ super \subseteq Roles /\ defaults \subseteq Roles /\ superusers \subseteq Existing
    /\ spc \in [Signups -> {"callback", "insert", "exists", "add", "bareadd"} \cup Outcomes]
    /\ draft \in [Signups -> SUBSET Roles] /\ bare \subseteq Signups
    /\ ppc \in [Patches -> {"start", "lock", "save", "saved", "refused"}]
    /\ form \in [Forms -> Emails \cup {None}] /\ DOMAIN copy = Forms
    /\ \A g \in Forms : form[g] # None =>
          copy[g].status \in {"active", "inactive"} /\ copy[g].roles \subseteq Roles
    /\ changes \in 0..MaxChanges

(* The profile a row is created with. *)
NewProfile == [f \in Writable |-> None]

(* What a form that is not open holds. *)
NoCopy == [status |-> "absent", roles |-> {}, profile |-> NewProfile]

StoreInit ==
    /\ status = [e \in Emails |-> IF e \in Existing THEN "active" ELSE "absent"]
    /\ profile = [e \in Emails |-> NewProfile]
    /\ \E row \in InitialRows : /\ roles = row.roles /\ perms = row.perms
                                /\ super = row.super /\ defaults = row.defaults
                                /\ superusers = row.superusers
    /\ spc = [s \in Signups |-> IF s \in Social THEN "callback" ELSE "insert"]
    /\ draft = [s \in Signups |-> {}] /\ bare = {}
    /\ ppc = [p \in Patches |-> "start"] /\ seen = [p \in Patches |-> NewProfile]
    /\ form = [g \in Forms |-> None] /\ copy = [g \in Forms |-> NoCopy] /\ formWrote = {}
    /\ changes = 0

(* ---------------------------------------------------------- signup and login *)

(* GoogleLogin.post validates the redirect URI against the allow list before it   *)
(* hands over to allauth; an empty allow list rejects every URI.                  *)
CallbackRejected(s) ==
    /\ spc[s] = "callback" /\ s \in BadRedirect
    /\ spc' = [spc EXCEPT ![s] = "rejected"]
    /\ UNCHANGED <<status, roles, profile, perms, super, defaults, superusers, draft, bare, patchVars,
                   formVars, changes>>

(* pre_social_login: the account is linked to an active user with the same email; *)
(* otherwise allauth goes on to sign up.                                          *)
PreSocialLogin(s) ==
    /\ spc[s] = "callback" /\ s \notin BadRedirect
    /\ spc' = [spc EXCEPT ![s] = IF status[EmailOf[s]] = "active" THEN "linked" ELSE "insert"]
    /\ UNCHANGED <<status, roles, profile, perms, super, defaults, superusers, draft, bare, patchVars,
                   formVars, changes>>

InTransaction(s) == spc[s] \in {"exists", "add", "bareadd"}

(* save_user's INSERT, with the last login address of a social login in the same  *)
(* transaction. The unique index on email makes it wait for the transaction of    *)
(* another signup with this email.                                                *)
SaveUser(s) ==
    /\ spc[s] = "insert" /\ status[EmailOf[s]] = "absent"
    /\ \A t \in Signups : InTransaction(t) => EmailOf[t] # EmailOf[s]
    /\ spc' = [spc EXCEPT ![s] = "exists"]
    /\ bare' = IF defaults = {} THEN bare \cup {s} ELSE bare
    /\ UNCHANGED <<status, roles, profile, perms, super, defaults, superusers, draft, patchVars, formVars,
                   changes>>

(* The email is taken: IntegrityError. *)
SaveUserCollides(s) ==
    /\ spc[s] = "insert" /\ status[EmailOf[s]] # "absent"
    /\ spc' = [spc EXCEPT ![s] = "failed"]
    /\ UNCHANGED <<status, roles, profile, perms, super, defaults, superusers, draft, bare, patchVars,
                   formVars, changes>>

(* assign_default_roles asks default_roles.exists() ...                            *)
DefaultRolesExist(s) ==
    /\ spc[s] = "exists"
    /\ spc' = [spc EXCEPT ![s] = IF defaults # {} THEN "add" ELSE "bareadd"]
    /\ UNCHANGED <<status, roles, profile, perms, super, defaults, superusers, draft, bare, patchVars,
                   formVars, changes>>

Commit(s, granted) ==
    /\ spc' = [spc EXCEPT ![s] = "created"]
    /\ draft' = [draft EXCEPT ![s] = granted]
    /\ status' = [status EXCEPT ![EmailOf[s]] = "active"]
    /\ roles' = [roles EXCEPT ![EmailOf[s]] = granted]
    /\ profile' = [profile EXCEPT ![EmailOf[s]] = NewProfile]

(* ... and evaluates the query set again to add the roles: the answers may differ. *)
(* The transaction then commits.                                                   *)
AddDefaultRoles(s) ==
    /\ spc[s] = "add"
    /\ Commit(s, defaults)
    /\ UNCHANGED <<perms, super, defaults, superusers, bare, patchVars, formVars, changes>>

(* No default roles: a warning, and the user is created without roles. *)
AddNoRoles(s) ==
    /\ spc[s] = "bareadd"
    /\ Commit(s, {})
    /\ UNCHANGED <<perms, super, defaults, superusers, bare, patchVars, formVars, changes>>

(* Without transaction.atomic the INSERT stands when the role assignment fails. *)
MutantSaveUserFails(s) ==
    /\ InTransaction(s)
    /\ spc' = [spc EXCEPT ![s] = "failed"]
    /\ status' = [status EXCEPT ![EmailOf[s]] = "active"]
    /\ UNCHANGED <<roles, profile, perms, super, defaults, superusers, draft, bare, patchVars,
                   formVars, changes>>

(* A statement of the transaction fails: transaction.atomic rolls back. *)
SaveUserFails(s) ==
    /\ InTransaction(s)
    /\ spc' = [spc EXCEPT ![s] = "failed"]
    /\ UNCHANGED <<status, roles, profile, perms, super, defaults, superusers, draft, bare, patchVars,
                   formVars, changes>>

(* -------------------------------------------------------------------- PATCH /me *)

UpdateData(p) == [f \in DOMAIN DataOf[p] \cap Writable |-> DataOf[p][f]]

(* The request is authenticated; update_profile keeps the writable fields, wants   *)
(* one at least, and a known time zone.                                            *)
UpdateProfile(p) ==
    /\ ppc[p] = "start" /\ status[OwnerOf[p]] = "active"
    /\ LET data == UpdateData(p) IN
       ppc' = [ppc EXCEPT ![p] =
                 IF DOMAIN data = {} \/ ("timezone" \in DOMAIN data /\ data["timezone"] \notin Timezones)
                 THEN "refused" ELSE "lock"]
    /\ UNCHANGED <<status, roles, profile, perms, super, defaults, superusers, signupVars, seen, formVars,
                   changes>>

(* get(pk) without select_for_update. *)
MutantLockUser(p) ==
    /\ ppc[p] = "lock"
    /\ seen' = [seen EXCEPT ![p] = [f \in Writable |->
                  IF f \in DOMAIN UpdateData(p) THEN UpdateData(p)[f] ELSE profile[OwnerOf[p]][f]]]
    /\ ppc' = [ppc EXCEPT ![p] = "save"]
    /\ UNCHANGED <<status, roles, profile, perms, super, defaults, superusers, signupVars, formVars, changes>>

(* UserRepository.update: select_for_update().get(pk) waits for the row lock, sets  *)
(* the fields on the instance ...                                                  *)
LockUser(p) ==
    /\ ppc[p] = "lock"
    /\ \A q \in Patches : ppc[q] = "save" => OwnerOf[q] # OwnerOf[p]
    /\ seen' = [seen EXCEPT ![p] = [f \in Writable |->
                  IF f \in DOMAIN UpdateData(p) THEN UpdateData(p)[f] ELSE profile[OwnerOf[p]][f]]]
    /\ ppc' = [ppc EXCEPT ![p] = "save"]
    /\ UNCHANGED <<status, roles, profile, perms, super, defaults, superusers, signupVars, formVars, changes>>

(* ... and save(update_fields=data.keys()) writes these columns only. The response  *)
(* is serialized from the instance.                                                *)
SaveProfile(p) ==
    /\ ppc[p] = "save"
    /\ profile' = [profile EXCEPT ![OwnerOf[p]] = [f \in Writable |->
                      IF f \in DOMAIN UpdateData(p) THEN seen[p][f] ELSE @[f]]]
    /\ ppc' = [ppc EXCEPT ![p] = "saved"]
    /\ UNCHANGED <<status, roles, perms, super, defaults, superusers, signupVars, seen, formVars,
                   changes>>

(* ------------------------------------------------------------------- the admin *)

(* The page of UserAdmin's change form: the row is read without a lock, and what the *)
(* page shows of it comes back with the POST.                                       *)
OpenForm(g, e) ==
    /\ form[g] = None /\ changes < MaxChanges /\ status[e] # "absent"
    /\ form' = [form EXCEPT ![g] = e]
    /\ copy' = [copy EXCEPT ![g] = [status |-> status[e], roles |-> roles[e], profile |-> profile[e]]]
    /\ UNCHANGED <<status, roles, profile, perms, super, defaults, superusers, signupVars, patchVars,
                   formWrote, changes>>

(* What the admin did to the form: one field of it was changed, or none.             *)
Edited(row) ==
    {[row EXCEPT !.status = st] : st \in {"active", "inactive"}}
    \cup {[row EXCEPT !.roles = rs] : rs \in SUBSET Roles}
    \cup {[row EXCEPT !.profile[f] = v] : f \in Writable, v \in Typed}

(* The POST saves the whole row, whatever it has become since, and sets the roles, in *)
(* one transaction. Its UPDATE waits for the row lock of a PATCH; a form takes none.  *)
SaveForm(g) ==
    LET e == form[g] IN
    /\ e # None /\ changes < MaxChanges
    /\ \A p \in Patches : ppc[p] = "save" => OwnerOf[p] # e
    /\ \E row \in Edited(copy[g]) :
          /\ status' = [status EXCEPT ![e] = row.status]
          /\ roles' = [roles EXCEPT ![e] = row.roles]
          /\ profile' = [profile EXCEPT ![e] = row.profile]
          /\ formWrote' = formWrote \cup {<<e, f>> : f \in {x \in Writable : row.profile[x] # profile[e][x]}}
    /\ form' = [form EXCEPT ![g] = None] /\ copy' = [copy EXCEPT ![g] = NoCopy]
    /\ changes' = changes + 1
    /\ UNCHANGED <<perms, super, defaults, superusers, signupVars, patchVars>>

(* RoleAdmin, one change at a time: a role's permissions, its superuser and default   *)
(* flags. A role's form is taken to be saved as soon as it is opened.                *)
AdminRole(r) ==
    /\ changes < MaxChanges
    /\ \/ /\ \E x \in Permissions : perms' = [perms EXCEPT ![r] = IF x \in @ THEN @ \ {x} ELSE @ \cup {x}]
          /\ UNCHANGED <<super, defaults>>
       \/ /\ super' = IF r \in super THEN super \ {r} ELSE super \cup {r}
          /\ UNCHANGED <<perms, defaults>>
       \/ /\ defaults' = IF r \in defaults THEN defaults \ {r} ELSE defaults \cup {r}
          /\ UNCHANGED <<perms, super>>
    /\ bare' = IF defaults' = {} THEN bare \cup {s \in Signups : InTransaction(s)} ELSE bare
    /\ changes' = changes + 1
    /\ UNCHANGED <<status, roles, profile, superusers, spc, draft, patchVars, formVars>>

StoreNext ==
    \/ \E s \in Signups : CallbackRejected(s) \/ PreSocialLogin(s) \/ SaveUser(s)
          \/ SaveUserCollides(s) \/ DefaultRolesExist(s) \/ AddDefaultRoles(s)
          \/ AddNoRoles(s) \/ SaveUserFails(s)
    \/ \E p \in Patches : UpdateProfile(p) \/ LockUser(p) \/ SaveProfile(p)
    \/ \E g \in Forms : SaveForm(g) \/ \E e \in Emails : OpenForm(g, e)
    \/ \E r \in Roles : AdminRole(r)

------------------------------------------------------------------------------
(* What must hold. *)

CreatedFor(e) == {s \in Signups : spc[s] = "created" /\ EmailOf[s] = e}

(* A signup makes a whole user or none: a user who was not there at the start was   *)
(* made by exactly one signup, a signup that failed, was rejected or linked made    *)
(* none, and a user was made without roles only if there was a moment during the    *)
(* signup at which no role was a default one (adapters.py: "preventing users from   *)
(* existing without roles").                                                       *)
SignupMakesWholeUser ==
    /\ \A e \in Emails : Cardinality(CreatedFor(e)) =
          IF e \in Existing \/ status[e] = "absent" THEN 0 ELSE 1
    /\ \A s \in Signups : spc[s] = "created" /\ draft[s] = {} => s \in bare

(* Overlapping PATCH requests do not lose each other's fields, and nobody invents a   *)
(* value. While a request holds the row lock its instance is the row as it will commit *)
(* it: neither another request nor a change form, whose UPDATE waits for the lock,      *)
(* outdates the fields it leaves alone. A profile column that no form has changed holds *)
(* what one of the finished requests wrote to it, and its initial value if none did. A  *)
(* form may undo a finished request (it saves the row as its page showed it), but then, *)
(* too, the column holds its initial value, what a finished request of this user wrote  *)
(* to it, or what an admin typed.                                                      *)
ProfileWritesKept ==
    /\ \A p \in Patches : ppc[p] = "save" =>
          \A f \in Writable \ DOMAIN UpdateData(p) : seen[p][f] = profile[OwnerOf[p]][f]
    /\ \A e \in Emails, f \in Writable :
          LET writers == {p \in Patches : ppc[p] = "saved" /\ OwnerOf[p] = e /\ f \in DOMAIN UpdateData(p)}
              written == {DataOf[p][f] : p \in writers}
          IN  /\ <<e, f>> \notin formWrote => profile[e][f] \in (IF writers = {} THEN {None} ELSE written)
              /\ profile[e][f] \in {None} \cup Typed \cup written
==============================================================================
