---------------------------- MODULE RequestAccess ----------------------------
(* A request's way through authentication (core/auth, accounts/auth_providers.py)  *)
(* and permission checks (core/permissions.py), and the same roles as the admin    *)
(* site sees them (accounts/backends.py, core/rbac_registry.py), while the rows    *)
(* of AccountStore change underneath. A step is a locked section of a registry,    *)
(* one provider, or one query.                                                     *)
EXTENDS AccountStore, Sequences

CONSTANTS Requests,
          CredentialOf,   \* per request and provider: "none", "bad" or the user it is of
          Enabled,        \* settings.AUTH_ENABLED_PROVIDERS
          Resources,
          AppOf,          \* per model with a row in the admin, its app
          Startups,       \* the calls of register_resource that the apps may make
          MaxChecks       \* bound: permission checks a request makes

Models == DOMAIN AppOf
Actions == {"create", "read", "update", "delete"}

(* The providers AccountsConfig.ready() registers. *)
Providers == {"jwt", "api_key", "oauth_google"}

ASSUME AccessAssumption ==
    /\ CredentialOf \in [Requests -> [Providers -> {"none", "bad"} \cup Emails]]
    /\ Enabled \in Seq(STRING)
    /\ Permissions \subseteq Resources \X Actions
    /\ Startups \subseteq Seq(Models \X Resources)
    /\ None \notin Resources /\ None \notin BOOLEAN

VARIABLES
    boot,       \* "registering", "serving" or "failed"
    toRegister, \* the calls of register_resource still to be made
    resourceFor,\* _RESOURCE_FOR_MODEL
    registry,   \* the names in _REGISTRY
    warnings,   \* the unknown provider names warned about, in order (_WARNED_UNKNOWN)
    rpc,        \* per request, the next step or the answer
    chain,      \* per request, the snapshot of the provider chain
    pos,        \* per request, the position in Enabled, then in the chain
    who,        \* per request, request.user
    isSuper,    \* per request, the cached_property has_superuser_role: None when not computed
    asked,      \* per request, the pair that is being checked
    passed,     \* per request, whether the check was given the request (request=None or not)
    cache,      \* per request, _permission_cache
    answers,    \* history: per request, the checks answered so far: pair, answer, passed
    everHeld    \* history: per request, what its user held at some moment since it was known

requestVars == <<rpc, chain, pos, who, isSuper, asked, passed, cache, answers>>
bootVars == <<boot, toRegister, resourceFor>>
vars == <<storeVars, bootVars, registry, warnings, requestVars, everHeld>>

(* What a user may do by the rows: everything with a superuser role, else what the  *)
(* roles' permissions say.                                                          *)
Held(rolesOfUser, permsOf, supers) ==
    IF rolesOfUser \cap supers # {} THEN Permissions ELSE UNION {permsOf[r] : r \in rolesOfUser}

HeldBy(u) == Held(roles[u], perms, super)

TypeOK ==
    /\ StoreTypeOK
    /\ boot \in {"registering", "serving", "failed"}
    /\ resourceFor \in [Models -> Resources \cup {None}]
    /\ registry \subseteq Providers
    /\ rpc \in [Requests -> {"start", "walk", "auth", "user", "super", "roles", "401", "403"}]
    /\ who \in [Requests -> Emails \cup {None}]
    /\ isSuper \in [Requests -> BOOLEAN \cup {None}]
    /\ asked \in [Requests -> Permissions \cup {None}]
    /\ cache \in [Requests -> [Permissions -> BOOLEAN \cup {None}]]
    /\ passed \in [Requests -> BOOLEAN]
    /\ answers \in [Requests -> Seq(Permissions \X BOOLEAN \X BOOLEAN)]
    /\ everHeld \in [Requests -> SUBSET Permissions]

Init ==
    /\ StoreInit
    /\ boot = "registering" /\ toRegister \in Startups
    /\ resourceFor = [m \in Models |-> None]
    /\ registry = {} /\ warnings = <<>>
    /\ rpc = [r \in Requests |-> "start"]
    /\ chain = [r \in Requests |-> <<>>] /\ pos = [r \in Requests |-> 1]
    /\ who = [r \in Requests |-> None] /\ isSuper = [r \in Requests |-> None]
    /\ asked = [r \in Requests |-> None] /\ passed = [r \in Requests |-> TRUE]
    /\ cache = [r \in Requests |-> [x \in Permissions |-> None]]
    /\ answers = [r \in Requests |-> <<>>] /\ everHeld = [r \in Requests |-> {}]

(* ---------------------------------------------------------------------- start up *)

(* register_resource under _lock: a new key is stored, the same mapping again is a  *)
(* no-op, a different one raises out of ready() and the process does not start.    *)
RegisterResource ==
    /\ boot = "registering" /\ toRegister # <<>>
    /\ LET m == Head(toRegister)[1]
           res == Head(toRegister)[2]
       IN  IF resourceFor[m] \in {None, res}
           THEN /\ resourceFor' = [resourceFor EXCEPT ![m] = res]
                /\ toRegister' = Tail(toRegister) /\ boot' = boot
           ELSE boot' = "failed" /\ UNCHANGED <<toRegister, resourceFor>>
    /\ UNCHANGED <<storeVars, registry, warnings, requestVars, everHeld>>

(* ready() ends with the three providers registered; requests are served from then. *)
Register ==
    /\ boot = "registering" /\ toRegister = <<>>
    /\ registry' = Providers /\ boot' = "serving"
    /\ UNCHANGED <<storeVars, toRegister, resourceFor, warnings, requestVars, everHeld>>

(* --------------------------------------------------------------- authentication *)

Begin(r) ==
    /\ boot = "serving" /\ rpc[r] = "start"
    /\ rpc' = [rpc EXCEPT ![r] = "walk"]
    /\ UNCHANGED <<storeVars, bootVars, registry, warnings, chain, pos, who, isSuper, asked,
                   passed, cache, answers, everHeld>>

(* One turn of enabled_providers(), a locked section: a registered name joins the   *)
(* chain, an unknown one is skipped and warned about once.                         *)
EnabledProvider(r) ==
    /\ rpc[r] = "walk" /\ pos[r] <= Len(Enabled)
    /\ LET name == Enabled[pos[r]] IN
       /\ chain' = [chain EXCEPT ![r] = IF name \in registry THEN Append(@, name) ELSE @]
       /\ warnings' = IF name \in registry \/ \E i \in DOMAIN warnings : warnings[i] = name
                      THEN warnings ELSE Append(warnings, name)
    /\ pos' = [pos EXCEPT ![r] = @ + 1]
    /\ UNCHANGED <<storeVars, bootVars, registry, rpc, who, isSuper, asked, passed, cache, answers,
                   everHeld>>

(* _providers_for keeps the walk on the request. *)
ChainBuilt(r) ==
    /\ rpc[r] = "walk" /\ pos[r] > Len(Enabled)
    /\ rpc' = [rpc EXCEPT ![r] = "auth"] /\ pos' = [pos EXCEPT ![r] = 1]
    /\ UNCHANGED <<storeVars, bootVars, registry, warnings, chain, who, isSuper, asked, passed, cache,
                   answers, everHeld>>

(* What a provider finds: nothing of its kind (GoogleOAuthProvider never does), or   *)
(* credentials, which are good if they are genuine and their user is active.        *)
Authenticate(r, name) ==
    LET cred == IF name = "oauth_google" THEN "none" ELSE CredentialOf[r][name]
    IN  IF cred = "none" THEN "pass"
        ELSE IF cred = "bad" THEN "fail"
        ELSE IF status[cred] = "active" THEN cred ELSE "fail"

(* The answer to a request without a good credential: 401 with the hint of the first *)
(* provider of the chain that has one (authenticate_header), 403 if none has.       *)
Denial(r) == IF \E i \in DOMAIN chain[r] : chain[r][i] # "oauth_google" THEN "401" ELSE "403"

(* CompositeAuthentication.authenticate: the first provider that does not answer     *)
(* None decides, by its user or by AuthenticationFailed.                            *)
TryProvider(r) ==
    /\ rpc[r] = "auth" /\ pos[r] <= Len(chain[r])
    /\ LET found == Authenticate(r, chain[r][pos[r]]) IN
       \/ /\ found = "pass" /\ pos' = [pos EXCEPT ![r] = @ + 1]
          /\ UNCHANGED <<rpc, who, everHeld>>
       \/ /\ found = "fail" /\ rpc' = [rpc EXCEPT ![r] = Denial(r)]
          /\ UNCHANGED <<pos, who, everHeld>>
       \/ /\ found \in Emails
          /\ who' = [who EXCEPT ![r] = found] /\ rpc' = [rpc EXCEPT ![r] = "user"]
          /\ everHeld' = [everHeld EXCEPT ![r] = HeldBy(found)]
          /\ pos' = pos
    /\ UNCHANGED <<storeVars, bootVars, registry, warnings, chain, isSuper, asked, passed, cache,
                   answers>>

(* Nobody answered: the anonymous user, whom a permission check refuses.            *)
Anonymous(r) ==
    /\ rpc[r] = "auth" /\ pos[r] > Len(chain[r])
    /\ rpc' = [rpc EXCEPT ![r] = Denial(r)]
    /\ UNCHANGED <<storeVars, bootVars, registry, warnings, chain, pos, who, isSuper, asked, passed, cache,
                   answers, everHeld>>

(* ------------------------------------------------------------- user_has_permission *)

(* HasResourcePermission of the view asks for a pair and passes the request; a later  *)
(* check of the handler may pass it or not.                                          *)
Ask(r) ==
    /\ rpc[r] = "user" /\ Len(answers[r]) < MaxChecks
    /\ \E x \in Permissions : asked' = [asked EXCEPT ![r] = x]
    /\ \E given \in BOOLEAN : /\ answers[r] = <<>> => given
                              /\ passed' = [passed EXCEPT ![r] = given]
    /\ rpc' = [rpc EXCEPT ![r] = "super"]
    /\ UNCHANGED <<storeVars, bootVars, registry, warnings, chain, pos, who, isSuper, cache, answers,
                   everHeld>>

(* A view that declares no resource or no action is refused without a query.        *)
NothingDeclared(r) ==
    /\ rpc[r] = "user" /\ answers[r] = <<>>
    /\ rpc' = [rpc EXCEPT ![r] = "403"]
    /\ UNCHANGED <<storeVars, bootVars, registry, warnings, chain, pos, who, isSuper, asked, passed, cache,
                   answers, everHeld>>

(* A no to the first check, the view's, ends the request with 403. *)
Answer(r, yes) ==
    /\ answers' = [answers EXCEPT ![r] = Append(@, <<asked[r], yes, passed[r]>>)]
    /\ rpc' = [rpc EXCEPT ![r] = IF yes \/ answers[r] # <<>> THEN "user" ELSE "403"]

(* `if cache.get(cache_key):` - a no in the cache is looked up as if it were missing. *)
MutantCheckSuper(r) ==
    /\ rpc[r] = "super"
    /\ LET flag == IF isSuper[r] = None THEN roles[who[r]] \cap super # {} ELSE isSuper[r] IN
       /\ isSuper' = [isSuper EXCEPT ![r] = flag]
       /\ IF flag THEN Answer(r, TRUE)
          ELSE IF passed[r] /\ cache[r][asked[r]] = TRUE THEN Answer(r, TRUE)
          ELSE rpc' = [rpc EXCEPT ![r] = "roles"] /\ UNCHANGED answers
    /\ UNCHANGED <<storeVars, bootVars, registry, warnings, chain, pos, who, asked, passed, cache, everHeld>>

(* has_superuser_role, computed once per user instance; a superuser role holds        *)
(* everything. Otherwise a check that was given the request answers a pair in the     *)
(* cache from it.                                                                     *)
CheckSuper(r) ==
    /\ rpc[r] = "super"
    /\ LET flag == IF isSuper[r] = None THEN roles[who[r]] \cap super # {} ELSE isSuper[r] IN
       /\ isSuper' = [isSuper EXCEPT ![r] = flag]
       /\ IF flag THEN Answer(r, TRUE)
          ELSE IF passed[r] /\ cache[r][asked[r]] # None THEN Answer(r, cache[r][asked[r]])
          ELSE rpc' = [rpc EXCEPT ![r] = "roles"] /\ UNCHANGED answers
    /\ UNCHANGED <<storeVars, bootVars, registry, warnings, chain, pos, who, asked, passed, cache, everHeld>>

HasPair(u, x) == \E role \in roles[u] : x \in perms[role]

(* The cache is keyed by the resource alone. *)
MutantCacheKey(r) ==
    /\ rpc[r] = "roles" /\ passed[r]
    /\ LET yes == HasPair(who[r], asked[r]) IN
       /\ cache' = [cache EXCEPT ![r] = [x \in Permissions |-> IF x[1] = asked[r][1] THEN yes ELSE @[x]]]
       /\ Answer(r, yes)
    /\ UNCHANGED <<storeVars, bootVars, registry, warnings, chain, pos, who, isSuper, asked, passed, everHeld>>

(* With the request: the query over the user's roles, whose result the cache keeps.    *)
CheckRoles(r) ==
    /\ rpc[r] = "roles" /\ passed[r]
    /\ LET yes == HasPair(who[r], asked[r]) IN
       /\ cache' = [cache EXCEPT ![r][asked[r]] = yes]
       /\ Answer(r, yes)
    /\ UNCHANGED <<storeVars, bootVars, registry, warnings, chain, pos, who, isSuper, asked, passed, everHeld>>

(* Without it the rows are asked each time, and nothing is kept.                       *)
CheckRolesUncached(r) ==
    /\ rpc[r] = "roles" /\ ~passed[r]
    /\ Answer(r, HasPair(who[r], asked[r]))
    /\ UNCHANGED <<storeVars, bootVars, registry, warnings, chain, pos, who, isSuper, asked, passed, cache,
                   everHeld>>

RequestNext ==
    \/ RegisterResource \/ Register
    \/ \E r \in Requests : Begin(r) \/ EnabledProvider(r) \/ ChainBuilt(r) \/ TryProvider(r)
          \/ Anonymous(r) \/ Ask(r) \/ NothingDeclared(r) \/ CheckSuper(r) \/ CheckRoles(r)
          \/ CheckRolesUncached(r)

(* A step of the store, with the history of what the users of requests hold.        *)
StoreStep ==
    /\ StoreNext
    /\ everHeld' = [r \in Requests |-> IF who[r] = None THEN everHeld[r]
                                       ELSE everHeld[r] \cup Held(roles'[who[r]], perms', super')]
    /\ UNCHANGED <<bootVars, registry, warnings, requestVars>>

Next == RequestNext \/ StoreStep

Spec == Init /\ [][Next]_vars

------------------------------------------------------------------------------
(* The admin site's view of the same roles: RBACBackend behind Django's User.has_perm. *)

(* Deleting is taken for changing. *)
MutantPermActionMap == [view |-> "read", add |-> "create", change |-> "update", delete |-> "update"]

PERM_ACTION_MAP == [view |-> "read", add |-> "create", change |-> "update", delete |-> "delete"]

HasSuperRole(u) == roles[u] \cap super # {}

(* RBACBackend.has_perm                                                               *)
BackendHasPerm(u, prefix, m) ==
    /\ status[u] = "active"
    /\ \/ HasSuperRole(u)
       \/ /\ prefix \in DOMAIN PERM_ACTION_MAP /\ resourceFor[m] # None
          /\ HasPair(u, <<resourceFor[m], PERM_ACTION_MAP[prefix]>>)

AppResources(app) == {resourceFor[m] : m \in {x \in Models : AppOf[x] = app}} \ {None}

(* RBACBackend.has_module_perms                                                       *)
BackendHasModulePerms(u, app) ==
    /\ status[u] = "active"
    /\ \/ HasSuperRole(u)
       \/ \E role \in roles[u], x \in Permissions : x[1] \in AppResources(app) /\ x \in perms[role]

(* PermissionsMixin, which the admin site calls: an active user with is_superuser may  *)
(* do everything, and no backend is asked.                                            *)
Bypasses(u) == status[u] = "active" /\ u \in superusers
HasPerm(u, prefix, m) == Bypasses(u) \/ BackendHasPerm(u, prefix, m)
HasModulePerms(u, app) == Bypasses(u) \/ BackendHasModulePerms(u, app)

------------------------------------------------------------------------------
(* What must hold. *)

(* A check answers yes only for what the user of the request did hold at some moment *)
(* between authentication and the answer, whatever the admin changed meanwhile and   *)
(* however the two caches (has_superuser_role, _permission_cache) were filled.      *)
GrantWasHeld ==
    \A r \in Requests : \A i \in DOMAIN answers[r] :
        answers[r][i][2] => answers[r][i][1] \in everHeld[r]

(* Within one request a pair has one answer among the checks that were given the       *)
(* request: the view's check and a later check of the handler cannot disagree although  *)
(* roles change between them, whatever uncached checks were made in between (those may  *)
(* disagree). And once has_superuser_role was found, no check of either kind says no.    *)
OneAnswerPerRequest ==
    \A r \in Requests : \A i, j \in DOMAIN answers[r] :
        LET first == answers[r][i]
            other == answers[r][j]
        IN  /\ first[1] = other[1] /\ first[3] /\ other[3] => first[2] = other[2]
            /\ isSuper[r] = TRUE => first[2]

(* The admin's side bar and its pages agree: an app is shown to a user exactly when     *)
(* some page of a model of it is, in every state of the registries and rows. What the   *)
(* API grants the admin shows; and what the admin shows the API grants, but to a user    *)
(* with Django's is_superuser, who sees every page without any role (create_superuser    *)
(* gives none).                                                                        *)
SidebarMatchesPages ==
    \A u \in Emails : status[u] = "active" =>
        /\ \A app \in {AppOf[m] : m \in Models} :
              HasModulePerms(u, app) <=>
                 \E m \in Models, prefix \in DOMAIN PERM_ACTION_MAP :
                    AppOf[m] = app /\ HasPerm(u, prefix, m)
        /\ \A m \in Models, prefix \in DOMAIN PERM_ACTION_MAP :
              LET x == <<resourceFor[m], PERM_ACTION_MAP[prefix]>>
              IN  x \in Permissions =>
                     (HasPerm(u, prefix, m) <=> x \in HeldBy(u) \/ u \in superusers)
==============================================================================
