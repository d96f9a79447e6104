--------------------------- MODULE MCRequestAccess ---------------------------
(* Instance of RequestAccess: one user with a role and one who signs up twice. *)
EXTENDS RequestAccess

MCEmailOf == [s1 |-> "bob", s2 |-> "bob", s3 |-> "bob"]
MCOwnerOf == [p1 |-> "ann", p2 |-> "ann", p3 |-> "ann"]
MCDataOf == [p1 |-> [timezone |-> "UTC", is_active |-> "no"], p2 |-> [first_name |-> "A"],
             p3 |-> [timezone |-> "Mars"]]
MCPermissions == {<<"account", "read">>, <<"account", "delete">>}
MCRow(assigned, bypassing) ==
    [roles |-> [ann |-> assigned, bob |-> {}],
     perms |-> [staff |-> {<<"account", "read">>}, root |-> {}],
     super |-> {"root"}, defaults |-> {"staff"}, superusers |-> bypassing]
MCInitialRows == {MCRow({"staff"}, {}), MCRow({"root"}, {}), MCRow({}, {"ann"})}
MCCredentialOf == [r1 |-> [jwt |-> "none", api_key |-> "ann", oauth_google |-> "none"],
                   r2 |-> [jwt |-> "bad", api_key |-> "ann", oauth_google |-> "none"],
                   r3 |-> [jwt |-> "none", api_key |-> "none", oauth_google |-> "none"]]
MCEnabled == <<"typo", "jwt", "oauth_google", "api_key">>
MCAppOf == [user |-> "accounts", widget |-> "shop"]
MCStartups == {<<<<"user", "account">>, <<"widget", "account">>, <<"user", "account">>>>,
               <<<<"user", "account">>, <<"user", "role">>>>}

(* Signups, PATCH requests and permission checks meet only in the rows of users and *)
(* roles: each kind is run against the admin's changes, without the other two, and  *)
(* requests in pairs. Profile columns, which forms write too, matter to PATCH only. *)
SignupsBegan == \E s \in Signups : spc[s] \notin {"callback", "insert"} \/ (s \in Social /\ spc[s] # "callback")
PatchesBegan == formWrote # {} \/ \E p \in Patches : ppc[p] # "start"
RequestsBegan == \E r \in Requests : rpc[r] # "start"
OneKind == Cardinality({k \in 1..3 : <<SignupsBegan, PatchesBegan, RequestsBegan>>[k]}) <= 1

InPairs == Cardinality({r \in Requests : rpc[r] # "start"}) <= 2

MCNext == Next /\ OneKind' /\ InPairs'

MCSpec == Init /\ [][MCNext]_vars
==============================================================================
