---------------------------- MODULE MCOperations -----------------------------
(* The start of a process, its readiness probes, the paged reads and the rendering of  *)
(* audit bodies share no state: each behaviour runs one of them, the others rest.      *)
EXTENDS SettingsBoot, Readiness, AuditText, Listing

VARIABLE part
mcVars == <<part, bootVars, readyVars, auditVars, listingVars>>

(* One key after the other is filled in every way, in each layer; all others are good.  *)
MCLayer(t) == [k \in Keys |-> t]
MCNamed(where, m) ==
    [m EXCEPT !.os["AWS_SECRET_NAME"] = IF where = "os" THEN "good" ELSE "unset",
              !.file["AWS_SECRET_NAME"] = IF where = "file" THEN "good" ELSE "unset"]
MCMachines ==
    {MCNamed(w, [os |-> [MCLayer("good") EXCEPT ![k] = a], file |-> [MCLayer("unset") EXCEPT ![k] = b],
                 secret |-> [MCLayer("unset") EXCEPT ![k] = c]]) :
        w \in {"os", "file", "none"}, k \in Keys, a \in Texts \cup {"unset"},
        b \in Texts \cup {"unset"}, c \in {"unset", "good"}}

MCComplete == MCNamed("none", [os |-> MCLayer("good"), file |-> MCLayer("unset"), secret |-> MCLayer("unset")])

(* Trees of dictionaries and lists with secrets under hidden names only, two deep, and   *)
(* one that is nested past the cap on depth.                                            *)
MCNames == {"user", "token", "password"}
MCSecretList == List(<<Text("secret"), Bytes>>)
MCLeaf(name) == {Text("plain"), Bytes} \cup (IF name = "user" THEN {} ELSE {Text("secret")})
MCPairs == {q \in MCNames \X MCNames : q[1] # q[2]}
MCDicts(V(_)) == UNION {{Dict(<< <<n, v>> >>) : v \in V(n)} : n \in MCNames}
                 \cup UNION {{Dict(<< <<q[1], v>>, <<q[2], w>> >>) : v \in V(q[1]), w \in V(q[2])} : q \in MCPairs}
MCLists(S) == {List(<<v>>) : v \in S} \cup {List(<<v, w>>) : v \in S, w \in S}
MCInner(name) == {Text("plain"), List(<<Dict(<< <<"token", Text("secret")>> >>)>>)} \cup
                 (IF name = "user" THEN {Dict(<< <<"user", Text("plain")>>, <<"password", Text("secret")>> >>)}
                  ELSE {Text("secret"), MCSecretList})
MCDeep == Dict(<< <<"user", List(<<List(<<List(<<Text("plain")>>)>>)>>)>> >>)
MCTrees == MCDicts(MCLeaf) \cup MCDicts(MCInner)
           \cup MCLists({Text("plain"), Dict(<< <<"token", Text("secret")>> >>)}) \cup {MCDeep}

(* With what they contain, four levels down.                                            *)
MCContents(v) == {IF v.kind = "dict" THEN v.items[i][2] ELSE v.items[i] : i \in DOMAIN v.items}
MCClosed(S) == S \cup UNION {MCContents(v) : v \in S}
MCValues == MCClosed(MCClosed(MCClosed(MCClosed(MCTrees))))
MCBodies == MCValues \ {Text("secret"), MCSecretList}
MCForms == [1..3 -> MCNames \X {Text("plain"), Text("secret"), Bytes}]
MCHeaders == {Dict(<< <<k, v>>, <<m, Text("plain")>> >>) :
                k \in {<<"cookie", "lower">>, <<"cookie", "mixed">>}, m \in {<<"accept", "mixed">>},
                v \in {Text("secret"), Text("plain")}}
MCSensitiveHeaders == {<<"cookie", "upper">>}
MCFormsMeant ==
    {f \in MCForms : (f[1][1] = f[3][1] => f[2][1] = f[1][1])
                     /\ \A i \in 1..3 : f[i][2] = Text("secret") => f[i][1] # "user"}

(* By the key, newest first, and by a name that puts the new row among the first ones.     *)
MCOrders == {<<1, 2, 3, 4, 5>>, <<5, 4, 3, 2, 1>>, <<4, 1, 5, 2, 3>>}

(* What a call does not look at is fixed.                                                  *)
MCMatters ==
    /\ passes = "walker" => dict["auditor"] = {}
    /\ way = "repository" => dict["walker"] = {} /\ allowed = "all" /\ passes = "auditor"

MCInit ==
    /\ part \in {"boot", "ready", "audit", "listing"}
    /\ IF part = "boot" THEN TRUE ELSE env = "local" /\ machine = MCComplete
    /\ BootInit
    /\ IF part = "ready" THEN ReadinessInit ELSE ReadinessInit /\ up = Deps
    /\ IF part = "audit" THEN AuditInit
       ELSE texts = {"?"} /\ body = [route |-> "body", tree |-> MCDeep]
    /\ IF part = "listing" THEN ListingInit /\ MCMatters
       ELSE /\ ListingInit /\ dict = [c \in Callers |-> {}] /\ allowed = "all" /\ sorts = "none"
            /\ way = "service" /\ limit = max_page_size /\ order = <<>> /\ passes = "auditor"

Resting == UNCHANGED <<part, bootVars, auditVars, listingVars>>

MCNext ==
    \/ part = "boot" /\ BootNext /\ UNCHANGED <<part, readyVars, auditVars, listingVars>>
    \/ part = "ready" /\ ReadinessNext /\ Resting
    \/ part = "audit" /\ AuditNext /\ UNCHANGED <<part, bootVars, readyVars, listingVars>>
    \/ part = "listing" /\ ListingNext /\ UNCHANGED <<part, bootVars, readyVars, auditVars>>

(* ReadinessFairness, in the behaviours that are about it. *)
MCFairness ==
    \A a \in Askers : /\ WF_mcVars(part = "ready" /\ Serve(a) /\ Resting)
                      /\ SF_mcVars(part = "ready" /\ AskReady(a) /\ Resting)

MCSpec == MCInit /\ [][MCNext]_mcVars /\ MCFairness
==============================================================================
