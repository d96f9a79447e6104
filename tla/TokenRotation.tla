--------------------------- MODULE TokenRotation ----------------------------
(***************************************************************************)
(* Refresh tokens in apps/accounts/views.py: login hands one out,          *)
(* token_refresh swaps one for another, logout ends one.  The views run in *)
(* autocommit mode, so other requests come in between any two of their     *)
(* statements.  Tokens are simplejwt's: verifying one (RefreshToken(raw))  *)
(* checks its signature, its expiry and the blacklist table; blacklist()   *)
(* is a get_or_create and does not tell whether the token was there.       *)
(***************************************************************************)
EXTENDS Naturals

CONSTANTS
  Users,
  Tokens,      \* the refresh tokens that can be minted
  Refreshers,  \* requests to token_refresh
  Logouts,     \* requests to logout
  None

ASSUME TokenRotationAssumption ==
  /\ None \notin Users \cup Tokens
  /\ Refreshers \cap Logouts = {}

VARIABLES
  owner,       \* owner[t]: the user a minted token names, or None: not minted
  parent,      \* parent[t]: the token it was swapped for, or None: a login's
  expired,     \* the tokens past their lifetime
  blacklist,   \* the rows of simplejwt's BlacklistedToken
  active,      \* the users with is_active
  pc,          \* pc[c]: where request c stands, or the status of its response
  token,       \* token[c]: the token in its body
  caller,      \* caller[c]: request.user of a logout
  deadOnArrival  \* history: requests whose token was of no use when they came

tokenVars == <<owner, parent, expired, blacklist, active>>
vars == <<tokenVars, pc, token, caller, deadOnArrival>>

Requests == Refreshers \cup Logouts

TypeOK ==
  /\ owner \in [Tokens -> Users \cup {None}]
  /\ parent \in [Tokens -> Tokens \cup {None}]
  /\ expired \subseteq Tokens
  /\ blacklist \subseteq Tokens
  /\ active \subseteq Users
  /\ pc \in [Requests -> {"idle", "verified", "blacklist", "mint", "200", "401", "500", "503"}]
  /\ token \in [Requests -> Tokens \cup {None}]
  /\ caller \in [Logouts -> Users \cup {None}]
  /\ deadOnArrival \subseteq Requests

Init ==
  /\ owner = [t \in Tokens |-> None]
  /\ parent = [t \in Tokens |-> None]
  /\ expired = {}
  /\ blacklist = {}
  /\ active = Users
  /\ pc = [c \in Requests |-> "idle"]
  /\ token = [c \in Requests |-> None]
  /\ caller = [c \in Logouts |-> None]
  /\ deadOnArrival = {}

Minted == {t \in Tokens : owner[t] # None}
Valid(t) == t \notin expired /\ t \notin blacklist
Goto(c, l) == pc' = [pc EXCEPT ![c] = l]

(* RefreshToken.for_user *)
Mint(t, u, p) ==
  /\ owner[t] = None
  /\ owner' = [owner EXCEPT ![t] = u]
  /\ parent' = [parent EXCEPT ![t] = p]

-----------------------------------------------------------------------------
(* GoogleLogin, for a user that allauth lets in. *)
Login(u, t) ==
  /\ u \in active
  /\ Mint(t, u, None)
  /\ UNCHANGED <<expired, blacklist, active, pc, token, caller, deadOnArrival>>

Expire(t) ==
  /\ t \in Minted \ expired
  /\ expired' = expired \cup {t}
  /\ UNCHANGED <<owner, parent, blacklist, active, pc, token, caller, deadOnArrival>>

DisableUser(u) ==
  /\ u \in active
  /\ active' = active \ {u}
  /\ UNCHANGED <<owner, parent, expired, blacklist, pc, token, caller, deadOnArrival>>

-----------------------------------------------------------------------------
(* token_refresh: verify, look the user up, blacklist, mint.               *)

RefreshVerify(c, t) ==
  /\ pc[c] = "idle"
  /\ t \in Minted
  /\ token' = [token EXCEPT ![c] = t]
  /\ deadOnArrival' = IF Valid(t) /\ owner[t] \in active
                      THEN deadOnArrival ELSE deadOnArrival \cup {c}
  /\ Goto(c, IF Valid(t) THEN "verified" ELSE "401")
  /\ UNCHANGED <<tokenVars, caller>>

MutantRefreshUser(c) ==   \* "if not user" alone
  /\ pc[c] = "verified"
  /\ Goto(c, "blacklist")
  /\ UNCHANGED <<tokenVars, token, caller, deadOnArrival>>

RefreshUser(c) ==
  /\ pc[c] = "verified"
  /\ Goto(c, IF owner[token[c]] \in active THEN "blacklist" ELSE "401")
  /\ UNCHANGED <<tokenVars, token, caller, deadOnArrival>>

RefreshBlacklist(c) ==
  /\ pc[c] = "blacklist"
  /\ blacklist' = blacklist \cup {token[c]}
  /\ Goto(c, "mint")
  /\ UNCHANGED <<owner, parent, expired, active, token, caller, deadOnArrival>>

MutantRefreshBlacklistFails(c) ==   \* logs the failure and goes on
  /\ pc[c] = "blacklist"
  /\ Goto(c, "mint")
  /\ UNCHANGED <<tokenVars, token, caller, deadOnArrival>>

(* TokenError is answered 503; a database error ends in the handler: 500.  *)
RefreshBlacklistFails(c) ==
  /\ pc[c] = "blacklist"
  /\ Goto(c, "503") \/ Goto(c, "500")
  /\ UNCHANGED <<tokenVars, token, caller, deadOnArrival>>

MutantRefreshMint(c, t) ==   \* for the user of the newest session
  /\ pc[c] = "mint"
  /\ \E u \in active : Mint(t, u, token[c])
  /\ Goto(c, "200")
  /\ UNCHANGED <<expired, blacklist, active, token, caller, deadOnArrival>>

RefreshMint(c, t) ==
  /\ pc[c] = "mint"
  /\ Mint(t, owner[token[c]], token[c])
  /\ Goto(c, "200")
  /\ UNCHANGED <<expired, blacklist, active, token, caller, deadOnArrival>>

(* for_user writes an OutstandingToken, which may fail. *)
RefreshMintFails(c) ==
  /\ pc[c] = "mint"
  /\ Goto(c, "500")
  /\ UNCHANGED <<tokenVars, token, caller, deadOnArrival>>

-----------------------------------------------------------------------------
(* logout: verify, compare the owner with the caller, blacklist.           *)

LogoutVerify(c, t, u) ==
  /\ pc[c] = "idle"
  /\ t \in Minted
  /\ token' = [token EXCEPT ![c] = t]
  /\ caller' = [caller EXCEPT ![c] = u]
  /\ deadOnArrival' = IF Valid(t) THEN deadOnArrival ELSE deadOnArrival \cup {c}
  /\ Goto(c, IF Valid(t) /\ owner[t] = u THEN "blacklist" ELSE "401")
  /\ UNCHANGED tokenVars

LogoutBlacklist(c) ==
  /\ pc[c] = "blacklist"
  /\ blacklist' = blacklist \cup {token[c]}
  /\ Goto(c, "200")
  /\ UNCHANGED <<owner, parent, expired, active, token, caller, deadOnArrival>>

(* TokenError is answered 401, a database error 500. *)
LogoutBlacklistFails(c) ==
  /\ pc[c] = "blacklist"
  /\ Goto(c, "401") \/ Goto(c, "500")
  /\ UNCHANGED <<tokenVars, token, caller, deadOnArrival>>

-----------------------------------------------------------------------------
Next ==
  \/ \E u \in Users, t \in Tokens : Login(u, t)
  \/ \E t \in Tokens : Expire(t)
  \/ \E u \in Users : DisableUser(u)
  \/ \E c \in Refreshers, t \in Tokens : RefreshVerify(c, t) \/ RefreshMint(c, t)
  \/ \E c \in Refreshers :
       RefreshUser(c) \/ RefreshBlacklist(c) \/ RefreshBlacklistFails(c) \/ RefreshMintFails(c)
  \/ \E c \in Logouts, t \in Tokens, u \in Users : LogoutVerify(c, t, u)
  \/ \E c \in Logouts : LogoutBlacklist(c) \/ LogoutBlacklistFails(c)

Spec == Init /\ [][Next]_vars

-----------------------------------------------------------------------------
(* Properties.                                                             *)

(* Rotation never leaves a token and its successor both good, whichever    *)
(* step fails (ISSUE-009): the old one is blacklisted before the new one   *)
(* is minted, and for good.                                                *)
NeverBothValid ==
  \A t \in Minted : parent[t] # None => parent[t] \in blacklist

(* A session belongs to one user: along every chain of rotations.          *)
ChainKeepsOwner ==
  \A t \in Minted : parent[t] # None => owner[parent[t]] = owner[t]

(* A refresh that comes after the token was rotated, logged out or expired *)
(* or its user disabled gets no new token, whatever is still under way.    *)
DeadTokenMintsNothing == \A c \in deadOnArrival : pc[c] # "200"

(* No session ends unexplained: a token on the blacklist was swapped for   *)
(* another or is about to be, or its refresh was answered 500 because the  *)
(* new one could not be minted, or its owner logged out and was told so.   *)
EndsAccounted ==
  \A t \in blacklist :
    \/ \E s \in Minted : parent[s] = t
    \/ \E c \in Refreshers : token[c] = t /\ pc[c] \in {"mint", "500"}
    \/ \E c \in Logouts : token[c] = t /\ caller[c] = owner[t] /\ pc[c] = "200"

(* A session is its user's from login to its end, and its end is the       *)
(* user's doing or an error the client saw.                                *)
SessionsOwned == ChainKeepsOwner /\ EndsAccounted

-----------------------------------------------------------------------------
(* What the documentation says and the code does not do: rotation          *)
(* "prevents token replay" (docs/authentication.md), that is, a refresh    *)
(* token is good for one successor.                                        *)
SingleSuccessor ==
  \A t, u \in Minted : parent[t] # None /\ parent[t] = parent[u] => t = u
=============================================================================
