------------------------- MODULE TokenRotationProofs ------------------------
(***************************************************************************)
(* Proofs about TokenRotation, for any users, tokens and requests: what    *)
(* holds of rotation and logout although verifying a token, blacklisting   *)
(* it and minting the next are separate statements.                        *)
(***************************************************************************)
EXTENDS TokenRotation, TLAPS

(* A request past its verification names a minted token, and a refresh     *)
(* that is about to mint has blacklisted its own.                          *)
RequestInv ==
  /\ \A c \in Requests : pc[c] # "idle" => token[c] \in Minted
  /\ \A c \in Refreshers : pc[c] = "mint" => token[c] \in blacklist
  /\ \A c \in Logouts : pc[c] = "blacklist" => caller[c] = owner[token[c]]
  /\ \A c \in Logouts : pc[c] # "mint" /\ pc[c] # "verified"

(* A parent was minted before its successor, for the same user, and is on  *)
(* the blacklist since before.                                             *)
ChainInv ==
  \A t \in Minted :
    parent[t] # None =>
      parent[t] \in Minted /\ parent[t] \in blacklist /\ owner[parent[t]] = owner[t]

(* A request whose token was dead when it came is refused, or will be: its *)
(* user is disabled for good.                                              *)
DeadInv ==
  \A c \in deadOnArrival :
    \/ pc[c] = "401"
    \/ pc[c] = "verified" /\ owner[token[c]] \notin active

IInv ==
  /\ TypeOK
  /\ blacklist \subseteq Minted
  /\ RequestInv
  /\ ChainInv
  /\ DeadInv
  /\ EndsAccounted

-----------------------------------------------------------------------------
LEMMA InitInv == Init => IInv
  BY TokenRotationAssumption
     DEF Init, IInv, TypeOK, RequestInv, ChainInv, DeadInv, EndsAccounted, Minted, Requests

(* Minting adds one token and changes no other.                            *)
LEMMA MintFacts ==
  ASSUME TypeOK, NEW t \in Tokens, NEW u \in Users, NEW p \in Tokens \cup {None}, Mint(t, u, p)
  PROVE  /\ Minted' = Minted \cup {t} /\ t \notin Minted
         /\ owner' \in [Tokens -> Users \cup {None}] /\ parent' \in [Tokens -> Tokens \cup {None}]
         /\ owner'[t] = u /\ parent'[t] = p
         /\ \A s \in Tokens \ {t} : owner'[s] = owner[s] /\ parent'[s] = parent[s]
  BY TokenRotationAssumption DEF TypeOK, Mint, Minted

(* The step of a request that leaves tokens, blacklist and users alone.    *)
LEMMA QuietStep ==
  ASSUME IInv, NEW c \in Requests, NEW l,
         l \in {"401", "500", "503"},
         pc[c] \in {"verified", "blacklist", "mint"}, pc[c] = "mint" => l = "500", Goto(c, l),
         c \notin deadOnArrival \/ l = "401",
         UNCHANGED <<tokenVars, token, caller, deadOnArrival>>
  PROVE  IInv'
<1> USE DEF tokenVars, Goto, Requests
<1>1. pc' \in [Requests -> {"idle", "verified", "blacklist", "mint", "200", "401", "500", "503"}]
  BY DEF IInv, TypeOK
<1>2. TypeOK' /\ Minted' = Minted
  BY <1>1 DEF IInv, TypeOK, Minted
<1>3. pc'[c] = l /\ \A d \in Requests \ {c} : pc'[d] = pc[d]
  BY DEF IInv, TypeOK
<1>4. RequestInv'
  BY <1>2, <1>3 DEF IInv, RequestInv
<1>5. ChainInv'
  BY <1>2 DEF IInv, ChainInv
<1>6. DeadInv'
  BY <1>3 DEF IInv, DeadInv, TypeOK
<1>7. EndsAccounted'
  BY <1>2, <1>3, TokenRotationAssumption DEF IInv, EndsAccounted
<1> QED
  BY <1>2, <1>4, <1>5, <1>6, <1>7 DEF IInv

LEMMA NextInv == IInv /\ [Next]_vars => IInv'
<1> SUFFICES ASSUME IInv, [Next]_vars PROVE IInv'
  OBVIOUS
<1> USE TokenRotationAssumption
<1>0. TypeOK /\ blacklist \subseteq Minted /\ RequestInv /\ ChainInv /\ DeadInv /\ EndsAccounted
  BY DEF IInv
<1>1. ASSUME NEW u \in Users, NEW t \in Tokens, Login(u, t) PROVE IInv'
  <2> USE <1>0, <1>1 DEF Login
  <2>1. /\ Minted' = Minted \cup {t} /\ t \notin Minted
        /\ owner' \in [Tokens -> Users \cup {None}] /\ parent' \in [Tokens -> Tokens \cup {None}]
        /\ owner'[t] = u /\ parent'[t] = None
        /\ \A s \in Tokens \ {t} : owner'[s] = owner[s] /\ parent'[s] = parent[s]
    BY MintFacts
  <2>2. TypeOK' /\ blacklist' \subseteq Minted'
    BY <2>1 DEF TypeOK
  <2>3. \A s \in Minted : s \in Tokens \ {t} /\ s \in Minted'
    BY <2>1 DEF Minted
  <2>4. RequestInv'
    BY <2>1, <2>3 DEF RequestInv, Requests
  <2>5. ChainInv'
    BY <2>1, <2>3 DEF ChainInv
  <2>6. DeadInv'
    BY <2>1, <2>3 DEF DeadInv, RequestInv, TypeOK
  <2>7. EndsAccounted'
    BY <2>1, <2>3 DEF EndsAccounted
  <2> QED
    BY <2>2, <2>4, <2>5, <2>6, <2>7 DEF IInv
<1>2. ASSUME NEW t \in Tokens, Expire(t) PROVE IInv'
  <2> USE <1>0, <1>2 DEF Expire
  <2>1. TypeOK' /\ Minted' = Minted
    BY DEF TypeOK, Minted
  <2> QED
    BY <2>1 DEF IInv, RequestInv, ChainInv, DeadInv, EndsAccounted
<1>3. ASSUME NEW u \in Users, DisableUser(u) PROVE IInv'
  <2> USE <1>0, <1>3 DEF DisableUser
  <2>1. TypeOK' /\ Minted' = Minted
    BY DEF TypeOK, Minted
  <2> QED
    BY <2>1 DEF IInv, RequestInv, ChainInv, DeadInv, EndsAccounted
<1>4. ASSUME NEW c \in Refreshers, NEW t \in Tokens, RefreshVerify(c, t) PROVE IInv'
  <2> USE <1>0, <1>4 DEF RefreshVerify, tokenVars, Goto, Requests
  <2>1. TypeOK' /\ Minted' = Minted
    BY DEF TypeOK, Minted
  <2>2. /\ pc'[c] = IF Valid(t) THEN "verified" ELSE "401"
        /\ token'[c] = t
        /\ \A d \in Requests \ {c} : pc'[d] = pc[d] /\ token'[d] = token[d]
    BY DEF TypeOK
  <2>3. RequestInv'
    BY <2>1, <2>2 DEF RequestInv
  <2>4. ChainInv'
    BY <2>1 DEF ChainInv
  <2>5. DeadInv'
    <3>1. c \notin deadOnArrival
      BY DEF DeadInv
    <3>2. ASSUME NEW d \in deadOnArrival
          PROVE  pc'[d] = "401" \/ (pc'[d] = "verified" /\ owner'[token'[d]] \notin active')
      <4>1. d \in Requests \ {c} /\ owner' = owner /\ active' = active
        BY <3>1 DEF TypeOK
      <4>2. pc'[d] = pc[d] /\ token'[d] = token[d]
        BY <2>2, <4>1
      <4> QED
        BY <4>1, <4>2 DEF DeadInv
    <3>3. c \in deadOnArrival' =>
            pc'[c] = "401" \/ (pc'[c] = "verified" /\ owner'[token'[c]] \notin active')
      BY <2>2, <3>1 DEF Valid
    <3> QED
      BY <3>2, <3>3 DEF DeadInv
  <2>6. EndsAccounted'
    BY <2>1, <2>2 DEF EndsAccounted
  <2> QED
    BY <2>1, <2>3, <2>4, <2>5, <2>6 DEF IInv
<1>5. ASSUME NEW c \in Refreshers, RefreshUser(c) PROVE IInv'
  <2>1. CASE owner[token[c]] \notin active
    <3>1. Goto(c, "401") /\ pc[c] = "verified" /\ c \in Requests
      BY <1>5, <2>1 DEF RefreshUser, Requests
    <3> QED
      BY <1>5, <3>1, QuietStep DEF RefreshUser
  <2>2. CASE owner[token[c]] \in active
    <3> USE <1>0, <1>5, <2>2 DEF RefreshUser, tokenVars, Goto, Requests
    <3>1. TypeOK' /\ Minted' = Minted
      BY DEF TypeOK, Minted
    <3>2. pc'[c] = "blacklist" /\ \A d \in Requests \ {c} : pc'[d] = pc[d]
      BY DEF TypeOK
    <3>3. RequestInv'
      BY <3>1, <3>2 DEF RequestInv
    <3>4. ChainInv'
      BY <3>1 DEF ChainInv
    <3>5. DeadInv'
      BY <3>2 DEF DeadInv, TypeOK
    <3>6. EndsAccounted'
      BY <3>1, <3>2 DEF EndsAccounted
    <3> QED
      BY <3>1, <3>3, <3>4, <3>5, <3>6 DEF IInv
  <2> QED
    BY <2>1, <2>2
<1>6. ASSUME NEW c \in Refreshers, RefreshBlacklist(c) PROVE IInv'
  <2> USE <1>0, <1>6 DEF RefreshBlacklist, Goto, Requests
  <2>0. token[c] \in Minted /\ token[c] \in Tokens
    BY DEF RequestInv, Minted
  <2>1. TypeOK' /\ Minted' = Minted
    BY <2>0 DEF TypeOK, Minted
  <2>2. pc'[c] = "mint" /\ \A d \in Requests \ {c} : pc'[d] = pc[d]
    BY DEF TypeOK
  <2>3. RequestInv'
    BY <2>1, <2>2 DEF RequestInv
  <2>4. ChainInv'
    BY <2>1 DEF ChainInv
  <2>5. DeadInv'
    BY <2>2 DEF DeadInv, TypeOK
  <2>6. EndsAccounted'
    BY <2>1, <2>2 DEF EndsAccounted
  <2> QED
    BY <2>0, <2>1, <2>3, <2>4, <2>5, <2>6 DEF IInv
<1>7. ASSUME NEW c \in Refreshers, RefreshBlacklistFails(c) PROVE IInv'
  <2>1. c \in Requests /\ pc[c] = "blacklist" /\ c \notin deadOnArrival
    BY <1>0, <1>7 DEF RefreshBlacklistFails, Requests, DeadInv
  <2> QED
    BY <1>7, <2>1, QuietStep DEF RefreshBlacklistFails
<1>8. ASSUME NEW c \in Refreshers, NEW t \in Tokens, RefreshMint(c, t) PROVE IInv'
  <2> USE <1>0, <1>8 DEF RefreshMint, Goto, Requests
  <2>0. /\ token[c] \in Minted /\ token[c] \in Tokens /\ token[c] \in blacklist
        /\ owner[token[c]] \in Users
    BY DEF RequestInv, Minted, TypeOK
  <2>1. /\ Minted' = Minted \cup {t} /\ t \notin Minted
        /\ owner' \in [Tokens -> Users \cup {None}] /\ parent' \in [Tokens -> Tokens \cup {None}]
        /\ owner'[t] = owner[token[c]] /\ parent'[t] = token[c]
        /\ \A s \in Tokens \ {t} : owner'[s] = owner[s] /\ parent'[s] = parent[s]
    BY <2>0, MintFacts
  <2>2. TypeOK' /\ blacklist' \subseteq Minted'
    BY <2>1 DEF TypeOK
  <2>3. \A s \in Minted : s \in Tokens \ {t} /\ s \in Minted'
    BY <2>1 DEF Minted
  <2>4. pc'[c] = "200" /\ \A d \in Requests \ {c} : pc'[d] = pc[d]
    BY DEF TypeOK
  <2>5. RequestInv'
    BY <2>1, <2>3, <2>4 DEF RequestInv
  <2>6. ChainInv'
    <3>1. \A s \in Minted :
            parent'[s] # None =>
              parent'[s] \in Minted' /\ parent'[s] \in blacklist' /\ owner'[parent'[s]] = owner'[s]
      BY <2>1, <2>3 DEF ChainInv
    <3>2. parent'[t] \in Minted' /\ parent'[t] \in blacklist' /\ owner'[parent'[t]] = owner'[t]
      BY <2>0, <2>1, <2>3
    <3> QED
      BY <2>1, <3>1, <3>2 DEF ChainInv
  <2>7. DeadInv'
    BY <2>1, <2>3, <2>4 DEF DeadInv, RequestInv, TypeOK
  <2>8. EndsAccounted'
    BY <2>1, <2>3, <2>4 DEF EndsAccounted
  <2> QED
    BY <2>2, <2>5, <2>6, <2>7, <2>8 DEF IInv
<1>9. ASSUME NEW c \in Refreshers, RefreshMintFails(c) PROVE IInv'
  <2>1. c \in Requests /\ pc[c] = "mint" /\ c \notin deadOnArrival
    BY <1>0, <1>9 DEF RefreshMintFails, Requests, DeadInv
  <2> QED
    BY <1>9, <2>1, QuietStep DEF RefreshMintFails
<1>10. ASSUME NEW c \in Logouts, NEW t \in Tokens, NEW u \in Users, LogoutVerify(c, t, u) PROVE IInv'
  <2> USE <1>0, <1>10 DEF LogoutVerify, tokenVars, Goto, Requests
  <2>1. TypeOK' /\ Minted' = Minted
    BY DEF TypeOK, Minted
  <2>2. /\ pc'[c] = IF Valid(t) /\ owner[t] = u THEN "blacklist" ELSE "401"
        /\ token'[c] = t /\ caller'[c] = u
        /\ \A d \in Requests \ {c} : pc'[d] = pc[d] /\ token'[d] = token[d]
        /\ \A d \in Logouts \ {c} : caller'[d] = caller[d]
    BY DEF TypeOK
  <2>3. RequestInv'
    BY <2>1, <2>2 DEF RequestInv
  <2>4. ChainInv'
    BY <2>1 DEF ChainInv
  <2>5. DeadInv'
    <3>1. c \notin deadOnArrival
      BY DEF DeadInv
    <3> QED
      BY <2>2, <3>1 DEF DeadInv, TypeOK
  <2>6. EndsAccounted'
    BY <2>1, <2>2 DEF EndsAccounted
  <2> QED
    BY <2>1, <2>3, <2>4, <2>5, <2>6 DEF IInv
<1>11. ASSUME NEW c \in Logouts, LogoutBlacklist(c) PROVE IInv'
  <2> USE <1>0, <1>11 DEF LogoutBlacklist, Goto, Requests
  <2>0. token[c] \in Minted /\ token[c] \in Tokens /\ caller[c] = owner[token[c]]
    BY DEF RequestInv, Minted
  <2>1. TypeOK' /\ Minted' = Minted
    BY <2>0 DEF TypeOK, Minted
  <2>2. pc'[c] = "200" /\ \A d \in Requests \ {c} : pc'[d] = pc[d]
    BY DEF TypeOK
  <2>3. RequestInv'
    BY <2>1, <2>2 DEF RequestInv
  <2>4. ChainInv'
    BY <2>1 DEF ChainInv
  <2>5. DeadInv'
    BY <2>2 DEF DeadInv, TypeOK
  <2>6. EndsAccounted'
    BY <2>0, <2>1, <2>2 DEF EndsAccounted
  <2> QED
    BY <2>0, <2>1, <2>3, <2>4, <2>5, <2>6 DEF IInv
<1>12. ASSUME NEW c \in Logouts, LogoutBlacklistFails(c) PROVE IInv'
  <2>1. c \in Requests /\ pc[c] = "blacklist" /\ c \notin deadOnArrival
    BY <1>0, <1>12 DEF LogoutBlacklistFails, Requests, DeadInv
  <2> QED
    BY <1>12, <2>1, QuietStep DEF LogoutBlacklistFails
<1>13. CASE UNCHANGED vars
  BY <1>0, <1>13 DEF vars, tokenVars, IInv, TypeOK, RequestInv, ChainInv, DeadInv, EndsAccounted, Minted
<1> QED
  BY <1>1, <1>2, <1>3, <1>4, <1>5, <1>6, <1>7, <1>8, <1>9, <1>10, <1>11, <1>12, <1>13 DEF Next

LEMMA Invariance == Spec => []IInv
  BY InitInv, NextInv, PTL DEF Spec

-----------------------------------------------------------------------------
(* The type invariant.                                                     *)
THEOREM TypeCorrect == Spec => []TypeOK
<1>1. IInv => TypeOK
  BY DEF IInv
<1> QED
  BY <1>1, Invariance, PTL

(* token_refresh never leaves a token and its successor both good,         *)
(* whichever of its statements fails and whatever runs in between.         *)
THEOREM RotationRetiresOldToken == Spec => []NeverBothValid
<1>1. IInv => NeverBothValid
  BY DEF IInv, ChainInv, NeverBothValid
<1> QED
  BY <1>1, Invariance, PTL

(* A chain of rotations stays with the user who logged in.                 *)
THEOREM SessionKeepsOwner == Spec => []ChainKeepsOwner
<1>1. IInv => ChainKeepsOwner
  BY DEF IInv, ChainInv, ChainKeepsOwner
<1> QED
  BY <1>1, Invariance, PTL

(* token_refresh and logout grant nothing for a token that was dead, or    *)
(* whose user was disabled, when they verified it.                         *)
THEOREM DeadTokensStayDead == Spec => []DeadTokenMintsNothing
<1>1. IInv => DeadTokenMintsNothing
  BY DEF IInv, DeadInv, DeadTokenMintsNothing
<1> QED
  BY <1>1, Invariance, PTL

(* A token that token_refresh or logout blacklisted has a successor, is    *)
(* about to have one, or is an end that its owner or the client was told.  *)
THEOREM SessionEndsAccounted == Spec => []EndsAccounted
<1>1. IInv => EndsAccounted
  BY DEF IInv
<1> QED
  BY <1>1, Invariance, PTL

(* A session is its user's from login to its end, and its end is the       *)
(* user's doing or an error the client saw.                                *)
THEOREM SessionsAreOwned == Spec => []SessionsOwned
  BY SessionKeepsOwner, SessionEndsAccounted, PTL DEF SessionsOwned
=============================================================================
