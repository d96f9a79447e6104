------------------------------ MODULE MCApiKeys ------------------------------
(* The keys of ApiKeys have been created before: a behaviour is about the creation of  *)
(* keys or about the life of one, and the other module rests.                          *)
EXTENDS ApiKeys, ApiKeyCreation

VARIABLE part
mcVars == <<part, vars, creationVars>>

MCInit == part \in {"creation", "life"} /\ Init /\ CreationInit

Creating(A) == part = "creation" /\ A /\ UNCHANGED <<part, vars>>

MCNext ==
    \/ Creating(CreationNext)
    \/ part = "life" /\ Next /\ UNCHANGED <<part, creationVars>>

MCSpec == MCInit /\ [][MCNext]_mcVars /\ \A c \in Creators : WF_mcVars(Creating(CreateKey(c)))
==============================================================================
