-------------------------- MODULE ApiKeyCreation ---------------------------
(***************************************************************************)
(* APIKey.create_key of apps/accounts/models.py, called concurrently on    *)
(* one PostgreSQL table at READ COMMITTED: by code in autocommit mode and  *)
(* by the admin's add view, which runs inside a transaction.  A step is    *)
(* one statement, or the end of a transaction.  Each call makes one key,   *)
(* and the row is named after the call.                                    *)
(***************************************************************************)
EXTENDS Naturals

CONSTANTS
  Creators,   \* calls of create_key(), one row each
  InAdmin,    \* those made by the admin's add view, inside its transaction
  Prefixes,   \* what token_urlsafe(32)[:8] may give
  MaxTries,   \* the range of create_key's loop (3)
  NoPrefix

ASSUME ApiKeyCreationAssumption ==
  /\ InAdmin \subseteq Creators
  /\ MaxTries \in Nat \ {0}
  /\ NoPrefix \notin Prefixes

VARIABLES
  stored,     \* stored[c]: the prefix of the row that c has inserted, or NoPrefix
  committed,  \* the calls whose row other sessions see
  cst,        \* cst[c]: where the call stands, or how it ended
  prefix,     \* prefix[c]: raw_key[:8] of the current attempt
  tries,      \* tries[c]: attempts made
  broken      \* the admin transactions in which a statement has failed

creationVars == <<stored, committed, cst, prefix, tries, broken>>

Failures == {"generation_error", "validation_error", "transaction_error", "rolled_back"}

CreationInit ==
  /\ stored = [c \in Creators |-> NoPrefix]
  /\ committed = {}
  /\ cst = [c \in Creators |-> "idle"]
  /\ prefix = [c \in Creators |-> NoPrefix]
  /\ tries = [c \in Creators |-> 0]
  /\ broken = {}

Move(c, from, to) == cst[c] = from /\ cst' = [cst EXCEPT ![c] = to]

Taken(p, S) == \E c \in S : stored[c] = p

-----------------------------------------------------------------------------
(* A turn of the loop: a new raw key. *)
Generate(c, p) ==
  /\ Move(c, "idle", "clean") \/ Move(c, "retry", "clean")
  /\ tries[c] < MaxTries
  /\ tries' = [tries EXCEPT ![c] = @ + 1]
  /\ prefix' = [prefix EXCEPT ![c] = p]
  /\ UNCHANGED <<stored, committed, broken>>

(* The loop is over: raise APIKeyGenerationError. *)
GiveUp(c) ==
  /\ Move(c, "retry", "generation_error")
  /\ tries[c] = MaxTries
  /\ UNCHANGED <<stored, committed, prefix, tries, broken>>

(* BaseModel.save calls full_clean first: its uniqueness query raises      *)
(* ValidationError, which create_key does not catch; in a transaction that *)
(* an IntegrityError has broken any query raises.                          *)
FullClean(c) ==
  /\ Move(c, "clean", IF c \in broken THEN "transaction_error"
                      ELSE IF Taken(prefix[c], committed) THEN "validation_error"
                      ELSE "insert")
  /\ UNCHANGED <<stored, committed, prefix, tries, broken>>

Store(c) ==
  /\ stored' = [stored EXCEPT ![c] = prefix[c]]
  /\ IF c \in InAdmin
     THEN Move(c, "insert", "pending") /\ committed' = committed
     ELSE Move(c, "insert", "created") /\ committed' = committed \cup {c}
  /\ UNCHANGED <<prefix, tries, broken>>

(* INSERT waits for an uncommitted row with the same unique prefix. *)
Insert(c) == ~Taken(prefix[c], Creators) /\ Store(c)

MutantInsertCollides(c) ==   \* saves the same object once more, without validation
  /\ Move(c, "insert", "insert")
  /\ Taken(prefix[c], committed)
  /\ UNCHANGED <<stored, committed, prefix, tries, broken>>

(* except IntegrityError: continue.  No savepoint protects a transaction.  *)
InsertCollides(c) ==
  /\ Move(c, "insert", "retry")
  /\ Taken(prefix[c], committed)
  /\ broken' = IF c \in InAdmin THEN broken \cup {c} ELSE broken
  /\ UNCHANGED <<stored, committed, prefix, tries>>

(* The add view ends: its transaction commits, or rolls back. *)
AdminAddCommits(c) ==
  /\ Move(c, "pending", "created")
  /\ committed' = committed \cup {c}
  /\ UNCHANGED <<stored, prefix, tries, broken>>

MutantAdminAddRollsBack(c) ==   \* the key is committed in a transaction of its own
  /\ Move(c, "pending", "rolled_back")
  /\ committed' = committed \cup {c}
  /\ UNCHANGED <<stored, prefix, tries, broken>>

AdminAddRollsBack(c) ==
  /\ Move(c, "pending", "rolled_back")
  /\ stored' = [stored EXCEPT ![c] = NoPrefix]
  /\ UNCHANGED <<committed, prefix, tries, broken>>

CreateKey(c) ==
  \/ \E p \in Prefixes : Generate(c, p)
  \/ GiveUp(c)
  \/ FullClean(c)
  \/ Insert(c)
  \/ InsertCollides(c)
  \/ AdminAddCommits(c)
  \/ AdminAddRollsBack(c)

CreationNext == \E c \in Creators : CreateKey(c)

(* A call that is made runs to its end. *)
CreationSpec == CreationInit /\ [][CreationNext]_creationVars /\ \A c \in Creators : WF_creationVars(CreateKey(c))

-----------------------------------------------------------------------------
(* Properties.                                                             *)

(* Two keys never share the eight characters by which authentication looks *)
(* a key up, however the checks and the inserts of two calls interleave.   *)
PrefixUnique ==
  \A c, d \in Creators : c # d /\ stored[c] # NoPrefix => stored[c] # stored[d]

(* The caller holds a raw key exactly if the row is there for everybody,   *)
(* under that key's prefix, which no other key has: no error leaves a row  *)
(* behind, and authentication never finds somebody else's key.             *)
CreationAllOrNothing ==
  /\ PrefixUnique
  /\ \A c \in Creators :
       /\ cst[c] = "created" <=> c \in committed
       /\ cst[c] = "created" => stored[c] = prefix[c]
       /\ cst[c] \in Failures => stored[c] = NoPrefix

(* create_key ends: with a key, or with an error.                          *)
CreationEnds ==
  \A c \in Creators : (cst[c] # "idle") ~> (cst[c] \in Failures \cup {"created"})
=============================================================================
