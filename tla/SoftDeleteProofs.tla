-------------------------- MODULE SoftDeleteProofs --------------------------
(***************************************************************************)
(* Proofs about SoftDelete, for any rows and foreign keys, any cap and any *)
(* number of deletes and updates at once.                                  *)
(***************************************************************************)
EXTENDS SoftDelete, FiniteSetTheorems, WellFoundedInduction, TLAPS

Known   == exists \cup gone
Places(d) == 1..Len(frontier[d])
RowAt(d, i)   == frontier[d][i][1]
DepthAt(d, i) == frontier[d][i][2]
InFrontier(d, p) == \E i \in Places(d) : RowAt(d, i) = p

(* A row lock belongs to a delete that has deactivated the row and not     *)
(* committed, or to an update that has read it and not saved; what it has  *)
(* read is then still so.                                                  *)
LockInv ==
  /\ \A x \in Rows, d \in Deleters : lock[x] = d <=> Live(d) /\ x \in dirty[d]
  /\ \A x \in Rows, u \in Updaters : lock[x] = u <=> Locked(u) /\ x = root[u]
  /\ \A u \in Updaters :
       Locked(u) => root[u] \in exists /\ (pc[u] = "locked" <=> root[u] \in active)
  /\ \A d \in Deleters : Live(d) => dirty[d] \subseteq exists

(* The rows there are or were: a row enters below rows that exist, and     *)
(* what a delete has met is among them.                                    *)
KnownInv ==
  /\ gone \cap exists = {}
  /\ Rows \ Spare \subseteq Known
  /\ \A e \in Edges : e[2] \in Known => e[1] \in Known
  /\ \A d \in Deleters :
       /\ reach[d] \cup dirty[d] \cup children[d] \subseteq Known
       /\ \A i \in Places(d) : RowAt(d, i) \in Known

(* Who deactivated the rows that are inactive, and what updated_by says.   *)
TraceInv ==
  /\ \A x \in Rows, a \in Calls : by[x] = a => pc[a] = "done"
  /\ \A d \in Deleters : pc[d] = "done" => dirty[d] \cap active = {} /\ frontier[d] = <<>>
  /\ \A x \in exists \ active :
       \E d \in Deleters :
         /\ pc[d] = "done" /\ x \in dirty[d]
         /\ by[x] = d \/ \E u \in Updaters : by[x] = u /\ root[u] = x

(* The deque of a running cascade: nearer rows first, at most two depths   *)
(* at a time, each row deactivated by d or by somebody else; and what the  *)
(* UPDATE will hit beyond the listed children was created since.           *)
FrontierInv(d) ==
  Live(d) =>
    /\ \A i \in Places(d) :
         DepthAt(d, i) <= MaxDepth /\ (RowAt(d, i) \in dirty[d] \/ RowAt(d, i) \notin active)
    /\ \A i, j \in Places(d) :
         i <= j => DepthAt(d, i) <= DepthAt(d, j) /\ DepthAt(d, j) <= DepthAt(d, i) + 1
    /\ pc[d] = "update" =>
         /\ frontier[d] # <<>> /\ DepthAt(d, 1) < MaxDepth
         /\ \A c \in children[d] : <<RowAt(d, 1), c>> \in Edges
         /\ \A c \in ActiveChildren(d, RowAt(d, 1)) \ children[d] :
              c \in Spare /\ Descendants[c] \cap reach[d] = {}

(* A row that d deactivated has no active child that d does not deal with, *)
(* unless d stopped there or the child came later.                         *)
ClosedInv(d) ==
  Live(d) \/ pc[d] = "done" =>
    \A p \in dirty[d], y \in active \ dirty[d] :
      <<p, y>> \in Edges => p \in capped[d] \/ InFrontier(d, p) \/ y \in Spare

(* The rows that delete d owes.                                            *)
Unsettled(d) ==
  {y \in (reach[d] \cap active) \ dirty[d] : ~ \E o \in Deleters \ {d} : Hides(o, y)}

(* Below with the active rows as a parameter.                              *)
Step(A, V) == V \cup {y \in A : \E z \in V : <<z, y>> \in Edges}

IsLevels(f, A, x, n) == f = [k \in 0..n |-> IF k = 0 THEN {x} ELSE Step(A, f[k - 1])]

BelowIn(A, x, n) == (CHOOSE f : IsLevels(f, A, x, n))[n]

(* Each of them is below a row in the deque, near enough; and the way to   *)
(* it from a row that has been dealt with is longer than from the deque.   *)
PendingInv(d) ==
  Live(d) =>
    /\ \A y \in Unsettled(d) :
         \E i \in Places(d) : y \in BelowIn(active, RowAt(d, i), MaxDepth - DepthAt(d, i))
    /\ frontier[d] # <<>> =>
         \A c \in dirty[d], m \in 1..(MaxDepth - DepthAt(d, 1)), y \in Unsettled(d) :
           y \in BelowIn(active, c, m) =>
             InFrontier(d, c) \/ \E i \in Places(d) : y \in BelowIn(active, RowAt(d, i), m - 1)

(* What d deactivates, or still may, was below its root or came later.     *)
ReachInv(d) ==
  /\ dirty[d] \subseteq reach[d] \cup Spare
  /\ Live(d) => \A i \in Places(d) :
       BelowIn(active, RowAt(d, i), MaxDepth - DepthAt(d, i)) \subseteq reach[d] \cup Spare
  /\ pc[d] = "update" => \A c \in children[d] :
       BelowIn(active, c, MaxDepth - DepthAt(d, 1) - 1) \subseteq reach[d] \cup Spare

RowsInv == TypeOK /\ LockInv /\ KnownInv /\ TraceInv

(* The part of CascadeComplete that is about d.                            *)
CompleteInv(d) ==
  pc[d] = "done" => \A y \in reach[d] \cap active : \E o \in Deleters \ {d} : Hides(o, y)

DeleteInv(d) ==
  FrontierInv(d) /\ ClosedInv(d) /\ PendingInv(d) /\ ReachInv(d) /\ CompleteInv(d)

CascadeInv == RowsInv /\ \A d \in Deleters : DeleteInv(d)

-----------------------------------------------------------------------------
(* Induction on the naturals, stated with a set.                           *)

LEMMA NatSetInduction ==
  ASSUME NEW S, 0 \in S, \A n \in Nat : n \in S => n + 1 \in S
  PROVE  \A n \in Nat : n \in S
<1> DEFINE R == OpToRel(<, Nat)
           T == Nat \ S
<1>1. ASSUME T # {} PROVE FALSE
  <2>1. IsWellFoundedOn(R, Nat)
    BY NatLessThanWellFounded, Zenon
  <2> HIDE DEF R
  <2>2. \E x \in T : \A y \in T : ~ (<<y, x>> \in R)
    BY <1>1, <2>1, WFMin
  <2>3. PICK x \in T : \A y \in T : ~ (<<y, x>> \in R)
    BY <2>2
  <2>4. x \in Nat /\ x # 0 /\ x - 1 \in Nat /\ x = (x - 1) + 1
    BY <2>3
  <2>5. x - 1 \in T
    BY <2>4, <2>3
  <2>6. <<x - 1, x>> \in R
    BY <2>4 DEF R, OpToRel
  <2> QED
    BY <2>3, <2>5, <2>6
<1> QED
  BY <1>1

(* SetToSeq lists the members of a finite set.                             *)
LEMMA SetToSeqRange ==
  ASSUME NEW S, IsFiniteSet(S)
  PROVE  /\ SetToSeq(S) \in Seq(S)
         /\ \A x \in S : \E i \in 1..Len(SetToSeq(S)) : SetToSeq(S)[i] = x
         /\ Len(SetToSeq(S)) = Cardinality(S)
<1> DEFINE n == Cardinality(S)
           g == SetToSeq(S)
<1>1. n \in Nat /\ ExistsBijection(1..n, S)
  BY FS_CardinalityType
<1>2. \E f \in [1..n -> S] : IsInjective(f)
  BY <1>1 DEF ExistsBijection, Bijection, Injection
<1>3. g \in [1..n -> S] /\ IsInjective(g)
  BY <1>2 DEF SetToSeq
<1> HIDE DEF g
<1>4. IsFiniteSet(1..n) /\ Cardinality(1..n) = n
  BY <1>1, FS_Interval
<1>5. g \in Surjection(1..n, S)
  BY <1>3, <1>4, FS_Injection DEF Injection
<1>6. g \in Seq(S) /\ Len(g) = n
  BY <1>1, <1>3
<1> QED
  BY <1>5, <1>6 DEF Surjection, g

-----------------------------------------------------------------------------
(* What is below a row.                                                    *)

LEMMA LevelsExist ==
  ASSUME NEW A, NEW x
  PROVE  \A n \in Nat : \E f : IsLevels(f, A, x, n)
<1> DEFINE S == {n \in Nat : \E f : IsLevels(f, A, x, n)}
<1>1. 0 \in S
  <2>1. IsLevels([k \in 0..0 |-> {x}], A, x, 0)
    BY DEF IsLevels
  <2> QED
    BY <2>1
<1>2. ASSUME NEW n \in Nat, n \in S PROVE n + 1 \in S
  <2>1. PICK f : IsLevels(f, A, x, n)
    BY <1>2
  <2> DEFINE g == [k \in 0..(n + 1) |-> IF k <= n THEN f[k] ELSE Step(A, f[n])]
  <2>2. \A k \in 0..(n + 1) : g[k] = IF k = 0 THEN {x} ELSE Step(A, g[k - 1])
    <3>1. \A k \in 0..n : f[k] = IF k = 0 THEN {x} ELSE Step(A, f[k - 1])
      BY <2>1 DEF IsLevels
    <3>2. /\ \A k \in 0..n : g[k] = f[k]
          /\ g[n + 1] = Step(A, f[n]) /\ n \in 0..n
      OBVIOUS
    <3> HIDE DEF g
    <3>3. ASSUME NEW k \in 0..n PROVE g[k] = IF k = 0 THEN {x} ELSE Step(A, g[k - 1])
      BY <3>1, <3>2
    <3>4. g[n + 1] = Step(A, g[n]) /\ (n + 1) - 1 = n /\ n + 1 # 0
      BY <3>2
    <3> QED
      BY <3>3, <3>4
  <2>3. IsLevels(g, A, x, n + 1)
    BY <2>2 DEF IsLevels
  <2> QED
    BY <2>3
<1> HIDE DEF S
<1>3. \A n \in Nat : n \in S
  BY <1>1, <1>2, NatSetInduction
<1> QED
  BY <1>3 DEF S

LEMMA LevelsUnique ==
  ASSUME NEW A, NEW x, NEW n \in Nat, NEW m \in Nat, n <= m, NEW f, NEW g,
         IsLevels(f, A, x, n), IsLevels(g, A, x, m)
  PROVE  \A k \in 0..n : f[k] = g[k]
<1> DEFINE S == {k \in Nat : k <= n => f[k] = g[k]}
<1>1. /\ \A k \in 0..n : f[k] = IF k = 0 THEN {x} ELSE Step(A, f[k - 1])
      /\ \A k \in 0..m : g[k] = IF k = 0 THEN {x} ELSE Step(A, g[k - 1])
  BY DEF IsLevels
<1>2. 0 \in S
  BY <1>1
<1>3. ASSUME NEW k \in Nat, k \in S PROVE k + 1 \in S
  BY <1>1, <1>3
<1> HIDE DEF S
<1>4. \A k \in Nat : k \in S
  BY <1>2, <1>3, NatSetInduction
<1> QED
  BY <1>4 DEF S

LEMMA BelowUnfold ==
  ASSUME NEW A, NEW x
  PROVE  /\ BelowIn(A, x, 0) = {x}
         /\ \A n \in Nat : BelowIn(A, x, n + 1) = Step(A, BelowIn(A, x, n))
<1> DEFINE L(n) == CHOOSE f : IsLevels(f, A, x, n)
<1>1. \A n \in Nat : IsLevels(L(n), A, x, n)
  BY LevelsExist
<1> HIDE DEF L
<1>2. \A n \in Nat : BelowIn(A, x, n) = L(n)[n]
  BY DEF L, BelowIn
<1>3. BelowIn(A, x, 0) = {x}
  BY <1>1, <1>2 DEF IsLevels
<1>4. ASSUME NEW n \in Nat PROVE BelowIn(A, x, n + 1) = Step(A, BelowIn(A, x, n))
  <2>1. IsLevels(L(n), A, x, n) /\ IsLevels(L(n + 1), A, x, n + 1)
    BY <1>1
  <2>2. L(n)[n] = L(n + 1)[n]
    BY <2>1, LevelsUnique
  <2>3. L(n + 1)[n + 1] = Step(A, L(n + 1)[n])
    BY <2>1 DEF IsLevels
  <2> QED
    BY <1>2, <2>2, <2>3
<1> QED
  BY <1>3, <1>4

LEMMA BelowNext ==
  \A A, x : \A n \in Nat : BelowIn(A, x, n + 1) = Step(A, BelowIn(A, x, n))
  BY BelowUnfold, Zenon

LEMMA BelowIsIn ==
  ASSUME NEW x, NEW n
  PROVE  Below(x, n) = BelowIn(active, x, n)
  BY DEF Below, BelowIn, IsLevels, Step

LEMMA DescendantsIsIn ==
  ASSUME NEW x \in Rows
  PROVE  Descendants[x] = BelowIn(Rows, x, Cardinality(Rows))
  BY DEF Descendants, BelowIn, IsLevels, Step

(* Levels grow with the depth.                                             *)
LEMMA BelowGrows ==
  ASSUME NEW A, NEW x, NEW m \in Nat, NEW n \in Nat, m <= n
  PROVE  BelowIn(A, x, m) \subseteq BelowIn(A, x, n) /\ x \in BelowIn(A, x, n)
<1> DEFINE B(k) == BelowIn(A, x, k)
           S == {k \in Nat : x \in B(k) /\ B(m) \subseteq B(m + k)}
<1>1. B(0) = {x} /\ \A k \in Nat : B(k + 1) = Step(A, B(k))
  BY BelowUnfold
<1>2. \A k \in Nat : B(k) \subseteq B(k + 1)
  BY <1>1 DEF Step
<1> HIDE DEF B
<1>3. 0 \in S
  BY <1>1
<1>4. ASSUME NEW k \in Nat, k \in S PROVE k + 1 \in S
  <2>1. B(m + k) \subseteq B((m + k) + 1) /\ (m + k) + 1 = m + (k + 1)
    BY <1>2
  <2> QED
    BY <1>2, <1>4, <2>1
<1> HIDE DEF S
<1>5. \A k \in Nat : k \in S
  BY <1>3, <1>4, NatSetInduction
<1>6. n \in S /\ n - m \in S /\ m + (n - m) = n
  BY <1>5
<1> QED
  BY <1>6 DEF S, B

(* The levels stay inside every set that holds the row and is closed.      *)
LEMMA BelowInside ==
  ASSUME NEW A, NEW x, NEW V, x \in V,
         \A z \in V, y \in A : <<z, y>> \in Edges => y \in V
  PROVE  \A n \in Nat : BelowIn(A, x, n) \subseteq V
<1> DEFINE S == {n \in Nat : BelowIn(A, x, n) \subseteq V}
<1>1. 0 \in S
  BY BelowUnfold
<1>2. ASSUME NEW n \in Nat, n \in S PROVE n + 1 \in S
  <2> DEFINE b == BelowIn(A, x, n)
  <2>1. BelowIn(A, x, n + 1) = Step(A, b) /\ b \subseteq V
    BY <1>2, BelowNext, Zenon
  <2> HIDE DEF b
  <2>2. Step(A, b) \subseteq V
    BY <2>1 DEF Step
  <2> QED
    BY <2>1, <2>2
<1> HIDE DEF S
<1>3. \A n \in Nat : n \in S
  BY <1>1, <1>2, NatSetInduction
<1> QED
  BY <1>3 DEF S

(* Two sets of active rows that differ inside E only, where E holds what   *)
(* is below it, have the same levels up to E.                              *)
LEMMA BelowCompare ==
  ASSUME NEW A, NEW B, NEW E, NEW x,
         \A y \in A : y \in B \cup E /\ \A z \in E : <<z, y>> \in Edges => y \in E
  PROVE  \A n \in Nat : BelowIn(A, x, n) \subseteq BelowIn(B, x, n) \cup E
<1> DEFINE S == {n \in Nat : BelowIn(A, x, n) \subseteq BelowIn(B, x, n) \cup E}
<1>1. 0 \in S
  BY BelowUnfold
<1>2. ASSUME NEW n \in Nat, n \in S PROVE n + 1 \in S
  <2>1. /\ BelowIn(A, x, n + 1) = Step(A, BelowIn(A, x, n))
        /\ BelowIn(B, x, n + 1) = Step(B, BelowIn(B, x, n))
    BY BelowNext, Zenon
  <2> DEFINE a == BelowIn(A, x, n)
             b == BelowIn(B, x, n)
  <2>2. a \subseteq b \cup E
    BY <1>2
  <2> HIDE DEF a, b
  <2>3. Step(A, a) \subseteq Step(B, b) \cup E
    <3>1. ASSUME NEW y \in A, NEW z \in a, <<z, y>> \in Edges PROVE y \in Step(B, b) \cup E
      BY <2>2, <3>1 DEF Step
    <3> QED
      BY <2>2, <3>1 DEF Step
  <2> QED
    BY <2>1, <2>3 DEF a, b
<1> HIDE DEF S
<1>3. \A n \in Nat : n \in S
  BY <1>1, <1>2, NatSetInduction
<1> QED
  BY <1>3 DEF S

(* A level counted from a child is in the next one counted from the row.   *)
LEMMA BelowChild ==
  ASSUME NEW A, NEW x, NEW c \in A, <<x, c>> \in Edges
  PROVE  \A n \in Nat : BelowIn(A, c, n) \subseteq BelowIn(A, x, n + 1)
<1> DEFINE S == {n \in Nat : BelowIn(A, c, n) \subseteq BelowIn(A, x, n + 1)}
<1>1. 0 \in S
  <2>1. BelowIn(A, c, 0) = {c} /\ BelowIn(A, x, 0) = {x} /\ BelowIn(A, x, 0 + 1) = Step(A, BelowIn(A, x, 0))
    BY BelowUnfold
  <2> QED
    BY <2>1 DEF Step
<1>2. ASSUME NEW n \in Nat, n \in S PROVE n + 1 \in S
  <2>1. /\ BelowIn(A, c, n + 1) = Step(A, BelowIn(A, c, n))
        /\ BelowIn(A, x, (n + 1) + 1) = Step(A, BelowIn(A, x, n + 1))
    <3>1. n + 1 \in Nat
      OBVIOUS
    <3> QED
      BY <3>1, BelowNext, Zenon
  <2> QED
    BY <1>2, <2>1 DEF Step
<1> HIDE DEF S
<1>3. \A n \in Nat : n \in S
  BY <1>1, <1>2, NatSetInduction
<1> QED
  BY <1>3 DEF S

(* The way down from a row starts with one of its children.                *)
LEMMA BelowFirst ==
  ASSUME NEW A, NEW x
  PROVE  \A n \in Nat : \A y : y \in BelowIn(A, x, n + 1) =>
           y = x \/ \E c \in A : <<x, c>> \in Edges /\ y \in BelowIn(A, c, n)
<1> DEFINE P(n, y) == y = x \/ \E c \in A : <<x, c>> \in Edges /\ y \in BelowIn(A, c, n)
           S == {n \in Nat : \A y \in BelowIn(A, x, n + 1) : P(n, y)}
<1>1. 0 \in S
  <2>1. BelowIn(A, x, 0) = {x} /\ BelowIn(A, x, 0 + 1) = Step(A, BelowIn(A, x, 0)) /\ \A c : BelowIn(A, c, 0) = {c}
    BY BelowUnfold
  <2> QED
    BY <2>1 DEF Step
<1>2. ASSUME NEW n \in Nat, n \in S PROVE n + 1 \in S
  <2> SUFFICES ASSUME NEW y \in BelowIn(A, x, (n + 1) + 1) PROVE P(n + 1, y)
    OBVIOUS
  <2>1. BelowIn(A, x, (n + 1) + 1) = Step(A, BelowIn(A, x, n + 1))
    <3>1. n + 1 \in Nat
      OBVIOUS
    <3> QED
      BY <3>1, BelowNext, Zenon
  <2>2. \A c : BelowIn(A, c, n + 1) = Step(A, BelowIn(A, c, n))
    BY BelowNext, Zenon
  <2>3. CASE y \in BelowIn(A, x, n + 1)
    BY <1>2, <2>2, <2>3 DEF Step
  <2>4. CASE y \in A /\ \E z \in BelowIn(A, x, n + 1) : <<z, y>> \in Edges
    <3>1. PICK z \in BelowIn(A, x, n + 1) : <<z, y>> \in Edges
      BY <2>4
    <3>2. CASE z = x
      BY <2>4, <3>1, <3>2, BelowGrows
    <3>3. ASSUME NEW c \in A, <<x, c>> \in Edges, z \in BelowIn(A, c, n) PROVE P(n + 1, y)
      <4>1. y \in Step(A, BelowIn(A, c, n))
        BY <2>4, <3>1, <3>3 DEF Step
      <4> QED
        BY <2>2, <3>3, <4>1
    <3> QED
      BY <1>2, <3>2, <3>3
  <2> QED
    BY <2>1, <2>3, <2>4 DEF Step
<1> HIDE DEF S
<1>3. \A n \in Nat : n \in S
  BY <1>1, <1>2, NatSetInduction
<1> QED
  BY <1>3 DEF S

(* The rows below a row along any foreign keys: itself, and with each row  *)
(* its children.  That Cardinality(Rows) rounds are enough is a counting   *)
(* argument: until a round adds nothing, each one adds a row.              *)
LEMMA DescendantsClosed ==
  ASSUME NEW x \in Rows
  PROVE  /\ x \in Descendants[x] /\ Descendants[x] \subseteq Rows
         /\ \A z \in Descendants[x] : \A y : <<z, y>> \in Edges => y \in Descendants[x]
<1> DEFINE B(k) == BelowIn(Rows, x, k)
           N == Cardinality(Rows)
           S == {k \in Nat : B(k + 1) = B(k) \/ Cardinality(B(k)) >= k + 1}
<1>1. IsFiniteSet(Rows) /\ Edges \subseteq Rows \X Rows
  BY SoftDeleteAssumption
<1>2. N \in Nat
  BY <1>1, FS_CardinalityType
<1>3. B(0) = {x} /\ \A k \in Nat : B(k + 1) = Step(Rows, B(k))
  BY BelowUnfold
<1>4. \A k \in Nat : B(k) \subseteq Rows
  BY BelowInside
<1>5. Descendants[x] = B(N)
  BY DescendantsIsIn
<1>6. \A k \in Nat : x \in B(k)
  BY BelowGrows
<1> HIDE DEF B, N
<1>7. \A k \in Nat : B(k) \subseteq B(k + 1)
  BY <1>3 DEF Step
<1>8. \A k \in Nat : IsFiniteSet(B(k)) /\ Cardinality(B(k)) \in Nat /\ Cardinality(B(k)) <= N
  BY <1>1, <1>4, FS_Subset, FS_CardinalityType DEF N
<1>9. 0 \in S
  <2>1. Cardinality({x}) = 1
    BY FS_Singleton, Zenon
  <2> QED
    BY <1>3, <2>1
<1>10. ASSUME NEW k \in Nat, k \in S PROVE k + 1 \in S
  <2>0. k + 1 \in Nat
    OBVIOUS
  <2>1. B((k + 1) + 1) = Step(Rows, B(k + 1)) /\ B(k + 1) = Step(Rows, B(k))
    BY <1>3, <2>0, Zenon
  <2>2. CASE B(k + 1) = B(k)
    BY <2>1, <2>2
  <2>3. CASE B(k + 1) # B(k) /\ Cardinality(B(k)) >= k + 1
    <3>1. Cardinality(B(k)) # Cardinality(B(k + 1)) /\ Cardinality(B(k)) <= Cardinality(B(k + 1))
      BY <1>7, <1>8, <2>0, <2>3, FS_Subset
    <3>2. Cardinality(B(k)) \in Nat /\ Cardinality(B(k + 1)) \in Nat
      BY <1>8, <2>0
    <3> QED
      BY <2>3, <3>1, <3>2
  <2> QED
    BY <1>10, <2>2, <2>3
<1> HIDE DEF S
<1>11. N \in S
  BY <1>2, <1>9, <1>10, NatSetInduction
<1>12. B(N + 1) = B(N)
  BY <1>2, <1>8, <1>11 DEF S
<1>13. ASSUME NEW z \in B(N), NEW y, <<z, y>> \in Edges PROVE y \in B(N)
  <2>1. y \in Rows
    BY <1>1, <1>13
  <2>2. y \in Step(Rows, B(N))
    BY <1>13, <2>1 DEF Step
  <2> QED
    BY <1>2, <1>3, <1>12, <2>2
<1> QED
  BY <1>2, <1>4, <1>5, <1>6, <1>13

(* A row that is not in a set with its members' parents is above none of   *)
(* its members.                                                            *)
LEMMA DescendantsAvoid ==
  ASSUME NEW x \in Rows, NEW K, x \notin K, \A e \in Edges : e[2] \in K => e[1] \in K
  PROVE  Descendants[x] \cap K = {}
<1> DEFINE V == Rows \ K
<1>1. \A z \in V, y \in Rows : <<z, y>> \in Edges => y \in V
  OBVIOUS
<1>2. Cardinality(Rows) \in Nat
  BY SoftDeleteAssumption, FS_CardinalityType
<1> HIDE DEF V
<1>3. x \in V
  BY DEF V
<1>4. BelowIn(Rows, x, Cardinality(Rows)) \subseteq V
  BY <1>1, <1>2, <1>3, BelowInside
<1> QED
  BY <1>4, DescendantsIsIn DEF V

(* What is below a row at some level is among its descendants.             *)
LEMMA BelowDescends ==
  ASSUME NEW x \in Rows, NEW A \in SUBSET Rows, NEW n \in Nat
  PROVE  BelowIn(A, x, n) \subseteq Descendants[x]
<1>1. x \in Descendants[x] /\ \A z \in Descendants[x], y \in A : <<z, y>> \in Edges => y \in Descendants[x]
  BY DescendantsClosed
<1> QED
  BY <1>1, BelowInside

-----------------------------------------------------------------------------
(* The first state.                                                        *)

LEMMA CascadeInit == Init => CascadeInv
<1> SUFFICES ASSUME Init PROVE CascadeInv
  OBVIOUS
<1> USE SoftDeleteAssumption DEF Init
<1>1. TypeOK
  <2>1. <<>> \in Seq(Rows \X Nat)
    OBVIOUS
  <2> QED
    BY <2>1 DEF TypeOK, Calls
<1>2. LockInv
  BY DEF LockInv, Live, Locked, Calls
<1>3. KnownInv
  BY DEF KnownInv, Known, Places
<1>4. TraceInv
  BY DEF TraceInv, Calls
<1>5. \A d \in Deleters : pc[d] = "idle" /\ dirty[d] = {}
  BY DEF Calls
<1>6. \A d \in Deleters : DeleteInv(d)
  BY <1>5 DEF DeleteInv, FrontierInv, ClosedInv, PendingInv, ReachInv, CompleteInv, Live
<1> QED
  BY <1>1, <1>2, <1>3, <1>4, <1>6 DEF CascadeInv, RowsInv

-----------------------------------------------------------------------------
(* What the steps of updates, creates and hard deletes do to the rows.     *)

LEMMA UpdateLockRows ==
  ASSUME RowsInv, NEW u \in Updaters, NEW x \in Rows, UpdateLock(u, x) \/ RepositoryLock(u, x)
  PROVE  RowsInv'
<1> USE SoftDeleteAssumption DEF RowsInv
<1>1. /\ pc[u] = "idle" /\ x \in exists /\ lock[x] = None
      /\ root' = [root EXCEPT ![u] = x]
      /\ UNCHANGED <<exists, gone, active, by, frontier, children, dirty, capped, reach>>
  BY DEF UpdateLock, RepositoryLock, rowVars
<1>2. \/ x \in active /\ lock' = [lock EXCEPT ![x] = u] /\ pc' = [pc EXCEPT ![u] = "locked"]
      \/ x \notin active /\ lock' = [lock EXCEPT ![x] = u] /\ pc' = [pc EXCEPT ![u] = "lockedInactive"]
      \/ x \notin active /\ lock' = lock /\ pc' = [pc EXCEPT ![u] = "missing"]
  BY <1>1 DEF UpdateLock, RepositoryLock, TypeOK
<1>3. TypeOK'
  <2>1. root' \in [Calls -> Rows \cup {None}] /\ u \in Calls
    BY <1>1 DEF TypeOK, Calls
  <2>2. pc' \in [Calls -> {"idle", "list", "update", "locked", "lockedInactive", "done", "missing", "failed"}]
    BY <1>2, <2>1 DEF TypeOK
  <2>3. lock' \in [Rows -> Calls \cup {None}]
    <3>1. lock \in [Rows -> Calls \cup {None}]
      BY DEF TypeOK
    <3>2. lock' = lock \/ lock' = [lock EXCEPT ![x] = u]
      BY <1>2
    <3> QED
      BY ONLY <2>1, <3>1, <3>2
  <2> QED
    BY <1>1, <2>1, <2>2, <2>3 DEF TypeOK
<1>4. LockInv'
  <2>1. /\ \A a \in Calls \ {u} : pc'[a] = pc[a] /\ root'[a] = root[a]
        /\ root'[u] = x
        /\ \A y \in Rows \ {x} : lock'[y] = lock[y]
        /\ \/ x \in active /\ lock'[x] = u /\ pc'[u] = "locked"
           \/ x \notin active /\ lock'[x] = u /\ pc'[u] = "lockedInactive"
           \/ x \notin active /\ lock'[x] = lock[x] /\ pc'[u] = "missing"
    BY <1>1, <1>2 DEF TypeOK, Calls
  <2>2. \A d \in Deleters : d \in Calls \ {u}
    BY DEF Calls
  <2>3. \A v \in Updaters : v \in Calls
    BY DEF Calls
  <2>4. \A y \in Rows, d \in Deleters : (lock[y] = d <=> Live(d) /\ y \in dirty[d]) /\ d # None /\ d # u
    BY DEF LockInv
  <2>5. \A y \in Rows, v \in Updaters : (lock[y] = v <=> Locked(v) /\ y = root[v]) /\ v # None
    BY DEF LockInv
  <2>6. \A y \in Rows, d \in Deleters : lock'[y] = d <=> Live(d)' /\ y \in dirty'[d]
    BY <1>1, <2>1, <2>2, <2>4 DEF Live
  <2>7. \A y \in Rows, v \in Updaters : lock'[y] = v <=> Locked(v)' /\ y = root'[v]
    BY <1>1, <2>1, <2>3, <2>5 DEF Locked
  <2>8. \A v \in Updaters :
          Locked(v)' => root'[v] \in exists' /\ (pc'[v] = "locked" <=> root'[v] \in active')
    BY <1>1, <2>1, <2>3 DEF LockInv, Locked
  <2>9. \A d \in Deleters : Live(d)' => dirty'[d] \subseteq exists'
    BY <1>1, <2>1, <2>2 DEF LockInv, Live
  <2> QED
    BY <2>6, <2>7, <2>8, <2>9 DEF LockInv
<1>5. KnownInv'
  BY <1>1 DEF KnownInv, Known, Places, RowAt
<1>6. TraceInv'
  BY <1>1, <1>2 DEF TraceInv, TypeOK, Calls
<1> QED
  BY <1>3, <1>4, <1>5, <1>6

LEMMA UpdateCommitRows ==
  ASSUME RowsInv, NEW u \in Updaters, UpdateCommit(u)
  PROVE  RowsInv' /\ exists' = exists /\ active' = active
<1> USE SoftDeleteAssumption DEF RowsInv
<1>1. /\ Locked(u) /\ Release(u) /\ pc' = [pc EXCEPT ![u] = "done"]
      /\ by' = [by EXCEPT ![root[u]] = u]
      /\ UNCHANGED <<gone, root, frontier, children, dirty, capped, reach>>
  BY DEF UpdateCommit, ApplyAuditFields
<1>2. root[u] \in exists /\ (pc[u] = "locked" <=> root[u] \in active)
  BY <1>1 DEF LockInv
<1>3. exists' = exists /\ active' = active
  BY <1>2 DEF UpdateCommit
<1>4. TypeOK'
  BY <1>1, <1>2, <1>3 DEF TypeOK, Calls, Release
<1>5. LockInv'
  BY <1>1, <1>3 DEF LockInv, TypeOK, Calls, Live, Locked, Release
<1>6. KnownInv'
  BY <1>1, <1>3 DEF KnownInv, Known, Places, RowAt
<1>7. TraceInv'
  <2>1. /\ \A a \in Calls \ {u} : pc'[a] = pc[a]
        /\ pc'[u] = "done" /\ u \in Calls /\ by'[root[u]] = u
        /\ \A y \in Rows \ {root[u]} : by'[y] = by[y]
        /\ \A d \in Deleters : d \in Calls /\ d # u
    BY <1>1, <1>2 DEF TypeOK, Calls
  <2>2. \A y \in Rows, a \in Calls : by'[y] = a => pc'[a] = "done"
    BY <2>1 DEF TraceInv
  <2>3. \A d \in Deleters : pc'[d] = "done" => dirty'[d] \cap active' = {} /\ frontier'[d] = <<>>
    BY <1>1, <1>3, <2>1 DEF TraceInv
  <2>4. ASSUME NEW y \in exists \ active
        PROVE  \E d \in Deleters :
                 /\ pc'[d] = "done" /\ y \in dirty'[d]
                 /\ by'[y] = d \/ \E v \in Updaters : by'[y] = v /\ root'[v] = y
    <3>1. PICK d \in Deleters : /\ pc[d] = "done" /\ y \in dirty[d]
                                /\ by[y] = d \/ \E v \in Updaters : by[y] = v /\ root[v] = y
      BY DEF TraceInv
    <3>2. y \in Rows
      BY DEF TypeOK
    <3> QED
      BY <1>1, <2>1, <3>1, <3>2
  <2> QED
    BY <1>3, <2>2, <2>3, <2>4 DEF TraceInv
<1> QED
  BY <1>3, <1>4, <1>5, <1>6, <1>7

LEMMA UpdateFailsRows ==
  ASSUME RowsInv, NEW u \in Updaters, UpdateFails(u)
  PROVE  RowsInv'
<1> USE SoftDeleteAssumption DEF RowsInv
<1>1. /\ Locked(u) /\ Release(u) /\ pc' = [pc EXCEPT ![u] = "failed"]
      /\ UNCHANGED <<exists, gone, active, by, root, frontier, children, dirty, capped, reach>>
  BY DEF UpdateFails, rowVars
<1>2. TypeOK'
  BY <1>1 DEF TypeOK, Calls, Release
<1>3. LockInv'
  BY <1>1 DEF LockInv, TypeOK, Calls, Live, Locked, Release
<1>4. KnownInv'
  BY <1>1 DEF KnownInv, Known, Places, RowAt
<1>5. TraceInv'
  BY <1>1 DEF TraceInv, TypeOK, Calls, Locked
<1> QED
  BY <1>2, <1>3, <1>4, <1>5

LEMMA CreateRows ==
  ASSUME RowsInv, NEW x \in Rows, Create(x)
  PROVE  RowsInv' /\ active' = active \cup {x} /\ x \notin Known
<1> USE SoftDeleteAssumption DEF RowsInv
<1>1. /\ x \notin exists \cup gone /\ \A p \in Rows : <<p, x>> \in Edges => p \in exists
      /\ exists' = exists \cup {x} /\ active' = active \cup {x}
      /\ UNCHANGED <<gone, by, lock, pc, root, frontier, children, dirty, capped, reach>>
  BY DEF Create, txVars
<1>2. TypeOK'
  BY <1>1 DEF TypeOK
<1>3. LockInv'
  BY <1>1 DEF LockInv, Live, Locked
<1>4. KnownInv'
  <2>1. Known' = Known \cup {x}
    BY <1>1 DEF Known
  <2>2. \A e \in Edges : e[2] \in Known' => e[1] \in Known'
    <3> SUFFICES ASSUME NEW e \in Edges, e[2] \in Known' PROVE e[1] \in Known'
      OBVIOUS
    <3>1. e = <<e[1], e[2]>> /\ e[1] \in Rows
      OBVIOUS
    <3> QED
      BY <1>1, <2>1, <3>1 DEF KnownInv, Known
  <2> QED
    BY <1>1, <2>1, <2>2 DEF KnownInv, Known, Places, RowAt
<1>5. TraceInv'
  <2>1. \A d \in Deleters : x \notin dirty[d]
    BY <1>1 DEF KnownInv, Known
  <2> QED
    BY <1>1, <2>1 DEF TraceInv
<1> QED
  BY <1>1, <1>2, <1>3, <1>4, <1>5 DEF Known

LEMMA HardDeleteRows ==
  ASSUME RowsInv, NEW x \in Rows, HardDelete(x)
  PROVE  RowsInv' /\ active' = active \ Descendants[x]
<1> USE SoftDeleteAssumption DEF RowsInv
<1> DEFINE D == Descendants[x] \cap exists
<1>1. /\ \A y \in D : lock[y] = None
      /\ exists' = exists \ D /\ active' = active \ D /\ gone' = gone \cup D
      /\ UNCHANGED <<by, lock, pc, root, frontier, children, dirty, capped, reach>>
  BY DEF HardDelete, Tree, txVars
<1>2. D \subseteq exists
  OBVIOUS
<1>3. active \ D = active \ Descendants[x]
  BY DEF TypeOK
<1> HIDE DEF D
<1>4. TypeOK'
  BY <1>1, <1>2 DEF TypeOK
<1>5. LockInv'
  BY <1>1, <1>2 DEF LockInv, TypeOK, Live, Locked
<1>6. KnownInv'
  <2>1. Known' = Known
    BY <1>1, <1>2 DEF Known
  <2> QED
    BY <1>1, <1>2, <2>1 DEF KnownInv, Places, RowAt
<1>7. TraceInv'
  BY <1>1 DEF TraceInv
<1> QED
  BY <1>1, <1>3, <1>4, <1>5, <1>6, <1>7

-----------------------------------------------------------------------------
(* What the steps of a delete do to the rows.                              *)

LEMMA ConcatPositions ==
  ASSUME NEW S, NEW r \in Seq(S), NEW t \in Seq(S)
  PROVE  /\ r \o t \in Seq(S) /\ Len(r \o t) = Len(r) + Len(t) /\ Len(r) \in Nat /\ Len(t) \in Nat
         /\ \A j \in 1..Len(r) : (r \o t)[j] = r[j]
         /\ \A j \in 1..Len(t) : (r \o t)[Len(r) + j] = t[j]
  OBVIOUS

IsConcat(G, r, t, S) ==
  /\ G \in Seq(S) /\ Len(G) \in Nat /\ Len(r) \in Nat
  /\ \A j \in 1..Len(r) : j \in 1..Len(G) /\ G[j] = r[j]
  /\ \A j \in 1..Len(G) : j \in 1..Len(r) \/ (j > Len(r) /\ \E i \in 1..Len(t) : G[j] = t[i])
  /\ \A i \in 1..Len(t) : \E j \in 1..Len(G) : G[j] = t[i]

LEMMA ConcatMembers ==
  ASSUME NEW S, NEW r \in Seq(S), NEW t \in Seq(S), NEW G, G = r \o t
  PROVE  IsConcat(G, r, t, S)
<1>1. /\ G \in Seq(S) /\ Len(G) = Len(r) + Len(t) /\ Len(r) \in Nat /\ Len(t) \in Nat
      /\ \A j \in 1..Len(r) : G[j] = r[j]
      /\ \A j \in 1..Len(t) : G[Len(r) + j] = t[j]
  BY ConcatPositions
<1> DEFINE k == Len(r)
           m == Len(t)
           l == Len(G)
<1>2. /\ k \in Nat /\ m \in Nat /\ l = k + m
      /\ \A j \in 1..k : G[j] = r[j]
      /\ \A j \in 1..m : G[k + j] = t[j]
  BY <1>1
<1> HIDE DEF k, m, l
<1>3. \A j \in 1..k : j \in 1..l /\ G[j] = r[j]
  BY ONLY <1>2
<1>4. ASSUME NEW j \in 1..l, j > k PROVE \E i \in 1..m : G[j] = t[i]
  <2>1. j - k \in 1..m /\ k + (j - k) = j
    BY ONLY <1>2, <1>4, j \in 1..l
  <2> QED
    BY ONLY <1>2, <2>1
<1>5. ASSUME NEW i \in 1..m PROVE \E j \in 1..l : G[j] = t[i]
  <2>1. k + i \in 1..l /\ G[k + i] = t[i]
    BY ONLY <1>2, i \in 1..m
  <2> QED
    BY ONLY <2>1
<1>6. \A j \in 1..l : j \in 1..k \/ (j > k /\ \E i \in 1..m : G[j] = t[i])
  <2>1. \A j \in 1..l : j \in 1..k \/ j > k
    BY ONLY <1>2
  <2> QED
    BY <1>4, <2>1, Zenon
<1>7. \A i \in 1..m : \E j \in 1..l : G[j] = t[i]
  BY <1>5, Zenon
<1>8. G \in Seq(S) /\ Len(G) \in Nat /\ Len(r) \in Nat
  BY <1>1
<1> QED
  BY <1>3, <1>6, <1>7, <1>8, Zenon DEF k, m, l, IsConcat

(* The deque after a row's children were appended.                         *)
IsNextFrontier(G, F, C, n) ==
  /\ G \in Seq(Rows \X Nat) /\ Len(G) \in Nat /\ Len(F) \in Nat
  /\ \A j \in 1..(Len(F) - 1) : j \in 1..Len(G) /\ G[j] = F[j + 1]
  /\ \A j \in 1..Len(G) : j \in 1..(Len(F) - 1) \/ (j > Len(F) - 1 /\ \E c \in C : G[j] = <<c, n>>)
  /\ \A c \in C : \E j \in 1..Len(G) : G[j] = <<c, n>>

LEMMA NextFrontier ==
  ASSUME NEW F \in Seq(Rows \X Nat), F # <<>>, NEW C \in SUBSET Rows, NEW n \in Nat,
         NEW G, G = Tail(F) \o SetToSeq({<<c, n>> : c \in C})
  PROVE  IsNextFrontier(G, F, C, n)
<1> DEFINE T == {<<c, n>> : c \in C}
           t == SetToSeq(T)
           f == [c \in C |-> <<c, n>>]
<1>1. IsFiniteSet(C)
  BY SoftDeleteAssumption, FS_Subset
<1>2. f \in Surjection(C, T)
  BY DEF Surjection
<1>3. IsFiniteSet(T)
  BY <1>1, <1>2, FS_Surjection
<1>4. t \in Seq(T) /\ \A e \in T : \E i \in 1..Len(t) : t[i] = e
  BY <1>3, SetToSeqRange
<1>5. T \subseteq Rows \X Nat /\ (\A e \in T : \E c \in C : e = <<c, n>>) /\ \A c \in C : <<c, n>> \in T
  OBVIOUS
<1>6. G = Tail(F) \o t
  OBVIOUS
<1> HIDE DEF T, t, f
<1>7. t \in Seq(Rows \X Nat) /\ Len(t) \in Nat /\ \A i \in 1..Len(t) : t[i] \in T
  BY <1>4, <1>5
<1> DEFINE r == Tail(F)
<1>8. /\ r \in Seq(Rows \X Nat) /\ Len(r) = Len(F) - 1 /\ Len(F) \in Nat
      /\ \A j \in 1..(Len(F) - 1) : r[j] = F[j + 1]
  OBVIOUS
<1>9. G = r \o t
  BY <1>6
<1> HIDE DEF r
<1>10. /\ G \in Seq(Rows \X Nat) /\ Len(G) \in Nat
       /\ \A j \in 1..Len(r) : j \in 1..Len(G) /\ G[j] = r[j]
       /\ \A j \in 1..Len(G) : j \in 1..Len(r) \/ (j > Len(r) /\ \E i \in 1..Len(t) : G[j] = t[i])
       /\ \A i \in 1..Len(t) : \E j \in 1..Len(G) : G[j] = t[i]
  <2> DEFINE S == Rows \X Nat
  <2>1. r \in Seq(S) /\ t \in Seq(S)
    BY ONLY <1>7, <1>8
  <2> HIDE DEF S
  <2>2. IsConcat(G, r, t, S)
    BY <2>1, <1>9, ConcatMembers
  <2> QED
    BY ONLY <2>2 DEF S, IsConcat
<1>11. \A j \in 1..(Len(F) - 1) : j \in 1..Len(G) /\ G[j] = F[j + 1]
  BY ONLY <1>8, <1>10
<1>12. \A j \in 1..Len(G) : j \in 1..(Len(F) - 1) \/ (j > Len(F) - 1 /\ \E c \in C : G[j] = <<c, n>>)
  <2>1. \A i \in 1..Len(t) : \E c \in C : t[i] = <<c, n>>
    BY ONLY <1>5, <1>7
  <2> QED
    BY ONLY <1>8, <1>10, <2>1
<1>13. ASSUME NEW c \in C PROVE \E j \in 1..Len(G) : G[j] = <<c, n>>
  <2>1. PICK i \in 1..Len(t) : t[i] = <<c, n>>
    BY <1>4, <1>5
  <2> QED
    BY ONLY <1>10, <2>1, i \in 1..Len(t)
<1>14. \A c \in C : \E j \in 1..Len(G) : G[j] = <<c, n>>
  BY <1>13
<1>15. G \in Seq(Rows \X Nat) /\ Len(G) \in Nat /\ Len(F) \in Nat
  BY <1>8, <1>10
<1> QED
  BY <1>11, <1>12, <1>14, <1>15, Zenon DEF IsNextFrontier

LEMMA DeleteLockRows ==
  ASSUME RowsInv, NEW d \in Deleters, NEW x \in Rows, NEW ao \in BOOLEAN, DeleteLock(d, x, ao)
  PROVE  RowsInv'
<1> USE SoftDeleteAssumption DEF RowsInv
<1>1. /\ pc[d] = "idle" /\ x \in exists /\ lock[x] = None
      /\ root' = [root EXCEPT ![d] = x]
      /\ UNCHANGED <<exists, gone, active, by, children, capped>>
  BY DEF DeleteLock, rowVars
<1>2. \/ /\ lock' = [lock EXCEPT ![x] = d] /\ dirty' = [dirty EXCEPT ![d] = {x}]
         /\ frontier' = [frontier EXCEPT ![d] = << <<x, 0>> >>]
         /\ reach' = [reach EXCEPT ![d] = Below(x, MaxDepth)]
         /\ pc' = [pc EXCEPT ![d] = "list"]
      \/ /\ pc' = [pc EXCEPT ![d] = "missing"]
         /\ UNCHANGED <<lock, dirty, frontier, reach>>
  BY DEF DeleteLock
<1>3. d \in Calls /\ d # None
  BY DEF Calls
<1>4. Below(x, MaxDepth) \subseteq exists
  <2>1. \A z \in exists, y \in active : <<z, y>> \in Edges => y \in exists
    BY DEF TypeOK
  <2> QED
    BY <1>1, <2>1, BelowInside, BelowIsIn
<1>5. TypeOK'
  <2>1. root' \in [Calls -> Rows \cup {None}]
    BY <1>1 DEF TypeOK
  <2>2. pc' \in [Calls -> {"idle", "list", "update", "locked", "lockedInactive", "done", "missing", "failed"}]
    BY <1>2, <1>3 DEF TypeOK
  <2>3. lock' \in [Rows -> Calls \cup {None}]
    BY <1>2, <1>3 DEF TypeOK
  <2>4. << <<x, 0>> >> \in Seq(Rows \X Nat)
    OBVIOUS
  <2>5. {x} \in SUBSET Rows /\ Below(x, MaxDepth) \in SUBSET Rows
    BY <1>4 DEF TypeOK
  <2>6. /\ dirty' = dirty \/ dirty' = [dirty EXCEPT ![d] = {x}]
        /\ frontier' = frontier \/ frontier' = [frontier EXCEPT ![d] = << <<x, 0>> >>]
        /\ reach' = reach \/ reach' = [reach EXCEPT ![d] = Below(x, MaxDepth)]
    BY <1>2
  <2>7. /\ dirty \in [Deleters -> SUBSET Rows] /\ reach \in [Deleters -> SUBSET Rows]
        /\ frontier \in [Deleters -> Seq(Rows \X Nat)]
    BY DEF TypeOK
  <2>8. dirty' \in [Deleters -> SUBSET Rows]
    BY ONLY <2>5, <2>6, <2>7
  <2>9. frontier' \in [Deleters -> Seq(Rows \X Nat)]
    BY ONLY <2>4, <2>6, <2>7
  <2>10. reach' \in [Deleters -> SUBSET Rows]
    BY ONLY <2>5, <2>6, <2>7
  <2> QED
    BY <1>1, <2>1, <2>2, <2>3, <2>8, <2>9, <2>10 DEF TypeOK
<1>6. /\ \A a \in Calls \ {d} : pc'[a] = pc[a] /\ root'[a] = root[a]
      /\ \A o \in Deleters \ {d} : dirty'[o] = dirty[o] /\ frontier'[o] = frontier[o] /\ reach'[o] = reach[o]
      /\ \A y \in Rows \ {x} : lock'[y] = lock[y]
      /\ \/ /\ lock'[x] = d /\ pc'[d] = "list" /\ dirty'[d] = {x}
            /\ frontier'[d] = << <<x, 0>> >> /\ reach'[d] = Below(x, MaxDepth)
         \/ /\ lock'[x] = lock[x] /\ pc'[d] = "missing" /\ dirty'[d] = dirty[d]
            /\ frontier'[d] = frontier[d] /\ reach'[d] = reach[d]
  BY <1>1, <1>2, <1>3 DEF TypeOK
<1>7. (\A o \in Deleters : o \in Calls /\ o # None) /\ \A u \in Updaters : u \in Calls \ {d} /\ u # None
  BY DEF Calls
<1>8. LockInv'
  <2>1. \A y \in Rows, o \in Deleters : lock'[y] = o <=> Live(o)' /\ y \in dirty'[o]
    <3>1. \A y \in Rows, o \in Deleters : lock[y] = o <=> Live(o) /\ y \in dirty[o]
      BY DEF LockInv
    <3> QED
      BY <1>1, <1>6, <1>7, <3>1 DEF Live
  <2>2. \A y \in Rows, u \in Updaters : lock'[y] = u <=> Locked(u)' /\ y = root'[u]
    <3>1. \A y \in Rows, u \in Updaters : lock[y] = u <=> Locked(u) /\ y = root[u]
      BY DEF LockInv
    <3> QED
      BY <1>1, <1>6, <1>7, <3>1 DEF Locked
  <2>3. \A u \in Updaters :
          Locked(u)' => root'[u] \in exists' /\ (pc'[u] = "locked" <=> root'[u] \in active')
    BY <1>1, <1>6, <1>7 DEF LockInv, Locked
  <2>4. \A o \in Deleters : Live(o)' => dirty'[o] \subseteq exists'
    BY <1>1, <1>6, <1>7 DEF LockInv, Live
  <2> QED
    BY <2>1, <2>2, <2>3, <2>4 DEF LockInv
<1>9. KnownInv'
  <2>1. Known' = Known /\ x \in Known /\ Below(x, MaxDepth) \subseteq Known
    BY <1>1, <1>4 DEF Known
  <2>2. ASSUME NEW o \in Deleters
        PROVE  /\ reach'[o] \cup dirty'[o] \cup children'[o] \subseteq Known
               /\ \A i \in 1..Len(frontier'[o]) : frontier'[o][i][1] \in Known
    <3>1. /\ reach[o] \cup dirty[o] \cup children[o] \subseteq Known
          /\ \A i \in 1..Len(frontier[o]) : frontier[o][i][1] \in Known
      BY DEF KnownInv, Places, RowAt
    <3> QED
      BY <1>1, <1>6, <2>1, <3>1
  <2> QED
    BY <1>1, <2>1, <2>2 DEF KnownInv, Places, RowAt
<1>10. TraceInv'
  <2>1. \A y \in Rows, a \in Calls : by'[y] = a => pc'[a] = "done"
    BY <1>1, <1>6 DEF TraceInv
  <2>2. \A o \in Deleters : pc'[o] = "done" => dirty'[o] \cap active' = {} /\ frontier'[o] = <<>>
    BY <1>1, <1>6, <1>7 DEF TraceInv
  <2>3. \A y \in exists' \ active' :
          \E o \in Deleters :
            /\ pc'[o] = "done" /\ y \in dirty'[o]
            /\ by'[y] = o \/ \E u \in Updaters : by'[y] = u /\ root'[u] = y
    BY <1>1, <1>6, <1>7 DEF TraceInv
  <2> QED
    BY <2>1, <2>2, <2>3 DEF TraceInv
<1> QED
  BY <1>5, <1>8, <1>9, <1>10

LEMMA HeadOfFrontier ==
  ASSUME TypeOK, NEW d \in Deleters, frontier[d] # <<>>
  PROVE  /\ Head(frontier[d])[1] = RowAt(d, 1) /\ Head(frontier[d])[2] = DepthAt(d, 1)
         /\ RowAt(d, 1) \in Rows /\ DepthAt(d, 1) \in Nat /\ 1 \in Places(d)
         /\ Tail(frontier[d]) \in Seq(Rows \X Nat) /\ frontier[d] \in Seq(Rows \X Nat)
         /\ Len(frontier[d]) \in Nat
<1> DEFINE F == frontier[d]
<1>1. F \in Seq(Rows \X Nat) /\ F # <<>>
  BY DEF TypeOK
<1> HIDE DEF F
<1>2. /\ Head(F) = F[1] /\ 1 \in 1..Len(F) /\ F[1] \in Rows \X Nat /\ Tail(F) \in Seq(Rows \X Nat)
      /\ Len(F) \in Nat
  BY <1>1
<1>3. F[1][1] \in Rows /\ F[1][2] \in Nat
  BY <1>2
<1> QED
  BY <1>1, <1>2, <1>3 DEF F, RowAt, DepthAt, Places

LEMMA PlaceTypes ==
  ASSUME TypeOK, NEW d \in Deleters, NEW i \in Places(d)
  PROVE  RowAt(d, i) \in Rows /\ DepthAt(d, i) \in Nat /\ frontier[d] \in Seq(Rows \X Nat)
<1>1. frontier[d] \in Seq(Rows \X Nat) /\ i \in 1..Len(frontier[d])
  BY DEF TypeOK, Places
<1>2. frontier[d][i] \in Rows \X Nat
  BY <1>1
<1> QED
  BY <1>1, <1>2 DEF RowAt, DepthAt

LEMMA CascadeListRows ==
  ASSUME RowsInv, NEW d \in Deleters, CascadeList(d)
  PROVE  RowsInv'
<1> USE SoftDeleteAssumption DEF RowsInv
<1> DEFINE x == RowAt(d, 1)
<1>1. /\ pc[d] = "list" /\ frontier[d] # <<>> /\ x \in Rows /\ Tail(frontier[d]) \in Seq(Rows \X Nat)
      /\ UNCHANGED <<exists, gone, active, by, lock, root, dirty, reach>>
  BY HeadOfFrontier DEF CascadeList, rowVars
<1>2. \/ /\ frontier' = [frontier EXCEPT ![d] = Tail(frontier[d])]
         /\ capped' = [capped EXCEPT ![d] = capped[d] \cup {x}] /\ UNCHANGED <<children, pc>>
      \/ /\ children' = [children EXCEPT ![d] = ActiveChildren(d, x)]
         /\ pc' = [pc EXCEPT ![d] = "update"] /\ UNCHANGED <<frontier, capped>>
  BY <1>1, HeadOfFrontier DEF CascadeList
<1>3. ActiveChildren(d, x) \subseteq active /\ active \subseteq exists /\ exists \subseteq Rows
  BY DEF ActiveChildren, TypeOK
<1> HIDE DEF x
<1>4. d \in Calls
  BY DEF Calls
<1>5. TypeOK'
  <2>1. pc' \in [Calls -> {"idle", "list", "update", "locked", "lockedInactive", "done", "missing", "failed"}]
    BY <1>2, <1>4 DEF TypeOK
  <2>2. /\ frontier \in [Deleters -> Seq(Rows \X Nat)] /\ capped \in [Deleters -> SUBSET Rows]
        /\ children \in [Deleters -> SUBSET Rows]
    BY DEF TypeOK
  <2>3. capped[d] \cup {x} \in SUBSET Rows /\ ActiveChildren(d, x) \in SUBSET Rows
    BY <1>1, <1>3, <2>2
  <2>4. /\ capped' = capped \/ capped' = [capped EXCEPT ![d] = capped[d] \cup {x}]
        /\ children' = children \/ children' = [children EXCEPT ![d] = ActiveChildren(d, x)]
        /\ frontier' = frontier \/ frontier' = [frontier EXCEPT ![d] = Tail(frontier[d])]
    BY <1>2
  <2>5. capped' \in [Deleters -> SUBSET Rows] /\ children' \in [Deleters -> SUBSET Rows]
    BY ONLY <2>2, <2>3, <2>4
  <2>6. frontier' \in [Deleters -> Seq(Rows \X Nat)]
    BY ONLY <1>1, <2>2, <2>4
  <2> QED
    BY <1>1, <2>1, <2>5, <2>6 DEF TypeOK
<1>6. /\ \A a \in Calls \ {d} : pc'[a] = pc[a]
      /\ \A o \in Deleters \ {d} : frontier'[o] = frontier[o] /\ children'[o] = children[o]
      /\ pc'[d] \in {"list", "update"}
      /\ children'[d] \subseteq children[d] \cup active
      /\ frontier'[d] \in {frontier[d], Tail(frontier[d])}
  BY <1>1, <1>2, <1>3, <1>4 DEF TypeOK
<1>7. (\A o \in Deleters : o \in Calls) /\ \A u \in Updaters : u \in Calls \ {d}
  BY DEF Calls
<1>8. LockInv'
  <2>1. \A o \in Deleters : Live(o)' <=> Live(o)
    BY <1>1, <1>6, <1>7 DEF Live
  <2>2. \A u \in Updaters : (Locked(u)' <=> Locked(u)) /\ pc'[u] = pc[u]
    BY <1>6, <1>7 DEF Locked
  <2> QED
    BY <1>1, <2>1, <2>2 DEF LockInv
<1>9. KnownInv'
  <2>1. Known' = Known /\ active \subseteq Known
    BY <1>1, <1>3 DEF Known
  <2>2. ASSUME NEW o \in Deleters
        PROVE  /\ reach'[o] \cup dirty'[o] \cup children'[o] \subseteq Known
               /\ \A i \in 1..Len(frontier'[o]) : frontier'[o][i][1] \in Known
    <3>1. /\ reach[o] \cup dirty[o] \cup children[o] \subseteq Known
          /\ \A i \in 1..Len(frontier[o]) : frontier[o][i][1] \in Known
      BY DEF KnownInv, Places, RowAt
    <3>2. frontier[d] \in Seq(Rows \X Nat) /\ frontier[d] # <<>>
      BY <1>1 DEF TypeOK
    <3>3. \A i \in 1..Len(Tail(frontier[d])) : Tail(frontier[d])[i] = frontier[d][i + 1] /\ i + 1 \in 1..Len(frontier[d])
      BY <3>2
    <3>4. reach'[o] \cup dirty'[o] \cup children'[o] \subseteq Known
      BY <1>1, <1>6, <2>1, <3>1
    <3>5. CASE frontier'[o] = frontier[o]
      BY <3>1, <3>4, <3>5
    <3>6. CASE o = d /\ frontier'[d] = Tail(frontier[d])
      BY <3>1, <3>3, <3>4, <3>6
    <3> QED
      BY <1>6, <3>5, <3>6
  <2> QED
    BY <1>1, <2>1, <2>2 DEF KnownInv, Places, RowAt
<1>10. TraceInv'
  <2>1. \A a \in Calls : pc'[a] = "done" <=> pc[a] = "done"
    BY <1>1, <1>6
  <2>2. \A o \in Deleters : pc[o] = "done" => frontier'[o] = frontier[o]
    BY <1>1, <1>6
  <2> QED
    BY <1>1, <1>7, <2>1, <2>2 DEF TraceInv
<1> QED
  BY <1>5, <1>8, <1>9, <1>10

(* What CascadeUpdate(d) does, with the shape of the deque it leaves.      *)
LEMMA CascadeUpdateShape ==
  ASSUME RowsInv, NEW d \in Deleters, FrontierInv(d), CascadeUpdate(d)
  PROVE  LET x   == RowAt(d, 1)
             n   == DepthAt(d, 1)
             hit == ActiveChildren(d, x)
         IN /\ pc[d] = "update" /\ pc' = [pc EXCEPT ![d] = "list"] /\ frontier[d] # <<>>
            /\ \A y \in hit : lock[y] \in {None, d}
            /\ dirty' = [dirty EXCEPT ![d] = dirty[d] \cup hit]
            /\ lock' = [y \in Rows |-> IF y \in hit THEN d ELSE lock[y]]
            /\ children' = [children EXCEPT ![d] = {}]
            /\ UNCHANGED <<exists, gone, active, by, root, capped, reach>>
            /\ \A o \in Deleters \ {d} : frontier'[o] = frontier[o]
            /\ frontier' \in [Deleters -> Seq(Rows \X Nat)]
            /\ IsNextFrontier(frontier'[d], frontier[d], children[d], n + 1)
<1> USE DEF RowsInv
<1> DEFINE x == RowAt(d, 1)
           n == DepthAt(d, 1)
           hit == ActiveChildren(d, x)
           F == frontier[d]
           G == Tail(F) \o SetToSeq({<<c, n + 1>> : c \in children[d]})
<1>1. pc[d] = "update" /\ F # <<>>
  BY DEF CascadeUpdate, FrontierInv, Live
<1>2. /\ Head(F)[1] = x /\ Head(F)[2] = n /\ n + 1 \in Nat
      /\ F \in Seq(Rows \X Nat)
  BY <1>1, HeadOfFrontier
<1>3. frontier' = [frontier EXCEPT ![d] = G]
  BY <1>2 DEF CascadeUpdate
<1>4. children[d] \in SUBSET Rows
  BY DEF TypeOK
<1>5. /\ \A y \in hit : lock[y] \in {None, d}
      /\ dirty' = [dirty EXCEPT ![d] = dirty[d] \cup hit]
      /\ lock' = [y \in Rows |-> IF y \in hit THEN d ELSE lock[y]]
      /\ children' = [children EXCEPT ![d] = {}] /\ pc' = [pc EXCEPT ![d] = "list"]
      /\ UNCHANGED <<exists, gone, active, by, root, capped, reach>>
  BY <1>2 DEF CascadeUpdate, rowVars
<1>6. PICK H : H = G
  OBVIOUS
<1> HIDE DEF G, x, n, hit, F
<1>7. IsNextFrontier(H, F, children[d], n + 1)
  <2>1. H = Tail(F) \o SetToSeq({<<c, n + 1>> : c \in children[d]})
    BY <1>6 DEF G
  <2> QED
    BY <1>1, <1>2, <1>4, <2>1, NextFrontier
<1>8. /\ frontier'[d] = H /\ \A o \in Deleters \ {d} : frontier'[o] = frontier[o]
      /\ frontier' \in [Deleters -> Seq(Rows \X Nat)]
  BY <1>3, <1>6, <1>7 DEF TypeOK, IsNextFrontier
<1> QED
  BY <1>1, <1>5, <1>7, <1>8 DEF x, n, hit, F

LEMMA CascadeUpdateRows ==
  ASSUME RowsInv, NEW d \in Deleters, FrontierInv(d), CascadeUpdate(d)
  PROVE  RowsInv'
<1> USE SoftDeleteAssumption DEF RowsInv
<1> DEFINE hit == ActiveChildren(d, RowAt(d, 1))
           n == DepthAt(d, 1)
<1>1. /\ pc[d] = "update" /\ pc' = [pc EXCEPT ![d] = "list"] /\ frontier[d] # <<>>
      /\ \A y \in hit : lock[y] \in {None, d}
      /\ dirty' = [dirty EXCEPT ![d] = dirty[d] \cup hit]
      /\ lock' = [y \in Rows |-> IF y \in hit THEN d ELSE lock[y]]
      /\ children' = [children EXCEPT ![d] = {}]
      /\ UNCHANGED <<exists, gone, active, by, root, capped, reach>>
      /\ \A o \in Deleters \ {d} : frontier'[o] = frontier[o]
      /\ frontier' \in [Deleters -> Seq(Rows \X Nat)]
      /\ IsNextFrontier(frontier'[d], frontier[d], children[d], n + 1)
  BY CascadeUpdateShape
<1>2. hit \subseteq active /\ active \subseteq exists /\ exists \subseteq Rows
  BY DEF ActiveChildren, TypeOK
<1> HIDE DEF hit, n
<1>3. (\A o \in Deleters : o \in Calls /\ o # None) /\ \A u \in Updaters : u \in Calls \ {d} /\ u # None
  BY DEF Calls
<1>4. TypeOK'
  <2>1. pc' \in [Calls -> {"idle", "list", "update", "locked", "lockedInactive", "done", "missing", "failed"}]
    BY <1>1, <1>3 DEF TypeOK
  <2>2. lock' \in [Rows -> Calls \cup {None}]
    BY <1>1, <1>3 DEF TypeOK
  <2>3. dirty[d] \cup hit \in SUBSET Rows
    BY <1>2 DEF TypeOK
  <2>4. dirty' \in [Deleters -> SUBSET Rows] /\ children' \in [Deleters -> SUBSET Rows]
    BY <1>1, <2>3 DEF TypeOK
  <2> QED
    BY <1>1, <2>1, <2>2, <2>4 DEF TypeOK
<1>5. /\ \A a \in Calls \ {d} : pc'[a] = pc[a]
      /\ pc'[d] = "list"
      /\ \A o \in Deleters \ {d} : dirty'[o] = dirty[o] /\ children'[o] = children[o]
      /\ dirty'[d] = dirty[d] \cup hit /\ children'[d] = {}
      /\ \A y \in Rows : lock'[y] = IF y \in hit THEN d ELSE lock[y]
  BY <1>1, <1>3 DEF TypeOK
<1>6. LockInv'
  <2>1. \A y \in Rows, o \in Deleters : lock'[y] = o <=> Live(o)' /\ y \in dirty'[o]
    <3>1. \A y \in Rows, o \in Deleters : lock[y] = o <=> Live(o) /\ y \in dirty[o]
      BY DEF LockInv
    <3>2. Live(d) /\ Live(d)' /\ \A o \in Deleters \ {d} : Live(o)' <=> Live(o)
      BY <1>1, <1>3, <1>5 DEF Live
    <3> QED
      BY <1>1, <1>3, <1>5, <3>1, <3>2
  <2>2. \A y \in Rows, u \in Updaters : lock'[y] = u <=> Locked(u)' /\ y = root'[u]
    <3>1. \A y \in Rows, u \in Updaters : lock[y] = u <=> Locked(u) /\ y = root[u]
      BY DEF LockInv
    <3>2. \A u \in Updaters : Locked(u)' <=> Locked(u)
      BY <1>3, <1>5 DEF Locked
    <3> QED
      BY <1>1, <1>3, <1>5, <3>1, <3>2
  <2>3. \A u \in Updaters :
          Locked(u)' => root'[u] \in exists' /\ (pc'[u] = "locked" <=> root'[u] \in active')
    BY <1>1, <1>3, <1>5 DEF LockInv, Locked
  <2>4. \A o \in Deleters : Live(o)' => dirty'[o] \subseteq exists'
    <3>1. Live(d) /\ \A o \in Deleters \ {d} : Live(o)' <=> Live(o)
      BY <1>1, <1>3, <1>5 DEF Live
    <3> QED
      BY <1>1, <1>2, <1>5, <3>1 DEF LockInv
  <2> QED
    BY <2>1, <2>2, <2>3, <2>4 DEF LockInv
<1>7. KnownInv'
  <2>1. Known' = Known /\ active \subseteq Known
    BY <1>1, <1>2 DEF Known
  <2>2. \A o \in Deleters :
          /\ reach[o] \cup dirty[o] \cup children[o] \subseteq Known
          /\ \A i \in 1..Len(frontier[o]) : frontier[o][i][1] \in Known
    BY DEF KnownInv, Places, RowAt
  <2>3. \A o \in Deleters : reach'[o] \cup dirty'[o] \cup children'[o] \subseteq Known
    BY <1>1, <1>2, <1>5, <2>1, <2>2
  <2>4. ASSUME NEW j \in 1..Len(frontier'[d]) PROVE frontier'[d][j][1] \in Known
    <3>1. CASE j \in 1..(Len(frontier[d]) - 1)
      <4>1. frontier'[d][j] = frontier[d][j + 1] /\ j + 1 \in 1..Len(frontier[d])
        BY <1>1, <3>1 DEF IsNextFrontier
      <4> QED
        BY <2>2, <4>1
    <3>2. CASE \E c \in children[d] : frontier'[d][j] = <<c, n + 1>>
      BY <2>2, <3>2
    <3> QED
      BY <1>1, <3>1, <3>2 DEF IsNextFrontier
  <2>5. \A o \in Deleters : \A i \in 1..Len(frontier'[o]) : frontier'[o][i][1] \in Known
    BY <1>1, <2>2, <2>4
  <2> QED
    BY <1>1, <2>1, <2>3, <2>5 DEF KnownInv, Places, RowAt
<1>8. TraceInv'
  <2>1. \A a \in Calls : pc'[a] = "done" <=> pc[a] = "done"
    BY <1>1, <1>5
  <2>2. \A o \in Deleters : pc[o] = "done" => frontier'[o] = frontier[o] /\ dirty'[o] = dirty[o]
    BY <1>1, <1>5
  <2>3. \A y \in Rows, a \in Calls : by'[y] = a => pc'[a] = "done"
    BY <1>1, <2>1 DEF TraceInv
  <2>4. \A o \in Deleters : pc'[o] = "done" => dirty'[o] \cap active' = {} /\ frontier'[o] = <<>>
    BY <1>1, <1>3, <2>1, <2>2 DEF TraceInv
  <2>5. ASSUME NEW y \in exists' \ active'
        PROVE  \E o \in Deleters :
                 /\ pc'[o] = "done" /\ y \in dirty'[o]
                 /\ by'[y] = o \/ \E u \in Updaters : by'[y] = u /\ root'[u] = y
    <3>1. PICK o \in Deleters : /\ pc[o] = "done" /\ y \in dirty[o]
                                /\ by[y] = o \/ \E u \in Updaters : by[y] = u /\ root[u] = y
      BY <1>1 DEF TraceInv
    <3> QED
      BY <1>1, <1>3, <2>1, <2>2, <3>1
  <2> QED
    BY <2>3, <2>4, <2>5 DEF TraceInv
<1> QED
  BY <1>4, <1>6, <1>7, <1>8

LEMMA DeleteCommitRows ==
  ASSUME RowsInv, NEW d \in Deleters, DeleteCommit(d)
  PROVE  RowsInv'
<1> USE SoftDeleteAssumption DEF RowsInv
<1>1. /\ pc[d] = "list" /\ frontier[d] = <<>> /\ pc' = [pc EXCEPT ![d] = "done"]
      /\ active' = active \ dirty[d]
      /\ by' = [x \in Rows |-> IF x \in dirty[d] THEN d ELSE by[x]]
      /\ lock' = [y \in Rows |-> IF lock[y] = d THEN None ELSE lock[y]]
      /\ UNCHANGED <<exists, gone, root, frontier, children, dirty, capped, reach>>
  BY DEF DeleteCommit, Release
<1>2. (\A o \in Deleters : o \in Calls /\ o # None) /\ \A u \in Updaters : u \in Calls \ {d} /\ u # None
  BY DEF Calls
<1>3. TypeOK'
  <2>1. pc' \in [Calls -> {"idle", "list", "update", "locked", "lockedInactive", "done", "missing", "failed"}]
    BY <1>1, <1>2 DEF TypeOK
  <2>2. lock' \in [Rows -> Calls \cup {None}] /\ by' \in [Rows -> Calls \cup {None}]
    BY <1>1, <1>2 DEF TypeOK
  <2> QED
    BY <1>1, <2>1, <2>2 DEF TypeOK
<1>4. /\ \A a \in Calls \ {d} : pc'[a] = pc[a]
      /\ pc'[d] = "done"
      /\ \A y \in Rows : lock'[y] = IF lock[y] = d THEN None ELSE lock[y]
      /\ \A y \in Rows : by'[y] = IF y \in dirty[d] THEN d ELSE by[y]
      /\ dirty[d] \subseteq Rows /\ exists \subseteq Rows
  BY <1>1, <1>2 DEF TypeOK
<1>5. /\ \A y \in Rows, o \in Deleters : lock[y] = o <=> Live(o) /\ y \in dirty[o]
      /\ \A y \in Rows, u \in Updaters : lock[y] = u <=> Locked(u) /\ y = root[u]
  BY DEF LockInv
<1>6. LockInv'
  <2>1. \A y \in Rows, o \in Deleters : lock'[y] = o <=> Live(o)' /\ y \in dirty'[o]
    <3>1. ~ Live(d)' /\ \A o \in Deleters \ {d} : Live(o)' <=> Live(o)
      BY <1>2, <1>4 DEF Live
    <3> QED
      BY <1>1, <1>2, <1>4, <1>5, <3>1
  <2>2. \A u \in Updaters : (Locked(u)' <=> Locked(u)) /\ pc'[u] = pc[u]
    BY <1>2, <1>4 DEF Locked
  <2>3. \A y \in Rows, u \in Updaters : lock'[y] = u <=> Locked(u)' /\ y = root'[u]
    BY <1>1, <1>2, <1>4, <1>5, <2>2
  <2>4. ASSUME NEW u \in Updaters, Locked(u)'
        PROVE  root'[u] \in exists' /\ (pc'[u] = "locked" <=> root'[u] \in active')
    <3>1. Locked(u) /\ root[u] \in exists /\ (pc[u] = "locked" <=> root[u] \in active)
      BY <2>2, <2>4 DEF LockInv
    <3>2. root[u] \in Rows /\ lock[root[u]] = u /\ u # d
      BY <1>2, <1>4, <1>5, <3>1
    <3>3. Live(d)
      BY <1>1 DEF Live
    <3>4. root[u] \notin dirty[d]
      BY <1>5, <3>2, <3>3
    <3> QED
      BY <1>1, <2>2, <3>1, <3>4
  <2>5. \A o \in Deleters : Live(o)' => dirty'[o] \subseteq exists'
    BY <1>1, <1>2, <1>4 DEF LockInv, Live
  <2> QED
    BY <2>1, <2>3, <2>4, <2>5 DEF LockInv
<1>7. KnownInv'
  BY <1>1 DEF KnownInv, Known, Places, RowAt
<1>8. TraceInv'
  <2>1. \A y \in Rows, a \in Calls : by'[y] = a => pc'[a] = "done"
    BY <1>4 DEF TraceInv
  <2>2. \A o \in Deleters : pc'[o] = "done" => dirty'[o] \cap active' = {} /\ frontier'[o] = <<>>
    BY <1>1, <1>2, <1>4 DEF TraceInv
  <2>3. ASSUME NEW y \in exists' \ active'
        PROVE  \E o \in Deleters :
                 /\ pc'[o] = "done" /\ y \in dirty'[o]
                 /\ by'[y] = o \/ \E u \in Updaters : by'[y] = u /\ root'[u] = y
    <3>1. y \in Rows /\ y \in exists
      BY <1>1, <1>4
    <3>2. CASE y \in dirty[d]
      BY <1>1, <1>4, <3>1, <3>2
    <3>3. CASE y \notin dirty[d]
      <4>1. y \in exists \ active
        BY <1>1, <3>1, <3>3
      <4>2. PICK o \in Deleters : /\ pc[o] = "done" /\ y \in dirty[o]
                                  /\ by[y] = o \/ \E u \in Updaters : by[y] = u /\ root[u] = y
        BY <4>1 DEF TraceInv
      <4> QED
        BY <1>1, <1>2, <1>4, <3>1, <3>3, <4>2
    <3> QED
      BY <3>2, <3>3
  <2> QED
    BY <2>1, <2>2, <2>3 DEF TraceInv
<1> QED
  BY <1>3, <1>6, <1>7, <1>8

LEMMA DeleteFailsRows ==
  ASSUME RowsInv, NEW d \in Deleters, DeleteFails(d)
  PROVE  RowsInv'
<1> USE SoftDeleteAssumption DEF RowsInv
<1>1. /\ pc[d] \in {"list", "update"} /\ pc' = [pc EXCEPT ![d] = "failed"]
      /\ lock' = [y \in Rows |-> IF lock[y] = d THEN None ELSE lock[y]]
      /\ UNCHANGED <<exists, gone, active, by, root, frontier, children, dirty, capped, reach>>
  BY DEF DeleteFails, Release, rowVars
<1>2. (\A o \in Deleters : o \in Calls /\ o # None) /\ \A u \in Updaters : u \in Calls \ {d} /\ u # None
  BY DEF Calls
<1>3. TypeOK'
  <2>1. pc' \in [Calls -> {"idle", "list", "update", "locked", "lockedInactive", "done", "missing", "failed"}]
    BY <1>1, <1>2 DEF TypeOK
  <2>2. lock' \in [Rows -> Calls \cup {None}]
    BY <1>1, <1>2 DEF TypeOK
  <2> QED
    BY <1>1, <2>1, <2>2 DEF TypeOK
<1>4. /\ \A a \in Calls \ {d} : pc'[a] = pc[a]
      /\ pc'[d] = "failed"
      /\ \A y \in Rows : lock'[y] = IF lock[y] = d THEN None ELSE lock[y]
  BY <1>1, <1>2 DEF TypeOK
<1>5. LockInv'
  <2>1. \A y \in Rows, o \in Deleters : lock'[y] = o <=> Live(o)' /\ y \in dirty'[o]
    <3>1. \A y \in Rows, o \in Deleters : lock[y] = o <=> Live(o) /\ y \in dirty[o]
      BY DEF LockInv
    <3>2. ~ Live(d)' /\ \A o \in Deleters \ {d} : Live(o)' <=> Live(o)
      BY <1>2, <1>4 DEF Live
    <3> QED
      BY <1>1, <1>2, <1>4, <3>1, <3>2
  <2>2. \A u \in Updaters : (Locked(u)' <=> Locked(u)) /\ pc'[u] = pc[u]
    BY <1>2, <1>4 DEF Locked
  <2>3. \A y \in Rows, u \in Updaters : lock'[y] = u <=> Locked(u)' /\ y = root'[u]
    <3>1. \A y \in Rows, u \in Updaters : lock[y] = u <=> Locked(u) /\ y = root[u]
      BY DEF LockInv
    <3> QED
      BY <1>1, <1>2, <1>4, <2>2, <3>1
  <2>4. \A u \in Updaters :
          Locked(u)' => root'[u] \in exists' /\ (pc'[u] = "locked" <=> root'[u] \in active')
    BY <1>1, <2>2 DEF LockInv
  <2>5. \A o \in Deleters : Live(o)' => dirty'[o] \subseteq exists'
    BY <1>1, <1>2, <1>4 DEF LockInv, Live
  <2> QED
    BY <2>1, <2>3, <2>4, <2>5 DEF LockInv
<1>6. KnownInv'
  BY <1>1 DEF KnownInv, Known, Places, RowAt
<1>7. TraceInv'
  <2>1. \A a \in Calls : pc'[a] = "done" <=> pc[a] = "done"
    BY <1>1, <1>4
  <2> QED
    BY <1>1, <1>2, <2>1 DEF TraceInv
<1> QED
  BY <1>3, <1>5, <1>6, <1>7


-----------------------------------------------------------------------------
(* A delete while others step: rows may be created, which it has not met,  *)
(* and rows may go from active in a set E that holds what is below it.     *)

(* What a step of another leaves of delete d.                              *)
Bystander(d) ==
  /\ pc'[d] = pc[d] /\ frontier'[d] = frontier[d] /\ children'[d] = children[d]
  /\ dirty'[d] = dirty[d] /\ capped'[d] = capped[d] /\ reach'[d] = reach[d]

LEMMA HidesStays ==
  ASSUME NEW o, NEW y, Hides(o, y),
         pc[o] = "done" => pc'[o] = "done" /\ capped'[o] = capped[o] /\ dirty'[o] = dirty[o]
  PROVE  Hides(o, y)'
  BY DEF Hides

LEMMA EnvStep ==
  ASSUME CascadeInv, RowsInv', NEW d \in Deleters, NEW E, Bystander(d),
         \A o \in Deleters : pc[o] = "done" =>
           pc'[o] = "done" /\ capped'[o] = capped[o] /\ dirty'[o] = dirty[o],
         \A y \in active' : y \in active \/ y \notin Known,
         \A y \in active : y \in active' \cup E /\ \A z \in E : <<z, y>> \in Edges => y \in E,
         \A y \in E \cap active' : \E o \in Deleters \ {d} : Hides(o, y)'
  PROVE  DeleteInv(d)'
<1> USE SoftDeleteAssumption
<1>0. TypeOK /\ KnownInv /\ TypeOK' /\ DeleteInv(d)
  BY DEF CascadeInv, RowsInv
<1>1. /\ active \subseteq Rows /\ active' \subseteq Rows
      /\ reach[d] \subseteq Known /\ dirty[d] \subseteq Known
      /\ \A i \in Places(d) : RowAt(d, i) \in Known
      /\ \A y \in active' : y \in active \/ y \in Spare
      /\ \A e \in Edges : e[2] \in Known => e[1] \in Known
  BY <1>0 DEF TypeOK, KnownInv
<1>2. /\ Places(d)' = Places(d) /\ (Live(d)' <=> Live(d))
      /\ \A i : RowAt(d, i)' = RowAt(d, i) /\ DepthAt(d, i)' = DepthAt(d, i)
  BY DEF Bystander, Places, RowAt, DepthAt, Live
<1>3. Unsettled(d)' \subseteq Unsettled(d)
  BY <1>1, HidesStays DEF Unsettled, Bystander
<1>4. \A x : \A n \in Nat, y \in Known : y \in BelowIn(active', x, n) => y \in BelowIn(active, x, n)
  <2> DEFINE N == Rows \ Known
  <2>1. \A y \in active' : y \in active \cup N /\ \A z \in N : <<z, y>> \in Edges => y \in N
    BY <1>1
  <2> HIDE DEF N
  <2>2. \A x : \A n \in Nat : BelowIn(active', x, n) \subseteq BelowIn(active, x, n) \cup N
    BY <2>1, BelowCompare
  <2> QED
    BY <2>2 DEF N
<1>5. \A x : \A n \in Nat, y \in Unsettled(d)' : y \in BelowIn(active, x, n) => y \in BelowIn(active', x, n)
  <2>1. \A x : \A n \in Nat : BelowIn(active, x, n) \subseteq BelowIn(active', x, n) \cup E
    BY BelowCompare
  <2>2. \A y \in Unsettled(d)' : y \notin E
    BY DEF Unsettled
  <2> QED
    BY <2>1, <2>2
<1>6. \A x : \A n \in Nat : BelowIn(active', x, n) \subseteq BelowIn(active, x, n) \cup Spare
  <2>1. \A y \in active' : y \in active \cup Spare /\ \A z \in Spare : <<z, y>> \in Edges => y \in Spare
    BY <1>1
  <2> QED
    BY <2>1, BelowCompare
<1>7. FrontierInv(d)'
  <2> SUFFICES ASSUME Live(d) PROVE
        /\ \A i \in Places(d) :
             DepthAt(d, i) <= MaxDepth /\ (RowAt(d, i) \in dirty[d] \/ RowAt(d, i) \notin active')
        /\ \A i, j \in Places(d) :
             i <= j => DepthAt(d, i) <= DepthAt(d, j) /\ DepthAt(d, j) <= DepthAt(d, i) + 1
        /\ pc[d] = "update" =>
             /\ frontier[d] # <<>> /\ DepthAt(d, 1) < MaxDepth
             /\ \A c \in children[d] : <<RowAt(d, 1), c>> \in Edges
             /\ \A c \in ActiveChildren(d, RowAt(d, 1))' \ children[d] :
                  c \in Spare /\ Descendants[c] \cap reach[d] = {}
    BY <1>2 DEF FrontierInv, Bystander
  <2>1. FrontierInv(d)
    BY <1>0 DEF DeleteInv
  <2>2. ASSUME pc[d] = "update", NEW c \in ActiveChildren(d, RowAt(d, 1))' \ children[d]
        PROVE  c \in Spare /\ Descendants[c] \cap reach[d] = {}
    <3>1. c \in active' /\ c \notin dirty[d] /\ <<RowAt(d, 1), c>> \in Edges /\ c \in Rows
      BY <1>1, <1>2, <2>2 DEF ActiveChildren, Bystander
    <3>2. CASE c \in active
      BY <2>1, <2>2, <3>1, <3>2 DEF FrontierInv, ActiveChildren
    <3>3. CASE c \notin active
      <4>1. c \notin Known /\ c \in Spare
        BY <1>1, <3>1, <3>3
      <4>2. Descendants[c] \cap Known = {}
        BY <1>1, <3>1, <4>1, DescendantsAvoid
      <4> QED
        BY <1>1, <4>1, <4>2
    <3> QED
      BY <3>2, <3>3
  <2>3. \A i \in Places(d) : RowAt(d, i) \in dirty[d] \/ RowAt(d, i) \notin active'
    BY <1>1, <2>1 DEF FrontierInv
  <2> QED
    BY <2>1, <2>2, <2>3 DEF FrontierInv
<1>8. ClosedInv(d)'
  <2>1. ClosedInv(d)
    BY <1>0 DEF DeleteInv
  <2>2. \A p : InFrontier(d, p)' <=> InFrontier(d, p)
    BY <1>2 DEF InFrontier
  <2> SUFFICES ASSUME Live(d) \/ pc[d] = "done", NEW p \in dirty[d], NEW y \in active' \ dirty[d],
                      <<p, y>> \in Edges
               PROVE  p \in capped[d] \/ InFrontier(d, p) \/ y \in Spare
    BY <1>2, <2>2 DEF ClosedInv, Bystander
  <2> QED
    BY <1>1, <2>1 DEF ClosedInv
<1>9. PendingInv(d)'
  <2>1. PendingInv(d) /\ FrontierInv(d)
    BY <1>0 DEF DeleteInv
  <2>2. \A p : InFrontier(d, p)' <=> InFrontier(d, p)
    BY <1>2 DEF InFrontier
  <2> SUFFICES ASSUME Live(d) PROVE
        /\ \A y \in Unsettled(d)' :
             \E i \in Places(d) : y \in BelowIn(active', RowAt(d, i), MaxDepth - DepthAt(d, i))
        /\ frontier[d] # <<>> =>
             \A c \in dirty[d], m \in 1..(MaxDepth - DepthAt(d, 1)), y \in Unsettled(d)' :
               y \in BelowIn(active', c, m) =>
                 InFrontier(d, c) \/ \E i \in Places(d) : y \in BelowIn(active', RowAt(d, i), m - 1)
    BY <1>2, <2>2 DEF PendingInv, Bystander
  <2>3. \A i \in Places(d) : MaxDepth - DepthAt(d, i) \in Nat
    BY <1>0, <2>1, PlaceTypes DEF FrontierInv
  <2>4. ASSUME NEW y \in Unsettled(d)'
        PROVE  \E i \in Places(d) : y \in BelowIn(active', RowAt(d, i), MaxDepth - DepthAt(d, i))
    <3>1. PICK i \in Places(d) : y \in BelowIn(active, RowAt(d, i), MaxDepth - DepthAt(d, i))
      BY <1>3, <2>1 DEF PendingInv
    <3> QED
      BY <1>5, <2>3, <3>1
  <2>5. ASSUME frontier[d] # <<>>, NEW c \in dirty[d], NEW m \in 1..(MaxDepth - DepthAt(d, 1)),
               NEW y \in Unsettled(d)', y \in BelowIn(active', c, m), ~ InFrontier(d, c)
        PROVE  \E i \in Places(d) : y \in BelowIn(active', RowAt(d, i), m - 1)
    <3>0. DepthAt(d, 1) \in Nat
      BY <1>0, <2>5, HeadOfFrontier
    <3>1. m \in Nat /\ m - 1 \in Nat
      BY <3>0
    <3>2. y \in Unsettled(d) /\ y \in Known
      BY <1>1, <1>3 DEF Unsettled
    <3>3. y \in BelowIn(active, c, m)
      BY <1>4, <2>5, <3>1, <3>2
    <3>4. PICK i \in Places(d) : y \in BelowIn(active, RowAt(d, i), m - 1)
      BY <2>1, <2>5, <3>2, <3>3 DEF PendingInv
    <3> QED
      BY <1>5, <3>1, <3>4
  <2> QED
    BY <2>4, <2>5
<1>10. ReachInv(d)'
  <2>1. ReachInv(d) /\ FrontierInv(d)
    BY <1>0 DEF DeleteInv
  <2>2. \A i \in Places(d) : Live(d) => MaxDepth - DepthAt(d, i) \in Nat
    BY <1>0, <2>1, PlaceTypes DEF FrontierInv
  <2>3. ASSUME Live(d), NEW i \in Places(d)
        PROVE  BelowIn(active', RowAt(d, i), MaxDepth - DepthAt(d, i)) \subseteq reach[d] \cup Spare
    BY <1>6, <2>1, <2>2, <2>3 DEF ReachInv
  <2>4. ASSUME pc[d] = "update", NEW c \in children[d]
        PROVE  BelowIn(active', c, MaxDepth - DepthAt(d, 1) - 1) \subseteq reach[d] \cup Spare
    <3>1. frontier[d] # <<>> /\ DepthAt(d, 1) < MaxDepth
      BY <2>1, <2>4 DEF FrontierInv, Live
    <3>2. DepthAt(d, 1) \in Nat
      BY <1>0, <3>1, HeadOfFrontier
    <3>3. MaxDepth - DepthAt(d, 1) - 1 \in Nat
      BY <3>1, <3>2
    <3> QED
      BY <1>6, <2>1, <2>4, <3>3 DEF ReachInv
  <2> QED
    BY <1>2, <2>1, <2>3, <2>4 DEF ReachInv, Bystander
<1>11. CompleteInv(d)'
  <2>1. CompleteInv(d)
    BY <1>0 DEF DeleteInv
  <2> SUFFICES ASSUME pc[d] = "done", NEW y \in reach[d] \cap active'
               PROVE  \E o \in Deleters \ {d} : Hides(o, y)'
    BY DEF CompleteInv, Bystander
  <2>2. y \in active
    BY <1>1
  <2>3. PICK o \in Deleters \ {d} : Hides(o, y)
    BY <2>1, <2>2 DEF CompleteInv
  <2> QED
    BY <2>3, HidesStays
<1> QED
  BY <1>7, <1>8, <1>9, <1>10, <1>11 DEF DeleteInv


(* The usual case: no row ceases to be active.                             *)
LEMMA QuietStep ==
  ASSUME CascadeInv, RowsInv', NEW d \in Deleters, Bystander(d),
         \A o \in Deleters : pc[o] = "done" =>
           pc'[o] = "done" /\ capped'[o] = capped[o] /\ dirty'[o] = dirty[o],
         \A y \in active' : y \in active \/ y \notin Known, active \subseteq active'
  PROVE  DeleteInv(d)'
<1> DEFINE E == {}
<1>1. /\ \A y \in active : y \in active' \cup E /\ \A z \in E : <<z, y>> \in Edges => y \in E
      /\ \A y \in E \cap active' : \E o \in Deleters \ {d} : Hides(o, y)'
  OBVIOUS
<1> HIDE DEF E
<1> QED
  BY <1>1, EnvStep

LEMMA UpdateStep ==
  ASSUME CascadeInv, NEW u \in Updaters, NEW x \in Rows,
         UpdateLock(u, x) \/ RepositoryLock(u, x) \/ UpdateCommit(u) \/ UpdateFails(u)
  PROVE  CascadeInv'
<1> USE SoftDeleteAssumption
<1>1. RowsInv /\ TypeOK
  BY DEF CascadeInv, RowsInv
<1>2. RowsInv' /\ active' = active
  <2>1. CASE UpdateCommit(u)
    BY <1>1, <2>1, UpdateCommitRows
  <2>2. CASE UpdateFails(u)
    BY <1>1, <2>2, UpdateFailsRows DEF UpdateFails, rowVars
  <2>3. CASE UpdateLock(u, x) \/ RepositoryLock(u, x)
    BY <1>1, <2>3, UpdateLockRows DEF UpdateLock, RepositoryLock, rowVars
  <2> QED
    BY <2>1, <2>2, <2>3
<1>3. /\ UNCHANGED <<frontier, children, dirty, capped, reach>>
      /\ \E w : pc' = [pc EXCEPT ![u] = w]
  BY DEF UpdateLock, RepositoryLock, UpdateCommit, UpdateFails
<1>4. \A d \in Deleters : pc'[d] = pc[d] /\ Bystander(d)
  BY <1>1, <1>3 DEF TypeOK, Calls, Bystander
<1>5. \A d \in Deleters : DeleteInv(d)'
  BY <1>2, <1>3, <1>4, QuietStep
<1> QED
  BY <1>2, <1>5 DEF CascadeInv

LEMMA CreateStep ==
  ASSUME CascadeInv, NEW x \in Rows, Create(x)
  PROVE  CascadeInv'
<1>1. RowsInv' /\ active' = active \cup {x} /\ x \notin Known
  BY CreateRows DEF CascadeInv
<1>2. UNCHANGED <<pc, frontier, children, dirty, capped, reach>>
  BY DEF Create, txVars
<1>3. \A d \in Deleters : Bystander(d)
  BY <1>2 DEF Bystander
<1>4. \A d \in Deleters : DeleteInv(d)'
  BY <1>1, <1>2, <1>3, QuietStep
<1> QED
  BY <1>1, <1>4 DEF CascadeInv

LEMMA HardDeleteStep ==
  ASSUME CascadeInv, NEW x \in Rows, HardDelete(x)
  PROVE  CascadeInv'
<1>1. RowsInv' /\ active' = active \ Descendants[x]
  BY HardDeleteRows DEF CascadeInv
<1>2. UNCHANGED <<pc, frontier, children, dirty, capped, reach>>
  BY DEF HardDelete, txVars
<1>3. \A d \in Deleters : Bystander(d)
  BY <1>2 DEF Bystander
<1> DEFINE E == Descendants[x]
<1>4. /\ \A y \in active : y \in active' \cup E /\ \A z \in E : <<z, y>> \in Edges => y \in E
      /\ \A y \in E \cap active' : FALSE
  BY <1>1, DescendantsClosed
<1>5. \A y \in active' : y \in active
  BY <1>1
<1> HIDE DEF E
<1>6. ASSUME NEW d \in Deleters PROVE DeleteInv(d)'
  BY <1>1, <1>2, <1>3, <1>4, <1>5, EnvStep
<1> QED
  BY <1>1, <1>6 DEF CascadeInv

-----------------------------------------------------------------------------
(* The steps of a delete, seen by the others.                              *)

LEMMA OtherDeleteStep ==
  ASSUME CascadeInv, RowsInv', NEW o \in Deleters, NEW d \in Deleters \ {o},
         \/ \E x \in Rows, ao \in BOOLEAN : DeleteLock(o, x, ao)
         \/ CascadeList(o) \/ CascadeUpdate(o) \/ DeleteFails(o)
  PROVE  DeleteInv(d)'
<1>1. TypeOK
  BY DEF CascadeInv, RowsInv
<1>2. pc[o] \in {"idle", "list", "update"} /\ active' = active
  BY DEF DeleteLock, CascadeList, CascadeUpdate, DeleteFails, rowVars
<1>3. \A a \in Deleters \ {o} : Bystander(a)
  <2>1. CASE \E x \in Rows, ao \in BOOLEAN : DeleteLock(o, x, ao)
    BY <1>1, <2>1 DEF TypeOK, Calls, Bystander, DeleteLock
  <2>2. CASE CascadeList(o)
    BY <1>1, <2>2 DEF TypeOK, Calls, Bystander, CascadeList
  <2>3. CASE CascadeUpdate(o)
    BY <1>1, <2>3 DEF TypeOK, Calls, Bystander, CascadeUpdate
  <2>4. CASE DeleteFails(o)
    BY <1>1, <2>4 DEF TypeOK, Calls, Bystander, DeleteFails
  <2> QED
    BY <2>1, <2>2, <2>3, <2>4
<1>4. \A a \in Deleters : pc[a] = "done" =>
        pc'[a] = "done" /\ capped'[a] = capped[a] /\ dirty'[a] = dirty[a]
  BY <1>2, <1>3 DEF Bystander
<1> QED
  BY <1>2, <1>3, <1>4, QuietStep

(* A delete that commits leaves inactive rows behind, and below them, out  *)
(* of sight of the others, what it was capped at or what came later.       *)
LEMMA OtherCommitStep ==
  ASSUME CascadeInv, RowsInv', NEW o \in Deleters, NEW d \in Deleters \ {o}, DeleteCommit(o)
  PROVE  DeleteInv(d)'
<1> USE SoftDeleteAssumption
<1>1. TypeOK /\ TypeOK' /\ ClosedInv(o)
  BY DEF CascadeInv, RowsInv, DeleteInv
<1>2. /\ pc[o] = "list" /\ frontier[o] = <<>> /\ pc' = [pc EXCEPT ![o] = "done"]
      /\ active' = active \ dirty[o]
      /\ UNCHANGED <<frontier, children, dirty, capped, reach>>
  BY DEF DeleteCommit
<1>3. pc'[o] = "done" /\ \A a \in Deleters \ {o} : pc'[a] = pc[a]
  BY <1>1, <1>2 DEF TypeOK, Calls
<1>4. Bystander(d)
  BY <1>2, <1>3 DEF Bystander
<1>5. \A a \in Deleters : pc[a] = "done" =>
        pc'[a] = "done" /\ capped'[a] = capped[a] /\ dirty'[a] = dirty[a]
  BY <1>2, <1>3
<1> DEFINE Below0(y) == \E z \in capped[o] \cup (IF y \in Spare THEN dirty[o] ELSE {}) : y \in Descendants[z]
           E == dirty[o] \cup {y \in Rows : Below0(y)}
<1>6. \A y : Hides(o, y)' <=> Below0(y)
  BY <1>2, <1>3 DEF Hides
<1>7. ASSUME NEW y \in active, NEW z \in E, <<z, y>> \in Edges PROVE y \in E
  <2>0. y \in Rows /\ capped[o] \subseteq Rows /\ dirty[o] \subseteq Rows
    BY <1>1 DEF TypeOK
  <2>1. CASE z \in dirty[o] /\ y \notin dirty[o]
    <3>1. z \in capped[o] \/ y \in Spare
      BY <1>1, <1>2, <1>7, <2>1 DEF ClosedInv, Live, InFrontier, Places
    <3>2. y \in Descendants[z]
      BY <1>7, <2>0, <2>1, DescendantsClosed
    <3> QED
      BY <2>0, <2>1, <3>1, <3>2
  <2>2. CASE Below0(z)
    <3>1. PICK w \in capped[o] \cup (IF z \in Spare THEN dirty[o] ELSE {}) : z \in Descendants[w]
      BY <2>2
    <3>2. y \in Descendants[w]
      BY <1>7, <2>0, <3>1, DescendantsClosed
    <3>3. z \in Spare => y \in Spare
      BY <1>7
    <3> QED
      BY <2>0, <3>1, <3>2, <3>3
  <2> QED
    BY <2>1, <2>2
<1>8. /\ \A y \in active : y \in active' \cup E /\ \A z \in E : <<z, y>> \in Edges => y \in E
      /\ \A y \in active' : y \in active
  BY <1>2, <1>7
<1>9. ASSUME NEW y \in E \cap active' PROVE \E a \in Deleters \ {d} : Hides(a, y)'
  <2>1. Below0(y)
    BY <1>2
  <2> QED
    BY <1>6, <2>1
<1> HIDE DEF E
<1> QED
  BY <1>4, <1>5, <1>8, <1>9, EnvStep


-----------------------------------------------------------------------------
(* The steps of a delete, seen by itself.                                  *)

LEMMA OwnLockStep ==
  ASSUME CascadeInv, NEW d \in Deleters, NEW x \in Rows, NEW ao \in BOOLEAN, DeleteLock(d, x, ao)
  PROVE  DeleteInv(d)'
<1> USE SoftDeleteAssumption
<1>1. TypeOK /\ DeleteInv(d) /\ d \in Calls
  BY DEF CascadeInv, RowsInv, Calls
<1>2. active' = active
  BY DEF DeleteLock, rowVars
<1>3. \/ /\ pc'[d] = "list" /\ dirty'[d] = {x}
         /\ frontier'[d] = << <<x, 0>> >> /\ reach'[d] = Below(x, MaxDepth)
      \/ pc'[d] = "missing" /\ dirty'[d] = dirty[d] /\ reach'[d] = reach[d]
  BY <1>1 DEF TypeOK, DeleteLock
<1>4. CASE pc'[d] = "missing" /\ dirty'[d] = dirty[d] /\ reach'[d] = reach[d]
  BY <1>1, <1>4 DEF DeleteInv, FrontierInv, ClosedInv, PendingInv, ReachInv, CompleteInv, Live
<1>5. CASE /\ pc'[d] = "list" /\ dirty'[d] = {x}
           /\ frontier'[d] = << <<x, 0>> >> /\ reach'[d] = Below(x, MaxDepth)
  <2>1. reach'[d] = BelowIn(active', x, MaxDepth) /\ x \in reach'[d]
    BY <1>2, <1>5, BelowIsIn, BelowGrows
  <2>2. /\ Places(d)' = {1} /\ RowAt(d, 1)' = x /\ DepthAt(d, 1)' = 0
        /\ \A i \in {1} : RowAt(d, i)' = x /\ DepthAt(d, i)' = 0
    BY <1>5 DEF Places, RowAt, DepthAt
  <2>3. FrontierInv(d)'
    BY <1>5, <2>2 DEF FrontierInv, Live
  <2>4. \A c \in dirty'[d] : InFrontier(d, c)'
    BY <1>5, <2>2 DEF InFrontier
  <2>5. ClosedInv(d)'
    BY <2>4 DEF ClosedInv
  <2>6. MaxDepth - 0 = MaxDepth
    OBVIOUS
  <2>7. PendingInv(d)'
    <3>1. \A y \in Unsettled(d)' :
            \E i \in Places(d)' : y \in BelowIn(active', RowAt(d, i)', MaxDepth - DepthAt(d, i)')
      BY <2>1, <2>2, <2>6 DEF Unsettled
    <3> QED
      BY <2>4, <3>1 DEF PendingInv
  <2>8. ReachInv(d)'
    BY <1>5, <2>1, <2>2, <2>6 DEF ReachInv
  <2> QED
    BY <1>5, <2>3, <2>5, <2>7, <2>8 DEF DeleteInv, CompleteInv
<1> QED
  BY <1>3, <1>4, <1>5

LEMMA OwnFailsStep ==
  ASSUME CascadeInv, NEW d \in Deleters, DeleteFails(d)
  PROVE  DeleteInv(d)'
<1>1. TypeOK /\ DeleteInv(d)
  BY DEF CascadeInv, RowsInv
<1>2. pc'[d] = "failed" /\ UNCHANGED <<dirty, reach>>
  BY <1>1 DEF TypeOK, Calls, DeleteFails
<1> QED
  BY <1>1, <1>2 DEF DeleteInv, FrontierInv, ClosedInv, PendingInv, ReachInv, CompleteInv, Live

(* With an empty deque nothing is owed.                                    *)
LEMMA OwnCommitStep ==
  ASSUME CascadeInv, NEW d \in Deleters, DeleteCommit(d)
  PROVE  DeleteInv(d)'
<1>1. TypeOK /\ DeleteInv(d)
  BY DEF CascadeInv, RowsInv
<1>2. /\ pc[d] = "list" /\ frontier[d] = <<>> /\ pc' = [pc EXCEPT ![d] = "done"]
      /\ active' = active \ dirty[d]
      /\ UNCHANGED <<frontier, children, dirty, capped, reach>>
  BY DEF DeleteCommit
<1>3. pc'[d] = "done" /\ \A o \in Deleters \ {d} : pc'[o] = pc[o]
  BY <1>1, <1>2 DEF TypeOK, Calls
<1>4. Live(d) /\ Places(d) = {}
  BY <1>2 DEF Live, Places
<1>5. FrontierInv(d)' /\ PendingInv(d)' /\ ReachInv(d)'
  BY <1>1, <1>2, <1>3 DEF DeleteInv, FrontierInv, PendingInv, ReachInv, Live
<1>6. ClosedInv(d)'
  <2>1. \A p : InFrontier(d, p)' <=> InFrontier(d, p)
    BY <1>2 DEF InFrontier, Places, RowAt
  <2> QED
    BY <1>1, <1>2, <1>4, <2>1 DEF DeleteInv, ClosedInv
<1>7. CompleteInv(d)'
  <2> SUFFICES ASSUME NEW y \in reach[d] \cap active' PROVE \E o \in Deleters \ {d} : Hides(o, y)'
    BY <1>2 DEF CompleteInv
  <2>1. Unsettled(d) = {}
    BY <1>1, <1>4 DEF DeleteInv, PendingInv
  <2>2. y \in (reach[d] \cap active) \ dirty[d]
    BY <1>2
  <2>3. PICK o \in Deleters \ {d} : Hides(o, y)
    BY <2>1, <2>2 DEF Unsettled
  <2> QED
    BY <1>2, <1>3, <2>3, HidesStays
<1> QED
  BY <1>5, <1>6, <1>7 DEF DeleteInv


LEMMA OwnListStep ==
  ASSUME CascadeInv, NEW d \in Deleters, CascadeList(d)
  PROVE  DeleteInv(d)'
<1> USE SoftDeleteAssumption
<1> DEFINE x == RowAt(d, 1)
           n == DepthAt(d, 1)
<1>1. /\ TypeOK /\ FrontierInv(d) /\ ClosedInv(d) /\ PendingInv(d) /\ ReachInv(d)
      /\ pc[d] = "list" /\ frontier[d] # <<>> /\ Live(d)
  BY DEF CascadeInv, RowsInv, DeleteInv, CascadeList, Live
<1>2. /\ Head(frontier[d])[1] = x /\ Head(frontier[d])[2] = n
      /\ x \in Rows /\ n \in Nat /\ 1 \in Places(d)
  BY <1>1, HeadOfFrontier
<1>3. n <= MaxDepth /\ (x \in dirty[d] \/ x \notin active)
  BY <1>1, <1>2 DEF FrontierInv
<1>4. UNCHANGED <<active, dirty, reach>>
  BY DEF CascadeList, rowVars
<1>5. \/ /\ n >= MaxDepth /\ frontier' = [frontier EXCEPT ![d] = Tail(frontier[d])]
         /\ capped' = [capped EXCEPT ![d] = capped[d] \cup {x}] /\ UNCHANGED <<children, pc>>
      \/ /\ ~(n >= MaxDepth) /\ children' = [children EXCEPT ![d] = ActiveChildren(d, x)]
         /\ pc' = [pc EXCEPT ![d] = "update"] /\ UNCHANGED <<frontier, capped>>
  BY <1>2 DEF CascadeList
<1>6. Unsettled(d)' \subseteq Unsettled(d)
  <2>1. \A o \in Deleters \ {d} : pc'[o] = pc[o] /\ capped'[o] = capped[o] /\ dirty'[o] = dirty[o]
    BY <1>1, <1>4, <1>5 DEF TypeOK, Calls
  <2> QED
    BY <1>4, <2>1, HidesStays DEF Unsettled
<1> HIDE DEF x, n
<1>7. CASE /\ n >= MaxDepth /\ frontier' = [frontier EXCEPT ![d] = Tail(frontier[d])]
           /\ capped' = [capped EXCEPT ![d] = capped[d] \cup {x}] /\ UNCHANGED <<children, pc>>
  <2>1. n = MaxDepth /\ BelowIn(active, x, MaxDepth - n) = {x}
    <3>1. n = MaxDepth /\ MaxDepth - n = 0
      BY <1>2, <1>3, <1>7
    <3> QED
      BY <3>1, BelowUnfold
  <2>2. frontier'[d] = Tail(frontier[d]) /\ capped'[d] = capped[d] \cup {x} /\ pc'[d] = "list"
    BY <1>1, <1>7 DEF TypeOK
  <2>3. /\ \A i \in Places(d)' : i + 1 \in Places(d) /\ i \in Nat
        /\ \A i \in Places(d) \ {1} : i - 1 \in Places(d)' /\ (i - 1) + 1 = i
        /\ \A i \in Places(d)' : frontier'[d][i] = frontier[d][i + 1]
    <3> DEFINE F == frontier[d]
    <3>1. F \in Seq(Rows \X Nat) /\ F # <<>>
      BY <1>1 DEF TypeOK
    <3> HIDE DEF F
    <3>2. /\ Len(Tail(F)) = Len(F) - 1 /\ Len(F) \in Nat
          /\ \A i \in 1..Len(Tail(F)) : Tail(F)[i] = F[i + 1]
      BY <3>1
    <3> QED
      BY <2>2, <3>2 DEF Places, F
  <2>4. \A i \in Places(d)' : RowAt(d, i)' = RowAt(d, i + 1) /\ DepthAt(d, i)' = DepthAt(d, i + 1)
    BY <2>3 DEF RowAt, DepthAt
  <2>5. FrontierInv(d)'
    <3>1. \A i \in Places(d)' : DepthAt(d, i)' <= MaxDepth /\ (RowAt(d, i)' \in dirty'[d] \/ RowAt(d, i)' \notin active')
      BY <1>1, <1>4, <2>3, <2>4 DEF FrontierInv
    <3>2. \A i, j \in Places(d)' : i <= j =>
            DepthAt(d, i)' <= DepthAt(d, j)' /\ DepthAt(d, j)' <= DepthAt(d, i)' + 1
      BY <1>1, <2>3, <2>4 DEF FrontierInv
    <3> QED
      BY <2>2, <3>1, <3>2 DEF FrontierInv
  <2>6. \A i \in Places(d) \ {1} : \E j \in Places(d)' : RowAt(d, j)' = RowAt(d, i) /\ DepthAt(d, j)' = DepthAt(d, i)
    BY <2>3, <2>4
  <2>7. \A p : InFrontier(d, p) => p = x \/ InFrontier(d, p)'
    BY <2>6 DEF InFrontier, x
  <2>8. ClosedInv(d)'
    BY <1>1, <1>4, <2>2, <2>7 DEF ClosedInv
  <2>9. PendingInv(d)'
    <3>1. ASSUME NEW y \in Unsettled(d)'
          PROVE  \E j \in Places(d)' : y \in BelowIn(active', RowAt(d, j)', MaxDepth - DepthAt(d, j)')
      <4>1. PICK i \in Places(d) : y \in BelowIn(active, RowAt(d, i), MaxDepth - DepthAt(d, i))
        BY <1>1, <1>6 DEF PendingInv
      <4>2. i # 1
        <5>1. y \in active \ dirty[d]
          BY <1>4 DEF Unsettled
        <5>2. y # x
          BY <1>3, <5>1
        <5> QED
          BY <2>1, <4>1, <5>2 DEF x, n
      <4> QED
        BY <1>4, <2>6, <4>1, <4>2
    <3>2. frontier'[d] # <<>> => MaxDepth - DepthAt(d, 1)' \in Int /\ ~(MaxDepth - DepthAt(d, 1)' >= 1)
      <4> SUFFICES ASSUME frontier'[d] # <<>> PROVE MaxDepth - DepthAt(d, 1)' \in Int /\ ~(MaxDepth - DepthAt(d, 1)' >= 1)
        OBVIOUS
      <4>1. Tail(frontier[d]) \in Seq(Rows \X Nat) /\ Tail(frontier[d]) # <<>>
        BY <1>1, <2>2, HeadOfFrontier
      <4>2. 1 \in Places(d)'
        BY <2>2, <4>1 DEF Places
      <4>3. 2 \in Places(d) /\ DepthAt(d, 1)' = DepthAt(d, 2)
        BY <2>3, <2>4, <4>2
      <4>4. DepthAt(d, 2) \in Nat /\ n <= DepthAt(d, 2)
        BY <1>1, <1>2, <4>3, PlaceTypes DEF FrontierInv, n
      <4> QED
        BY <2>1, <4>3, <4>4
    <3> QED
      BY <3>1, <3>2 DEF PendingInv
  <2>10. ReachInv(d)'
    <3>1. \A i \in Places(d)' :
            BelowIn(active', RowAt(d, i)', MaxDepth - DepthAt(d, i)') \subseteq reach'[d] \cup Spare
      BY <1>1, <1>4, <2>3, <2>4 DEF ReachInv
    <3> QED
      BY <1>1, <1>4, <2>2, <3>1 DEF ReachInv
  <2> QED
    BY <2>2, <2>5, <2>8, <2>9, <2>10 DEF DeleteInv, CompleteInv
<1>8. CASE /\ ~(n >= MaxDepth) /\ children' = [children EXCEPT ![d] = ActiveChildren(d, x)]
           /\ pc' = [pc EXCEPT ![d] = "update"] /\ UNCHANGED <<frontier, capped>>
  <2>1. n < MaxDepth /\ MaxDepth - n - 1 \in Nat /\ MaxDepth - n = (MaxDepth - n - 1) + 1
    BY <1>2, <1>3, <1>8
  <2>2. pc'[d] = "update" /\ children'[d] = ActiveChildren(d, x)
    BY <1>1, <1>8 DEF TypeOK, Calls
  <2>3. /\ Places(d)' = Places(d) /\ Live(d)' /\ x' = x /\ n' = n
        /\ \A i : RowAt(d, i)' = RowAt(d, i) /\ DepthAt(d, i)' = DepthAt(d, i)
        /\ \A p : InFrontier(d, p)' <=> InFrontier(d, p)
    BY <1>8, <2>2 DEF Places, RowAt, DepthAt, Live, x, n, InFrontier
  <2>4. ActiveChildren(d, x)' = ActiveChildren(d, x)
    BY <1>4, <2>3 DEF ActiveChildren
  <2>5. \A c \in ActiveChildren(d, x) : <<x, c>> \in Edges /\ c \in active
    BY DEF ActiveChildren
  <2>6. FrontierInv(d)'
    <3>1. /\ frontier'[d] # <<>> /\ DepthAt(d, 1)' < MaxDepth
          /\ \A c \in children'[d] : <<RowAt(d, 1)', c>> \in Edges
          /\ \A c \in ActiveChildren(d, RowAt(d, 1))' \ children'[d] : FALSE
      BY <1>1, <1>8, <2>1, <2>2, <2>3, <2>4, <2>5 DEF x, n
    <3>2. /\ \A i \in Places(d)' :
               DepthAt(d, i)' <= MaxDepth /\ (RowAt(d, i)' \in dirty'[d] \/ RowAt(d, i)' \notin active')
          /\ \A i, j \in Places(d)' :
               i <= j => DepthAt(d, i)' <= DepthAt(d, j)' /\ DepthAt(d, j)' <= DepthAt(d, i)' + 1
      BY <1>1, <1>4, <2>3 DEF FrontierInv
    <3> QED
      BY <3>1, <3>2 DEF FrontierInv
  <2>7. ClosedInv(d)'
    BY <1>1, <1>4, <1>8, <2>3 DEF ClosedInv
  <2>8. PendingInv(d)'
    BY <1>1, <1>4, <1>6, <1>8, <2>3 DEF PendingInv
  <2>9. ReachInv(d)'
    <3>1. ASSUME NEW c \in ActiveChildren(d, x)
          PROVE  BelowIn(active, c, MaxDepth - n - 1) \subseteq reach[d] \cup Spare
      <4>1. BelowIn(active, c, MaxDepth - n - 1) \subseteq BelowIn(active, x, MaxDepth - n)
        BY <2>1, <2>5, BelowChild
      <4> QED
        BY <1>1, <1>2, <4>1 DEF ReachInv, x, n
    <3> QED
      BY <1>1, <1>4, <2>2, <2>3, <3>1 DEF ReachInv, n
  <2> QED
    BY <2>2, <2>6, <2>7, <2>8, <2>9 DEF DeleteInv, CompleteInv
<1> QED
  BY <1>5, <1>7, <1>8


LEMMA OwnUpdateStep ==
  ASSUME CascadeInv, NEW d \in Deleters, CascadeUpdate(d)
  PROVE  DeleteInv(d)'
<1> USE SoftDeleteAssumption
<1> DEFINE x == RowAt(d, 1)
           n == DepthAt(d, 1)
           hit == ActiveChildren(d, x)
           C == children[d]
<1>1. /\ RowsInv /\ TypeOK
      /\ FrontierInv(d) /\ ClosedInv(d) /\ PendingInv(d) /\ ReachInv(d)
  BY DEF CascadeInv, RowsInv, DeleteInv
<1>2. /\ pc[d] = "update" /\ pc' = [pc EXCEPT ![d] = "list"] /\ frontier[d] # <<>>
      /\ dirty' = [dirty EXCEPT ![d] = dirty[d] \cup hit]
      /\ UNCHANGED <<active, capped, reach>>
      /\ IsNextFrontier(frontier'[d], frontier[d], children[d], n + 1)
  BY <1>1, CascadeUpdateShape
<1>3. x \in Rows /\ n \in Nat /\ 1 \in Places(d) /\ n < MaxDepth /\ Live(d)
  BY <1>1, <1>2, HeadOfFrontier DEF FrontierInv, Live
<1>4. pc'[d] = "list" /\ Live(d)' /\ dirty'[d] = dirty[d] \cup hit
  BY <1>1, <1>2 DEF TypeOK, Calls, Live
<1>5. \A y : y \in hit <=> y \in active \ dirty[d] /\ <<x, y>> \in Edges
  BY DEF ActiveChildren
<1>6. /\ x \in dirty[d] \/ x \notin active
      /\ \A c \in C : <<x, c>> \in Edges
      /\ \A c \in hit \ C : c \in Spare /\ Descendants[c] \cap reach[d] = {}
  BY <1>1, <1>2, <1>3 DEF FrontierInv
<1>7. Unsettled(d)' \subseteq Unsettled(d) /\ \A y \in Unsettled(d)' : y \in active /\ y \in reach[d] /\ y \notin dirty'[d]
  <2>1. \A o \in Deleters \ {d} : pc'[o] = pc[o] /\ capped'[o] = capped[o] /\ dirty'[o] = dirty[o]
    BY <1>1, <1>2 DEF TypeOK, Calls
  <2> QED
    BY <1>2, <1>4, <2>1, HidesStays DEF Unsettled
<1>8. /\ \A j \in Places(d)' :
           \/ /\ j \in Nat /\ j + 1 \in Places(d) /\ j + 1 # 1 /\ j < Len(frontier[d])
              /\ RowAt(d, j)' = RowAt(d, j + 1) /\ DepthAt(d, j)' = DepthAt(d, j + 1)
           \/ /\ j \in Nat /\ j >= Len(frontier[d]) /\ Len(frontier[d]) \in Nat
              /\ RowAt(d, j)' \in C /\ DepthAt(d, j)' = n + 1
      /\ \A i \in Places(d) \ {1} :
           \E j \in Places(d)' : RowAt(d, j)' = RowAt(d, i) /\ DepthAt(d, j)' = DepthAt(d, i)
      /\ \A c \in C : \E j \in Places(d)' : RowAt(d, j)' = c /\ DepthAt(d, j)' = n + 1
  <2> DEFINE F == frontier[d]
             G == frontier'[d]
             m == Len(F)
             l == Len(G)
  <2>1. /\ m \in Nat /\ l \in Nat
        /\ \A j \in 1..(m - 1) : j \in 1..l /\ G[j] = F[j + 1]
        /\ \A j \in 1..l : j \in 1..(m - 1) \/ (j > m - 1 /\ \E c \in C : G[j] = <<c, n + 1>>)
        /\ \A c \in C : \E j \in 1..l : G[j] = <<c, n + 1>>
    BY <1>2 DEF IsNextFrontier
  <2>2. Places(d) = 1..m /\ Places(d)' = 1..l
    BY DEF Places
  <2>3. /\ \A j : RowAt(d, j) = F[j][1] /\ DepthAt(d, j) = F[j][2]
        /\ \A j : RowAt(d, j)' = G[j][1] /\ DepthAt(d, j)' = G[j][2]
    BY DEF RowAt, DepthAt
  <2> HIDE DEF F, G, m, l, C, n, x, hit
  <2>4. ASSUME NEW j \in 1..l
        PROVE  \/ j \in Nat /\ j + 1 \in 1..m /\ j + 1 # 1 /\ j < m /\ G[j] = F[j + 1]
               \/ j \in Nat /\ j >= m /\ \E c \in C : G[j] = <<c, n + 1>>
    BY <2>1
  <2>5. ASSUME NEW i \in (1..m) \ {1}
        PROVE  \E j \in 1..l : G[j] = F[i]
    <3>1. i - 1 \in 1..(m - 1) /\ (i - 1) + 1 = i
      BY <2>1
    <3> QED
      BY <2>1, <3>1
  <2>6. \A j \in Places(d)' :
           \/ /\ j \in Nat /\ j + 1 \in Places(d) /\ j + 1 # 1 /\ j < m
              /\ RowAt(d, j)' = RowAt(d, j + 1) /\ DepthAt(d, j)' = DepthAt(d, j + 1)
           \/ j \in Nat /\ j >= m /\ m \in Nat /\ RowAt(d, j)' \in C /\ DepthAt(d, j)' = n + 1
    BY <2>1, <2>2, <2>3, <2>4
  <2>7. \A i \in Places(d) \ {1} :
           \E j \in Places(d)' : RowAt(d, j)' = RowAt(d, i) /\ DepthAt(d, j)' = DepthAt(d, i)
    BY <2>2, <2>3, <2>5
  <2>8. ASSUME NEW c \in C PROVE \E j \in Places(d)' : RowAt(d, j)' = c /\ DepthAt(d, j)' = n + 1
    <3>1. PICK j \in 1..l : G[j] = <<c, n + 1>>
      BY <2>1
    <3>2. G[j][1] = c /\ G[j][2] = n + 1
      BY <3>1
    <3> QED
      BY <2>2, <2>3, <3>2
  <2> QED
    BY <2>6, <2>7, <2>8 DEF m, F
<1> HIDE DEF x, n, hit, C
<1>9. /\ \A i \in Places(d) : RowAt(d, i) \in Rows /\ DepthAt(d, i) \in Nat
      /\ C \subseteq Rows /\ hit \subseteq active /\ active \subseteq Rows
  BY <1>1, <1>5, PlaceTypes DEF TypeOK, C
<1>10. FrontierInv(d)'
  <2>1. ASSUME NEW j \in Places(d)'
        PROVE  DepthAt(d, j)' <= MaxDepth /\ (RowAt(d, j)' \in dirty'[d] \/ RowAt(d, j)' \notin active')
    <3>1. CASE j + 1 \in Places(d) /\ RowAt(d, j)' = RowAt(d, j + 1) /\ DepthAt(d, j)' = DepthAt(d, j + 1)
      BY <1>1, <1>2, <1>3, <1>4, <3>1 DEF FrontierInv
    <3>2. CASE RowAt(d, j)' \in C /\ DepthAt(d, j)' = n + 1
      <4>1. \A c \in C : c \in active => c \in dirty[d] \cup hit
        BY <1>5, <1>6
      <4>2. n + 1 <= MaxDepth
        BY <1>3
      <4> QED
        BY <1>2, <1>4, <3>2, <4>1, <4>2
    <3> QED
      BY <1>8, <3>1, <3>2
  <2>2. \A i, j \in Places(d) : i <= j => DepthAt(d, i) <= DepthAt(d, j) /\ DepthAt(d, j) <= DepthAt(d, i) + 1
    BY <1>1, <1>3 DEF FrontierInv
  <2>3. \A i \in Places(d) : n <= DepthAt(d, i) /\ DepthAt(d, i) <= n + 1
    BY <1>3, <2>2 DEF n, Places
  <2>4. ASSUME NEW i \in Places(d)', NEW j \in Places(d)', i <= j
        PROVE  DepthAt(d, i)' <= DepthAt(d, j)' /\ DepthAt(d, j)' <= DepthAt(d, i)' + 1
    <3>1. CASE j < Len(frontier[d])
      <4>1. Len(frontier[d]) \in Nat
        BY <1>1, <1>2, HeadOfFrontier
      <4>2. /\ i \in Nat /\ j \in Nat /\ i + 1 \in Places(d) /\ j + 1 \in Places(d) /\ i + 1 <= j + 1
            /\ DepthAt(d, i)' = DepthAt(d, i + 1) /\ DepthAt(d, j)' = DepthAt(d, j + 1)
        BY <1>8, <2>4, <3>1, <4>1
      <4> QED
        BY <2>2, <4>2
    <3>2. CASE DepthAt(d, j)' = n + 1
      <4>1. DepthAt(d, i)' = n + 1 \/ \E k \in Places(d) : DepthAt(d, i)' = DepthAt(d, k)
        BY <1>8
      <4>2. DepthAt(d, i)' \in Nat /\ n <= DepthAt(d, i)' /\ DepthAt(d, i)' <= n + 1
        BY <1>3, <1>9, <2>3, <4>1
      <4> QED
        BY <1>3, <3>2, <4>2
    <3> QED
      BY <1>8, <3>1, <3>2
  <2> QED
    BY <1>4, <2>1, <2>4 DEF FrontierInv
<1>11. \A p : InFrontier(d, p) => p = x \/ InFrontier(d, p)'
  BY <1>8 DEF InFrontier, x
<1>12. \A c \in C : InFrontier(d, c)'
  BY <1>8 DEF InFrontier
<1>13. ClosedInv(d)'
  <2> SUFFICES ASSUME NEW p \in dirty[d] \cup hit, NEW y \in active \ (dirty[d] \cup hit), <<p, y>> \in Edges
               PROVE  p \in capped[d] \/ InFrontier(d, p)' \/ y \in Spare
    BY <1>2, <1>4 DEF ClosedInv
  <2>1. CASE p \in dirty[d]
    <3>1. p # x
      BY <1>5
    <3> QED
      BY <1>1, <1>3, <1>11, <2>1, <3>1 DEF ClosedInv
  <2>2. CASE p \in hit \ C
    BY <1>6, <2>2
  <2>3. CASE p \in C
    BY <1>12, <2>3
  <2> QED
    BY <2>1, <2>2, <2>3
<1>14. ReachInv(d)'
  <2>1. MaxDepth - n - 1 \in Nat /\ MaxDepth - (n + 1) = MaxDepth - n - 1
    BY <1>3
  <2>2. \A c \in C : BelowIn(active, c, MaxDepth - n - 1) \subseteq reach[d] \cup Spare
    BY <1>1, <1>2 DEF ReachInv, C, n
  <2>3. \A c \in C : c \in BelowIn(active, c, MaxDepth - n - 1)
    BY <2>1, BelowGrows
  <2>4. dirty'[d] \subseteq reach'[d] \cup Spare
    BY <1>1, <1>2, <1>4, <1>6, <2>2, <2>3 DEF ReachInv
  <2>5. ASSUME NEW j \in Places(d)'
        PROVE  BelowIn(active', RowAt(d, j)', MaxDepth - DepthAt(d, j)') \subseteq reach'[d] \cup Spare
    <3>1. CASE j + 1 \in Places(d) /\ RowAt(d, j)' = RowAt(d, j + 1) /\ DepthAt(d, j)' = DepthAt(d, j + 1)
      BY <1>1, <1>2, <1>3, <3>1 DEF ReachInv
    <3>2. CASE RowAt(d, j)' \in C /\ DepthAt(d, j)' = n + 1
      BY <1>2, <2>1, <2>2, <3>2
    <3> QED
      BY <1>8, <3>1, <3>2
  <2> QED
    BY <1>4, <2>4, <2>5 DEF ReachInv
(* What is still owed below the row just dealt with is below a row that is *)
(* left in the deque, and nearer to it.                                    *)
<1>15. \A k \in Nat : k <= MaxDepth - n => \A y \in Unsettled(d)' : y \in BelowIn(active, x, k) =>
         k >= 1 /\ \E j \in Places(d)' : y \in BelowIn(active, RowAt(d, j)', k - 1)
  <2> DEFINE Ahead(k, y) == k >= 1 /\ \E j \in Places(d)' : y \in BelowIn(active, RowAt(d, j)', k - 1)
             S == {k \in Nat : k <= MaxDepth - n =>
                     \A y \in Unsettled(d)' : y \in BelowIn(active, x, k) => Ahead(k, y)}
  <2>1. 0 \in S
    <3>1. BelowIn(active, x, 0) = {x}
      BY BelowUnfold
    <3> QED
      BY <1>4, <1>6, <1>7, <3>1
  <2>2. ASSUME NEW k \in Nat, k \in S PROVE k + 1 \in S
    <3> SUFFICES ASSUME k + 1 <= MaxDepth - n, NEW y \in Unsettled(d)', y \in BelowIn(active, x, k + 1)
                 PROVE  Ahead(k + 1, y)
      OBVIOUS
    <3>0. k <= MaxDepth - n /\ (k + 1) - 1 = k /\ MaxDepth - n \in Nat
      BY <1>3
    <3>1. y \in BelowIn(active, x, k) => Ahead(k + 1, y)
      <4> SUFFICES ASSUME y \in BelowIn(active, x, k) PROVE Ahead(k + 1, y)
        OBVIOUS
      <4>1. Ahead(k, y)
        BY <2>2, <3>0
      <4>2. PICK j \in Places(d)' : y \in BelowIn(active, RowAt(d, j)', k - 1)
        BY <4>1
      <4>3. k - 1 \in Nat /\ k - 1 <= k
        BY <4>1
      <4>4. y \in BelowIn(active, RowAt(d, j)', k)
        BY <4>2, <4>3, BelowGrows
      <4> QED
        BY <3>0, <4>4
    <3>2. y # x /\ y \in active /\ y \notin dirty[d] /\ y \in reach[d]
      BY <1>4, <1>6, <1>7
    <3>3. PICK c \in active : <<x, c>> \in Edges /\ y \in BelowIn(active, c, k)
      BY <3>2, BelowFirst
    <3>4. ASSUME NEW i \in Places(d), y \in BelowIn(active, RowAt(d, i), k) PROVE Ahead(k + 1, y)
      <4>1. CASE i = 1
        BY <3>1, <3>4, <4>1 DEF x
      <4>2. CASE i # 1
        BY <1>8, <3>0, <3>4, <4>2
      <4> QED
        BY <4>1, <4>2
    <3>5. CASE c \in dirty[d] /\ InFrontier(d, c)
      BY <3>3, <3>4, <3>5 DEF InFrontier
    <3>6. CASE c \in dirty[d] /\ ~ InFrontier(d, c)
      <4>1. k >= 1
        <5>1. BelowIn(active, c, 0) = {c}
          BY BelowUnfold
        <5> QED
          BY <3>2, <3>3, <3>6, <5>1
      <4>2. k \in 1..(MaxDepth - DepthAt(d, 1)) /\ k - 1 \in Nat /\ k - 1 <= k
        BY <3>0, <4>1 DEF n
      <4>3. PICK i \in Places(d) : y \in BelowIn(active, RowAt(d, i), k - 1)
        BY <1>1, <1>2, <1>3, <1>7, <3>3, <3>6, <4>2 DEF PendingInv
      <4>4. y \in BelowIn(active, RowAt(d, i), k)
        BY <4>2, <4>3, BelowGrows
      <4> QED
        BY <3>4, <4>4
    <3>7. CASE c \in C
      BY <1>8, <3>0, <3>3, <3>7
    <3>8. CASE c \in hit \ C
      <4>1. c \in Rows
        BY <1>9
      <4>2. y \in Descendants[c]
        BY <1>9, <3>3, <4>1, BelowDescends
      <4> QED
        BY <1>6, <3>2, <3>8, <4>2
    <3> QED
      BY <1>5, <3>3, <3>5, <3>6, <3>7, <3>8
  <2> HIDE DEF S
  <2>3. \A k \in Nat : k \in S
    BY <2>1, <2>2, NatSetInduction
  <2> QED
    BY <2>3 DEF S
<1>16. PendingInv(d)'
  <2>1. ASSUME NEW y \in Unsettled(d)'
        PROVE  \E j \in Places(d)' : y \in BelowIn(active', RowAt(d, j)', MaxDepth - DepthAt(d, j)')
    <3>1. PICK i \in Places(d) : y \in BelowIn(active, RowAt(d, i), MaxDepth - DepthAt(d, i))
      BY <1>1, <1>3, <1>7 DEF PendingInv
    <3>2. CASE i # 1
      BY <1>2, <1>8, <3>1, <3>2
    <3>3. CASE i = 1
      <4>1. MaxDepth - n \in Nat /\ MaxDepth - n - 1 \in Nat
        BY <1>3
      <4>2. PICK j \in Places(d)' : y \in BelowIn(active, RowAt(d, j)', MaxDepth - n - 1)
        BY <1>15, <3>1, <3>3, <4>1 DEF x, n
      <4>3. DepthAt(d, j)' \in Nat /\ DepthAt(d, j)' <= n + 1 /\ DepthAt(d, j)' <= MaxDepth
        <5>1. \A i2 \in Places(d) : DepthAt(d, i2) <= n + 1 /\ DepthAt(d, i2) <= MaxDepth
          BY <1>1, <1>3 DEF FrontierInv, n, Places
        <5>2. DepthAt(d, j)' = n + 1 \/ \E i2 \in Places(d) : DepthAt(d, j)' = DepthAt(d, i2)
          BY <1>8
        <5> QED
          BY <1>3, <1>9, <5>1, <5>2
      <4>4. MaxDepth - DepthAt(d, j)' \in Nat /\ MaxDepth - n - 1 <= MaxDepth - DepthAt(d, j)'
        BY <1>3, <4>3
      <4>5. y \in BelowIn(active, RowAt(d, j)', MaxDepth - DepthAt(d, j)')
        BY <4>1, <4>2, <4>4, BelowGrows
      <4> QED
        BY <1>2, <4>5
    <3> QED
      BY <3>2, <3>3
  <2>2. ASSUME frontier'[d] # <<>>, NEW c \in dirty'[d], NEW m \in 1..(MaxDepth - DepthAt(d, 1)'),
               NEW y \in Unsettled(d)', y \in BelowIn(active', c, m), ~ InFrontier(d, c)'
        PROVE  \E j \in Places(d)' : y \in BelowIn(active', RowAt(d, j)', m - 1)
    <3>1. m \in Nat /\ m - 1 \in Nat /\ m <= MaxDepth - n /\ m >= 1 /\ m \in 1..(MaxDepth - DepthAt(d, 1))
      <4>1. 1 \in Places(d)'
        BY <1>2, <2>2 DEF IsNextFrontier, Places
      <4>2. DepthAt(d, 1)' = n + 1 \/ \E i \in Places(d) : DepthAt(d, 1)' = DepthAt(d, i)
        BY <1>8, <4>1
      <4>3. \A i \in Places(d) : n <= DepthAt(d, i)
        BY <1>1, <1>3 DEF FrontierInv, n, Places
      <4>4. DepthAt(d, 1)' \in Nat /\ n <= DepthAt(d, 1)'
        BY <1>3, <1>9, <4>2, <4>3
      <4> QED
        BY <1>3, <4>4 DEF n
    <3>2. y \in BelowIn(active, c, m) /\ y \in Unsettled(d) /\ y \in reach[d]
      BY <1>2, <1>7, <2>2
    <3>3. ASSUME NEW k \in Nat, k <= m, y \in BelowIn(active, x, k)
          PROVE  \E j \in Places(d)' : y \in BelowIn(active, RowAt(d, j)', m - 1)
      <4>1. k <= MaxDepth - n
        BY <1>3, <3>1, <3>3
      <4>2. PICK j \in Places(d)' : k >= 1 /\ y \in BelowIn(active, RowAt(d, j)', k - 1)
        BY <1>15, <3>3, <4>1
      <4>3. k - 1 \in Nat /\ k - 1 <= m - 1
        BY <3>1, <3>3, <4>2
      <4> QED
        BY <3>1, <4>2, <4>3, BelowGrows
    <3>4. CASE c \in dirty[d]
      <4>1. CASE c = x
        BY <1>2, <3>1, <3>2, <3>3, <4>1
      <4>2. CASE c # x
        <5>1. ~ InFrontier(d, c)
          BY <1>11, <2>2, <4>2
        <5>2. PICK i \in Places(d) : y \in BelowIn(active, RowAt(d, i), m - 1)
          BY <1>1, <1>2, <1>3, <3>1, <3>2, <3>4, <5>1 DEF PendingInv
        <5>3. CASE i = 1
          <6>1. m - 1 <= m
            BY <3>1
          <6> QED
            BY <1>2, <3>1, <3>3, <5>2, <5>3, <6>1 DEF x
        <5>4. CASE i # 1
          BY <1>2, <1>8, <5>2, <5>4
        <5> QED
          BY <5>3, <5>4
      <4> QED
        BY <4>1, <4>2
    <3>5. CASE c \in hit \ C
      <4>1. c \in Rows
        BY <1>9, <3>5
      <4>2. y \in Descendants[c]
        BY <1>9, <3>1, <3>2, <4>1, BelowDescends
      <4> QED
        BY <1>6, <3>2, <3>5, <4>2
    <3> QED
      BY <1>4, <1>12, <2>2, <3>4, <3>5
  <2> QED
    BY <2>1, <2>2 DEF PendingInv
<1> QED
  BY <1>4, <1>10, <1>13, <1>14, <1>16 DEF DeleteInv, CompleteInv


-----------------------------------------------------------------------------
(* All steps together.                                                     *)

LEMMA DeleteStep ==
  ASSUME CascadeInv, NEW d \in Deleters,
         \/ \E x \in Rows, ao \in BOOLEAN : DeleteLock(d, x, ao)
         \/ Delete(d) \/ DeleteFails(d)
  PROVE  CascadeInv'
<1>1. RowsInv /\ FrontierInv(d)
  BY DEF CascadeInv, DeleteInv
<1>2. CASE \E x \in Rows, ao \in BOOLEAN : DeleteLock(d, x, ao)
  <2>1. RowsInv' /\ DeleteInv(d)'
    BY <1>1, <1>2, DeleteLockRows, OwnLockStep
  <2>2. \A o \in Deleters \ {d} : DeleteInv(o)'
    BY <1>2, <2>1, OtherDeleteStep
  <2> QED
    BY <2>1, <2>2 DEF CascadeInv
<1>3. CASE CascadeList(d)
  <2>1. RowsInv' /\ DeleteInv(d)'
    BY <1>1, <1>3, CascadeListRows, OwnListStep
  <2>2. \A o \in Deleters \ {d} : DeleteInv(o)'
    BY <1>3, <2>1, OtherDeleteStep
  <2> QED
    BY <2>1, <2>2 DEF CascadeInv
<1>4. CASE CascadeUpdate(d)
  <2>1. RowsInv' /\ DeleteInv(d)'
    BY <1>1, <1>4, CascadeUpdateRows, OwnUpdateStep
  <2>2. \A o \in Deleters \ {d} : DeleteInv(o)'
    BY <1>4, <2>1, OtherDeleteStep
  <2> QED
    BY <2>1, <2>2 DEF CascadeInv
<1>5. CASE DeleteCommit(d)
  <2>1. RowsInv' /\ DeleteInv(d)'
    BY <1>1, <1>5, DeleteCommitRows, OwnCommitStep
  <2>2. \A o \in Deleters \ {d} : DeleteInv(o)'
    BY <1>5, <2>1, OtherCommitStep
  <2> QED
    BY <2>1, <2>2 DEF CascadeInv
<1>6. CASE DeleteFails(d)
  <2>1. RowsInv' /\ DeleteInv(d)'
    BY <1>1, <1>6, DeleteFailsRows, OwnFailsStep
  <2>2. \A o \in Deleters \ {d} : DeleteInv(o)'
    BY <1>6, <2>1, OtherDeleteStep
  <2> QED
    BY <2>1, <2>2 DEF CascadeInv
<1> QED
  BY <1>2, <1>3, <1>4, <1>5, <1>6 DEF Delete

LEMMA UnchangedKeeps ==
  ASSUME CascadeInv, UNCHANGED vars
  PROVE  CascadeInv'
<1>1. UNCHANGED <<exists, gone, active, by, lock, pc, root, frontier, children, dirty, capped, reach>>
  BY DEF vars, rowVars, txVars
<1>2. RowsInv'
  BY <1>1 DEF CascadeInv, RowsInv, TypeOK, LockInv, KnownInv, TraceInv,
              Live, Locked, Known, Places, RowAt
<1>3. \A d \in Deleters : Bystander(d)
  BY <1>1 DEF Bystander
<1>4. \A d \in Deleters : DeleteInv(d)'
  BY <1>1, <1>2, <1>3, QuietStep
<1> QED
  BY <1>2, <1>4 DEF CascadeInv

LEMMA CascadeNext == CascadeInv /\ [Next]_vars => CascadeInv'
<1> SUFFICES ASSUME CascadeInv, [Next]_vars PROVE CascadeInv'
  OBVIOUS
<1>1. CASE UNCHANGED vars
  BY <1>1, UnchangedKeeps
<1>2. ASSUME NEW d \in Deleters,
             \/ \E x \in Rows, ao \in BOOLEAN : DeleteLock(d, x, ao)
             \/ Delete(d) \/ DeleteFails(d)
      PROVE  CascadeInv'
  BY <1>2, DeleteStep
<1>3. ASSUME NEW u \in Updaters, NEW x \in Rows, UpdateLock(u, x) \/ RepositoryLock(u, x)
      PROVE  CascadeInv'
  BY <1>3, UpdateStep
<1>4. ASSUME NEW u \in Updaters, UpdateCommit(u) \/ UpdateFails(u) PROVE CascadeInv'
  <2>1. root[u] \in Rows
    BY <1>4 DEF CascadeInv, RowsInv, TypeOK, LockInv, UpdateCommit, UpdateFails
  <2> QED
    BY <1>4, <2>1, UpdateStep
<1>5. ASSUME NEW x \in Rows, Create(x) \/ HardDelete(x) PROVE CascadeInv'
  BY <1>5, CreateStep, HardDeleteStep
<1> QED
  BY <1>1, <1>2, <1>3, <1>4, <1>5 DEF Next

-----------------------------------------------------------------------------
(* The theorems.                                                           *)

(* The inductive invariant holds in every state of the write side of       *)
(* service.py: locks, deques and updated_by as described above.            *)
THEOREM CascadeInvariant == Spec => []CascadeInv
<1> QED
  BY CascadeInit, CascadeNext, PTL DEF Spec

(* The rows, locks, deques and call states keep their types.               *)
THEOREM SoftDeleteTypes == Spec => []TypeOK
<1>1. CascadeInv => TypeOK
  BY DEF CascadeInv, RowsInv
<1> QED
  BY <1>1, CascadeInvariant, PTL

(* A delete() whose transaction rolled back has left no row deactivated in *)
(* its user's name and holds no lock.                                      *)
THEOREM FailedDeletesLeaveNothing == Spec => []FailureLeavesNoTrace
<1>1. CascadeInv => FailureLeavesNoTrace
  BY DEF CascadeInv, RowsInv, LockInv, TraceInv, FailureLeavesNoTrace, Live, Calls
<1> QED
  BY <1>1, CascadeInvariant, PTL

(* delete() of service.py deactivates exactly what it should, whoever      *)
(* else writes to the tree: when it returns True nothing that was below    *)
(* the row, down to MAX_CASCADE_DEPTH, is left active but for what another *)
(* delete hides, no row is inactive without a delete that owed it, and one *)
(* that failed left nothing.                                               *)
THEOREM CascadesAreExact == Spec => []CascadeExact
<1>1. CascadeInv => CascadeComplete
  BY DEF CascadeInv, DeleteInv, CompleteInv, CascadeComplete
<1>2. CascadeInv => OnlyBelow
  BY DEF CascadeInv, RowsInv, DeleteInv, ReachInv, TraceInv, OnlyBelow
<1> QED
  BY <1>1, <1>2, CascadeInvariant, FailedDeletesLeaveNothing, PTL DEF CascadeExact

(* A row becomes active when it is created only, and rows stay known.      *)
LEMMA RowsOnlyGo ==
  ASSUME CascadeInv, Next
  PROVE  (\A y \in active' : y \in active \/ y \notin Known) /\ Known \subseteq Known'
<1>1. RowsInv
  BY DEF CascadeInv
<1>2. ASSUME NEW d \in Deleters,
             \/ \E x \in Rows, ao \in BOOLEAN : DeleteLock(d, x, ao)
             \/ Delete(d) \/ DeleteFails(d)
      PROVE  active' \subseteq active /\ Known' = Known
  BY <1>2 DEF DeleteLock, Delete, CascadeList, CascadeUpdate, DeleteCommit, DeleteFails, rowVars, Known
<1>3. ASSUME NEW u \in Updaters, NEW x \in Rows, UpdateLock(u, x) \/ RepositoryLock(u, x)
      PROVE  active' \subseteq active /\ Known' = Known
  BY <1>3 DEF UpdateLock, RepositoryLock, rowVars, Known
<1>4. ASSUME NEW u \in Updaters, UpdateCommit(u) \/ UpdateFails(u)
      PROVE  active' \subseteq active /\ Known' = Known
  <2>1. CASE UpdateCommit(u)
    BY <1>1, <2>1, UpdateCommitRows DEF UpdateCommit, Known
  <2>2. CASE UpdateFails(u)
    BY <2>2 DEF UpdateFails, rowVars, Known
  <2> QED
    BY <1>4, <2>1, <2>2
<1>5. ASSUME NEW x \in Rows, Create(x) \/ HardDelete(x)
      PROVE  (\A y \in active' : y \in active \/ y \notin Known) /\ Known \subseteq Known'
  BY <1>5 DEF Create, HardDelete, Known
<1> QED
  BY <1>2, <1>3, <1>4, <1>5 DEF Next

(* No write of the service, save() of an instance read before included,    *)
(* makes a row active that was deactivated or removed.                     *)
THEOREM DeletedRowsStayDeleted == Spec => NoRevival
<1>1. CascadeInv /\ [Next]_vars => [((exists \ active) \cup gone) \cap active' = {}]_vars
  <2> SUFFICES ASSUME CascadeInv, Next PROVE ((exists \ active) \cup gone) \cap active' = {}
    OBVIOUS
  <2>1. active \subseteq exists /\ gone \cap exists = {}
    BY DEF CascadeInv, RowsInv, TypeOK, KnownInv
  <2> QED
    BY <2>1, RowsOnlyGo DEF Known
<1> QED
  BY <1>1, CascadeInvariant, PTL DEF Spec, NoRevival

-----------------------------------------------------------------------------
(* How long a cascade can be.                                              *)

Owed(d) == Listable(d) \cup children[d]

(* Children are listed for the UPDATE that follows only.                   *)
NoneListed == \A d \in Deleters : pc[d] \in {"idle", "list"} => children[d] = {}

(* Any step is one of d's own, or leaves what d has alone.                 *)
LEMMA OwnOrOther ==
  ASSUME TypeOK, Next, NEW d \in Deleters
  PROVE  \/ \E x \in Rows, ao \in BOOLEAN : DeleteLock(d, x, ao)
         \/ CascadeList(d) \/ CascadeUpdate(d) \/ DeleteCommit(d) \/ DeleteFails(d)
         \/ /\ pc'[d] = pc[d] /\ frontier'[d] = frontier[d]
            /\ children'[d] = children[d] /\ dirty'[d] = dirty[d]
<1> USE SoftDeleteAssumption
<1> DEFINE Same == /\ pc'[d] = pc[d] /\ frontier'[d] = frontier[d]
                   /\ children'[d] = children[d] /\ dirty'[d] = dirty[d]
<1>1. ASSUME NEW o \in Deleters \ {d},
             \/ \E x \in Rows, ao \in BOOLEAN : DeleteLock(o, x, ao)
             \/ Delete(o) \/ DeleteFails(o)
      PROVE  Same
  <2>1. o \in Calls /\ d \in Calls
    BY DEF Calls
  <2>2. CASE \E x \in Rows, ao \in BOOLEAN : DeleteLock(o, x, ao)
    BY <2>1, <2>2 DEF DeleteLock, TypeOK
  <2>3. CASE CascadeList(o)
    BY <2>1, <2>3 DEF CascadeList, TypeOK
  <2>4. CASE CascadeUpdate(o)
    BY <2>1, <2>4 DEF CascadeUpdate, TypeOK
  <2>5. CASE DeleteCommit(o) \/ DeleteFails(o)
    BY <2>1, <2>5 DEF DeleteCommit, DeleteFails, TypeOK
  <2> QED
    BY <1>1, <2>2, <2>3, <2>4, <2>5 DEF Delete
<1>2. ASSUME NEW u \in Updaters, NEW x \in Rows, UpdateLock(u, x) \/ RepositoryLock(u, x)
      PROVE  Same
  BY <1>2 DEF UpdateLock, RepositoryLock, TypeOK, Calls
<1>3. ASSUME NEW u \in Updaters, UpdateCommit(u) \/ UpdateFails(u) PROVE Same
  BY <1>3 DEF UpdateCommit, UpdateFails, TypeOK, Calls
<1>4. ASSUME NEW x \in Rows, Create(x) \/ HardDelete(x) PROVE Same
  BY <1>4 DEF Create, HardDelete, txVars
<1> QED
  BY <1>1, <1>2, <1>3, <1>4 DEF Next, Delete

LEMMA NoneListedInvariant == Spec => []NoneListed
<1>1. Init => NoneListed
  BY DEF Init, NoneListed
<1>2. CascadeInv /\ NoneListed /\ [Next]_vars => NoneListed'
  <2> SUFFICES ASSUME CascadeInv, NoneListed, [Next]_vars, NEW d \in Deleters,
                      pc'[d] \in {"idle", "list"}
               PROVE  children'[d] = {}
    BY DEF NoneListed
  <2>1. TypeOK /\ d \in Calls
    BY DEF CascadeInv, RowsInv, Calls
  <2>2. CASE UNCHANGED vars
    BY <2>2 DEF vars, txVars, NoneListed
  <2>3. CASE \E x \in Rows, ao \in BOOLEAN : DeleteLock(d, x, ao)
    BY <2>1, <2>3 DEF DeleteLock, NoneListed, TypeOK
  <2>4. CASE CascadeList(d)
    BY <2>1, <2>4 DEF CascadeList, NoneListed, TypeOK
  <2>5. CASE CascadeUpdate(d)
    BY <2>1, <2>5 DEF CascadeUpdate, TypeOK
  <2>6. CASE DeleteCommit(d) \/ DeleteFails(d)
    BY <2>1, <2>6 DEF DeleteCommit, DeleteFails, TypeOK
  <2>7. CASE pc'[d] = pc[d] /\ children'[d] = children[d]
    BY <2>7 DEF NoneListed
  <2> QED
    BY <2>1, <2>2, <2>3, <2>4, <2>5, <2>6, <2>7, OwnOrOther
<1> QED
  BY <1>1, <1>2, CascadeInvariant, PTL DEF Spec

(* The numbers that Work is made of.                                       *)
LEMMA OwedFinite ==
  ASSUME TypeOK, NEW d \in Deleters
  PROVE  /\ Owed(d) \in SUBSET Rows /\ IsFiniteSet(Owed(d)) /\ Cardinality(Owed(d)) \in Nat
         /\ Len(frontier[d]) \in Nat /\ Cardinality(Rows) \in Nat
<1>1. Owed(d) \in SUBSET Rows
  BY DEF Owed, Listable, TypeOK
<1>2. frontier[d] \in Seq(Rows \X Nat)
  BY DEF TypeOK
<1> QED
  BY <1>1, <1>2, SoftDeleteAssumption, FS_Subset, FS_CardinalityType

(* The deque gains at most the listed children.                            *)
LEMMA NextFrontierLength ==
  ASSUME NEW F \in Seq(Rows \X Nat), F # <<>>, NEW C \in SUBSET Rows, NEW n \in Nat
  PROVE  Len(Tail(F) \o SetToSeq({<<c, n>> : c \in C})) <= Len(F) - 1 + Cardinality(C)
<1> DEFINE T == {<<c, n>> : c \in C}
           f == [c \in C |-> <<c, n>>]
<1>1. IsFiniteSet(C) /\ Cardinality(C) \in Nat
  BY SoftDeleteAssumption, FS_Subset, FS_CardinalityType
<1>2. f \in Surjection(C, T)
  BY DEF Surjection
<1>3. IsFiniteSet(T) /\ Cardinality(T) <= Cardinality(C) /\ Cardinality(T) \in Nat
  BY <1>1, <1>2, FS_Surjection, FS_CardinalityType
<1>4. SetToSeq(T) \in Seq(T) /\ Len(SetToSeq(T)) = Cardinality(T)
  BY <1>3, SetToSeqRange
<1>5. T \subseteq Rows \X Nat
  OBVIOUS
<1> HIDE DEF T
<1>6. SetToSeq(T) \in Seq(Rows \X Nat)
  BY <1>4, <1>5
<1>7. Tail(F) \in Seq(Rows \X Nat) /\ Len(Tail(F)) = Len(F) - 1 /\ Len(F) \in Nat
  OBVIOUS
<1>8. Len(Tail(F) \o SetToSeq(T)) = Len(Tail(F)) + Len(SetToSeq(T))
  BY <1>6, <1>7, ConcatPositions
<1>9. Len(Tail(F) \o SetToSeq(T)) <= Len(F) - 1 + Cardinality(C)
  BY <1>1, <1>3, <1>4, <1>7, <1>8
<1> QED
  BY <1>9 DEF T

(* Taking a part away.                                                     *)
LEMMA CardinalityLess ==
  ASSUME NEW S, IsFiniteSet(S), NEW C \in SUBSET S, NEW T \in SUBSET (S \ C)
  PROVE  Cardinality(T) <= Cardinality(S) - Cardinality(C)
<1>1. IsFiniteSet(C) /\ IsFiniteSet(T) /\ T \in SUBSET S
  BY FS_Subset
<1>2. T \cap C = {} /\ T \cup C \in SUBSET S
  BY <1>1
<1>3. Cardinality(T \cup C) = Cardinality(T) + Cardinality(C) - Cardinality(T \cap C)
  BY <1>1, FS_Union
<1>4. Cardinality(T \cap C) = 0
  BY <1>2, FS_EmptySet
<1>5. Cardinality(T \cup C) <= Cardinality(S) /\ IsFiniteSet(T \cup C)
  BY <1>2, FS_Subset
<1>6. /\ Cardinality(T) \in Nat /\ Cardinality(C) \in Nat
      /\ Cardinality(S) \in Nat /\ Cardinality(T \cup C) \in Nat
  BY <1>1, <1>5, FS_CardinalityType
<1> QED
  BY <1>3, <1>4, <1>5, <1>6

(* The first statement of a delete: its root is taken.                     *)
LEMMA LockWork ==
  ASSUME TypeOK, TypeOK', NoneListed, NEW d \in Deleters, NEW x \in Rows, NEW ao \in BOOLEAN,
         DeleteLock(d, x, ao), Live(d)'
  PROVE  ~Live(d) /\ Work(d)' <= 2 * Cardinality(Rows) + 1
<1>1. d \in Calls /\ pc[d] = "idle" /\ pc'[d] # "missing"
  BY DEF DeleteLock, Live, Calls
<1>2. dirty'[d] = {x} /\ frontier'[d] = << <<x, 0>> >> /\ pc'[d] = "list" /\ children'[d] = {}
  BY <1>1 DEF DeleteLock, TypeOK, NoneListed
<1>3. Owed(d)' \in SUBSET (Rows \ {x})
  BY <1>2 DEF Owed, Listable
<1>4. IsFiniteSet(Rows) /\ {x} \in SUBSET Rows /\ Cardinality({x}) = 1
  BY SoftDeleteAssumption, FS_Singleton
<1>5. Cardinality(Owed(d)') <= Cardinality(Rows) - 1
  BY <1>3, <1>4, CardinalityLess
<1>6. Cardinality(Owed(d)') \in Nat /\ Cardinality(Rows) \in Nat
  BY <1>3, <1>4, FS_Subset, FS_CardinalityType
<1>7. Len(frontier'[d]) = 1
  BY <1>2
<1>8. Work(d)' = 2 * (Cardinality(Owed(d)') + 1) + 1
  BY <1>2, <1>7 DEF Work, Owed
<1> QED
  BY <1>1, <1>5, <1>6, <1>8 DEF Live

(* A row is taken from the deque, or its children are listed.              *)
LEMMA ListWork ==
  ASSUME TypeOK, NoneListed, NEW d \in Deleters, CascadeList(d)
  PROVE  Live(d) /\ Work(d)' < Work(d)
<1>1. d \in Calls /\ pc[d] = "list" /\ frontier[d] # <<>> /\ children[d] = {}
  BY DEF CascadeList, Calls, NoneListed
<1>2. Listable(d)' = Listable(d)
  BY DEF CascadeList, Listable, rowVars
<1>3. Cardinality(Owed(d)) \in Nat /\ Len(frontier[d]) \in Nat
  BY OwedFinite
<1>4. Work(d) = 2 * (Cardinality(Owed(d)) + Len(frontier[d])) + 1
  BY <1>1 DEF Work, Owed
<1>5. CASE Head(frontier[d])[2] >= MaxDepth
  <2>1. frontier'[d] = Tail(frontier[d]) /\ children'[d] = children[d] /\ pc'[d] = "list"
    BY <1>1, <1>5 DEF CascadeList, TypeOK
  <2>2. frontier[d] \in Seq(Rows \X Nat)
    BY DEF TypeOK
  <2>3. Len(frontier'[d]) = Len(frontier[d]) - 1
    BY <1>1, <2>1, <2>2
  <2>4. Work(d)' = 2 * (Cardinality(Owed(d)) + Len(frontier'[d])) + 1
    BY <1>2, <2>1 DEF Work, Owed
  <2> QED
    BY <1>1, <1>3, <1>4, <2>3, <2>4 DEF Live
<1>6. CASE ~(Head(frontier[d])[2] >= MaxDepth)
  <2>1. /\ frontier' = frontier /\ pc'[d] = "update"
        /\ children'[d] = ActiveChildren(d, Head(frontier[d])[1])
    BY <1>1, <1>6 DEF CascadeList, TypeOK
  <2>2. ActiveChildren(d, Head(frontier[d])[1]) \subseteq Listable(d)
    BY DEF ActiveChildren, Listable, TypeOK
  <2>3. Listable(d)' \cup children'[d] = Owed(d)
    BY <1>1, <1>2, <2>1, <2>2 DEF Owed
  <2>4. Work(d)' = 2 * (Cardinality(Owed(d)) + Len(frontier[d])) + 0
    BY <2>1, <2>3 DEF Work
  <2> QED
    BY <1>1, <1>3, <1>4, <2>4 DEF Live
<1> QED
  BY <1>5, <1>6

(* The children go to the deque, and are never listed again.               *)
LEMMA UpdateWork ==
  ASSUME CascadeInv, NEW d \in Deleters, CascadeUpdate(d)
  PROVE  Live(d) /\ Work(d)' < Work(d)
<1>1. TypeOK /\ d \in Calls /\ KnownInv /\ FrontierInv(d) /\ pc[d] = "update" /\ Live(d)
  BY DEF CascadeInv, RowsInv, DeleteInv, CascadeUpdate, Calls, Live
<1>2. frontier[d] # <<>> /\ \A c \in children[d] : <<RowAt(d, 1), c>> \in Edges
  BY <1>1 DEF FrontierInv
<1>3. /\ Head(frontier[d])[1] = RowAt(d, 1) /\ Head(frontier[d])[2] \in Nat
      /\ frontier[d] \in Seq(Rows \X Nat)
  BY <1>1, <1>2, HeadOfFrontier
<1> DEFINE hit == ActiveChildren(d, RowAt(d, 1))
           C == children[d]
           n == Head(frontier[d])[2]
<1>4. /\ dirty'[d] = dirty[d] \cup hit /\ children'[d] = {} /\ pc'[d] = "list"
      /\ frontier'[d] = Tail(frontier[d]) \o SetToSeq({<<y, n + 1>> : y \in C})
      /\ exists' = exists /\ gone' = gone /\ active' = active
  BY <1>1, <1>3 DEF CascadeUpdate, TypeOK, rowVars
<1>5. C \in SUBSET Rows /\ C \subseteq exists \cup gone /\ C \in SUBSET Owed(d)
  BY <1>1 DEF TypeOK, KnownInv, Known, Owed
<1>6. Listable(d)' \in SUBSET (Owed(d) \ C)
  <2> SUFFICES ASSUME NEW y \in Listable(d)' PROVE y \in Listable(d) /\ y \notin C
    BY DEF Owed
  <2>1. y \in Rows /\ y \notin dirty[d] /\ y \notin hit /\ (y \in active \/ y \notin exists \cup gone)
    BY <1>4 DEF Listable
  <2>2. y \in Listable(d)
    BY <2>1 DEF Listable
  <2>3. y \notin C
    BY <1>2, <1>5, <2>1 DEF ActiveChildren
  <2> QED
    BY <2>2, <2>3
<1>7. /\ IsFiniteSet(Owed(d)) /\ Cardinality(Owed(d)) \in Nat /\ Len(frontier[d]) \in Nat
      /\ Cardinality(C) \in Nat
  BY <1>1, <1>5, OwedFinite, FS_Subset, FS_CardinalityType
<1>8. /\ Cardinality(Listable(d)') <= Cardinality(Owed(d)) - Cardinality(C)
      /\ Cardinality(Listable(d)') \in Nat
  <2>1. Listable(d)' \in SUBSET Owed(d)
    BY <1>6
  <2> QED
    BY <1>5, <1>6, <1>7, <2>1, CardinalityLess, FS_Subset, FS_CardinalityType
<1>9. Len(frontier'[d]) <= Len(frontier[d]) - 1 + Cardinality(C) /\ Len(frontier'[d]) \in Nat
  <2>1. n + 1 \in Nat
    BY <1>3
  <2>2. Len(frontier'[d]) <= Len(frontier[d]) - 1 + Cardinality(C)
    BY <1>2, <1>3, <1>4, <1>5, <2>1, NextFrontierLength
  <2>3. frontier' \in [Deleters -> Seq(Rows \X Nat)]
    BY <1>1, CascadeUpdateShape DEF CascadeInv
  <2>4. frontier'[d] \in Seq(Rows \X Nat)
    BY <2>3
  <2> QED
    BY <2>2, <2>4
<1>10. Work(d) = 2 * (Cardinality(Owed(d)) + Len(frontier[d])) + 0
  BY <1>1 DEF Work, Owed
<1>11. Listable(d)' \cup children'[d] = Listable(d)'
  BY <1>4
<1>12. Work(d)' = 2 * (Cardinality(Listable(d)') + Len(frontier'[d])) + 1
  BY <1>4, <1>11 DEF Work
<1> QED
  BY <1>1, <1>7, <1>8, <1>9, <1>10, <1>12

(* Others give a delete no work.                                           *)
LEMMA OtherWork ==
  ASSUME CascadeInv, Next, NEW d \in Deleters,
         pc'[d] = pc[d], frontier'[d] = frontier[d], children'[d] = children[d], dirty'[d] = dirty[d]
  PROVE  Work(d)' <= Work(d)
<1>1. TypeOK
  BY DEF CascadeInv, RowsInv
<1>2. Listable(d)' \subseteq Listable(d)
  BY RowsOnlyGo DEF Listable, Known
<1> DEFINE T == Listable(d)' \cup children'[d]
<1>3. T \in SUBSET Owed(d)
  BY <1>2 DEF Owed
<1>4. /\ IsFiniteSet(Owed(d)) /\ Cardinality(Owed(d)) \in Nat /\ Len(frontier[d]) \in Nat
      /\ IsFiniteSet(T) /\ Cardinality(T) <= Cardinality(Owed(d))
  BY <1>1, <1>3, OwedFinite, FS_Subset
<1>5. Cardinality(T) \in Nat
  BY <1>4, FS_CardinalityType
<1> DEFINE b == IF pc[d] = "list" THEN 1 ELSE 0
<1>6. b \in Nat
  OBVIOUS
<1>7. /\ Work(d) = 2 * (Cardinality(Owed(d)) + Len(frontier[d])) + b
      /\ Work(d)' = 2 * (Cardinality(T) + Len(frontier[d])) + b
  BY DEF Work, Owed
<1> HIDE DEF T, b
<1> QED
  BY <1>4, <1>5, <1>6, <1>7

(* The cascade of service.py ends after at most as many statements as      *)
(* Work counts, for any foreign keys, cycles included, and whatever other  *)
(* calls do to the rows meanwhile.                                         *)
THEOREM CascadesShrink == Spec => CascadeShrinks
<1> DEFINE Shrinks(d) ==
             Live(d)' =>
               IF ~Live(d) THEN Work(d)' <= 2 * Cardinality(Rows) + 1
               ELSE IF <<pc[d], frontier[d]>>' # <<pc[d], frontier[d]>> THEN Work(d)' < Work(d)
               ELSE Work(d)' <= Work(d)
<1>1. CascadeInv /\ CascadeInv' /\ NoneListed /\ [Next]_vars => [\A d \in Deleters : Shrinks(d)]_vars
  <2> SUFFICES ASSUME CascadeInv, CascadeInv', NoneListed, Next, NEW d \in Deleters, Live(d)'
               PROVE  IF ~Live(d) THEN Work(d)' <= 2 * Cardinality(Rows) + 1
                      ELSE IF <<pc[d], frontier[d]>>' # <<pc[d], frontier[d]>> THEN Work(d)' < Work(d)
                      ELSE Work(d)' <= Work(d)
    OBVIOUS
  <2>1. TypeOK /\ TypeOK' /\ d \in Calls
    BY DEF CascadeInv, RowsInv, Calls
  <2>2. CASE \E x \in Rows, ao \in BOOLEAN : DeleteLock(d, x, ao)
    BY <2>1, <2>2, LockWork
  <2>3. CASE CascadeList(d)
    <3>1. Live(d) /\ Work(d)' < Work(d)
      BY <2>1, <2>3, ListWork
    <3>2. <<pc[d], frontier[d]>>' # <<pc[d], frontier[d]>>
      <4>1. pc[d] = "list" /\ frontier[d] # <<>> /\ frontier[d] \in Seq(Rows \X Nat)
        BY <2>1, <2>3 DEF CascadeList, TypeOK
      <4>2. Len(Tail(frontier[d])) # Len(frontier[d])
        BY <4>1
      <4>3. pc'[d] = "update" \/ frontier'[d] = Tail(frontier[d])
        BY <2>1, <2>3 DEF CascadeList, TypeOK
      <4> QED
        BY <4>1, <4>2, <4>3
    <3> QED
      BY <3>1, <3>2
  <2>4. CASE CascadeUpdate(d)
    <3>1. Live(d) /\ Work(d)' < Work(d)
      BY <2>4, UpdateWork
    <3>2. pc[d] = "update" /\ pc'[d] = "list"
      BY <2>1, <2>4 DEF CascadeUpdate, TypeOK
    <3> QED
      BY <3>1, <3>2
  <2>5. CASE DeleteCommit(d) \/ DeleteFails(d)
    <3>1. pc'[d] \in {"done", "failed"}
      BY <2>1, <2>5 DEF DeleteCommit, DeleteFails, TypeOK
    <3> QED
      BY <3>1 DEF Live
  <2>6. CASE /\ pc'[d] = pc[d] /\ frontier'[d] = frontier[d]
             /\ children'[d] = children[d] /\ dirty'[d] = dirty[d]
    <3>1. Live(d) /\ Work(d)' <= Work(d)
      BY <2>6, OtherWork DEF Live
    <3> QED
      BY <2>6, <3>1
  <2> QED
    BY <2>1, <2>2, <2>3, <2>4, <2>5, <2>6, OwnOrOther
<1> QED
  BY <1>1, CascadeInvariant, NoneListedInvariant, PTL DEF Spec, CascadeShrinks
=============================================================================
