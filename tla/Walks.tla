------------------------------- MODULE Walks --------------------------------
(***************************************************************************)
(* Walks over linked nodes: the recursive functions that collect what can  *)
(* be got to from a node exist when every link leads to a smaller rank, and *)
(* what they collect stays within any set that is closed under the links.  *)
(*                                                                         *)
(* The induction is over a set, not over an operator: the numbers for      *)
(* which a fact fails have a smallest one.                                 *)
(***************************************************************************)
EXTENDS Integers, Sequences, WellFoundedInduction, TLAPS

LEMMA Least ==
  ASSUME NEW T, T \subseteq Nat, T # {}
  PROVE  \E m \in T : \A k \in T : m <= k
<1> DEFINE R == OpToRel(<, Nat)
<1>1. IsWellFoundedOn(R, Nat)
  BY NatLessThanWellFounded
<1> HIDE DEF R
<1>2. PICK m \in T : \A k \in T : ~ (<<k, m>> \in R)
  BY <1>1, WFMin
<1>3. \A k \in T : ~ (k < m)
  BY <1>2 DEF R, OpToRel
<1> QED
  BY <1>3

LEMMA Induct ==
  ASSUME NEW S, 0 \in S, \A n \in Nat : n \in S => n + 1 \in S
  PROVE  Nat \subseteq S
<1> DEFINE T == Nat \ S
<1> SUFFICES ASSUME T # {} PROVE FALSE
  OBVIOUS
<1>1. PICK m \in T : \A k \in T : m <= k
  BY Least
<1>2. m # 0 /\ m - 1 \in Nat
  BY <1>1
<1>3. m - 1 \in S
  BY <1>1, <1>2
<1> QED
  BY <1>1, <1>2, <1>3

-----------------------------------------------------------------------------
(* Every link leads to a smaller rank.                                     *)
Descends(S, rank, link) ==
  /\ link \in [S -> SUBSET S]
  /\ \A m \in S : rank[m] \in Nat /\ \A c \in link[m] : rank[c] < rank[m]

(* g collects what base gives for the nodes a walk passes.                 *)
Walk(S, link, base, g) ==
  g = [m \in S |-> base[m] \cup UNION {g[c] : c \in link[m]}]

LEMMA WalkExists ==
  ASSUME NEW S, NEW rank, NEW link, NEW base, NEW K \in Nat,
         Descends(S, rank, link), \A m \in S : rank[m] <= K
  PROVE  \E g : Walk(S, link, base, g)
<1> DEFINE D(g)  == [m \in S |-> base[m] \cup UNION {g[c] : c \in link[m]}]
           Ok(k) == \E g : \A m \in S : rank[m] < k => g[m] = D(g)[m]
           T     == {k \in Nat : Ok(k)}
<1>0. \A m \in S : rank[m] \in Nat /\ \A c \in link[m] : c \in S /\ rank[c] < rank[m]
  BY DEF Descends
<1>1. 0 \in T
  BY <1>0
<1>2. ASSUME NEW k \in Nat, k \in T
      PROVE  k + 1 \in T
  <2>1. PICK g : \A m \in S : rank[m] < k => g[m] = D(g)[m]
    BY <1>2
  <2>2. PICK h : h = D(g)
    OBVIOUS
  <2>3. \A m \in S : rank[m] < k => h[m] = g[m]
    BY <2>1, <2>2
  <2>4. ASSUME NEW m \in S, rank[m] < k + 1
        PROVE  h[m] = D(h)[m]
    <3>1. \A c \in link[m] : h[c] = g[c]
      BY <1>0, <2>3, <2>4
    <3>2. {h[c] : c \in link[m]} = {g[c] : c \in link[m]}
      BY <3>1
    <3> QED
      BY <2>2, <3>2
  <2>5. Ok(k + 1)
    BY <2>4
  <2> QED
    BY <2>5
<1>3. K + 1 \in T
  <2> HIDE DEF T
  <2>1. Nat \subseteq T
    BY <1>1, <1>2, Induct
  <2> QED
    BY <2>1
<1>4. PICK g : \A m \in S : rank[m] < K + 1 => g[m] = D(g)[m]
  BY <1>3
<1>5. \A m \in S : g[m] = D(g)[m]
  BY <1>0, <1>4
<1>6. PICK h : h = [m \in S |-> g[m]]
  OBVIOUS
<1>7. \A m \in S : h[m] = g[m]
  BY <1>6
<1>8. ASSUME NEW m \in S
      PROVE  {h[c] : c \in link[m]} = {g[c] : c \in link[m]}
  BY <1>0, <1>7
<1>9. \A m \in S : h[m] = base[m] \cup UNION {h[c] : c \in link[m]}
  BY <1>5, <1>7, <1>8
<1>10. h = [m \in S |-> h[m]]
  BY <1>6
<1>11. h = D(h)
  BY <1>9, <1>10
<1>12. Walk(S, link, base, h)
  BY <1>11 DEF Walk
<1> QED
  BY <1>12

LEMMA WalkStep ==
  ASSUME NEW S, NEW link, NEW base, NEW g, Walk(S, link, base, g), NEW m \in S
  PROVE  /\ base[m] \subseteq g[m]
         /\ \A c \in link[m] : g[c] \subseteq g[m]
         /\ \A x \in g[m] : x \in base[m] \/ \E c \in link[m] : x \in g[c]
<1>1. g[m] = base[m] \cup UNION {g[c] : c \in link[m]}
  BY DEF Walk
<1> QED
  BY <1>1

(* Induction along the links.                                              *)
LEMMA WalkInduct ==
  ASSUME NEW S, NEW rank, NEW link, Descends(S, rank, link), NEW T,
         \A m \in S : (\A c \in link[m] : c \in T) => m \in T
  PROVE  S \subseteq T
<1> SUFFICES ASSUME S \ T # {} PROVE FALSE
  OBVIOUS
<1> DEFINE R == {rank[m] : m \in S \ T}
<1>1. R \subseteq Nat /\ R # {}
  BY DEF Descends
<1>2. PICK k \in R : \A j \in R : k <= j
  <2> HIDE DEF R
  <2> QED
    BY <1>1, Least
<1>3. PICK m \in S \ T : rank[m] = k
  BY <1>2
<1>4. ASSUME NEW c \in link[m]
      PROVE  c \in T
  <2>1. c \in S /\ rank[c] < rank[m] /\ rank[c] \in Nat /\ rank[m] \in Nat
    BY DEF Descends
  <2>2. CASE c \notin T
    <3>1. rank[c] \in R
      BY <2>1, <2>2
    <3> QED
      BY <1>2, <1>3, <2>1, <3>1
  <2> QED
    BY <2>2
<1> QED
  BY <1>3, <1>4

(* A walk that begins in a closed set collects only what the set has.      *)
LEMMA WalkWithin ==
  ASSUME NEW S, NEW rank, NEW link, NEW base, NEW g,
         Descends(S, rank, link), Walk(S, link, base, g),
         NEW C \in SUBSET S, \A m \in C : link[m] \subseteq C,
         NEW B, \A m \in C : base[m] \subseteq B
  PROVE  \A m \in C : g[m] \subseteq B
<1> DEFINE T == {m \in S : m \in C => g[m] \subseteq B}
<1>1. ASSUME NEW m \in S, \A c \in link[m] : c \in T
      PROVE  m \in T
  <2>1. \A x \in g[m] : x \in base[m] \/ \E c \in link[m] : x \in g[c]
    BY WalkStep
  <2> QED
    BY <1>1, <2>1
<1>2. S \subseteq T
  <2> HIDE DEF T
  <2> QED
    BY <1>1, WalkInduct
<1> QED
  BY <1>2

(* A walk that collects the nodes it passes: all that they lead to.        *)
LEMMA WalkClosed ==
  ASSUME NEW S, NEW rank, NEW link, NEW base, NEW g,
         Descends(S, rank, link), Walk(S, link, base, g), \A m \in S : base[m] = {m}
  PROVE  \A m \in S : /\ m \in g[m] /\ g[m] \subseteq S
                      /\ \A x \in g[m] : link[x] \subseteq g[m] /\ g[x] \subseteq g[m]
<1>1. \A m \in S : m \in g[m]
  BY WalkStep
<1>2. \A m \in S : g[m] \subseteq S
  <2>1. \A m \in S : link[m] \subseteq S /\ base[m] \subseteq S
    BY DEF Descends
  <2> QED
    BY <2>1, WalkWithin
<1> DEFINE T == {m \in S : \A x \in g[m] : link[x] \subseteq g[m] /\ g[x] \subseteq g[m]}
<1>3. ASSUME NEW m \in S, \A c \in link[m] : c \in T
      PROVE  m \in T
  <2>1. \A c \in link[m] : c \in S /\ g[c] \subseteq g[m] /\ c \in g[c]
    BY <1>1, WalkStep DEF Descends
  <2>2. \A x \in g[m] : x = m \/ \E c \in link[m] : x \in g[c]
    BY WalkStep
  <2>3. link[m] \subseteq g[m]
    BY <2>1
  <2> QED
    BY <1>3, <2>1, <2>2, <2>3
<1>4. S \subseteq T
  <2> HIDE DEF T
  <2> QED
    BY <1>3, WalkInduct
<1> QED
  BY <1>1, <1>2, <1>4

(* All of them but the first are led to from one of them.                  *)
LEMMA WalkReached ==
  ASSUME NEW S, NEW rank, NEW link, NEW base, NEW g,
         Descends(S, rank, link), Walk(S, link, base, g), \A m \in S : base[m] = {m}
  PROVE  \A m \in S : \A x \in g[m] \ {m} : \E y \in g[m] : x \in link[y]
<1> DEFINE T == {m \in S : \A x \in g[m] \ {m} : \E y \in g[m] : x \in link[y]}
<1>1. \A m \in S : m \in g[m]
  BY WalkStep
<1>2. ASSUME NEW m \in S, \A c \in link[m] : c \in T
      PROVE  m \in T
  <2> SUFFICES ASSUME NEW x \in g[m] \ {m} PROVE \E y \in g[m] : x \in link[y]
    OBVIOUS
  <2>1. PICK c \in link[m] : x \in g[c]
    BY WalkStep
  <2>2. g[c] \subseteq g[m]
    BY WalkStep
  <2>3. CASE x = c
    BY <1>1, <2>3
  <2>4. CASE x # c
    <3>1. PICK y \in g[c] : x \in link[y]
      BY <1>2, <2>1, <2>4
    <3> QED
      BY <2>2, <3>1
  <2> QED
    BY <2>3, <2>4
<1>3. S \subseteq T
  <2> HIDE DEF T
  <2> QED
    BY <1>2, WalkInduct
<1> QED
  BY <1>3

(* With more links a walk collects no less.                                *)
LEMMA WalkInclude ==
  ASSUME NEW S, NEW rank, NEW link, NEW base, NEW g, NEW link1, NEW g1,
         Descends(S, rank, link), Walk(S, link, base, g), Walk(S, link1, base, g1),
         NEW C \in SUBSET S, \A m \in C : link[m] \subseteq C /\ link[m] \subseteq link1[m]
  PROVE  \A m \in C : g[m] \subseteq g1[m]
<1> DEFINE T == {m \in S : m \in C => g[m] \subseteq g1[m]}
<1>1. ASSUME NEW m \in S, \A c \in link[m] : c \in T
      PROVE  m \in T
  <2>1. \A x \in g[m] : x \in base[m] \/ \E c \in link[m] : x \in g[c]
    BY WalkStep
  <2>2. base[m] \subseteq g1[m] /\ \A c \in link1[m] : g1[c] \subseteq g1[m]
    BY WalkStep
  <2> QED
    BY <1>1, <2>1, <2>2
<1>2. S \subseteq T
  <2> HIDE DEF T
  <2> QED
    BY <1>1, WalkInduct
<1> QED
  BY <1>2

-----------------------------------------------------------------------------
(* A recursive function whose value at m depends only on its values at     *)
(* smaller ranks: F maps a function to what its definition makes of it.    *)
Recursion(S, V, rank, F) ==
  /\ F \in [[S -> V] -> [S -> V]]
  /\ \A g, h \in [S -> V] : \A m \in S :
       (\A c \in S : rank[c] < rank[m] => g[c] = h[c]) => F[g][m] = F[h][m]

RankedTo(S, rank, K) == K \in Nat /\ \A m \in S : rank[m] \in Nat /\ rank[m] <= K

LEMMA RecursionExists ==
  ASSUME NEW S, NEW V, NEW v \in V, NEW rank, NEW K, RankedTo(S, rank, K),
         NEW F, Recursion(S, V, rank, F)
  PROVE  \E g \in [S -> V] : g = F[g]
<1>a. K \in Nat /\ \A m \in S : rank[m] \in Nat /\ rank[m] <= K
  BY DEF RankedTo
<1> DEFINE Ok(k, g) == \A m \in S : rank[m] < k => g[m] = F[g][m]
           T        == {k \in Nat : \E g \in [S -> V] : Ok(k, g)}
<1>0. F \in [[S -> V] -> [S -> V]]
  BY DEF Recursion
<1>1. 0 \in T
  <2>1. PICK g : g = [m \in S |-> v]
    OBVIOUS
  <2>2. g \in [S -> V]
    BY <2>1
  <2>3. Ok(0, g)
    BY <1>a
  <2> QED
    BY <2>2, <2>3
<1>2. ASSUME NEW k \in Nat, k \in T
      PROVE  k + 1 \in T
  <2>1. PICK g \in [S -> V] : Ok(k, g)
    BY <1>2
  <2>2. PICK h : h = F[g]
    OBVIOUS
  <2>3. h \in [S -> V]
    BY <1>0, <2>2
  <2>4. \A m \in S : rank[m] < k => g[m] = h[m]
    BY <2>1, <2>2
  <2>5. ASSUME NEW m \in S, rank[m] < k + 1
        PROVE  h[m] = F[h][m]
    <3>1. \A c \in S : rank[c] < rank[m] => g[c] = h[c]
      BY <1>a, <2>4, <2>5
    <3>2. F[g][m] = F[h][m]
      BY <2>3, <3>1 DEF Recursion
    <3> QED
      BY <2>2, <3>2
  <2>6. Ok(k + 1, h)
    BY <2>5
  <2> QED
    BY <2>3, <2>6
<1>3. K + 1 \in T
  <2> HIDE DEF T
  <2>1. Nat \subseteq T
    BY <1>1, <1>2, Induct
  <2> QED
    BY <1>a, <2>1
<1>4. PICK g \in [S -> V] : Ok(K + 1, g)
  BY <1>3
<1>5. \A m \in S : g[m] = F[g][m]
  BY <1>a, <1>4
<1>6. F[g] \in [S -> V]
  BY <1>0
<1>7. g = F[g]
  BY <1>5, <1>6
<1> QED
  BY <1>7
=============================================================================
