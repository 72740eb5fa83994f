--------------------------- MODULE NodeLifeProofs ---------------------------
(***************************************************************************)
(* Proofs about NodeLife, for every set of keys and documents, every width *)
(* of the count and every number of wrappers that it can count.            *)
(***************************************************************************)
EXTENDS NodeLife, SequenceTheorems, FiniteSetTheorems, Walks

-----------------------------------------------------------------------------
(* The books.  L nodes, where V gives what is stored in a node and S what  *)
(* can be got from it; H are the hashes, R their counts, g the nodes that  *)
(* are gone, ab those left behind and w the numbers of wrappers.           *)

(* Every node is stored in one place at most, behind what it is stored in. *)
Forest(L, V, S) ==
  /\ L \in Nat
  /\ V \in [1 .. L -> SUBSET (1 .. L)] /\ S \in [1 .. L -> SUBSET (1 .. L)]
  /\ \A n \in 1 .. L : S[n] \subseteq V[n] /\ \A c \in V[n] : n < c
  /\ \A m, n \in 1 .. L : m # n => V[m] \cap V[n] = {}

IsHeld(L, V, g, ab, n) == n \in ab \/ \E c \in (1 .. L) \ g : n \in V[c]

Sets(L, H, g, ab) == H \subseteq 1 .. L /\ g \subseteq 1 .. L /\ ab \subseteq 1 .. L

Tables(L, R, w) == R \in [1 .. L -> Nat] /\ w \in [1 .. L -> Nat]

(* A node that is not gone holds nothing that is gone, and has a holder     *)
(* itself: a hash as many as its count says, any other node one.           *)
Books(L, V, S, H, R, g, ab, w) ==
  /\ \A n \in 1 .. L : w[n] > 0 => n \in H \ g
  /\ \A n \in (1 .. L) \ g : V[n] \cap g = {}
  /\ \A n \in 1 .. L : V[n] \cap ab = V[n] \ S[n]
  /\ \A n \in (1 .. L) \ (g \cup H) : IsHeld(L, V, g, ab, n)
  /\ \A n \in H \ g : /\ IsHeld(L, V, g, ab, n) => R[n] = w[n]
                      /\ ~ IsHeld(L, V, g, ab, n) => R[n] + 1 = w[n]

IsTable(f, L) == f = [n \in 1 .. L |-> f[n]]

(* Every node of W has one more.                                           *)
Raised(L, W, R, w, R1, w1) ==
  \A n \in 1 .. L : IF n \in W THEN R1[n] = R[n] + 1 /\ w1[n] = w[n] + 1
                                ELSE R1[n] = R[n] /\ w1[n] = w[n]

(* Wrappers are made of hashes that are not gone.                          *)
LEMMA CountUp ==
  ASSUME NEW L, NEW V, NEW S, NEW H, NEW R, NEW g, NEW ab, NEW w,
         Sets(L, H, g, ab), Tables(L, R, w), Books(L, V, S, H, R, g, ab, w),
         NEW W, W \subseteq H \ g, NEW R1, NEW w1, Tables(L, R1, w1), Raised(L, W, R, w, R1, w1)
  PROVE  Books(L, V, S, H, R1, g, ab, w1)
<1>1. \A n \in 1 .. L : R[n] \in Nat /\ w[n] \in Nat
  BY DEF Tables
<1>2. \A n \in 1 .. L : w1[n] > 0 => n \in H \ g
  BY <1>1 DEF Books, Raised
<1>3. ASSUME NEW n \in H \ g
      PROVE  /\ IsHeld(L, V, g, ab, n) => R1[n] = w1[n]
             /\ ~ IsHeld(L, V, g, ab, n) => R1[n] + 1 = w1[n]
  <2>1. n \in 1 .. L
    BY DEF Sets
  <2> QED
    BY <1>1, <2>1 DEF Books, Raised
<1> QED
  BY <1>2, <1>3 DEF Books

(* A wrapper goes, and something else holds the hash.                      *)
LEMMA CountOff ==
  ASSUME NEW L, NEW V, NEW S, NEW H, NEW R, NEW g, NEW ab, NEW w,
         Sets(L, H, g, ab), Tables(L, R, w), Books(L, V, S, H, R, g, ab, w),
         NEW h \in H \ g, NEW R1, NEW w1, Tables(L, R1, w1), Raised(L, {h}, R1, w1, R, w)
  PROVE  Books(L, V, S, H, R1, g, ab, w1)
<1>1. \A n \in 1 .. L : R[n] \in Nat /\ w[n] \in Nat /\ R1[n] \in Nat /\ w1[n] \in Nat
  BY DEF Tables
<1>2. \A n \in 1 .. L : IF n = h THEN R[n] = R1[n] + 1 /\ w[n] = w1[n] + 1
                                  ELSE R[n] = R1[n] /\ w[n] = w1[n]
  BY DEF Raised
<1>3. \A n \in 1 .. L : w1[n] > 0 => n \in H \ g
  BY <1>1, <1>2 DEF Books
<1>4. ASSUME NEW n \in H \ g
      PROVE  /\ IsHeld(L, V, g, ab, n) => R1[n] = w1[n]
             /\ ~ IsHeld(L, V, g, ab, n) => R1[n] + 1 = w1[n]
  <2>1. n \in 1 .. L
    BY DEF Sets
  <2>2. /\ IsHeld(L, V, g, ab, n) => R[n] = w[n]
        /\ ~ IsHeld(L, V, g, ab, n) => R[n] + 1 = w[n]
    BY DEF Books
  <2> QED
    BY <1>1, <1>2, <2>1, <2>2
<1> QED
  BY <1>3, <1>4 DEF Books

Sound(L, V, S, H, R, g, ab, w) ==
  Forest(L, V, S) /\ Sets(L, H, g, ab) /\ Books(L, V, S, H, R, g, ab, w)

(* An entry is removed, and what it led to left behind.                    *)
LEMMA TakeOut ==
  ASSUME NEW L, NEW V, NEW S, NEW H, NEW R, NEW g, NEW ab, NEW w,
         Forest(L, V, S), Sets(L, H, g, ab), Books(L, V, S, H, R, g, ab, w),
         NEW h \in (1 .. L) \ g, NEW c \in S[h], NEW V1, NEW S1,
         V1 = [V EXCEPT ![h] = @ \ {c}], S1 = [S EXCEPT ![h] = @ \ {c}]
  PROVE  Sound(L, V1, S1, H, R, g, ab \cup {c}, w)
<1>1. /\ L \in Nat /\ c \in V[h] /\ c \in 1 .. L
      /\ \A n \in 1 .. L : V[n] \subseteq 1 .. L /\ S[n] \subseteq V[n]
      /\ \A n \in 1 .. L : V1[n] = IF n = h THEN V[n] \ {c} ELSE V[n]
      /\ \A n \in 1 .. L : S1[n] = IF n = h THEN S[n] \ {c} ELSE S[n]
      /\ \A n \in 1 .. L : n # h => c \notin V[n]
  BY DEF Forest
<1>2. Forest(L, V1, S1)
  <2>1. V1 \in [1 .. L -> SUBSET (1 .. L)] /\ S1 \in [1 .. L -> SUBSET (1 .. L)]
    BY <1>1 DEF Forest
  <2> QED
    BY <1>1, <2>1 DEF Forest
<1>3. Sets(L, H, g, ab \cup {c})
  BY <1>1 DEF Sets
<1>4. \A n \in 1 .. L : IsHeld(L, V1, g, ab \cup {c}, n) <=> IsHeld(L, V, g, ab, n)
  BY <1>1 DEF IsHeld
<1>5. \A n \in (1 .. L) \ g : V1[n] \cap g = {}
  BY <1>1 DEF Books
<1>6. ASSUME NEW n \in 1 .. L
      PROVE  V1[n] \cap (ab \cup {c}) = V1[n] \ S1[n]
  <2>1. V[n] \cap ab = V[n] \ S[n]
    BY DEF Books
  <2>2. CASE n = h
    <3>1. V1[n] = V[n] \ {c} /\ S1[n] = S[n] \ {c} /\ c \in S[n]
      BY <1>1, <2>2
    <3> QED
      BY <2>1, <3>1
  <2>3. CASE n # h
    <3>1. V1[n] = V[n] /\ S1[n] = S[n] /\ c \notin V[n]
      BY <1>1, <2>3
    <3> QED
      BY <2>1, <3>1
  <2> QED
    BY <2>2, <2>3
<1> QED
  BY <1>2, <1>3, <1>4, <1>5, <1>6 DEF Books, Sets, Sound

(* Nodes 1 .. L are joined by L + 1 .. M, a document with its root first;  *)
(* at is the hash that stores the root, if one does.                       *)
Joined(L, V, S, M, V1, S1, at, B) ==
  /\ M \in Nat /\ L < M
  /\ \A n \in 1 .. L : n # at => V1[n] = V[n] /\ S1[n] = S[n]
  /\ at # nil => /\ at \in 1 .. L /\ V1[at] = V[at] \cup {L + 1}
                 /\ S1[at] = IF L + 1 \in B THEN S[at] ELSE S[at] \cup {L + 1}
  /\ \A n \in L + 1 .. M : V1[n] \subseteq n + 1 .. M
  /\ \A m, n \in L + 1 .. M : m # n => V1[m] \cap V1[n] = {}
  /\ L + 2 .. M \subseteq UNION {V1[n] : n \in L + 1 .. M}
  /\ B \subseteq L + 1 .. M
  /\ \A n \in L + 1 .. M : S1[n] = V1[n] \ B

LEMMA JoinForest ==
  ASSUME NEW L, NEW V, NEW S, NEW M, NEW V1, NEW S1, NEW at, NEW B,
         Forest(L, V, S), Joined(L, V, S, M, V1, S1, at, B),
         IsTable(V1, M), IsTable(S1, M)
  PROVE  Forest(M, V1, S1)
<1>1. /\ L \in Nat /\ M \in Nat /\ L < M
      /\ \A n \in 1 .. L : V[n] \subseteq 1 .. L /\ S[n] \subseteq V[n] /\ \A c \in V[n] : n < c
      /\ \A m, n \in 1 .. L : m # n => V[m] \cap V[n] = {}
      /\ \A n \in 1 .. M : n \in 1 .. L \/ n \in L + 1 .. M
  BY DEF Forest, Joined
<1>2. ASSUME NEW n \in 1 .. L
      PROVE  V1[n] \subseteq V[n] \cup {L + 1} /\ S1[n] \subseteq V1[n] /\ (n # at => V1[n] = V[n])
  <2>1. CASE n # at
    BY <1>1, <2>1 DEF Joined
  <2>2. CASE n = at
    <3>1. V1[n] = V[n] \cup {L + 1} /\ S1[n] \subseteq S[n] \cup {L + 1}
      BY <1>1, <2>2 DEF Joined, nil
    <3> QED
      BY <1>1, <2>2, <3>1
  <2> QED
    BY <2>1, <2>2
<1>3. \A n \in L + 1 .. M : V1[n] \subseteq n + 1 .. M /\ S1[n] \subseteq V1[n]
  BY DEF Joined
<1>4. ASSUME NEW n \in 1 .. M
      PROVE  V1[n] \subseteq 1 .. M /\ S1[n] \subseteq V1[n] /\ \A c \in V1[n] : n < c
  <2>1. CASE n \in 1 .. L
    BY <1>1, <1>2, <2>1
  <2>2. CASE n \in L + 1 .. M
    BY <1>1, <1>3, <2>2
  <2> QED
    BY <1>1, <2>1, <2>2
<1>5. ASSUME NEW m \in 1 .. M, NEW n \in 1 .. M, m # n, NEW c \in V1[m], c \in V1[n]
      PROVE  FALSE
  <2>1. CASE m \in 1 .. L /\ n \in 1 .. L
    BY <1>1, <1>2, <1>5, <2>1
  <2>2. CASE m \in L + 1 .. M /\ n \in L + 1 .. M
    BY <1>5, <2>2 DEF Joined
  <2>3. CASE m \in 1 .. L /\ n \in L + 1 .. M
    BY <1>1, <1>2, <1>3, <1>5, <2>3
  <2>4. CASE n \in 1 .. L /\ m \in L + 1 .. M
    BY <1>1, <1>2, <1>3, <1>5, <2>4
  <2> QED
    BY <1>1, <2>1, <2>2, <2>3, <2>4
<1>6. V1 \in [1 .. M -> SUBSET (1 .. M)] /\ S1 \in [1 .. M -> SUBSET (1 .. M)]
  BY <1>4 DEF IsTable
<1> QED
  BY <1>1, <1>4, <1>5, <1>6 DEF Forest

(* Who holds what, once a document has joined.                             *)
HeldAfter(L, V, M, V1, at, B, g, ab) ==
  /\ \A n \in 1 .. L : IsHeld(M, V1, g, ab \cup B, n) <=> IsHeld(L, V, g, ab, n)
  /\ \A n \in L + 2 .. M : IsHeld(M, V1, g, ab \cup B, n)
  /\ IsHeld(M, V1, g, ab \cup B, L + 1) <=> at # nil \/ L + 1 \in B

LEMMA JoinHeld ==
  ASSUME NEW L, NEW V, NEW S, NEW M, NEW V1, NEW S1, NEW at, NEW B, NEW g, NEW ab, NEW H,
         Forest(L, V, S), Joined(L, V, S, M, V1, S1, at, B), Sets(L, H, g, ab),
         at # nil => at \notin g
  PROVE  HeldAfter(L, V, M, V1, at, B, g, ab)
<1>1. /\ L \in Nat /\ M \in Nat /\ L < M
      /\ \A n \in 1 .. L : V[n] \subseteq 1 .. L
      /\ \A n \in 1 .. M : n \in 1 .. L \/ n \in L + 1 .. M
      /\ g \subseteq 1 .. L /\ ab \subseteq 1 .. L
  BY DEF Forest, Joined, Sets
<1>2. /\ \A n \in 1 .. L : n # at => V1[n] = V[n]
      /\ at # nil => at \in 1 .. L /\ V1[at] = V[at] \cup {L + 1}
      /\ \A n \in L + 1 .. M : V1[n] \subseteq n + 1 .. M
      /\ B \subseteq L + 1 .. M
  BY DEF Joined
<1>3. \A n \in 1 .. L : n \in ab \cup B <=> n \in ab
  BY <1>1, <1>2
<1>4. ASSUME NEW n \in 1 .. L, NEW c \in 1 .. M
      PROVE  n \in V1[c] <=> c \in 1 .. L /\ n \in V[c]
  <2>1. CASE c \in L + 1 .. M
    BY <1>1, <1>2, <2>1
  <2>2. CASE c \in 1 .. L
    <3>1. n # L + 1
      BY <1>1
    <3>2. V1[c] = V[c] \/ V1[c] = V[c] \cup {L + 1}
      BY <1>2, <2>2 DEF nil
    <3> QED
      BY <2>2, <3>1, <3>2
  <2> QED
    BY <1>1, <2>1, <2>2
<1>5. ASSUME NEW n \in 1 .. L
      PROVE  IsHeld(M, V1, g, ab \cup B, n) <=> IsHeld(L, V, g, ab, n)
  <2>1. \A c \in 1 .. L : c \in 1 .. M
    BY <1>1
  <2> QED
    BY <1>3, <1>4, <2>1 DEF IsHeld
<1>6. ASSUME NEW n \in L + 2 .. M
      PROVE  IsHeld(M, V1, g, ab \cup B, n)
  <2>1. PICK c \in L + 1 .. M : n \in V1[c]
    BY DEF Joined
  <2>2. c \in (1 .. M) \ g
    BY <1>1
  <2> QED
    BY <2>1, <2>2 DEF IsHeld
<1>7. ASSUME NEW c \in 1 .. M
      PROVE  L + 1 \in V1[c] <=> c = at /\ at # nil
  <2>1. CASE c \in L + 1 .. M
    <3>1. at # nil => c # at
      BY <1>1, <1>2, <2>1
    <3> QED
      BY <1>1, <1>2, <2>1, <3>1
  <2>2. CASE c \in 1 .. L
    <3>1. L + 1 \notin V[c]
      BY <1>1, <2>2
    <3> QED
      BY <1>2, <2>2, <3>1 DEF nil
  <2> QED
    BY <1>1, <2>1, <2>2
<1>8. IsHeld(M, V1, g, ab \cup B, L + 1) <=> at # nil \/ L + 1 \in B
  <2>1. L + 1 \notin ab
    BY <1>1
  <2>2. at # nil => at \in (1 .. M) \ g
    BY <1>1, <1>2
  <2> QED
    BY <1>7, <2>1, <2>2 DEF IsHeld
<1> QED
  BY <1>5, <1>6, <1>8 DEF HeldAfter

(* The root is as its holders say, the rest have none but the one they are  *)
(* stored in.                                                              *)
Added(L, H, R, w, M, at, B, H1, R1, w1) ==
  /\ H1 \subseteq 1 .. M /\ H1 \cap (1 .. L) = H
  /\ \A n \in 1 .. L : R1[n] = R[n] /\ w1[n] = w[n]
  /\ \A n \in L + 2 .. M : R1[n] = 0 /\ w1[n] = 0
  /\ IF at # nil \/ L + 1 \in B THEN R1[L + 1] = w1[L + 1] ELSE R1[L + 1] + 1 = w1[L + 1]
  /\ w1[L + 1] > 0 => L + 1 \in H1

LEMMA Join ==
  ASSUME NEW L, NEW V, NEW S, NEW M, NEW V1, NEW S1, NEW at, NEW B,
         NEW H, NEW R, NEW g, NEW ab, NEW w, NEW H1, NEW R1, NEW w1,
         Forest(L, V, S), Joined(L, V, S, M, V1, S1, at, B), Sets(L, H, g, ab),
         Tables(L, R, w), Books(L, V, S, H, R, g, ab, w), Tables(M, R1, w1),
         at # nil => at \notin g, Added(L, H, R, w, M, at, B, H1, R1, w1)
  PROVE  Sets(M, H1, g, ab \cup B) /\ Books(M, V1, S1, H1, R1, g, ab \cup B, w1)
<1> USE DEF Added
<1>1. /\ L \in Nat /\ M \in Nat /\ L < M
      /\ \A n \in 1 .. L : V[n] \subseteq 1 .. L /\ S[n] \subseteq V[n]
      /\ \A n \in 1 .. M : n \in 1 .. L \/ n = L + 1 \/ n \in L + 2 .. M
      /\ g \subseteq 1 .. L /\ ab \subseteq 1 .. L /\ B \subseteq L + 1 .. M
  BY SMTT(30) DEF Forest, Joined, Sets
<1>2. Sets(M, H1, g, ab \cup B)
  BY <1>1 DEF Sets
<1>3. \A n \in 1 .. M : R1[n] \in Nat /\ w1[n] \in Nat
  BY DEF Tables
<1>4. ASSUME NEW n \in 1 .. M, w1[n] > 0
      PROVE  n \in H1 \ g
  <2>1. CASE n \in 1 .. L
    BY <1>4, <2>1 DEF Books
  <2>2. CASE n = L + 1
    BY <1>1, <1>4, <2>2
  <2>3. CASE n \in L + 2 .. M
    BY <1>4, <2>3
  <2> QED
    BY <1>1, <2>1, <2>2, <2>3
<1>5. /\ \A n \in 1 .. L : n # at => V1[n] = V[n] /\ S1[n] = S[n]
      /\ at # nil => /\ at \in 1 .. L /\ V1[at] = V[at] \cup {L + 1}
                     /\ S1[at] = IF L + 1 \in B THEN S[at] ELSE S[at] \cup {L + 1}
      /\ \A n \in L + 1 .. M : V1[n] \subseteq n + 1 .. M /\ S1[n] = V1[n] \ B
  BY DEF Joined
<1>6. ASSUME NEW n \in (1 .. M) \ g
      PROVE  V1[n] \cap g = {}
  <2>1. CASE n \in 1 .. L
    <3>1. V[n] \cap g = {} /\ L + 1 \notin g
      BY <1>1, <2>1 DEF Books
    <3> QED
      BY <1>5, <2>1, <3>1 DEF nil
  <2>2. CASE n \in L + 1 .. M
    BY <1>1, <1>5, <2>2
  <2> QED
    BY <1>1, <2>1, <2>2
<1>7. ASSUME NEW n \in 1 .. M
      PROVE  V1[n] \cap (ab \cup B) = V1[n] \ S1[n]
  <2>1. CASE n \in 1 .. L
    <3>1. V[n] \cap ab = V[n] \ S[n] /\ V[n] \cap B = {} /\ L + 1 \notin ab /\ L + 1 \notin V[n]
      BY <1>1, <2>1 DEF Books
    <3>2. CASE n # at
      BY <1>5, <2>1, <3>1, <3>2
    <3>3. CASE n = at
      BY <1>1, <1>5, <2>1, <3>1, <3>3 DEF nil
    <3> QED
      BY <3>2, <3>3
  <2>2. CASE n \in L + 1 .. M
    <3>1. V1[n] \cap ab = {}
      BY <1>1, <1>5, <2>2
    <3> QED
      BY <1>5, <2>2, <3>1
  <2> QED
    BY <1>1, <2>1, <2>2
<1>a. HeldAfter(L, V, M, V1, at, B, g, ab)
  BY JoinHeld
<1>8. /\ \A n \in 1 .. L : IsHeld(M, V1, g, ab \cup B, n) <=> IsHeld(L, V, g, ab, n)
      /\ \A n \in L + 2 .. M : IsHeld(M, V1, g, ab \cup B, n)
      /\ IsHeld(M, V1, g, ab \cup B, L + 1) <=> at # nil \/ L + 1 \in B
  BY <1>a DEF HeldAfter
<1>9. ASSUME NEW n \in (1 .. M) \ (g \cup H1)
      PROVE  IsHeld(M, V1, g, ab \cup B, n)
  <2>1. CASE n \in 1 .. L
    BY <1>8, <2>1 DEF Books
  <2>2. CASE n = L + 1
    <3>1. R1[L + 1] \in Nat /\ w1[L + 1] \in Nat /\ ~(w1[L + 1] > 0)
      BY <1>3, <2>2
    <3>2. at # nil \/ L + 1 \in B
      BY <3>1
    <3> QED
      BY <1>8, <2>2, <3>2
  <2> QED
    BY <1>1, <1>8, <2>1, <2>2
<1>10. ASSUME NEW n \in H1 \ g
       PROVE  /\ IsHeld(M, V1, g, ab \cup B, n) => R1[n] = w1[n]
              /\ ~ IsHeld(M, V1, g, ab \cup B, n) => R1[n] + 1 = w1[n]
  <2>1. CASE n \in 1 .. L
    BY <1>8, <2>1 DEF Books
  <2>2. CASE n = L + 1
    BY <1>8, <2>2
  <2>3. CASE n \in L + 2 .. M
    BY <1>8, <2>3
  <2> QED
    BY <1>1, <2>1, <2>2, <2>3
<1> QED
  BY <1>2, <1>4, <1>6, <1>7, <1>9, <1>10 DEF Books

(* The nodes of D can be got from h, and none of them is held by anything   *)
(* else.                                                                   *)
Removes(L, S, H, R, g, h, D) ==
  /\ D \subseteq 1 .. L /\ h \in D /\ D \cap g = {}
  /\ \A c \in D \ {h} : \E m \in D : c \in S[m]
  /\ \A c \in UNION {S[m] : m \in D} : c \in D <=> (c \in H => R[c] = 0)

(* They are emptied, and what they lead to gets a reference back.          *)
Cleared(L, V, S, H, R, w, h, D, V1, S1, R1, w1) ==
  /\ \A n \in 1 .. L : IF n \in D THEN V1[n] = {} /\ S1[n] = {}
                                  ELSE V1[n] = V[n] /\ S1[n] = S[n]
  /\ IsTable(V1, L) /\ IsTable(S1, L)
  /\ \A n \in (1 .. L) \ D :
       R1[n] = IF n \in H /\ n \in UNION {S[m] : m \in D} THEN R[n] - 1 ELSE R[n]
  /\ \A n \in 1 .. L : w1[n] = IF n = h THEN w[n] - 1 ELSE w[n]

LEMMA CutDown ==
  ASSUME NEW L, NEW V, NEW S, NEW H, NEW R, NEW g, NEW ab, NEW w,
         Forest(L, V, S), Sets(L, H, g, ab), Tables(L, R, w), Books(L, V, S, H, R, g, ab, w),
         NEW h, h \in H, w[h] > 0, R[h] = 0, NEW D, Removes(L, S, H, R, g, h, D),
         NEW V1, NEW S1, NEW R1, NEW w1, Tables(L, R1, w1),
         Cleared(L, V, S, H, R, w, h, D, V1, S1, R1, w1)
  PROVE  Sound(L, V1, S1, H, R1, g \cup D, ab \ D, w1)
<1> USE DEF Removes, Cleared
<1> DEFINE C == UNION {S[m] : m \in D}
<1>1. /\ L \in Nat
      /\ \A n \in 1 .. L : V[n] \subseteq 1 .. L /\ S[n] \subseteq V[n]
      /\ \A m, n \in 1 .. L : m # n => V[m] \cap V[n] = {}
      /\ H \subseteq 1 .. L /\ g \subseteq 1 .. L /\ ab \subseteq 1 .. L
  BY DEF Forest, Sets
<1>2. \A n \in 1 .. L : R[n] \in Nat /\ w[n] \in Nat /\ R1[n] \in Nat /\ w1[n] \in Nat
  BY DEF Tables
<1>3. Forest(L, V1, S1)
  <2>1. V1 \in [1 .. L -> SUBSET (1 .. L)] /\ S1 \in [1 .. L -> SUBSET (1 .. L)]
    BY <1>1 DEF IsTable
  <2> QED
    BY <1>1, <2>1 DEF Forest
<1>4. Sets(L, H, g \cup D, ab \ D)
  BY <1>1 DEF Sets
<1>5. ~ IsHeld(L, V, g, ab, h) /\ w[h] = 1
  BY <1>1, <1>2 DEF Books
<1>6. ASSUME NEW c \in D \ {h}
      PROVE  /\ c \in C /\ w[c] = 0
  <2>1. PICK m \in D : c \in S[m]
    OBVIOUS
  <2>2. IsHeld(L, V, g, ab, c)
    BY <1>1, <2>1 DEF IsHeld
  <2>3. c \notin H => w[c] = 0
    BY <1>1, <1>2 DEF Books
  <2>4. c \in H => R[c] = 0
    BY <2>1
  <2> QED
    BY <1>1, <1>2, <2>1, <2>2, <2>3, <2>4 DEF Books
(* Nothing that stays leads to what is deleted.                            *)
<1>7. ASSUME NEW n \in (1 .. L) \ (g \cup D), NEW c \in D
      PROVE  c \notin V[n]
  <2>1. CASE c = h
    BY <1>5, <2>1 DEF IsHeld
  <2>2. CASE c # h
    <3>1. PICK m \in D : c \in S[m]
      BY <2>2
    <3> QED
      BY <1>1, <3>1
  <2> QED
    BY <2>1, <2>2
<1>8. \A n \in 1 .. L : w1[n] > 0 => n \in H \ (g \cup D)
  <2>1. \A n \in D : w1[n] = 0
    BY <1>2, <1>5, <1>6
  <2>2. \A n \in 1 .. L : w1[n] > 0 => w[n] > 0
    BY <1>2
  <2> QED
    BY <2>1, <2>2 DEF Books
<1>9. \A n \in (1 .. L) \ (g \cup D) : V1[n] \cap (g \cup D) = {}
  BY <1>7 DEF Books
<1>10. ASSUME NEW n \in 1 .. L
       PROVE  V1[n] \cap (ab \ D) = V1[n] \ S1[n]
  <2>1. CASE n \in D
    BY <2>1
  <2>2. CASE n \notin D
    <3>1. V[n] \cap ab = V[n] \ S[n] /\ V1[n] = V[n] /\ S1[n] = S[n]
      BY <2>2 DEF Books
    <3>2. ASSUME NEW c \in V[n] \cap D
          PROVE  c \notin ab
      <4>1. CASE c = h
        BY <1>5, <4>1 DEF IsHeld
      <4>2. CASE c # h
        <5>1. PICK m \in D : c \in S[m]
          BY <4>2
        <5> QED
          BY <1>1, <5>1 DEF Books
      <4> QED
        BY <4>1, <4>2
    <3> QED
      BY <3>1, <3>2
  <2> QED
    BY <2>1, <2>2
(* The holders of what stays, before and after.                            *)
<1>11. ASSUME NEW n \in (1 .. L) \ (g \cup D)
       PROVE  /\ n \in C => IsHeld(L, V, g, ab, n) /\ ~ IsHeld(L, V1, g \cup D, ab \ D, n)
              /\ n \notin C => (IsHeld(L, V1, g \cup D, ab \ D, n) <=> IsHeld(L, V, g, ab, n))
  <2>1. ASSUME n \in C
        PROVE  IsHeld(L, V, g, ab, n) /\ ~ IsHeld(L, V1, g \cup D, ab \ D, n)
    <3>1. PICK m \in D : n \in S[m]
      BY <2>1
    <3>2. n \in V[m] /\ n \notin ab /\ m \in (1 .. L) \ g
      BY <1>1, <3>1 DEF Books
    <3>3. \A c \in (1 .. L) \ (g \cup D) : n \notin V1[c]
      BY <1>1, <3>1, <3>2
    <3> QED
      BY <3>2, <3>3 DEF IsHeld
  <2>2. ASSUME n \notin C
        PROVE  IsHeld(L, V1, g \cup D, ab \ D, n) <=> IsHeld(L, V, g, ab, n)
    <3>1. n \in ab \ D <=> n \in ab
      OBVIOUS
    <3>2. ASSUME NEW c \in (1 .. L) \ g, n \in V[c], n \notin ab
          PROVE  c \notin D /\ n \in V1[c]
      <4>1. n \in S[c]
        BY <3>2 DEF Books
      <4> QED
        BY <2>2, <3>2, <4>1
    <3>3. \A c \in (1 .. L) \ (g \cup D) : V1[c] = V[c]
      OBVIOUS
    <3> QED
      BY <3>1, <3>2, <3>3 DEF IsHeld
  <2> QED
    BY <2>1, <2>2
<1>12. ASSUME NEW n \in (1 .. L) \ (g \cup D \cup H)
       PROVE  IsHeld(L, V1, g \cup D, ab \ D, n)
  <2>1. n \notin C
    OBVIOUS
  <2> QED
    BY <1>11, <2>1 DEF Books
<1>13. ASSUME NEW n \in H \ (g \cup D)
       PROVE  /\ IsHeld(L, V1, g \cup D, ab \ D, n) => R1[n] = w1[n]
              /\ ~ IsHeld(L, V1, g \cup D, ab \ D, n) => R1[n] + 1 = w1[n]
  <2>1. n \in (1 .. L) \ (g \cup D) /\ n # h /\ w1[n] = w[n]
    BY <1>1
  <2>2. CASE n \in C
    <3>1. R[n] = w[n] /\ R1[n] = R[n] - 1 /\ ~ IsHeld(L, V1, g \cup D, ab \ D, n)
      BY <1>11, <2>1, <2>2 DEF Books
    <3> QED
      BY <1>2, <2>1, <3>1
  <2>3. CASE n \notin C
    <3>1. R1[n] = R[n]
      BY <2>1, <2>3
    <3> QED
      BY <1>11, <2>1, <2>3, <3>1 DEF Books
  <2> QED
    BY <2>2, <2>3
<1> HIDE DEF C
<1>14. Books(L, V1, S1, H, R1, g \cup D, ab \ D, w1)
  BY <1>8, <1>9, <1>10, <1>12, <1>13 DEF Books
<1> QED
  BY <1>3, <1>4, <1>14 DEF Sound

-----------------------------------------------------------------------------
(* Nodes.                                                                  *)

Entry == [key : Keys, text : Nat, val : Nat]

Node == [type : Types, refCnt : 0 .. Width - 1, tree : Seq(Entry), items : Seq(Nat), text : Nat]

(* What is stored in r, the entries that get finds, what they lead to.     *)
Vals(r) == {r.tree[j].val : j \in 1 .. Len(r.tree)} \cup {r.items[j] : j \in 1 .. Len(r.items)}

First(r, j) == \A i \in 1 .. j - 1 : r.tree[i].key # r.tree[j].key

Subs(r) == {r.tree[j].val : j \in {j \in 1 .. Len(r.tree) : First(r, j)}}
             \cup {r.items[j] : j \in 1 .. Len(r.items)}

(* A hash has entries, each for another node, and no elements.             *)
Plain(r) == r.type = "hash" =>
  /\ r.items = <<>>
  /\ \A i, j \in 1 .. Len(r.tree) : r.tree[i].val = r.tree[j].val => i = j

(* The texts that r and its keys lie in are among those of L nodes.        *)
Texted(r, L) == r.text \in 0 .. L /\ \A j \in 1 .. Len(r.tree) : r.tree[j].text \in 0 .. L

LEMMA NodeFields ==
  ASSUME NEW r \in Node
  PROVE  /\ r.type \in Types /\ r.refCnt \in 0 .. Width - 1 /\ r.tree \in Seq(Entry)
         /\ r.items \in Seq(Nat) /\ r.text \in Nat
         /\ Len(r.tree) \in Nat /\ Len(r.items) \in Nat
         /\ \A j \in 1 .. Len(r.tree) :
              r.tree[j] \in Entry /\ r.tree[j].key \in Keys /\ r.tree[j].text \in Nat /\ r.tree[j].val \in Nat
<1>1. /\ r.type \in Types /\ r.refCnt \in 0 .. Width - 1 /\ r.tree \in Seq(Entry)
      /\ r.items \in Seq(Nat) /\ r.text \in Nat
  BY DEF Node
<1>2. \A j \in 1 .. Len(r.tree) : r.tree[j] \in Entry
  BY <1>1
<1> QED
  BY <1>1, <1>2 DEF Entry

(* Every key has a first entry.                                            *)
LEMMA HasFirst ==
  ASSUME NEW r \in Node, NEW j \in 1 .. Len(r.tree)
  PROVE  \E i \in 1 .. j : First(r, i) /\ r.tree[i].key = r.tree[j].key
<1> DEFINE T == {i \in 1 .. j : r.tree[i].key = r.tree[j].key}
<1>1. T \subseteq Nat /\ j \in T
  BY NodeFields
<1>2. PICK m \in T : \A k \in T : m <= k
  <2> HIDE DEF T
  <2> QED
    BY <1>1, Least
<1>3. First(r, m)
  BY <1>2 DEF First
<1> QED
  BY <1>2, <1>3

LEMMA GetFirst ==
  ASSUME NEW n, nodes[n] \in Node, NEW j \in 1 .. Len(nodes[n].tree), First(nodes[n], j)
  PROVE  Get(n, nodes[n].tree[j].key) = nodes[n].tree[j].val
<1> DEFINE t == nodes[n].tree
           hits == {i \in 1 .. Len(t) : t[i].key = t[j].key}
           c == CHOOSE i \in hits : \A l \in hits : i <= l
<1>0. Len(t) \in Nat /\ hits \subseteq Nat
  BY NodeFields
<1>1. j \in hits /\ \A l \in hits : j <= l
  BY <1>0 DEF First
<1>2. c \in hits /\ \A l \in hits : c <= l
  <2> HIDE DEF hits
  <2> QED
    BY <1>1
<1>3. c \in Nat /\ j \in Nat
  <2> HIDE DEF hits, c
  <2> QED
    BY <1>0, <1>1, <1>2
<1>4. c = j
  <2> HIDE DEF hits, c
  <2> QED
    BY <1>1, <1>2, <1>3
<1>5. hits # {}
  BY <1>1
<1>6. Get(n, t[j].key) = t[c].val
  BY <1>5 DEF Get
<1> QED
  BY <1>4, <1>6

LEMMA GetNone ==
  ASSUME NEW n, NEW k
  PROVE  (\A j \in 1 .. Len(nodes[n].tree) : nodes[n].tree[j].key # k) => Get(n, k) = nil
BY DEF Get

LEMMA SubIs ==
  ASSUME NEW n, nodes[n] \in Node
  PROVE  Sub(n) = Subs(nodes[n]) /\ Stored(n) = Vals(nodes[n])
<1> DEFINE r == nodes[n]
<1>1. \A j \in 1 .. Len(r.tree) : First(r, j) => Get(n, r.tree[j].key) = r.tree[j].val
  BY GetFirst
<1>2. \A j \in 1 .. Len(r.tree) : \E i \in 1 .. Len(r.tree) :
         First(r, i) /\ r.tree[i].key = r.tree[j].key
  BY HasFirst, NodeFields
<1>3. {Get(n, r.tree[j].key) : j \in 1 .. Len(r.tree)}
        = {r.tree[j].val : j \in {j \in 1 .. Len(r.tree) : First(r, j)}}
  <2>1. ASSUME NEW j \in 1 .. Len(r.tree)
        PROVE  \E i \in {i \in 1 .. Len(r.tree) : First(r, i)} : Get(n, r.tree[j].key) = r.tree[i].val
    <3>1. PICK i \in 1 .. Len(r.tree) : First(r, i) /\ r.tree[i].key = r.tree[j].key
      BY <1>2
    <3>2. Get(n, r.tree[i].key) = r.tree[i].val
      BY <1>1, <3>1
    <3> QED
      BY <3>1, <3>2
  <2>2. PICK S : S = {i \in 1 .. Len(r.tree) : First(r, i)}
    OBVIOUS
  <2>3. \A i \in S : i \in 1 .. Len(r.tree) /\ Get(n, r.tree[i].key) = r.tree[i].val
    BY <1>1, <2>2
  <2>4. \A j \in 1 .. Len(r.tree) : \E i \in S : Get(n, r.tree[j].key) = r.tree[i].val
    BY <2>1, <2>2
  <2> HIDE DEF r
  <2>5. {Get(n, r.tree[j].key) : j \in 1 .. Len(r.tree)} = {r.tree[j].val : j \in S}
    BY <2>3, <2>4
  <2> QED
    BY <2>2, <2>5
<1> QED
  BY <1>3 DEF Sub, Subs, Stored, Vals

(* get finds an entry that is not gone.                                    *)
LEMMA GetIn ==
  ASSUME NEW n, nodes[n] \in Node, NEW k, Get(n, k) # nil
  PROVE  Get(n, k) \in Subs(nodes[n])
<1> DEFINE r == nodes[n]
<1>1. PICK j \in 1 .. Len(r.tree) : r.tree[j].key = k
  BY GetNone
<1>2. PICK i \in 1 .. j : First(r, i) /\ r.tree[i].key = k
  BY <1>1, HasFirst
<1>3. i \in 1 .. Len(r.tree)
  BY <1>1, <1>2, NodeFields
<1>4. Get(n, k) = r.tree[i].val
  BY <1>2, <1>3, GetFirst
<1> QED
  BY <1>2, <1>3, <1>4 DEF Subs

-----------------------------------------------------------------------------
(* The nodes of a document.                                                *)

DocNode == [type : Types, tree : Seq(Keys \X Nat), items : Seq(Nat)]

Docs == {doc \in Seq(DocNode) : IsDocument(doc)}

LEMMA DocFields ==
  ASSUME NEW doc \in Docs
  PROVE  /\ Len(doc) \in Nat /\ Len(doc) >= 1
         /\ \A i \in 1 .. Len(doc) :
              /\ doc[i].type \in Types /\ doc[i].tree \in Seq(Keys \X Nat) /\ doc[i].items \in Seq(Nat)
              /\ Len(doc[i].tree) \in Nat /\ Len(doc[i].items) \in Nat
              /\ \A j \in 1 .. Len(doc[i].tree) : doc[i].tree[j][1] \in Keys /\ doc[i].tree[j][2] \in Nat
              /\ \A j \in 1 .. Len(doc[i].items) : doc[i].items[j] \in Nat
<1>1. Len(doc) \in Nat /\ Len(doc) >= 1
  BY DEF Docs, IsDocument
<1>2. ASSUME NEW i \in 1 .. Len(doc)
      PROVE  /\ doc[i].type \in Types /\ doc[i].tree \in Seq(Keys \X Nat) /\ doc[i].items \in Seq(Nat)
             /\ Len(doc[i].tree) \in Nat /\ Len(doc[i].items) \in Nat
             /\ \A j \in 1 .. Len(doc[i].tree) : doc[i].tree[j][1] \in Keys /\ doc[i].tree[j][2] \in Nat
             /\ \A j \in 1 .. Len(doc[i].items) : doc[i].items[j] \in Nat
  <2>1. doc[i] \in DocNode
    BY DEF Docs
  <2>2. doc[i].type \in Types /\ doc[i].tree \in Seq(Keys \X Nat) /\ doc[i].items \in Seq(Nat)
    BY <2>1 DEF DocNode
  <2>3. PICK t : t = doc[i].tree
    OBVIOUS
  <2>4. \A j \in 1 .. Len(t) : t[j] \in Keys \X Nat
    BY <2>2, <2>3
  <2>5. \A j \in 1 .. Len(t) : t[j][1] \in Keys /\ t[j][2] \in Nat
    BY <2>4
  <2>6. \A j \in 1 .. Len(doc[i].tree) : doc[i].tree[j][1] \in Keys /\ doc[i].tree[j][2] \in Nat
    BY <2>3, <2>5
  <2>7. \A j \in 1 .. Len(doc[i].items) : doc[i].items[j] \in Nat
    BY <2>2
  <2>8. Len(doc[i].tree) \in Nat /\ Len(doc[i].items) \in Nat
    BY <2>2
  <2> QED
    BY <2>2, <2>6, <2>7, <2>8
<1> QED
  BY <1>1, <1>2

LEMMA Cancel ==
  ASSUME NEW L \in Nat, NEW x \in Nat, NEW y \in Nat, L + x = L + y
  PROVE  x = y
OBVIOUS

LEMMA SeqOf ==
  ASSUME NEW T, NEW k \in Nat, NEW f \in [1 .. k -> T]
  PROVE  f \in Seq(T) /\ Len(f) = k
OBVIOUS

(* b is what Build makes of doc.                                           *)
Built(doc, text, b) ==
  /\ b \in Seq(Node) /\ Len(b) = Len(doc)
  /\ \A i \in 1 .. Len(doc) :
       /\ b[i].refCnt = 0 /\ b[i].type = doc[i].type /\ Plain(b[i])
       /\ b[i].text = text /\ \A j \in 1 .. Len(b[i].tree) : b[i].tree[j].text = text
       /\ Vals(b[i]) = {Len(nodes) + c : c \in Lead(doc[i])}
       /\ Subs(b[i]) = Vals(b[i]) \ Behind(doc)

LEMMA BuildMakes ==
  ASSUME NEW doc \in Docs, NEW text \in Nat, NEW b, b = Build(doc, text), Len(nodes) \in Nat
  PROVE  Built(doc, text, b)
<1> DEFINE L == Len(nodes)
<1>0. 0 \in 0 .. Width - 1
  BY LifeAssumption
<1>1. b = [i \in 1 .. Len(doc) |->
        [type   |-> doc[i].type,
         refCnt |-> 0,
         tree   |-> [j \in 1 .. Len(doc[i].tree) |->
                      [key |-> doc[i].tree[j][1], text |-> text, val |-> L + doc[i].tree[j][2]]],
         items  |-> [j \in 1 .. Len(doc[i].items) |-> L + doc[i].items[j]],
         text   |-> text]]
  BY DEF Build
<1>2. ASSUME NEW i \in 1 .. Len(doc)
      PROVE  /\ b[i] \in Node /\ b[i].refCnt = 0 /\ b[i].type = doc[i].type /\ b[i].text = text
             /\ Len(b[i].tree) = Len(doc[i].tree) /\ Len(b[i].items) = Len(doc[i].items)
             /\ \A j \in 1 .. Len(doc[i].tree) :
                  /\ b[i].tree[j].key = doc[i].tree[j][1] /\ b[i].tree[j].text = text
                  /\ b[i].tree[j].val = L + doc[i].tree[j][2]
             /\ \A j \in 1 .. Len(doc[i].items) : b[i].items[j] = L + doc[i].items[j]
  <2>1. PICK t : t = [j \in 1 .. Len(doc[i].tree) |->
                       [key |-> doc[i].tree[j][1], text |-> text, val |-> L + doc[i].tree[j][2]]]
    OBVIOUS
  <2>2. PICK e : e = [j \in 1 .. Len(doc[i].items) |-> L + doc[i].items[j]]
    OBVIOUS
  <2>3. /\ doc[i].type \in Types /\ Len(doc[i].tree) \in Nat /\ Len(doc[i].items) \in Nat
        /\ \A j \in 1 .. Len(doc[i].tree) : doc[i].tree[j][1] \in Keys /\ doc[i].tree[j][2] \in Nat
        /\ \A j \in 1 .. Len(doc[i].items) : doc[i].items[j] \in Nat
    BY DocFields
  <2>4. \A j \in 1 .. Len(doc[i].tree) : t[j] \in Entry
    <3> TAKE j \in 1 .. Len(doc[i].tree)
    <3>1. doc[i].tree[j][1] \in Keys /\ L + doc[i].tree[j][2] \in Nat /\ text \in Nat
      BY <2>3
    <3>2. t[j] = [key |-> doc[i].tree[j][1], text |-> text, val |-> L + doc[i].tree[j][2]]
      BY <2>1
    <3> QED
      BY <3>1, <3>2 DEF Entry
  <2>5. t \in Seq(Entry) /\ Len(t) = Len(doc[i].tree)
    <3>1. t \in [1 .. Len(doc[i].tree) -> Entry]
      BY <2>1, <2>4
    <3> QED
      BY <2>3, <3>1, SeqOf
  <2>6. e \in Seq(Nat) /\ Len(e) = Len(doc[i].items)
    <3>1. e \in [1 .. Len(doc[i].items) -> Nat]
      BY <2>2, <2>3
    <3> QED
      BY <2>3, <3>1, SeqOf
  <2>7. b[i] = [type |-> doc[i].type, refCnt |-> 0, tree |-> t, items |-> e, text |-> text]
    BY <1>1, <2>1, <2>2
  <2>8. b[i] \in Node
    BY <1>0, <2>3, <2>5, <2>6, <2>7 DEF Node
  <2>9. /\ b[i].refCnt = 0 /\ b[i].type = doc[i].type /\ b[i].text = text
        /\ b[i].tree = t /\ b[i].items = e
    BY <2>7
  <2>10. /\ \A j \in 1 .. Len(doc[i].tree) :
              /\ t[j].key = doc[i].tree[j][1] /\ t[j].text = text
              /\ t[j].val = L + doc[i].tree[j][2]
         /\ \A j \in 1 .. Len(doc[i].items) : e[j] = L + doc[i].items[j]
    BY <2>1, <2>2
  <2> QED
    BY <2>5, <2>6, <2>8, <2>9, <2>10
<1>3. b \in Seq(Node) /\ Len(b) = Len(doc)
  <2>1. b \in [1 .. Len(doc) -> Node]
    BY <1>1, <1>2
  <2> QED
    BY <2>1, DocFields
<1>4. ASSUME NEW i \in 1 .. Len(doc)
      PROVE  Vals(b[i]) = {L + c : c \in Lead(doc[i])}
  <2>1. PICK t : t = doc[i].tree
    OBVIOUS
  <2>2. PICK e : e = doc[i].items
    OBVIOUS
  <2>3. Vals(b[i]) = {L + t[j][2] : j \in 1 .. Len(t)} \cup {L + e[j] : j \in 1 .. Len(e)}
    <3>1. {b[i].tree[j].val : j \in 1 .. Len(b[i].tree)} = {L + t[j][2] : j \in 1 .. Len(t)}
      <4>1. Len(b[i].tree) = Len(t) /\ \A j \in 1 .. Len(t) : b[i].tree[j].val = L + t[j][2]
        BY <1>2, <2>1
      <4> HIDE DEF L
      <4> QED
        BY <4>1
    <3>2. {b[i].items[j] : j \in 1 .. Len(b[i].items)} = {L + e[j] : j \in 1 .. Len(e)}
      BY <1>2, <2>2
    <3> QED
      BY <3>1, <3>2 DEF Vals
  <2>4. Lead(doc[i]) = {t[j][2] : j \in 1 .. Len(t)} \cup {e[j] : j \in 1 .. Len(e)}
    BY <2>1, <2>2 DEF Lead
  <2> QED
    BY <2>3, <2>4
<1>5. ASSUME NEW i \in 1 .. Len(doc)
      PROVE  Plain(b[i])
  <2> SUFFICES ASSUME doc[i].type = "hash" PROVE Plain(b[i])
    BY <1>2 DEF Plain
  <2>1. /\ doc[i].items = <<>>
        /\ \A j, l \in 1 .. Len(doc[i].tree) : doc[i].tree[j][2] = doc[i].tree[l][2] => j = l
    BY DEF Docs, IsDocument
  <2>2. Len(b[i].items) = 0
    BY <1>2, <2>1
  <2>3. b[i].items = <<>>
    BY <1>2, <2>2, NodeFields
  <2>4. \A j, l \in 1 .. Len(b[i].tree) : b[i].tree[j].val = b[i].tree[l].val => j = l
    <3> SUFFICES ASSUME NEW j \in 1 .. Len(doc[i].tree), NEW l \in 1 .. Len(doc[i].tree),
                        L + doc[i].tree[j][2] = L + doc[i].tree[l][2]
                 PROVE  j = l
      <4>1. /\ Len(b[i].tree) = Len(doc[i].tree)
            /\ \A x \in 1 .. Len(doc[i].tree) : b[i].tree[x].val = L + doc[i].tree[x][2]
        BY <1>2
      <4> HIDE DEF L
      <4> QED
        BY <4>1
    <3>1. doc[i].tree[j][2] \in Nat /\ doc[i].tree[l][2] \in Nat
      BY DocFields
    <3>2. doc[i].tree[j][2] = doc[i].tree[l][2]
      BY <3>1, Cancel
    <3> QED
      BY <2>1, <3>2
  <2> QED
    BY <2>3, <2>4 DEF Plain
<1>6. ASSUME NEW i \in 1 .. Len(doc)
      PROVE  Subs(b[i]) = Vals(b[i]) \ Behind(doc)
  <2> DEFINE D(m) == {j \in 1 .. Len(doc[m].tree) :
                       \E l \in 1 .. j - 1 : doc[m].tree[l][1] = doc[m].tree[j][1]}
  <2>1. Behind(doc) = UNION {{L + doc[m].tree[j][2] : j \in D(m)} : m \in 1 .. Len(doc)}
    BY DEF Behind
  <2>2. ASSUME NEW j \in 1 .. Len(b[i].tree)
        PROVE  j \in D(i) <=> ~ First(b[i], j)
    <3>1. j \in 1 .. Len(doc[i].tree) /\ \A l \in 1 .. j - 1 : l \in 1 .. Len(doc[i].tree)
      BY <1>2, DocFields
    <3>2. \A l \in 1 .. j - 1 : b[i].tree[l].key = b[i].tree[j].key
                                <=> doc[i].tree[l][1] = doc[i].tree[j][1]
      BY <1>2, <3>1
    <3>3. j \in D(i) <=> \E l \in 1 .. j - 1 : doc[i].tree[l][1] = doc[i].tree[j][1]
      BY <3>1
    <3>4. First(b[i], j) <=> \A l \in 1 .. j - 1 : b[i].tree[l].key # b[i].tree[j].key
      BY DEF First
    <3> HIDE DEF D
    <3> QED
      BY <3>2, <3>3, <3>4
  <2>3. Subs(b[i]) \subseteq Vals(b[i])
    BY DEF Subs, Vals
  <2>4. ASSUME NEW j \in D(i)
        PROVE  L + doc[i].tree[j][2] \notin Subs(b[i])
    <3>1. j \in 1 .. Len(b[i].tree) /\ ~ First(b[i], j) /\ b[i].tree[j].val = L + doc[i].tree[j][2]
      BY <1>2, <2>2
    <3>2. doc[i].type = "hash"
      <4>1. Len(doc[i].tree) # 0
        BY <3>1, <1>2, DocFields
      <4>2. doc[i].tree # <<>>
        BY <4>1
      <4> QED
        BY <4>2 DEF Docs, IsDocument
    <3>3. /\ b[i].items = <<>>
          /\ \A l \in 1 .. Len(b[i].tree) : b[i].tree[l].val = b[i].tree[j].val => l = j
      BY <1>2, <1>5, <3>1, <3>2 DEF Plain
    <3>4. 1 .. Len(b[i].items) = {}
      BY <3>3
    <3> QED
      BY <3>1, <3>3, <3>4 DEF Subs
  <2>5. ASSUME NEW m \in 1 .. Len(doc), NEW j \in D(m), L + doc[m].tree[j][2] \in Vals(b[i])
        PROVE  m = i
    <3>1. doc[m].tree[j][2] \in Lead(doc[m]) /\ doc[m].tree[j][2] \in Nat
      BY DocFields DEF Lead
    <3>a. L + doc[m].tree[j][2] \in {L + c : c \in Lead(doc[i])}
      BY <1>4, <2>5
    <3>2. PICK c \in Lead(doc[i]) : L + doc[m].tree[j][2] = L + c
      BY <3>a
    <3>3. c \in Nat
      BY DocFields DEF Lead
    <3>4. c = doc[m].tree[j][2]
      BY <3>1, <3>2, <3>3, SMTT(30)
    <3> QED
      BY <3>1, <3>4 DEF Docs, IsDocument
  <2>6. ASSUME NEW x \in Vals(b[i]), x \notin Subs(b[i])
        PROVE  x \in Behind(doc)
    <3>1. PICK j \in 1 .. Len(b[i].tree) : x = b[i].tree[j].val /\ ~ First(b[i], j)
      BY <2>6 DEF Vals, Subs
    <3>2. j \in D(i) /\ x = L + doc[i].tree[j][2]
      BY <1>2, <2>2, <3>1
    <3> HIDE DEF D
    <3>3. x \in {L + doc[i].tree[l][2] : l \in D(i)}
      BY <3>2
    <3> QED
      BY <2>1, <3>3
  <2>7. ASSUME NEW x \in Vals(b[i]), x \in Behind(doc)
        PROVE  x \notin Subs(b[i])
    <3>1. PICK m \in 1 .. Len(doc) : \E j \in D(m) : x = L + doc[m].tree[j][2]
      BY <2>1, <2>7, SMTT(30)
    <3> QED
      BY <2>4, <2>5, <2>7, <3>1, ZenonT(40)
  <2> QED
    BY <2>3, <2>6, <2>7
<1> QED
  BY <1>2, <1>3, <1>4, <1>5, <1>6, ZenonT(40) DEF Built

-----------------------------------------------------------------------------
(* The number of wrappers.                                                 *)

(* s adds up w, from the left.                                             *)
IsSum(w, s) ==
  /\ s[0] = 0
  /\ \A n \in 1 .. Len(w) : s[n] = s[n - 1] + w[n]
  /\ \A n \in 0 .. Len(w) : s[n] \in Nat

LEMMA TotalIsSum ==
  ASSUME NEW w \in Seq(Nat)
  PROVE  \E s : IsSum(w, s) /\ Total(w) = s[Len(w)]
<1> DEFINE N     == Len(w)
           D(f)  == [n \in 0 .. N |-> IF n = 0 THEN 0 ELSE f[n - 1] + w[n]]
           Ok(k) == \E f \in [0 .. N -> Nat] : \A n \in 0 .. N : n < k => f[n] = D(f)[n]
           T     == {k \in Nat : Ok(k)}
           U     == CHOOSE f : f = D(f)
<1>0. N \in Nat /\ \A n \in 1 .. N : w[n] \in Nat
  OBVIOUS
<1> HIDE DEF N
<1>1. 0 \in T
  <2>1. [n \in 0 .. N |-> 0] \in [0 .. N -> Nat]
    OBVIOUS
  <2>2. \A n \in 0 .. N : ~ (n < 0)
    BY <1>0
  <2> QED
    BY <2>1, <2>2
<1>2. ASSUME NEW k \in Nat, k \in T
      PROVE  k + 1 \in T
  <2>1. PICK g \in [0 .. N -> Nat] : \A n \in 0 .. N : n < k => g[n] = D(g)[n]
    BY <1>2
  <2>2. PICK h : h = D(g)
    OBVIOUS
  <2>3. h \in [0 .. N -> Nat]
    <3>1. \A n \in 0 .. N : n # 0 => n - 1 \in 0 .. N /\ n \in 1 .. N
      BY <1>0
    <3>2. \A n \in 0 .. N : (IF n = 0 THEN 0 ELSE g[n - 1] + w[n]) \in Nat
      <4> TAKE n \in 0 .. N
      <4>1. CASE n = 0
        BY <4>1
      <4>2. CASE n # 0
        <5>1. n - 1 \in 0 .. N /\ n \in 1 .. N
          BY <3>1, <4>2
        <5>2. g[n - 1] \in Nat /\ w[n] \in Nat
          BY <1>0, <5>1
        <5> QED
          BY <4>2, <5>2
      <4> QED
        BY <4>1, <4>2
    <3> QED
      BY <2>2, <3>2
  <2>4. ASSUME NEW n \in 0 .. N, n < k + 1
        PROVE  h[n] = D(h)[n]
    <3>1. CASE n = 0
      BY <2>2, <3>1
    <3>2. CASE n # 0
      <4>1. n - 1 \in 0 .. N /\ n - 1 < k
        BY <1>0, <2>4, <3>2
      <4>2. h[n - 1] = g[n - 1]
        BY <2>1, <2>2, <4>1
      <4> QED
        BY <2>2, <3>2, <4>2
    <3> QED
      BY <3>1, <3>2
  <2>5. Ok(k + 1)
    BY <2>3, <2>4
  <2>6. k + 1 \in Nat
    OBVIOUS
  <2> HIDE DEF Ok
  <2> QED
    BY <2>5, <2>6
<1>3. N + 1 \in T
  <2> HIDE DEF T
  <2>1. Nat \subseteq T
    BY <1>1, <1>2, Induct
  <2> QED
    BY <1>0, <2>1
<1>4. PICK f \in [0 .. N -> Nat] : \A n \in 0 .. N : n < N + 1 => f[n] = D(f)[n]
  BY <1>3
<1>5. \A n \in 0 .. N : f[n] = D(f)[n]
  BY <1>0, <1>4
<1>6. \E f1 : f1 = D(f1)
  <2>1. f = D(f)
    BY <1>4, <1>5
  <2> QED
    BY <2>1
<1>7. U = D(U)
  BY <1>6
<1>8. Total(w) = U[N]
  BY DEF Total, N
<1>9. PICK u : u = D(u) /\ Total(w) = u[N]
  BY <1>7, <1>8
<1>10. /\ u[0] = 0
       /\ \A n \in 1 .. N : u[n] = u[n - 1] + w[n]
  <2>1. \A n \in 0 .. N : u[n] = D(u)[n]
    BY <1>9
  <2>2. \A n \in 1 .. N : n \in 0 .. N /\ n # 0
    BY <1>0
  <2>3. 0 \in 0 .. N
    BY <1>0
  <2>4. u[0] = 0
    BY <2>1, <2>3
  <2>5. \A n \in 1 .. N : u[n] = u[n - 1] + w[n]
    BY <2>1, <2>2
  <2> QED
    BY <2>4, <2>5
<1>11. \A n \in 0 .. N : u[n] \in Nat
  <2> DEFINE P == {n \in Nat : n \in 0 .. N => u[n] \in Nat}
  <2>1. 0 \in P
    BY <1>10
  <2>2. ASSUME NEW n \in Nat, n \in P
        PROVE  n + 1 \in P
    <3> SUFFICES ASSUME n + 1 \in 0 .. N PROVE u[n + 1] \in Nat
      OBVIOUS
    <3>1. n + 1 \in 1 .. N /\ n \in 0 .. N /\ (n + 1) - 1 = n
      BY <1>0
    <3>2. u[n + 1] = u[n] + w[n + 1]
      BY <1>10, <3>1
    <3>3. u[n] \in Nat
      BY <2>2, <3>1
    <3>4. w[n + 1] \in Nat
      BY <1>0, <3>1
    <3> QED
      BY <3>2, <3>3, <3>4
  <2>3. Nat \subseteq P
    <3> HIDE DEF P
    <3> QED
      BY <2>1, <2>2, Induct
  <2> QED
    BY <1>0, <2>3
<1>12. IsSum(w, u)
  BY <1>10, <1>11 DEF IsSum, N
<1> QED
  BY <1>9, <1>12 DEF N

(* Induction along a sequence.                                             *)
LEMMA AlongTo ==
  ASSUME NEW a \in Nat, NEW b \in Nat, NEW P, a <= b, a \in P,
         \A n \in a .. b : n \in P /\ n < b => n + 1 \in P
  PROVE  \A n \in a .. b : n \in P
<1> DEFINE Q == {k \in Nat : a + k <= b => a + k \in P}
<1>1. 0 \in Q
  OBVIOUS
<1>2. ASSUME NEW k \in Nat, k \in Q
      PROVE  k + 1 \in Q
  <2> SUFFICES ASSUME a + (k + 1) <= b PROVE a + (k + 1) \in P
    OBVIOUS
  <2>1. a + k \in a .. b /\ a + k < b /\ (a + k) + 1 = a + (k + 1)
    OBVIOUS
  <2>2. a + k \in P
    BY <1>2, <2>1
  <2>3. (a + k) + 1 \in P
    BY <2>1, <2>2
  <2> QED
    BY <2>1, <2>3
<1>3. Nat \subseteq Q
  <2> HIDE DEF Q
  <2> QED
    BY <1>1, <1>2, Induct
<1> SUFFICES ASSUME NEW n \in a .. b PROVE n \in P
  OBVIOUS
<1>4. n - a \in Nat /\ a + (n - a) = n /\ n <= b
  OBVIOUS
<1> QED
  BY <1>3, <1>4

LEMMA TotalBounds ==
  ASSUME NEW w \in Seq(Nat)
  PROVE  Total(w) \in Nat /\ \A i \in 1 .. Len(w) : w[i] <= Total(w)
<1>1. PICK s : IsSum(w, s) /\ Total(w) = s[Len(w)]
  BY TotalIsSum
<1>2. /\ Len(w) \in Nat /\ \A n \in 1 .. Len(w) : w[n] \in Nat
      /\ \A n \in 1 .. Len(w) : s[n] = s[n - 1] + w[n]
      /\ \A n \in 0 .. Len(w) : s[n] \in Nat
  BY <1>1 DEF IsSum
<1>3. ASSUME NEW i \in 1 .. Len(w)
      PROVE  w[i] <= s[Len(w)]
  <2> DEFINE P == {n \in Nat : n \in i .. Len(w) => w[i] <= s[n]}
  <2>1. i \in Nat /\ i <= Len(w) /\ i \in P
    <3>1. i - 1 \in 0 .. Len(w) /\ i \in 0 .. Len(w)
      BY <1>2
    <3>2. s[i] = s[i - 1] + w[i] /\ s[i - 1] \in Nat /\ w[i] \in Nat
      BY <1>2, <3>1
    <3>3. w[i] <= s[i]
      BY <3>2
    <3> QED
      BY <1>2, <3>3
  <2>2. ASSUME NEW n \in i .. Len(w), n \in P, n < Len(w)
        PROVE  n + 1 \in P
    <3>1. n + 1 \in 1 .. Len(w) /\ (n + 1) - 1 = n /\ n \in 0 .. Len(w)
      BY <1>2, <2>2
    <3>2. s[n + 1] = s[n] + w[n + 1] /\ s[n] \in Nat /\ w[n + 1] \in Nat /\ w[i] <= s[n] /\ w[i] \in Nat
      BY <1>2, <2>2, <3>1
    <3>3. w[i] <= s[n + 1]
      BY <3>2
    <3> QED
      BY <1>2, <3>1, <3>3
  <2>3. \A n \in i .. Len(w) : n \in P
    <3> HIDE DEF P
    <3> QED
      BY <1>2, <2>1, <2>2, AlongTo
  <2> QED
    BY <1>2, <2>1, <2>3
<1> QED
  BY <1>1, <1>2, <1>3

(* v is w with as much more as d gains from entry to entry.                *)
LEMMA TotalCompare ==
  ASSUME NEW w \in Seq(Nat), NEW v \in Seq(Nat), Len(v) = Len(w), NEW d, d[0] = 0,
         \A n \in 0 .. Len(w) : d[n] \in Nat,
         \A n \in 1 .. Len(w) : v[n] + d[n - 1] <= w[n] + d[n]
  PROVE  Total(v) <= Total(w) + d[Len(w)]
<1>1. PICK s : IsSum(w, s) /\ Total(w) = s[Len(w)]
  BY TotalIsSum
<1>2. PICK t : IsSum(v, t) /\ Total(v) = t[Len(v)]
  BY TotalIsSum
<1>3. /\ s[0] = 0 /\ t[0] = 0 /\ Len(w) \in Nat
      /\ \A n \in 1 .. Len(w) : s[n] = s[n - 1] + w[n] /\ t[n] = t[n - 1] + v[n]
      /\ \A n \in 1 .. Len(w) : w[n] \in Nat /\ v[n] \in Nat
      /\ \A n \in 0 .. Len(w) : s[n] \in Nat /\ t[n] \in Nat
  BY <1>1, <1>2 DEF IsSum
<1> DEFINE P == {n \in Nat : n \in 0 .. Len(w) => t[n] <= s[n] + d[n]}
<1>4. 0 \in P
  BY <1>3
<1>5. ASSUME NEW n \in 0 .. Len(w), n \in P, n < Len(w)
      PROVE  n + 1 \in P
  <2>1. n + 1 \in 1 .. Len(w) /\ (n + 1) - 1 = n /\ n + 1 \in 0 .. Len(w) /\ n + 1 \in Nat
    BY <1>3, <1>5
  <2>2. /\ s[n + 1] = s[n] + w[n + 1] /\ t[n + 1] = t[n] + v[n + 1]
        /\ v[n + 1] + d[n] <= w[n + 1] + d[n + 1]
    BY <1>3, <2>1
  <2>3. /\ s[n] \in Nat /\ t[n] \in Nat /\ w[n + 1] \in Nat /\ v[n + 1] \in Nat
        /\ d[n] \in Nat /\ d[n + 1] \in Nat
    BY <1>3, <2>1
  <2>4. t[n] <= s[n] + d[n]
    BY <1>5
  <2> HIDE DEF P
  <2>5. \A a, b, c, e, x, y \in Nat : y + c <= x + e /\ b <= a + c => b + y <= (a + x) + e
    OBVIOUS
  <2>6. t[n] + v[n + 1] <= (s[n] + w[n + 1]) + d[n + 1]
    BY <2>2, <2>3, <2>4, <2>5
  <2>7. t[n + 1] <= s[n + 1] + d[n + 1]
    BY <2>2, <2>6
  <2> USE DEF P
  <2> QED
    BY <2>1, <2>7
<1>6. \A n \in 0 .. Len(w) : n \in P
  <2> HIDE DEF P
  <2>1. \A n \in 0 .. Len(w) : n \in P /\ n < Len(w) => n + 1 \in P
    BY <1>5
  <2>2. 0 \in Nat /\ Len(w) \in Nat /\ 0 <= Len(w)
    BY <1>3
  <2> QED
    BY <1>4, <2>1, <2>2, AlongTo
<1>7. t[Len(w)] <= s[Len(w)] + d[Len(w)]
  BY <1>3, <1>6
<1> QED
  BY <1>1, <1>2, <1>7

(* v is w and x, and then nothing but 0.                                   *)
LEMMA TotalLonger ==
  ASSUME NEW w \in Seq(Nat), NEW v \in Seq(Nat), Len(w) < Len(v), NEW x \in Nat,
         \A n \in 1 .. Len(w) : v[n] = w[n],
         v[Len(w) + 1] = x,
         \A n \in Len(w) + 2 .. Len(v) : v[n] = 0
  PROVE  Total(v) = Total(w) + x
<1>1. PICK s : IsSum(w, s) /\ Total(w) = s[Len(w)]
  BY TotalIsSum
<1>2. PICK t : IsSum(v, t) /\ Total(v) = t[Len(v)]
  BY TotalIsSum
<1>3. /\ s[0] = 0 /\ t[0] = 0 /\ Len(w) \in Nat /\ Len(v) \in Nat
      /\ \A n \in 1 .. Len(w) : s[n] = s[n - 1] + w[n]
      /\ \A n \in 1 .. Len(v) : t[n] = t[n - 1] + v[n] /\ v[n] \in Nat
      /\ \A n \in 0 .. Len(w) : s[n] \in Nat
      /\ \A n \in 0 .. Len(v) : t[n] \in Nat
  BY <1>1, <1>2 DEF IsSum
<1> DEFINE P == {n \in Nat : n \in 0 .. Len(w) => t[n] = s[n]}
<1>4. 0 \in P
  BY <1>3
<1>5. ASSUME NEW n \in 0 .. Len(w), n \in P, n < Len(w)
      PROVE  n + 1 \in P
  <2>1. n + 1 \in 1 .. Len(w) /\ n + 1 \in 1 .. Len(v) /\ (n + 1) - 1 = n
    BY <1>3, <1>5
  <2>2. s[n + 1] = s[n] + w[n + 1] /\ t[n + 1] = t[n] + w[n + 1] /\ t[n] = s[n]
    BY <1>3, <1>5, <2>1
  <2> QED
    BY <2>1, <2>2
<1>6. t[Len(w)] = s[Len(w)]
  <2>1. \A n \in 0 .. Len(w) : n \in P
    <3> HIDE DEF P
    <3>1. \A n \in 0 .. Len(w) : n \in P /\ n < Len(w) => n + 1 \in P
      BY <1>5
    <3>2. 0 \in Nat /\ Len(w) \in Nat /\ 0 <= Len(w)
      BY <1>3
    <3> QED
      BY <1>4, <3>1, <3>2, AlongTo
  <2> QED
    BY <1>3, <2>1
<1> DEFINE Q == {n \in Nat : n \in Len(w) + 1 .. Len(v) => t[n] = s[Len(w)] + x}
<1>7. Len(w) + 1 \in Q
  <2>1. Len(w) + 1 \in 1 .. Len(v) /\ (Len(w) + 1) - 1 = Len(w)
    BY <1>3
  <2>2. t[Len(w) + 1] = t[Len(w)] + x
    BY <1>3, <2>1
  <2> QED
    BY <1>3, <1>6, <2>2
<1>8. ASSUME NEW n \in Len(w) + 1 .. Len(v), n \in Q, n < Len(v)
      PROVE  n + 1 \in Q
  <2>1. n + 1 \in Len(w) + 2 .. Len(v) /\ n + 1 \in 1 .. Len(v) /\ (n + 1) - 1 = n /\ n \in 0 .. Len(v)
    BY <1>3, <1>8
  <2>2. t[n + 1] = t[n] + 0 /\ t[n] \in Nat /\ t[n] = s[Len(w)] + x
    BY <1>3, <1>8, <2>1
  <2>3. t[n + 1] = s[Len(w)] + x
    BY <2>2
  <2> QED
    BY <2>1, <2>3
<1>9. \A n \in Len(w) + 1 .. Len(v) : n \in Q
  <2> HIDE DEF Q
  <2>1. Len(w) + 1 \in Nat /\ Len(w) + 1 <= Len(v)
    BY <1>3
  <2> QED
    BY <1>3, <1>7, <1>8, <2>1, AlongTo
<1>10. t[Len(v)] = s[Len(w)] + x
  <2>1. Len(v) \in Len(w) + 1 .. Len(v)
    BY <1>3
  <2> QED
    BY <1>3, <1>9, <2>1
<1> QED
  BY <1>1, <1>2, <1>10

(* A wrapper more for every node of W.                                     *)
LEMMA TotalOneMore ==
  ASSUME NEW w \in Seq(Nat), NEW v \in Seq(Nat), Len(v) = Len(w),
         NEW W \in SUBSET (1 .. Len(w)),
         \A n \in 1 .. Len(w) : v[n] = IF n \in W THEN w[n] + 1 ELSE w[n]
  PROVE  Total(v) <= Total(w) + Cardinality(W)
<1> DEFINE d == [n \in 0 .. Len(w) |-> Cardinality(W \cap 1 .. n)]
<1>1. Len(w) \in Nat /\ \A n \in 1 .. Len(w) : w[n] \in Nat
  OBVIOUS
<1>2. \A n \in 0 .. Len(w) : IsFiniteSet(1 .. n)
  BY <1>1, FS_Interval
<1>3. \A n \in 0 .. Len(w) : IsFiniteSet(W \cap 1 .. n)
  BY <1>2, FS_Subset
<1>4. \A n \in 0 .. Len(w) : d[n] \in Nat
  BY <1>3, FS_CardinalityType
<1>5. d[0] = 0
  <2>1. W \cap 1 .. 0 = {}
    OBVIOUS
  <2> QED
    BY <1>1, <2>1, FS_EmptySet
<1>6. ASSUME NEW n \in 1 .. Len(w)
      PROVE  v[n] + d[n - 1] <= w[n] + d[n]
  <2>1. n - 1 \in 0 .. Len(w) /\ n \in 0 .. Len(w) /\ d[n - 1] = Cardinality(W \cap 1 .. n - 1)
        /\ d[n] = Cardinality(W \cap 1 .. n)
    BY <1>1
  <2>2. CASE n \in W
    <3>1. W \cap 1 .. n = (W \cap 1 .. n - 1) \cup {n} /\ n \notin W \cap 1 .. n - 1
      BY <1>1, <2>2
    <3>2. Cardinality(W \cap 1 .. n) = Cardinality(W \cap 1 .. n - 1) + 1
      BY <1>3, <2>1, <3>1, FS_AddElement
    <3>3. d[n] = d[n - 1] + 1 /\ v[n] = w[n] + 1 /\ d[n - 1] \in Nat /\ w[n] \in Nat
      BY <1>1, <1>4, <2>1, <2>2, <3>2
    <3> HIDE DEF d
    <3>4. \A a, b \in Nat : (a + 1) + b <= a + (b + 1)
      OBVIOUS
    <3> QED
      BY <3>3, <3>4
  <2>3. CASE n \notin W
    <3>1. W \cap 1 .. n = W \cap 1 .. n - 1
      BY <1>1, <2>3
    <3>2. d[n] = d[n - 1] /\ v[n] = w[n] /\ d[n - 1] \in Nat /\ w[n] \in Nat
      BY <1>1, <1>4, <2>1, <2>3, <3>1
    <3> HIDE DEF d
    <3> QED
      BY <3>2
  <2> QED
    BY <2>2, <2>3
<1>7. d[Len(w)] = Cardinality(W)
  <2>1. W \cap 1 .. Len(w) = W
    OBVIOUS
  <2>2. Len(w) \in 0 .. Len(w)
    BY <1>1
  <2>3. d[Len(w)] = Cardinality(W \cap 1 .. Len(w))
    BY <2>2
  <2> QED
    BY <2>1, <2>3
<1> HIDE DEF d
<1> QED
  BY <1>4, <1>5, <1>6, <1>7, TotalCompare

-----------------------------------------------------------------------------
(* The books of a sequence of nodes, and the walks through it.             *)

ValsOf(f)   == [n \in 1 .. Len(f) |-> Vals(f[n])]
SubsOf(f)   == [n \in 1 .. Len(f) |-> Subs(f[n])]
HashesOf(f) == {n \in 1 .. Len(f) : f[n].type = "hash"}
CountsOf(f) == [n \in 1 .. Len(f) |-> f[n].refCnt]

Shape(f) == f \in Seq(Node) /\ Forest(Len(f), ValsOf(f), SubsOf(f))

(* What is stored in a node, what can be got from it, and what of that a    *)
(* wrapper's walk and a delete follow.                                     *)
StoredLinks  == [m \in Addresses |-> Stored(m)]
SubLinks     == [m \in Addresses |-> Sub(m)]
ArrLinks     == [m \in Addresses |-> IF nodes[m].type = "arr" THEN Sub(m) ELSE {}]
DyingLinks   == [m \in Addresses |-> {c \in Sub(m) : Dies(c)}]
Self         == [m \in Addresses |-> {m}]
SelfIfHash   == [m \in Addresses |-> IF IsHash(m) THEN {m} ELSE {}]
Rank         == [m \in Addresses |-> Len(nodes) - m]

LEMMA ShapeIs ==
  ASSUME Shape(nodes)
  PROVE  /\ Len(nodes) \in Nat
         /\ \A n \in Addresses :
              /\ nodes[n] \in Node
              /\ Sub(n) = Subs(nodes[n]) /\ SubsOf(nodes)[n] = Subs(nodes[n])
              /\ Stored(n) = Vals(nodes[n]) /\ ValsOf(nodes)[n] = Vals(nodes[n])
              /\ Sub(n) \subseteq Stored(n) /\ Stored(n) \subseteq Addresses
              /\ \A c \in Stored(n) : n < c
<1>1. Len(nodes) \in Nat /\ \A n \in Addresses : nodes[n] \in Node
  BY DEF Shape, Addresses
<1>2. \A n \in Addresses : Sub(n) = Subs(nodes[n]) /\ Stored(n) = Vals(nodes[n])
  BY <1>1, SubIs
<1>3. \A n \in Addresses : SubsOf(nodes)[n] = Subs(nodes[n]) /\ ValsOf(nodes)[n] = Vals(nodes[n])
  BY DEF SubsOf, ValsOf, Addresses
<1>4. \A n \in Addresses : /\ SubsOf(nodes)[n] \subseteq ValsOf(nodes)[n]
                           /\ ValsOf(nodes)[n] \subseteq Addresses
                           /\ \A c \in ValsOf(nodes)[n] : n < c
  BY DEF Shape, Forest, Addresses
<1> QED
  BY <1>1, <1>2, <1>3, <1>4

LEMMA LinksDescend ==
  ASSUME Shape(nodes), NEW link, DOMAIN link = Addresses, IsTable(link, Len(nodes)),
         \A m \in Addresses : link[m] \subseteq Stored(m)
  PROVE  Descends(Addresses, Rank, link) /\ \A m \in Addresses : Rank[m] <= Len(nodes)
<1>1. Len(nodes) \in Nat /\ \A m \in Addresses : m \in Nat /\ m <= Len(nodes) /\ m >= 1
  BY ShapeIs DEF Addresses
<1>2. \A m \in Addresses : link[m] \subseteq Addresses /\ \A c \in link[m] : m < c
  BY ShapeIs
<1>3. link \in [Addresses -> SUBSET Addresses]
  BY <1>2 DEF IsTable, Addresses
<1>4. \A m \in Addresses : Rank[m] = Len(nodes) - m
  BY DEF Rank
<1>5. \A m \in Addresses : Rank[m] \in Nat /\ Rank[m] <= Len(nodes)
  BY <1>1, <1>4
<1>6. ASSUME NEW m \in Addresses, NEW c \in link[m]
      PROVE  Rank[c] < Rank[m]
  <2>1. c \in Addresses /\ m < c
    BY <1>2
  <2> QED
    BY <1>1, <1>4, <2>1
<1> QED
  BY <1>3, <1>5, <1>6 DEF Descends

LEMMA Descending ==
  ASSUME Shape(nodes)
  PROVE  /\ Descends(Addresses, Rank, StoredLinks) /\ Descends(Addresses, Rank, SubLinks)
         /\ Descends(Addresses, Rank, ArrLinks) /\ Descends(Addresses, Rank, DyingLinks)
         /\ Len(nodes) \in Nat /\ \A m \in Addresses : Rank[m] <= Len(nodes)
<1>1. \A n \in Addresses : Sub(n) \subseteq Stored(n)
  BY ShapeIs
<1>2. Descends(Addresses, Rank, StoredLinks) /\ \A m \in Addresses : Rank[m] <= Len(nodes)
  <2>1. /\ DOMAIN StoredLinks = Addresses /\ IsTable(StoredLinks, Len(nodes))
        /\ \A m \in Addresses : StoredLinks[m] \subseteq Stored(m)
    BY DEF StoredLinks, IsTable, Addresses
  <2> QED
    BY <2>1, LinksDescend
<1>3. Descends(Addresses, Rank, SubLinks)
  <2>1. /\ DOMAIN SubLinks = Addresses /\ IsTable(SubLinks, Len(nodes))
        /\ \A m \in Addresses : SubLinks[m] \subseteq Stored(m)
    BY <1>1 DEF SubLinks, IsTable, Addresses
  <2> QED
    BY <2>1, LinksDescend
<1>4. Descends(Addresses, Rank, ArrLinks)
  <2>1. /\ DOMAIN ArrLinks = Addresses /\ IsTable(ArrLinks, Len(nodes))
        /\ \A m \in Addresses : ArrLinks[m] \subseteq Stored(m)
    BY <1>1 DEF ArrLinks, IsTable, Addresses
  <2> QED
    BY <2>1, LinksDescend
<1>5. Descends(Addresses, Rank, DyingLinks)
  <2>1. /\ DOMAIN DyingLinks = Addresses /\ IsTable(DyingLinks, Len(nodes))
        /\ \A m \in Addresses : DyingLinks[m] \subseteq Stored(m)
    BY <1>1 DEF DyingLinks, IsTable, Addresses
  <2> QED
    BY <2>1, LinksDescend
<1> QED
  BY <1>2, <1>3, <1>4, <1>5, ShapeIs

(* The functions of Reach, AllOf, Wrapped and Sweep are walks.             *)
LEMMA ReachIsWalk ==
  ASSUME Shape(nodes)
  PROVE  \E g : Walk(Addresses, SubLinks, Self, g) /\ \A n : Reach(n) = g[n]
<1> DEFINE D(g) == [m \in Addresses |-> {m} \cup UNION {g[c] : c \in Sub(m)}]
           G    == CHOOSE g : g = D(g)
<1>1. ASSUME NEW g
      PROVE  Walk(Addresses, SubLinks, Self, g) <=> g = D(g)
  BY DEF Walk, SubLinks, Self
<1>2. \E g : Walk(Addresses, SubLinks, Self, g)
  BY Descending, WalkExists
<1>3. \E g : g = D(g)
  BY <1>1, <1>2
<1>4. G = D(G)
  BY <1>3
<1>5. \A n : Reach(n) = G[n]
  BY DEF Reach
<1>6. Walk(Addresses, SubLinks, Self, G)
  <2> HIDE DEF G
  <2> QED
    BY <1>1, <1>4
<1> HIDE DEF G
<1> QED
  BY <1>5, <1>6

LEMMA AllOfIsWalk ==
  ASSUME Shape(nodes)
  PROVE  \E g : Walk(Addresses, StoredLinks, Self, g) /\ \A n : AllOf(n) = g[n]
<1> DEFINE D(g) == [m \in Addresses |-> {m} \cup UNION {g[c] : c \in Stored(m)}]
           G    == CHOOSE g : g = D(g)
<1>1. ASSUME NEW g
      PROVE  Walk(Addresses, StoredLinks, Self, g) <=> g = D(g)
  BY DEF Walk, StoredLinks, Self
<1>2. \E g : Walk(Addresses, StoredLinks, Self, g)
  BY Descending, WalkExists
<1>3. \E g : g = D(g)
  BY <1>1, <1>2
<1>4. G = D(G)
  BY <1>3
<1>5. \A n : AllOf(n) = G[n]
  BY DEF AllOf
<1>6. Walk(Addresses, StoredLinks, Self, G)
  <2> HIDE DEF G
  <2> QED
    BY <1>1, <1>4
<1> HIDE DEF G
<1> QED
  BY <1>5, <1>6

LEMMA SweepIsWalk ==
  ASSUME Shape(nodes)
  PROVE  \E g : Walk(Addresses, DyingLinks, Self, g) /\ \A n : Sweep(n) = g[n]
<1> DEFINE D(g) == [m \in Addresses |-> {m} \cup UNION {g[c] : c \in {c \in Sub(m) : Dies(c)}}]
           G    == CHOOSE g : g = D(g)
<1>1. ASSUME NEW g
      PROVE  Walk(Addresses, DyingLinks, Self, g) <=> g = D(g)
  BY DEF Walk, DyingLinks, Self
<1>2. \E g : Walk(Addresses, DyingLinks, Self, g)
  BY Descending, WalkExists
<1>3. \E g : g = D(g)
  BY <1>1, <1>2
<1>4. G = D(G)
  BY <1>3
<1>5. \A n : Sweep(n) = G[n]
  BY DEF Sweep
<1>6. Walk(Addresses, DyingLinks, Self, G)
  <2> HIDE DEF G
  <2> QED
    BY <1>1, <1>4
<1> HIDE DEF G
<1> QED
  BY <1>5, <1>6

LEMMA WrappedIsWalk ==
  ASSUME Shape(nodes)
  PROVE  \E g : Walk(Addresses, ArrLinks, SelfIfHash, g) /\ \A n : Wrapped(n) = g[n]
<1> DEFINE D(g) == [m \in Addresses |->
                     IF nodes[m].type = "hash" THEN {m}
                     ELSE IF nodes[m].type = "arr" THEN UNION {g[c] : c \in Sub(m)} ELSE {}]
           F(g) == [m \in Addresses |-> SelfIfHash[m] \cup UNION {g[c] : c \in ArrLinks[m]}]
           G    == CHOOSE g : g = D(g)
<1>1. ASSUME NEW g
      PROVE  F(g) = D(g)
  <2>1. ASSUME NEW m \in Addresses
        PROVE  F(g)[m] = D(g)[m]
    <3>0. /\ SelfIfHash[m] = (IF nodes[m].type = "hash" THEN {m} ELSE {})
          /\ ArrLinks[m] = (IF nodes[m].type = "arr" THEN Sub(m) ELSE {})
      BY DEF SelfIfHash, ArrLinks, IsHash
    <3>1. CASE nodes[m].type = "hash"
      BY <3>0, <3>1
    <3>2. CASE nodes[m].type = "arr"
      BY <3>0, <3>2
    <3>3. CASE nodes[m].type # "arr" /\ nodes[m].type # "hash"
      BY <3>0, <3>3
    <3> QED
      BY <3>1, <3>2, <3>3
  <2>2. D(g) = [m \in Addresses |-> D(g)[m]] /\ F(g) = [m \in Addresses |-> F(g)[m]]
    OBVIOUS
  <2> HIDE DEF D, F
  <2>3. [m \in Addresses |-> D(g)[m]] = [m \in Addresses |-> F(g)[m]]
    BY <2>1
  <2> QED
    BY <2>2, <2>3
<1>2. \E g : Walk(Addresses, ArrLinks, SelfIfHash, g)
  BY Descending, WalkExists
<1>3. \E g : g = D(g)
  <2>1. PICK g : g = F(g)
    BY <1>2 DEF Walk
  <2>2. F(g) = D(g)
    BY <1>1
  <2> HIDE DEF D, F
  <2> QED
    BY <2>1, <2>2
<1>4. G = D(G)
  BY <1>3
<1>5. \A n : Wrapped(n) = G[n]
  BY DEF Wrapped
<1>6. Walk(Addresses, ArrLinks, SelfIfHash, G)
  <2>1. F(G) = D(G)
    <3> HIDE DEF G, D, F
    <3> QED
      BY <1>1
  <2>2. G = F(G)
    <3> HIDE DEF G, D, F
    <3> QED
      BY <1>4, <2>1
  <2> HIDE DEF G
  <2> QED
    BY <2>2 DEF Walk
<1> HIDE DEF G
<1> QED
  BY <1>5, <1>6

-----------------------------------------------------------------------------
(* The inductive invariant.                                                *)

Account(f, g, ab, w) ==
  /\ Forest(Len(f), ValsOf(f), SubsOf(f)) /\ Sets(Len(f), HashesOf(f), g, ab)
  /\ Books(Len(f), ValsOf(f), SubsOf(f), HashesOf(f), CountsOf(f), g, ab, w)

Good(f, g, ab, w) ==
  /\ f \in Seq(Node) /\ w \in Seq(Nat) /\ Len(w) = Len(f)
  /\ \A n \in 1 .. Len(f) : Texted(f[n], Len(f)) /\ Plain(f[n])
  /\ Account(f, g, ab, w)

IInv ==
  /\ Good(nodes, gone, abandoned, wrappers) /\ Total(wrappers) <= MaxWrappers
  /\ texts \subseteq Addresses /\ pc \in {"Running", "Undefined"}

LEMMA Columns ==
  ASSUME NEW f \in Seq(Node)
  PROVE  /\ Len(f) \in Nat
         /\ \A n \in 1 .. Len(f) :
              /\ ValsOf(f)[n] = Vals(f[n]) /\ SubsOf(f)[n] = Subs(f[n]) /\ CountsOf(f)[n] = f[n].refCnt
              /\ f[n] \in Node /\ f[n].refCnt \in 0 .. Width - 1 /\ f[n].refCnt \in Nat
              /\ n \in HashesOf(f) <=> f[n].type = "hash"
         /\ IsTable(ValsOf(f), Len(f)) /\ IsTable(SubsOf(f), Len(f))
         /\ HashesOf(f) \subseteq 1 .. Len(f)
         /\ \A w \in Seq(Nat) : Len(w) = Len(f) => Tables(Len(f), CountsOf(f), w)
<1>1. Len(f) \in Nat /\ \A n \in 1 .. Len(f) : f[n] \in Node
  OBVIOUS
<1>2. \A n \in 1 .. Len(f) : f[n].refCnt \in 0 .. Width - 1
  BY <1>1, NodeFields
<1>3. \A n \in 1 .. Len(f) : f[n].refCnt \in Nat
  BY <1>2, LifeAssumption
<1>4. \A n \in 1 .. Len(f) :
         /\ ValsOf(f)[n] = Vals(f[n]) /\ SubsOf(f)[n] = Subs(f[n]) /\ CountsOf(f)[n] = f[n].refCnt
         /\ n \in HashesOf(f) <=> f[n].type = "hash"
  BY DEF ValsOf, SubsOf, CountsOf, HashesOf
<1>5. IsTable(ValsOf(f), Len(f)) /\ IsTable(SubsOf(f), Len(f))
  BY DEF IsTable, ValsOf, SubsOf
<1>6. HashesOf(f) \subseteq 1 .. Len(f)
  BY DEF HashesOf
<1>7. CountsOf(f) \in [1 .. Len(f) -> Nat]
  BY <1>3 DEF CountsOf
<1>8. \A w \in Seq(Nat) : Len(w) = Len(f) => w \in [1 .. Len(f) -> Nat]
  OBVIOUS
<1> QED
  BY <1>1, <1>2, <1>3, <1>4, <1>5, <1>6, <1>7, <1>8 DEF Tables

LEMMA IInvShape ==
  ASSUME IInv
  PROVE  /\ Shape(nodes) /\ nodes \in Seq(Node) /\ wrappers \in Seq(Nat) /\ Len(wrappers) = Len(nodes)
         /\ Tables(Len(nodes), CountsOf(nodes), wrappers)
         /\ gone \subseteq Addresses /\ abandoned \subseteq Addresses
BY Columns DEF IInv, Good, Account, Shape, Sets, Addresses

(* The arithmetic of the count.                                            *)
LEMMA Counting ==
  /\ \A c \in Nat : c < Width - 1 => Up(c) = c + 1
  /\ \A c \in Nat : c > 0 /\ c < Width => Down(c) = c - 1
  /\ Down(0) = Width - 1 /\ Up(Down(0)) = 0
  /\ \A c \in Nat : c <= Width - 2 => (Down(c) >= Width - 2 <=> c = 0)
<1>1. Width \in Nat /\ Width >= 2
  BY LifeAssumption
<1>2. \A c \in Nat : c < Width => c % Width = c
  BY <1>1
<1>3. (0 - 1) % Width = Width - 1 /\ Width % Width = 0
  BY <1>1
<1>4. \A c \in Nat : c < Width - 1 => Up(c) = c + 1
  BY <1>1, <1>2 DEF Up
<1>5. \A c \in Nat : c > 0 /\ c < Width => Down(c) = c - 1
  <2> SUFFICES ASSUME NEW c \in Nat, c > 0, c < Width PROVE (c - 1) % Width = c - 1
    BY DEF Down
  <2>1. c - 1 \in Nat /\ c - 1 < Width
    BY <1>1
  <2> QED
    BY <1>2, <2>1
<1>6. Down(0) = Width - 1
  BY <1>3 DEF Down
<1>7. Up(Down(0)) = 0
  <2>1. (Width - 1) + 1 = Width
    BY <1>1
  <2> QED
    BY <1>3, <1>6, <2>1 DEF Up
<1>8. ASSUME NEW c \in Nat, c <= Width - 2
      PROVE  Down(c) >= Width - 2 <=> c = 0
  <2>1. CASE c = 0
    BY <1>1, <1>6, <2>1
  <2>2. CASE c # 0
    <3>1. Down(c) = c - 1
      BY <1>1, <1>5, <1>8, <2>2
    <3> QED
      BY <1>1, <1>8, <2>2, <3>1
  <2> QED
    BY <2>1, <2>2
<1> QED
  BY <1>4, <1>5, <1>6, <1>7, <1>8

-----------------------------------------------------------------------------
(* New documents.                                                          *)

(* b is a document of nodes, where the count of the root is rc.            *)
Laid(doc, text, b, rc) ==
  /\ b \in Seq(Node) /\ Len(b) = Len(doc)
  /\ b[1].refCnt = rc /\ \A i \in 2 .. Len(doc) : b[i].refCnt = 0
  /\ \A i \in 1 .. Len(doc) :
       /\ b[i].type = doc[i].type /\ Plain(b[i])
       /\ b[i].text = text /\ \A j \in 1 .. Len(b[i].tree) : b[i].tree[j].text = text
       /\ Vals(b[i]) = {Len(nodes) + c : c \in Lead(doc[i])}
       /\ Subs(b[i]) = Vals(b[i]) \ Behind(doc)

(* All but the count is the same.                                          *)
LEMMA SameLinks ==
  ASSUME NEW r, NEW q, q.type = r.type, q.tree = r.tree, q.items = r.items, q.text = r.text
  PROVE  /\ Vals(q) = Vals(r) /\ Subs(q) = Subs(r) /\ (Plain(q) <=> Plain(r))
         /\ \A L : Texted(q, L) <=> Texted(r, L)
<1>1. PICK t : t = r.tree
  OBVIOUS
<1>2. PICK e : e = r.items
  OBVIOUS
<1>3. Vals(q) = Vals(r)
  BY <1>1, <1>2 DEF Vals
<1>4. \A j : First(q, j) <=> First(r, j)
  BY <1>1 DEF First
<1>5. Subs(q) = Subs(r)
  BY <1>1, <1>2, <1>4 DEF Subs
<1>6. Plain(q) <=> Plain(r)
  BY <1>1, <1>2 DEF Plain
<1>7. \A L : Texted(q, L) <=> Texted(r, L)
  BY <1>1 DEF Texted
<1> QED
  BY <1>3, <1>5, <1>6, <1>7

LEMMA BuildLays ==
  ASSUME NEW doc \in Docs, NEW text \in Nat, Len(nodes) \in Nat, NEW rc \in 0 .. Width - 1
  PROVE  Laid(doc, text, [Build(doc, text) EXCEPT ![1].refCnt = rc], rc)
<1>1. PICK b : b = Build(doc, text) /\ Built(doc, text, b)
  BY BuildMakes
<1>2. PICK e : e = [b EXCEPT ![1].refCnt = rc]
  OBVIOUS
<1>3. Len(doc) \in Nat /\ Len(doc) >= 1 /\ b \in Seq(Node) /\ Len(b) = Len(doc)
  BY <1>1, DocFields DEF Built
<1>4. 1 \in 1 .. Len(b) /\ b[1] \in Node
  BY <1>3
<1>5. PICK r : r = [b[1] EXCEPT !.refCnt = rc]
  OBVIOUS
<1>6. /\ r \in Node /\ r.refCnt = rc /\ r.type = b[1].type /\ r.tree = b[1].tree
      /\ r.items = b[1].items /\ r.text = b[1].text
  BY <1>4, <1>5 DEF Node
<1>7. e = [b EXCEPT ![1] = r]
  BY <1>2, <1>5
<1>8. e \in Seq(Node) /\ Len(e) = Len(doc) /\ e[1] = r /\ \A i \in 2 .. Len(doc) : e[i] = b[i]
  BY <1>3, <1>4, <1>6, <1>7
<1>9. \A i \in 1 .. Len(doc) :
         /\ e[i].type = b[i].type /\ e[i].tree = b[i].tree /\ e[i].items = b[i].items
         /\ e[i].text = b[i].text
  <2>1. \A i \in 1 .. Len(doc) : i = 1 \/ i \in 2 .. Len(doc)
    BY <1>3
  <2> QED
    BY <1>6, <1>8, <2>1
<1>10. \A i \in 1 .. Len(doc) :
         /\ Vals(e[i]) = Vals(b[i]) /\ Subs(e[i]) = Subs(b[i]) /\ (Plain(e[i]) <=> Plain(b[i]))
  BY <1>9, SameLinks
<1>11. \A i \in 2 .. Len(doc) : i \in 1 .. Len(doc)
  OBVIOUS
<1>12. /\ Len(b) = Len(doc)
       /\ \A i \in 1 .. Len(doc) :
            /\ b[i].refCnt = 0 /\ b[i].type = doc[i].type /\ Plain(b[i])
            /\ b[i].text = text /\ \A j \in 1 .. Len(b[i].tree) : b[i].tree[j].text = text
            /\ Vals(b[i]) = {Len(nodes) + c : c \in Lead(doc[i])}
            /\ Subs(b[i]) = Vals(b[i]) \ Behind(doc)
  BY <1>1 DEF Built
<1>13. ASSUME NEW i \in 1 .. Len(doc)
       PROVE  /\ e[i].type = doc[i].type /\ Plain(e[i])
              /\ e[i].text = text /\ \A j \in 1 .. Len(e[i].tree) : e[i].tree[j].text = text
              /\ Vals(e[i]) = {Len(nodes) + c : c \in Lead(doc[i])}
              /\ Subs(e[i]) = Vals(e[i]) \ Behind(doc)
  <2>1. e[i].tree = b[i].tree /\ e[i].text = b[i].text /\ e[i].type = b[i].type
    BY <1>9
  <2>2. \A j \in 1 .. Len(e[i].tree) : e[i].tree[j].text = text
    BY <1>12, <2>1
  <2> QED
    BY <1>10, <1>12, <2>1, <2>2
<1>14. e[1].refCnt = rc /\ \A i \in 2 .. Len(doc) : e[i].refCnt = 0
  BY <1>6, <1>8, <1>11, <1>12
<1>15. Laid(doc, text, e, rc)
  BY <1>8, <1>13, <1>14 DEF Laid
<1> QED
  BY <1>1, <1>2, <1>15

LEMMA BuildLaysPlain ==
  ASSUME NEW doc \in Docs, NEW text \in Nat, Len(nodes) \in Nat
  PROVE  Laid(doc, text, Build(doc, text), 0)
<1>1. PICK b : b = Build(doc, text) /\ Built(doc, text, b)
  BY BuildMakes
<1>2. Len(doc) \in Nat /\ Len(doc) >= 1
  BY DocFields
<1>3. 1 \in 1 .. Len(doc) /\ \A i \in 2 .. Len(doc) : i \in 1 .. Len(doc)
  BY <1>2
<1>4. Laid(doc, text, b, 0)
  BY <1>1, <1>3 DEF Laid, Built
<1> QED
  BY <1>1, <1>4

IsConcat(h, f, g, T) ==
  /\ h \in Seq(T) /\ Len(h) = Len(f) + Len(g)
  /\ \A n \in 1 .. Len(f) : h[n] = f[n]
  /\ \A i \in 1 .. Len(g) : h[Len(f) + i] = g[i]

LEMMA Concat ==
  ASSUME NEW T, NEW f \in Seq(T), NEW g \in Seq(T)
  PROVE  IsConcat(f \o g, f, g, T)
<1>1. Len(f) \in Nat /\ Len(g) \in Nat
  OBVIOUS
<1>2. ASSUME NEW i \in 1 .. Len(g)
      PROVE  (f \o g)[Len(f) + i] = g[i]
  <2>1. Len(f) + i \in 1 .. Len(f) + Len(g) /\ ~ (Len(f) + i <= Len(f)) /\ (Len(f) + i) - Len(f) = i
    BY <1>1
  <2> QED
    BY <2>1
<1> QED
  BY <1>2 DEF IsConcat

Shift(doc, i) == {Len(nodes) + c : c \in Lead(doc[i])}

(* Where the links of a document lead, once it has an address.             *)
LEMMA DocPlaced ==
  ASSUME NEW doc \in Docs, Len(nodes) \in Nat
  PROVE  /\ \A i \in 1 .. Len(doc) : Shift(doc, i) \subseteq Len(nodes) + i + 1 .. Len(nodes) + Len(doc)
         /\ \A i, j \in 1 .. Len(doc) : i # j => Shift(doc, i) \cap Shift(doc, j) = {}
         /\ \A x \in Len(nodes) + 2 .. Len(nodes) + Len(doc) : \E i \in 1 .. Len(doc) : x \in Shift(doc, i)
         /\ Behind(doc) \subseteq Len(nodes) + 2 .. Len(nodes) + Len(doc)
<1> DEFINE L == Len(nodes)
           N == Len(doc)
<1>0. N \in Nat /\ N >= 1 /\ L \in Nat
  BY DocFields
<1>1. /\ \A i \in 1 .. N : Lead(doc[i]) \subseteq i + 1 .. N
      /\ \A i, j \in 1 .. N : i # j => Lead(doc[i]) \cap Lead(doc[j]) = {}
      /\ 2 .. N \subseteq UNION {Lead(doc[i]) : i \in 1 .. N}
  BY DEF Docs, IsDocument
<1> HIDE DEF L, N
<1>2. \A i : \A x : x \in Shift(doc, i) <=> \E c \in Lead(doc[i]) : x = L + c
  BY DEF Shift, L
<1>3. ASSUME NEW i \in 1 .. N, NEW x \in Shift(doc, i)
      PROVE  x \in L + i + 1 .. L + N
  <2>1. PICK c \in Lead(doc[i]) : x = L + c
    BY <1>2
  <2>2. c \in i + 1 .. N
    BY <1>1
  <2> QED
    BY <1>0, <2>1, <2>2
<1>4. ASSUME NEW i \in 1 .. N, NEW j \in 1 .. N, i # j, NEW x \in Shift(doc, i), x \in Shift(doc, j)
      PROVE  FALSE
  <2>1. PICK c \in Lead(doc[i]) : x = L + c
    BY <1>2
  <2>2. PICK e \in Lead(doc[j]) : x = L + e
    BY <1>2, <1>4
  <2>5. c \in i + 1 .. N /\ e \in j + 1 .. N
    BY <1>1
  <2>3. c \in Nat /\ e \in Nat
    BY <1>0, <2>5
  <2>4. c = e
    BY <1>0, <2>1, <2>2, <2>3, Cancel
  <2> QED
    BY <1>1, <1>4, <2>4
<1>5. ASSUME NEW x \in L + 2 .. L + N
      PROVE  \E i \in 1 .. N : x \in Shift(doc, i)
  <2>1. x - L \in 2 .. N /\ x = L + (x - L)
    BY <1>0
  <2>2. PICK i \in 1 .. N : x - L \in Lead(doc[i])
    BY <1>1, <2>1
  <2>3. x \in Shift(doc, i)
    BY <1>2, <2>1, <2>2
  <2> QED
    BY <2>3
<1>6. ASSUME NEW x \in Behind(doc)
      PROVE  x \in L + 2 .. L + N
  <2>1. PICK i \in 1 .. N : \E j \in 1 .. Len(doc[i].tree) : x = L + doc[i].tree[j][2]
    BY <1>6 DEF Behind, L, N
  <2>2. PICK j \in 1 .. Len(doc[i].tree) : x = L + doc[i].tree[j][2]
    BY <2>1
  <2>3. doc[i].tree[j][2] \in Lead(doc[i])
    BY DEF Lead
  <2>4. doc[i].tree[j][2] \in i + 1 .. N
    BY <1>1, <2>3
  <2>5. PICK c : c = doc[i].tree[j][2]
    OBVIOUS
  <2>6. c \in i + 1 .. N /\ x = L + c
    BY <2>2, <2>4, <2>5
  <2> QED
    BY <1>0, <2>6
<1> QED
  BY <1>3, <1>4, <1>5, <1>6 DEF L, N

(* The nodes there are, once the root of a document is stored in at: as     *)
(* the first of its key unless X has it.                                   *)
Stores(f0, at, X) ==
  /\ f0 \in Seq(Node) /\ Len(f0) = Len(nodes) /\ X \subseteq {Next1}
  /\ \A n \in Addresses : /\ f0[n].type = nodes[n].type /\ f0[n].refCnt = nodes[n].refCnt
                          /\ Plain(f0[n]) /\ Texted(f0[n], Len(nodes))
                          /\ n # at => f0[n] = nodes[n]
  /\ at # nil => /\ at \in Addresses \ gone
                 /\ Vals(f0[at]) = Vals(nodes[at]) \cup {Next1}
                 /\ Subs(f0[at]) = Subs(nodes[at]) \cup ({Next1} \ X)

LEMMA GrowJoined ==
  ASSUME nodes \in Seq(Node), NEW doc \in Docs, NEW text, NEW rc, NEW b, Laid(doc, text, b, rc),
         NEW at, NEW X, NEW f0, Stores(f0, at, X), NEW f1, f1 = f0 \o b
  PROVE  Joined(Len(nodes), ValsOf(nodes), SubsOf(nodes), Len(f1), ValsOf(f1), SubsOf(f1),
                at, Behind(doc) \cup X)
<1> DEFINE L == Len(nodes)
           N == Len(doc)
           V1 == ValsOf(f1)
           S1 == SubsOf(f1)
           B == Behind(doc) \cup X
<1>1. L \in Nat /\ N \in Nat /\ N >= 1 /\ Next1 = L + 1
  BY DocFields DEF Next1
<1>2. /\ f0 \in Seq(Node) /\ Len(f0) = L /\ b \in Seq(Node) /\ Len(b) = N
      /\ \A i \in 1 .. N : Vals(b[i]) = Shift(doc, i) /\ Subs(b[i]) = Shift(doc, i) \ Behind(doc)
  BY DEF Stores, Laid, Shift
<1>3. /\ f1 \in Seq(Node) /\ Len(f1) = L + N
      /\ \A n \in 1 .. L : f1[n] = f0[n]
      /\ \A i \in 1 .. N : f1[L + i] = b[i]
  <2> HIDE DEF L, N, V1, S1, B
  <2>1. f0 \in Seq(Node) /\ b \in Seq(Node)
    BY <1>2
  <2>2. IsConcat(f1, f0, b, Node)
    BY <2>1, Concat
  <2> QED
    BY <1>2, <2>2 DEF IsConcat
<1>4. /\ \A n \in 1 .. L : ValsOf(nodes)[n] = Vals(nodes[n]) /\ SubsOf(nodes)[n] = Subs(nodes[n])
      /\ \A n \in 1 .. Len(f1) : V1[n] = Vals(f1[n]) /\ S1[n] = Subs(f1[n])
  BY <1>3, Columns
<1>5. \A n \in 1 .. L : n # at => V1[n] = ValsOf(nodes)[n] /\ S1[n] = SubsOf(nodes)[n]
  BY <1>1, <1>3, <1>4 DEF Stores, Addresses
<1> HIDE DEF L, N, V1, S1
<1>b. Behind(doc) \subseteq L + 2 .. L + N /\ X \subseteq {L + 1}
  BY <1>1, DocPlaced DEF L, N, Stores
<1>6. ASSUME at # nil
      PROVE  /\ at \in 1 .. L /\ V1[at] = ValsOf(nodes)[at] \cup {L + 1}
             /\ S1[at] = IF L + 1 \in B THEN SubsOf(nodes)[at] ELSE SubsOf(nodes)[at] \cup {L + 1}
  <2>1. /\ at \in 1 .. L /\ Vals(f0[at]) = Vals(nodes[at]) \cup {L + 1}
        /\ Subs(f0[at]) = Subs(nodes[at]) \cup ({L + 1} \ X)
    BY <1>1, <1>6 DEF Stores, L, Addresses
  <2>2. at \in 1 .. Len(f1) /\ f1[at] = f0[at]
    BY <1>1, <1>3, <2>1
  <2>3. /\ V1[at] = ValsOf(nodes)[at] \cup {L + 1}
        /\ S1[at] = SubsOf(nodes)[at] \cup ({L + 1} \ X)
    BY <1>4, <2>1, <2>2
  <2>4. L + 1 \in B <=> L + 1 \in X
    BY <1>1, <1>b
  <2>5. CASE L + 1 \in X
    <3>1. {L + 1} \ X = {}
      BY <2>5
    <3> QED
      BY <2>1, <2>3, <2>4, <2>5, <3>1
  <2>6. CASE L + 1 \notin X
    <3>1. {L + 1} \ X = {L + 1}
      BY <2>6
    <3> QED
      BY <2>1, <2>3, <2>4, <2>6, <3>1
  <2> QED
    BY <2>5, <2>6
<1>7. ASSUME NEW n \in L + 1 .. Len(f1)
      PROVE  /\ n - L \in 1 .. N /\ n = L + (n - L)
             /\ V1[n] = Shift(doc, n - L) /\ S1[n] = Shift(doc, n - L) \ Behind(doc)
  <2>1. n - L \in 1 .. N /\ n = L + (n - L) /\ n \in 1 .. Len(f1)
    BY <1>1, <1>3
  <2>2. f1[n] = b[n - L]
    BY <1>3, <2>1
  <2> QED
    BY <1>2, <1>4, <2>1, <2>2
<1>8. /\ \A i \in 1 .. N : Shift(doc, i) \subseteq L + i + 1 .. L + N
      /\ \A i, j \in 1 .. N : i # j => Shift(doc, i) \cap Shift(doc, j) = {}
      /\ \A x \in L + 2 .. L + N : \E i \in 1 .. N : x \in Shift(doc, i)
  BY <1>1, DocPlaced DEF L, N
<1>9. ASSUME NEW n \in L + 1 .. Len(f1)
      PROVE  V1[n] \subseteq n + 1 .. Len(f1) /\ S1[n] = V1[n] \ B
  <2>1. V1[n] \subseteq n + 1 .. Len(f1)
    <3>1. PICK i \in 1 .. N : n = L + i /\ V1[n] = Shift(doc, i)
      BY <1>7
    <3> QED
      BY <1>3, <1>8, <3>1
  <2>2. L + 1 \notin V1[n]
    BY <1>1, <2>1
  <2> QED
    BY <1>7, <1>b, <2>1, <2>2
<1>10. ASSUME NEW m \in L + 1 .. Len(f1), NEW n \in L + 1 .. Len(f1), m # n
       PROVE  V1[m] \cap V1[n] = {}
  <2>1. PICK i \in 1 .. N : m = L + i /\ V1[m] = Shift(doc, i)
    BY <1>7
  <2>2. PICK j \in 1 .. N : n = L + j /\ V1[n] = Shift(doc, j)
    BY <1>7
  <2>3. i # j
    BY <1>10, <2>1, <2>2
  <2> QED
    BY <1>8, <2>1, <2>2, <2>3
<1>11. ASSUME NEW x \in L + 2 .. Len(f1)
       PROVE  x \in UNION {V1[n] : n \in L + 1 .. Len(f1)}
  <2>1. PICK i \in 1 .. N : x \in Shift(doc, i)
    BY <1>3, <1>8
  <2>2. L + i \in L + 1 .. Len(f1) /\ (L + i) - L = i
    BY <1>1, <1>3
  <2>3. V1[L + i] = Shift(doc, i)
    BY <1>7, <2>2
  <2> QED
    BY <2>1, <2>2, <2>3
<1>12. B \subseteq L + 1 .. Len(f1)
  <2>1. \A x \in L + 2 .. L + N : x \in L + 1 .. L + N
    BY <1>1
  <2>2. L + 1 \in L + 1 .. L + N
    BY <1>1
  <2> QED
    BY <1>3, <1>b, <2>1, <2>2
<1>13. Len(f1) \in Nat /\ L < Len(f1)
  BY <1>1, <1>3
<1> HIDE DEF B
<1>14. Joined(L, ValsOf(nodes), SubsOf(nodes), Len(f1), V1, S1, at, B)
  BY <1>5, <1>6, <1>9, <1>10, <1>11, <1>12, <1>13 DEF Joined
<1> QED
  BY <1>14 DEF L, V1, S1, B

(* z has the wrappers of a new document, wc of them for its root, whose    *)
(* count is rc.                                                            *)
Tally(doc, at, X, rc, z, wc) ==
  /\ z \in Seq(Nat) /\ Len(z) = Len(doc) /\ wc \in Nat
  /\ z[1] = wc /\ \A i \in 2 .. Len(doc) : z[i] = 0
  /\ IF at # nil \/ X # {} THEN rc = wc ELSE rc + 1 = wc
  /\ wc > 0 => doc[1].type = "hash"

Grown(f1, w1, lost, wc) ==
  /\ Good(f1, gone, abandoned \cup lost, w1)
  /\ Total(w1) = Total(wrappers) + wc /\ Len(f1) >= Next1

(* A document is added: its root has wc wrappers and is stored in at, if    *)
(* at is one of the nodes, or left behind.                                 *)
LEMMA Grow ==
  ASSUME IInv, NEW doc \in Docs, NEW text \in 0 .. Next1, NEW rc \in Nat, NEW b, Laid(doc, text, b, rc),
         NEW at, NEW X, NEW f0, Stores(f0, at, X), NEW f1, f1 = f0 \o b,
         NEW z, NEW wc, Tally(doc, at, X, rc, z, wc), NEW w1, w1 = wrappers \o z
  PROVE  Grown(f1, w1, Behind(doc) \cup X, wc)
<1> DEFINE L == Len(nodes)
           N == Len(doc)
           B == Behind(doc) \cup X
<1>1. L \in Nat /\ N \in Nat /\ N >= 1 /\ Next1 = L + 1
  BY DocFields, IInvShape DEF Next1
<1>2. /\ nodes \in Seq(Node) /\ wrappers \in Seq(Nat) /\ Len(wrappers) = L
      /\ \A n \in 1 .. L : Texted(nodes[n], L) /\ Plain(nodes[n])
      /\ Account(nodes, gone, abandoned, wrappers)
  BY DEF IInv, Good
<1>3. /\ f0 \in Seq(Node) /\ Len(f0) = L /\ b \in Seq(Node) /\ Len(b) = N /\ X \subseteq {L + 1}
      /\ at # nil => at \in 1 .. L /\ at \notin gone
      /\ \A n \in 1 .. L : /\ f0[n].type = nodes[n].type /\ f0[n].refCnt = nodes[n].refCnt
                           /\ Plain(f0[n]) /\ Texted(f0[n], L)
  BY <1>1 DEF Stores, Laid, Addresses
<1>t. /\ z \in Seq(Nat) /\ Len(z) = N /\ z[1] = wc /\ \A i \in 2 .. N : z[i] = 0
      /\ IF at # nil \/ X # {} THEN rc = wc ELSE rc + 1 = wc
      /\ wc \in Nat /\ (wc > 0 => doc[1].type = "hash")
  BY DEF Tally
<1> HIDE DEF L, N, B
<1>4. /\ f1 \in Seq(Node) /\ Len(f1) = L + N
      /\ \A n \in 1 .. L : f1[n] = f0[n]
      /\ \A i \in 1 .. N : f1[L + i] = b[i]
  <2>1. IsConcat(f1, f0, b, Node)
    BY <1>3, Concat
  <2> QED
    BY <1>3, <2>1 DEF IsConcat
<1>5. /\ w1 \in Seq(Nat) /\ Len(w1) = L + N
      /\ \A n \in 1 .. L : w1[n] = wrappers[n]
      /\ \A i \in 1 .. N : w1[L + i] = z[i]
  <2>1. IsConcat(w1, wrappers, z, Nat)
    BY <1>2, <1>t, Concat
  <2> QED
    BY <1>2, <1>t, <2>1 DEF IsConcat
<1>6. \A n \in 1 .. Len(f1) : n \in 1 .. L \/ \E i \in 1 .. N : n = L + i
  <2>1. \A n \in 1 .. Len(f1) : n \in 1 .. L \/ (n - L \in 1 .. N /\ n = L + (n - L))
    BY <1>1, <1>4
  <2> QED
    BY <2>1
<1>7. \A i \in 1 .. N : Plain(b[i]) /\ b[i].type = doc[i].type /\ Texted(b[i], Len(f1))
  <2>1. text \in 0 .. Len(f1)
    BY <1>1, <1>4
  <2> QED
    BY <2>1 DEF Laid, Texted, N
<1>8. \A r \in Node : Texted(r, L) => Texted(r, Len(f1))
  <2>1. 0 .. L \subseteq 0 .. Len(f1)
    BY <1>1, <1>4
  <2> QED
    BY <2>1 DEF Texted
<1>9. \A n \in 1 .. Len(f1) : Texted(f1[n], Len(f1)) /\ Plain(f1[n])
  <2>1. ASSUME NEW n \in 1 .. Len(f1)
        PROVE  Texted(f1[n], Len(f1)) /\ Plain(f1[n])
    <3>1. CASE n \in 1 .. L
      <4>1. f0[n] \in Node
        BY <1>3, <3>1
      <4> QED
        BY <1>3, <1>4, <1>8, <3>1, <4>1
    <3>2. CASE \E i \in 1 .. N : n = L + i
      BY <1>4, <1>7, <3>2
    <3> QED
      BY <1>6, <3>1, <3>2
  <2> QED
    BY <2>1
<1>10. Joined(L, ValsOf(nodes), SubsOf(nodes), Len(f1), ValsOf(f1), SubsOf(f1), at, B)
  BY <1>2, GrowJoined DEF L, B
<1>11. /\ Forest(L, ValsOf(nodes), SubsOf(nodes)) /\ Sets(L, HashesOf(nodes), gone, abandoned)
       /\ Books(L, ValsOf(nodes), SubsOf(nodes), HashesOf(nodes), CountsOf(nodes), gone, abandoned, wrappers)
  BY <1>2 DEF Account, L
<1>12. /\ Tables(L, CountsOf(nodes), wrappers) /\ Tables(Len(f1), CountsOf(f1), w1)
       /\ IsTable(ValsOf(f1), Len(f1)) /\ IsTable(SubsOf(f1), Len(f1))
  BY <1>2, <1>4, <1>5, Columns DEF L
<1>13. Forest(Len(f1), ValsOf(f1), SubsOf(f1))
  BY <1>10, <1>11, <1>12, JoinForest
<1>14. HashesOf(f1) \subseteq 1 .. Len(f1) /\ HashesOf(f1) \cap (1 .. L) = HashesOf(nodes)
  <2>1. \A n \in 1 .. L : n \in 1 .. Len(f1) /\ f1[n].type = nodes[n].type
    BY <1>1, <1>3, <1>4
  <2> QED
    BY <2>1 DEF HashesOf, L
<1>15. \A n \in 1 .. L : CountsOf(f1)[n] = CountsOf(nodes)[n] /\ w1[n] = wrappers[n]
  <2>1. \A n \in 1 .. L : n \in 1 .. Len(f1) /\ f1[n].refCnt = nodes[n].refCnt
    BY <1>1, <1>3, <1>4
  <2> QED
    BY <1>5, <2>1 DEF CountsOf, L
<1>16. \A n \in L + 2 .. Len(f1) : CountsOf(f1)[n] = 0 /\ w1[n] = 0
  <2> TAKE n \in L + 2 .. Len(f1)
  <2>0. n \in Nat /\ L + 2 <= n /\ n <= L + N
    BY <1>1, <1>4
  <2>1. n - L \in 1 .. N /\ n - L \in 2 .. N /\ n = L + (n - L) /\ n \in 1 .. Len(f1)
    BY <1>1, <1>4, <2>0
  <2>2. f1[n] = b[n - L] /\ w1[n] = z[n - L]
    BY <1>4, <1>5, <2>1
  <2>3. b[n - L].refCnt = 0 /\ z[n - L] = 0
    BY <1>t, <2>1 DEF Laid, N
  <2> QED
    BY <2>1, <2>2, <2>3 DEF CountsOf
<1>17. /\ CountsOf(f1)[L + 1] = rc /\ w1[L + 1] = wc
       /\ wc > 0 => L + 1 \in HashesOf(f1)
  <2>1. 1 \in 1 .. N /\ L + 1 \in 1 .. Len(f1)
    BY <1>1, <1>4
  <2>2. f1[L + 1] = b[1] /\ w1[L + 1] = z[1]
    BY <1>4, <1>5, <2>1
  <2>3. b[1].refCnt = rc /\ b[1].type = doc[1].type
    BY <1>7, <2>1 DEF Laid
  <2> QED
    <3>1. CountsOf(f1)[L + 1] = f1[L + 1].refCnt
      BY <2>1 DEF CountsOf
    <3>2. L + 1 \in HashesOf(f1) <=> f1[L + 1].type = "hash"
      BY <2>1 DEF HashesOf
    <3> QED
      BY <1>t, <2>2, <2>3, <3>1, <3>2
<1>18. L + 1 \in B <=> X # {}
  <2>1. L + 1 \notin Behind(doc)
    BY <1>1, DocPlaced DEF L
  <2> QED
    BY <1>3, <2>1 DEF B
<1>19. IF at # nil \/ L + 1 \in B THEN CountsOf(f1)[L + 1] = w1[L + 1]
       ELSE CountsOf(f1)[L + 1] + 1 = w1[L + 1]
  BY <1>t, <1>17, <1>18
<1>20. /\ Sets(Len(f1), HashesOf(f1), gone, abandoned \cup B)
       /\ Books(Len(f1), ValsOf(f1), SubsOf(f1), HashesOf(f1), CountsOf(f1), gone, abandoned \cup B, w1)
  <2>1. Added(L, HashesOf(nodes), CountsOf(nodes), wrappers, Len(f1), at, B,
              HashesOf(f1), CountsOf(f1), w1)
    BY <1>14, <1>15, <1>16, <1>17, <1>19 DEF Added
  <2>2. at # nil => at \notin gone
    BY <1>3
  <2> QED
    BY <1>10, <1>11, <1>12, <2>1, <2>2, Join
<1>21. Good(f1, gone, abandoned \cup B, w1)
  BY <1>4, <1>5, <1>9, <1>13, <1>20 DEF Good, Account
<1>22. Total(w1) = Total(wrappers) + wc
  <2>1. Len(wrappers) < Len(w1) /\ \A n \in 1 .. Len(wrappers) : w1[n] = wrappers[n]
    BY <1>1, <1>2, <1>5
  <2>2. w1[Len(wrappers) + 1] = wc /\ \A n \in Len(wrappers) + 2 .. Len(w1) : w1[n] = 0
    BY <1>2, <1>4, <1>5, <1>16, <1>17
  <2>3. wrappers \in Seq(Nat) /\ w1 \in Seq(Nat) /\ wc \in Nat
    BY <1>2, <1>t, <1>5
  <2> QED
    BY <2>1, <2>2, <2>3, TotalLonger
<1> QED
  BY <1>1, <1>4, <1>21, <1>22 DEF B, Grown

LEMMA AreDocs == Texts \subseteq Docs /\ Values \subseteq Docs
BY LifeAssumption DEF Docs, IsDocument, DocNode

LEMMA NoneStored ==
  ASSUME IInv, NEW X \in SUBSET {Next1}
  PROVE  Stores(nodes, nil, X)
BY DEF IInv, Good, Stores, Addresses, nil

(* The wrappers of a new document: one of the root, or none.               *)
LEMMA NoWrappers ==
  ASSUME NEW doc \in Docs, NEW wc \in Nat
  PROVE  LET z == [Zeros(doc) EXCEPT ![1] = wc]
         IN  z \in Seq(Nat) /\ Len(z) = Len(doc) /\ z[1] = wc /\ \A i \in 2 .. Len(doc) : z[i] = 0
<1>1. Len(doc) \in Nat /\ Len(doc) >= 1
  BY DocFields
<1>2. Zeros(doc) \in [1 .. Len(doc) -> Nat] /\ \A i \in 1 .. Len(doc) : Zeros(doc)[i] = 0
  BY DEF Zeros
<1>3. PICK z : z = [Zeros(doc) EXCEPT ![1] = wc]
  OBVIOUS
<1>4. z \in [1 .. Len(doc) -> Nat] /\ z[1] = wc /\ \A i \in 2 .. Len(doc) : z[i] = 0
  BY <1>1, <1>2, <1>3
<1>5. z \in Seq(Nat) /\ Len(z) = Len(doc)
  BY <1>1, <1>4, SeqOf
<1> QED
  BY <1>3, <1>4, <1>5

LEMMA AllZero ==
  ASSUME NEW doc \in Docs
  PROVE  /\ Zeros(doc) \in Seq(Nat) /\ Len(Zeros(doc)) = Len(doc)
         /\ \A i \in 1 .. Len(doc) : Zeros(doc)[i] = 0
<1>1. Len(doc) \in Nat
  BY DocFields
<1>2. Zeros(doc) \in [1 .. Len(doc) -> Nat] /\ \A i \in 1 .. Len(doc) : Zeros(doc)[i] = 0
  BY DEF Zeros
<1> QED
  BY <1>1, <1>2, SeqOf

-----------------------------------------------------------------------------
(* Entries come and go.                                                    *)

(* q is r with e as one more entry.                                        *)
Fuller(q, r, e) ==
  /\ q \in Node /\ q.type = r.type /\ q.refCnt = r.refCnt /\ q.items = r.items /\ q.text = r.text
  /\ Len(q.tree) = Len(r.tree) + 1 /\ q.tree[Len(r.tree) + 1] = e
  /\ \A j \in 1 .. Len(r.tree) : q.tree[j] = r.tree[j]

LEMMA FullerIs ==
  ASSUME NEW r \in Node, r.type = "hash", Plain(r), NEW e, e.text = Owned, e.val \notin Vals(r),
         NEW q, Fuller(q, r, e)
  PROVE  /\ Plain(q) /\ \A L \in Nat : Texted(r, L) => Texted(q, L)
         /\ Vals(q) = Vals(r) \cup {e.val}
         /\ Subs(q) = Subs(r) \cup
              (IF \E j \in 1 .. Len(r.tree) : r.tree[j].key = e.key THEN {} ELSE {e.val})
<1>1. PICK N : N = Len(r.tree)
  OBVIOUS
<1>2. PICK s : s = r.tree
  OBVIOUS
<1>3. PICK t : t = q.tree
  OBVIOUS
<1>4. /\ N \in Nat /\ N = Len(s) /\ r.items = <<>> /\ q.items = <<>> /\ q.type = "hash"
      /\ Len(t) = N + 1 /\ t[N + 1] = e /\ \A j \in 1 .. N : t[j] = s[j]
  BY <1>1, <1>2, <1>3, NodeFields DEF Plain, Fuller
<1>5. \A j \in 1 .. Len(t) : j = N + 1 \/ j \in 1 .. N
  BY <1>4
<1>6. N + 1 \in 1 .. Len(t) /\ \A j \in 1 .. N : j \in 1 .. Len(t)
  BY <1>4
<1>7. \A i : /\ First(q, i) <=> \A l \in 1 .. i - 1 : t[l].key # t[i].key
             /\ First(r, i) <=> \A l \in 1 .. i - 1 : s[l].key # s[i].key
  BY <1>2, <1>3 DEF First
<1>8. /\ \A x : x \in Vals(q) <=> \E j \in 1 .. Len(t) : x = t[j].val
      /\ \A x : x \in Vals(r) <=> \E j \in 1 .. N : x = s[j].val
      /\ \A x : x \in Subs(q) <=> \E j \in 1 .. Len(t) : First(q, j) /\ x = t[j].val
      /\ \A x : x \in Subs(r) <=> \E j \in 1 .. N : First(r, j) /\ x = s[j].val
  <2>1. 1 .. Len(r.items) = {} /\ 1 .. Len(q.items) = {}
    BY <1>4
  <2> QED
    BY <1>1, <1>2, <1>3, <2>1 DEF Vals, Subs
<1>9. \A j \in 1 .. N : First(q, j) <=> First(r, j)
  <2> TAKE j \in 1 .. N
  <2>1. \A i \in 1 .. j - 1 : i \in 1 .. N
    BY <1>4
  <2> QED
    BY <1>4, <1>7, <2>1
<1>10. First(q, N + 1) <=> ~ \E j \in 1 .. N : s[j].key = e.key
  <2>1. (N + 1) - 1 = N
    BY <1>4
  <2>2. First(q, N + 1) <=> \A l \in 1 .. (N + 1) - 1 : t[l].key # t[N + 1].key
    BY <1>7
  <2>3. First(q, N + 1) <=> \A l \in 1 .. N : t[l].key # e.key
    BY <1>4, <2>1, <2>2
  <2> QED
    BY <1>4, <2>3
<1>11. \A x : x \in Vals(q) <=> x \in Vals(r) \/ x = e.val
  <2> TAKE x
  <2>1. (\E j \in 1 .. Len(t) : x = t[j].val) <=> (\E j \in 1 .. N : x = s[j].val) \/ x = e.val
    BY <1>4, <1>5, <1>6
  <2> QED
    BY <1>8, <2>1
<1>12. \A x : x \in Subs(q) <=> x \in Subs(r) \/ (First(q, N + 1) /\ x = e.val)
  <2> TAKE x
  <2>1. (\E j \in 1 .. Len(t) : First(q, j) /\ x = t[j].val)
          <=> (\E j \in 1 .. N : First(r, j) /\ x = s[j].val) \/ (First(q, N + 1) /\ x = e.val)
    BY <1>4, <1>5, <1>6, <1>9
  <2> QED
    BY <1>8, <2>1
<1>13. ASSUME NEW i \in 1 .. Len(t), NEW j \in 1 .. Len(t), t[i].val = t[j].val
       PROVE  i = j
  <2>1. \A l \in 1 .. N : s[l].val # e.val
    BY <1>8
  <2>2. \A l, m \in 1 .. N : s[l].val = s[m].val => l = m
    BY <1>1, <1>2 DEF Plain
  <2> QED
    BY <1>4, <1>5, <1>13, <2>1, <2>2
<1>14. Plain(q)
  BY <1>3, <1>4, <1>13 DEF Plain
<1>15. ASSUME NEW L \in Nat, Texted(r, L)
       PROVE  Texted(q, L)
  <2>1. q.text \in 0 .. L /\ \A j \in 1 .. N : s[j].text \in 0 .. L
    BY <1>1, <1>2, <1>15 DEF Texted, Fuller
  <2>2. \A j \in 1 .. Len(t) : t[j].text \in 0 .. L
    BY <1>4, <1>5, <2>1 DEF Owned
  <2> QED
    BY <1>3, <2>1, <2>2 DEF Texted
<1>16. Vals(q) = Vals(r) \cup {e.val}
  BY <1>11
<1>17. Subs(q) = Subs(r) \cup (IF \E j \in 1 .. N : s[j].key = e.key THEN {} ELSE {e.val})
  BY <1>10, <1>12
<1> QED
  BY <1>1, <1>2, <1>14, <1>15, <1>16, <1>17

LEMMA AppendEntry ==
  ASSUME NEW r \in Node, NEW e \in Entry
  PROVE  Fuller([r EXCEPT !.tree = Append(@, e)], r, e)
<1>1. PICK t : t = Append(r.tree, e)
  OBVIOUS
<1>2. r.tree \in Seq(Entry) /\ Len(r.tree) \in Nat
  BY NodeFields
<1>3. /\ t \in Seq(Entry) /\ Len(t) = Len(r.tree) + 1 /\ t[Len(r.tree) + 1] = e
      /\ \A j \in 1 .. Len(r.tree) : t[j] = r.tree[j]
  BY <1>1, <1>2
<1>4. PICK q : q = [r EXCEPT !.tree = t]
  OBVIOUS
<1>5. /\ q \in Node /\ q.type = r.type /\ q.refCnt = r.refCnt /\ q.tree = t
      /\ q.items = r.items /\ q.text = r.text
  BY <1>3, <1>4 DEF Node
<1>6. Fuller(q, r, e)
  BY <1>3, <1>5 DEF Fuller
<1>7. q = [r EXCEPT !.tree = Append(@, e)]
  BY <1>1, <1>4
<1> QED
  BY <1>6, <1>7

(* u is t without its j-th.                                                *)
Without(u, t, j, T) ==
  /\ u \in Seq(T) /\ Len(u) = Len(t) - 1
  /\ \A i \in 1 .. j - 1 : u[i] = t[i]
  /\ \A i \in j .. Len(t) - 1 : u[i] = t[i + 1]

LEMMA CutOut ==
  ASSUME NEW T, NEW t \in Seq(T), NEW j \in 1 .. Len(t)
  PROVE  Without(SubSeq(t, 1, j - 1) \o SubSeq(t, j + 1, Len(t)), t, j, T)
<1>0. Len(t) \in Nat /\ j \in Nat /\ 1 <= j /\ j <= Len(t)
  OBVIOUS
<1>1. PICK a : a = SubSeq(t, 1, j - 1)
  OBVIOUS
<1>2. PICK b : b = SubSeq(t, j + 1, Len(t))
  OBVIOUS
<1>3. a \in Seq(T) /\ Len(a) = j - 1 /\ \A i \in 1 .. j - 1 : a[i] = t[i]
  BY <1>0, <1>1
<1>4. b \in Seq(T) /\ Len(b) = Len(t) - j /\ \A i \in 1 .. Len(t) - j : b[i] = t[i + j]
  BY <1>0, <1>2
<1>5. PICK u : u = a \o b
  OBVIOUS
<1>6. IsConcat(u, a, b, T)
  BY <1>3, <1>4, <1>5, Concat
<1>7. /\ u \in Seq(T) /\ Len(u) = Len(a) + Len(b)
      /\ \A n \in 1 .. Len(a) : u[n] = a[n]
      /\ \A i \in 1 .. Len(b) : u[Len(a) + i] = b[i]
  BY <1>6 DEF IsConcat
<1>8. \A i \in 1 .. j - 1 : u[i] = t[i]
  BY <1>3, <1>7
<1>9. Len(u) = Len(t) - 1
  BY <1>0, <1>3, <1>4, <1>7
<1>10. ASSUME NEW i \in j .. Len(t) - 1
       PROVE  u[i] = t[i + 1]
  <2>1. i - (j - 1) \in 1 .. Len(t) - j /\ (j - 1) + (i - (j - 1)) = i /\ (i - (j - 1)) + j = i + 1
    BY <1>0
  <2>2. u[(j - 1) + (i - (j - 1))] = b[i - (j - 1)]
    BY <1>3, <1>4, <1>7, <2>1
  <2> QED
    BY <1>4, <2>1, <2>2
<1>11. Without(u, t, j, T)
  BY <1>7, <1>8, <1>9, <1>10 DEF Without
<1> QED
  BY <1>1, <1>2, <1>5, <1>11

(* p[i] is where the i-th of u was in t.                                   *)
Places(p, u, t, j) ==
  /\ \A i \in 1 .. Len(u) : p[i] \in 1 .. Len(t) /\ p[i] # j /\ u[i] = t[p[i]]
  /\ \A i, l \in 1 .. Len(u) : i < l <=> p[i] < p[l]
  /\ \A m \in 1 .. Len(t) : m # j => \E i \in 1 .. Len(u) : p[i] = m

LEMMA HasPlaces ==
  ASSUME NEW T, NEW t \in Seq(T), NEW j \in 1 .. Len(t), NEW u, Without(u, t, j, T)
  PROVE  \E p : Places(p, u, t, j)
<1> DEFINE N == Len(t)
<1>1. /\ N \in Nat /\ j \in Nat /\ 1 <= j /\ j <= N /\ Len(u) = N - 1
      /\ \A i \in 1 .. j - 1 : u[i] = t[i]
      /\ \A i \in j .. N - 1 : u[i] = t[i + 1]
  BY DEF Without
<1> HIDE DEF N
<1>2. PICK p : p = [i \in 1 .. N - 1 |-> IF i < j THEN i ELSE i + 1]
  OBVIOUS
<1>3. \A i \in 1 .. N - 1 : p[i] = IF i < j THEN i ELSE i + 1
  BY <1>2
<1>4. ASSUME NEW i \in 1 .. N - 1
      PROVE  p[i] \in 1 .. N /\ p[i] # j /\ u[i] = t[p[i]]
  <2>1. CASE i < j
    <3>1. p[i] = i /\ i \in 1 .. j - 1 /\ i \in 1 .. N
      BY <1>1, <1>3, <2>1
    <3> QED
      BY <1>1, <2>1, <3>1
  <2>2. CASE ~ (i < j)
    <3>1. p[i] = i + 1 /\ i \in j .. N - 1 /\ i + 1 \in 1 .. N /\ i + 1 # j
      BY <1>1, <1>3, <2>2
    <3> QED
      BY <1>1, <3>1
  <2> QED
    BY <2>1, <2>2
<1>5. \A i, l \in 1 .. N - 1 : i < l <=> p[i] < p[l]
  BY <1>1, <1>3
<1>6. ASSUME NEW m \in 1 .. N, m # j
      PROVE  \E i \in 1 .. N - 1 : p[i] = m
  <2>1. CASE m < j
    <3>1. m \in 1 .. N - 1 /\ p[m] = m
      BY <1>1, <1>3, <2>1
    <3> QED
      BY <3>1
  <2>2. CASE m > j
    <3>1. m - 1 \in 1 .. N - 1 /\ ~ (m - 1 < j) /\ (m - 1) + 1 = m
      BY <1>1, <2>2
    <3>2. p[m - 1] = m
      BY <1>3, <3>1
    <3> QED
      BY <3>1, <3>2
  <2> QED
    BY <1>1, <1>6, <2>1, <2>2
<1>7. Places(p, u, t, j)
  BY <1>1, <1>4, <1>5, <1>6 DEF Places, N
<1> QED
  BY <1>7

(* q is r without its j-th entry.                                          *)
Emptier(q, r, j) ==
  /\ q \in Node /\ q.type = r.type /\ q.refCnt = r.refCnt /\ q.items = r.items /\ q.text = r.text
  /\ Without(q.tree, r.tree, j, Entry)

LEMMA EmptierIs ==
  ASSUME NEW r \in Node, r.type = "hash", Plain(r), NEW j \in 1 .. Len(r.tree),
         \A i \in 1 .. Len(r.tree) : r.tree[i].key = r.tree[j].key => i = j,
         NEW q, Emptier(q, r, j)
  PROVE  /\ Plain(q) /\ \A L \in Nat : Texted(r, L) => Texted(q, L)
         /\ Vals(q) = Vals(r) \ {r.tree[j].val} /\ Subs(q) = Subs(r) \ {r.tree[j].val}
         /\ r.tree[j].val \in Subs(r)
<1>1. PICK t : t = r.tree
  OBVIOUS
<1>2. PICK u : u = q.tree
  OBVIOUS
<1>3. /\ t \in Seq(Entry) /\ Len(t) \in Nat /\ Without(u, t, j, Entry) /\ r.items = <<>>
      /\ u \in Seq(Entry) /\ Len(u) \in Nat /\ q.type = "hash" /\ q.items = <<>>
  BY <1>1, <1>2, NodeFields DEF Plain, Emptier
<1>4. j \in 1 .. Len(t) /\ \A i, l \in 1 .. Len(t) : t[i].val = t[l].val => i = l
  BY <1>1 DEF Plain
<1>5. \A i \in 1 .. Len(t) : t[i].key = t[j].key => i = j
  BY <1>1
<1>6. PICK p : Places(p, u, t, j)
  BY <1>3, <1>4, HasPlaces
<1>7. /\ \A i \in 1 .. Len(u) : p[i] \in 1 .. Len(t) /\ p[i] # j /\ u[i] = t[p[i]]
      /\ \A i, l \in 1 .. Len(u) : i < l <=> p[i] < p[l]
      /\ \A m \in 1 .. Len(t) : m # j => \E i \in 1 .. Len(u) : p[i] = m
  BY <1>6 DEF Places
<1>8. \A i : /\ First(q, i) <=> \A l \in 1 .. i - 1 : u[l].key # u[i].key
             /\ First(r, i) <=> \A l \in 1 .. i - 1 : t[l].key # t[i].key
  BY <1>1, <1>2 DEF First
<1>9. ASSUME NEW i \in 1 .. Len(u)
      PROVE  First(q, i) <=> First(r, p[i])
  <2>1. p[i] \in 1 .. Len(t) /\ p[i] # j /\ u[i] = t[p[i]]
    BY <1>7
  <2>2. ASSUME First(r, p[i]), NEW l \in 1 .. i - 1
        PROVE  u[l].key # u[i].key
    <3>1. l \in 1 .. Len(u) /\ l < i
      BY <1>3
    <3>2. p[l] \in 1 .. Len(t) /\ p[l] < p[i] /\ u[l] = t[p[l]]
      BY <1>7, <3>1
    <3>3. p[l] \in 1 .. p[i] - 1
      BY <1>3, <2>1, <3>2
    <3> QED
      BY <1>8, <2>1, <2>2, <3>2, <3>3
  <2>3. ASSUME First(q, i), NEW m \in 1 .. p[i] - 1
        PROVE  t[m].key # t[p[i]].key
    <3>1. m \in 1 .. Len(t) /\ m < p[i]
      BY <1>3, <2>1
    <3>2. CASE m = j
      BY <1>5, <2>1, <3>2
    <3>3. CASE m # j
      <4>1. PICK l \in 1 .. Len(u) : p[l] = m
        BY <1>7, <3>1, <3>3
      <4>2. l < i
        BY <1>7, <3>1, <4>1
      <4>3. l \in 1 .. i - 1 /\ u[l] = t[m]
        BY <1>3, <1>7, <4>1, <4>2
      <4> QED
        BY <1>8, <2>1, <2>3, <4>3
    <3> QED
      BY <3>2, <3>3
  <2> QED
    BY <1>8, <2>2, <2>3
<1>10. /\ \A x : x \in Vals(q) <=> \E i \in 1 .. Len(u) : x = u[i].val
       /\ \A x : x \in Vals(r) <=> \E m \in 1 .. Len(t) : x = t[m].val
       /\ \A x : x \in Subs(q) <=> \E i \in 1 .. Len(u) : First(q, i) /\ x = u[i].val
       /\ \A x : x \in Subs(r) <=> \E m \in 1 .. Len(t) : First(r, m) /\ x = t[m].val
  <2>1. 1 .. Len(r.items) = {} /\ 1 .. Len(q.items) = {}
    BY <1>3
  <2> QED
    BY <1>1, <1>2, <2>1 DEF Vals, Subs
<1>11. ASSUME NEW x
       PROVE  x \in Vals(q) <=> x \in Vals(r) /\ x # t[j].val
  <2>1. ASSUME x \in Vals(q)
        PROVE  x \in Vals(r) /\ x # t[j].val
    <3>1. PICK i \in 1 .. Len(u) : x = u[i].val
      BY <1>10, <2>1
    <3>2. p[i] \in 1 .. Len(t) /\ p[i] # j /\ x = t[p[i]].val
      BY <1>7, <3>1
    <3> QED
      BY <1>4, <1>10, <3>2
  <2>2. ASSUME x \in Vals(r), x # t[j].val
        PROVE  x \in Vals(q)
    <3>1. PICK m \in 1 .. Len(t) : x = t[m].val
      BY <1>10, <2>2
    <3>2. PICK i \in 1 .. Len(u) : p[i] = m
      BY <1>7, <2>2, <3>1
    <3> QED
      BY <1>7, <1>10, <3>1, <3>2
  <2> QED
    BY <2>1, <2>2
<1>12. ASSUME NEW x
       PROVE  x \in Subs(q) <=> x \in Subs(r) /\ x # t[j].val
  <2>1. ASSUME x \in Subs(q)
        PROVE  x \in Subs(r) /\ x # t[j].val
    <3>1. PICK i \in 1 .. Len(u) : First(q, i) /\ x = u[i].val
      BY <1>10, <2>1
    <3>2. First(r, p[i])
      BY <1>9, <3>1
    <3> QED
      BY <1>4, <1>7, <1>10, <3>1, <3>2
  <2>2. ASSUME x \in Subs(r), x # t[j].val
        PROVE  x \in Subs(q)
    <3>1. PICK m \in 1 .. Len(t) : First(r, m) /\ x = t[m].val
      BY <1>10, <2>2
    <3>2. PICK i \in 1 .. Len(u) : p[i] = m
      BY <1>7, <2>2, <3>1
    <3>3. First(q, i)
      BY <1>9, <3>1, <3>2
    <3> QED
      BY <1>7, <1>10, <3>1, <3>2, <3>3
  <2> QED
    BY <2>1, <2>2
<1>13. First(r, j)
  <2>1. \A i \in 1 .. j - 1 : i \in 1 .. Len(t) /\ i # j
    BY <1>3, <1>4
  <2> QED
    BY <1>5, <1>8, <2>1
<1>14. t[j].val \in Subs(r)
  BY <1>4, <1>10, <1>13
<1>15. ASSUME NEW i \in 1 .. Len(u), NEW l \in 1 .. Len(u), u[i].val = u[l].val
       PROVE  i = l
  <2>1. p[i] = p[l] /\ p[i] \in Nat /\ p[l] \in Nat
    BY <1>4, <1>7, <1>15, SMTT(30)
  <2>2. ~ (i < l) /\ ~ (l < i)
    BY <1>7, <2>1
  <2> QED
    BY <1>3, <2>2
<1>16. Plain(q)
  BY <1>2, <1>3, <1>15 DEF Plain
<1>17. ASSUME NEW L \in Nat, Texted(r, L)
       PROVE  Texted(q, L)
  <2>1. q.text \in 0 .. L /\ \A m \in 1 .. Len(t) : t[m].text \in 0 .. L
    BY <1>1, <1>17 DEF Texted, Emptier
  <2>2. \A i \in 1 .. Len(u) : u[i].text \in 0 .. L
    BY <1>7, <2>1
  <2> QED
    BY <1>2, <2>1, <2>2 DEF Texted
<1>18. Vals(q) = Vals(r) \ {t[j].val} /\ Subs(q) = Subs(r) \ {t[j].val}
  BY <1>11, <1>12
<1> QED
  BY <1>1, <1>14, <1>16, <1>17, <1>18

LEMMA RemoveEntry ==
  ASSUME NEW r \in Node, NEW j \in 1 .. Len(r.tree)
  PROVE  Emptier([r EXCEPT !.tree = SubSeq(@, 1, j - 1) \o SubSeq(@, j + 1, Len(@))], r, j)
<1>1. PICK t : t = r.tree
  OBVIOUS
<1>2. PICK u : u = SubSeq(t, 1, j - 1) \o SubSeq(t, j + 1, Len(t))
  OBVIOUS
<1>3. PICK q : q = [r EXCEPT !.tree = u]
  OBVIOUS
<1>4. Without(u, t, j, Entry) /\ u \in Seq(Entry)
  <2>1. t \in Seq(Entry) /\ j \in 1 .. Len(t)
    BY <1>1, NodeFields
  <2>2. Without(u, t, j, Entry)
    BY <1>2, <2>1, CutOut
  <2> QED
    BY <2>2 DEF Without
<1>5. /\ q \in Node /\ q.type = r.type /\ q.refCnt = r.refCnt /\ q.tree = u
      /\ q.items = r.items /\ q.text = r.text
  BY <1>3, <1>4 DEF Node
<1>6. Emptier(q, r, j)
  BY <1>1, <1>4, <1>5 DEF Emptier
<1>7. q = [r EXCEPT !.tree = SubSeq(@, 1, j - 1) \o SubSeq(@, j + 1, Len(@))]
  BY <1>1, <1>2, <1>3
<1> QED
  BY <1>6, <1>7

-----------------------------------------------------------------------------
(* The steps.                                                              *)

LEMMA LiveHashes ==
  ASSUME IInv
  PROVE  /\ \A h \in Addresses : wrappers[h] > 0 => h \in HashesOf(nodes) \ gone
         /\ \A h \in HashesOf(nodes) \ gone :
              /\ h \in Addresses /\ nodes[h].type = "hash" /\ nodes[h].refCnt \in Nat
              /\ wrappers[h] \in Nat /\ wrappers[h] <= MaxWrappers
              /\ nodes[h].refCnt <= wrappers[h] /\ wrappers[h] <= nodes[h].refCnt + 1
<1>1. /\ nodes \in Seq(Node) /\ wrappers \in Seq(Nat) /\ Len(wrappers) = Len(nodes)
      /\ Total(wrappers) <= MaxWrappers
      /\ Books(Len(nodes), ValsOf(nodes), SubsOf(nodes), HashesOf(nodes), CountsOf(nodes),
               gone, abandoned, wrappers)
  BY DEF IInv, Good, Account
<1>2. Total(wrappers) \in Nat /\ MaxWrappers \in Nat /\ \A i \in 1 .. Len(nodes) : wrappers[i] <= Total(wrappers)
  BY <1>1, TotalBounds, LifeAssumption
<1>3. \A h \in Addresses : wrappers[h] > 0 => h \in HashesOf(nodes) \ gone
  BY <1>1 DEF Books, Addresses
<1>4. ASSUME NEW h \in HashesOf(nodes) \ gone
      PROVE  /\ h \in Addresses /\ nodes[h].type = "hash" /\ nodes[h].refCnt \in Nat
             /\ wrappers[h] \in Nat /\ wrappers[h] <= MaxWrappers
             /\ nodes[h].refCnt <= wrappers[h] /\ wrappers[h] <= nodes[h].refCnt + 1
  <2>1. /\ h \in 1 .. Len(nodes) /\ nodes[h].type = "hash" /\ nodes[h].refCnt \in Nat
        /\ CountsOf(nodes)[h] = nodes[h].refCnt /\ wrappers[h] \in Nat
    BY <1>1, Columns DEF HashesOf
  <2>2. CountsOf(nodes)[h] = wrappers[h] \/ CountsOf(nodes)[h] + 1 = wrappers[h]
    BY <1>1 DEF Books
  <2>3. wrappers[h] <= MaxWrappers
    <3>1. wrappers[h] <= Total(wrappers) /\ Total(wrappers) <= MaxWrappers
      BY <1>1, <1>2, <2>1
    <3>2. PICK x : x = wrappers[h]
      OBVIOUS
    <3> QED
      BY <1>2, <2>1, <3>1, <3>2
  <2> QED
    BY <2>1, <2>2, <2>3 DEF Addresses
<1> QED
  BY <1>3, <1>4

LEMMA InitKeeps ==
  ASSUME Init
  PROVE  IInv
<1>1. /\ nodes = <<>> /\ wrappers = <<>> /\ gone = {} /\ abandoned = {} /\ texts = {}
      /\ Len(nodes) = 0 /\ Len(wrappers) = 0 /\ pc \in {"Running", "Undefined"}
  BY DEF Init
<1>2. nodes \in Seq(Node) /\ wrappers \in Seq(Nat)
  BY <1>1
<1>3. Total(wrappers) = 0
  <2>1. PICK s : IsSum(wrappers, s) /\ Total(wrappers) = s[Len(wrappers)]
    BY <1>2, TotalIsSum
  <2> QED
    BY <1>1, <2>1 DEF IsSum
<1>4. Forest(0, ValsOf(nodes), SubsOf(nodes))
  <2>1. ValsOf(nodes) \in [1 .. 0 -> SUBSET (1 .. 0)] /\ SubsOf(nodes) \in [1 .. 0 -> SUBSET (1 .. 0)]
    BY <1>1 DEF ValsOf, SubsOf
  <2>2. \A n \in 1 .. 0 : FALSE
    OBVIOUS
  <2> QED
    BY <2>1, <2>2 DEF Forest
<1>5. HashesOf(nodes) = {}
  BY <1>1 DEF HashesOf
<1>6. Account(nodes, gone, abandoned, wrappers)
  <2>1. \A n \in 1 .. 0 : FALSE
    OBVIOUS
  <2>2. Sets(0, HashesOf(nodes), gone, abandoned)
    BY <1>1, <1>5 DEF Sets
  <2>3. Books(0, ValsOf(nodes), SubsOf(nodes), HashesOf(nodes), CountsOf(nodes), gone, abandoned, wrappers)
    BY <1>5, <2>1 DEF Books
  <2> QED
    BY <1>1, <1>4, <2>2, <2>3 DEF Account
<1>7. Good(nodes, gone, abandoned, wrappers)
  <2>1. \A n \in 1 .. Len(nodes) : FALSE
    BY <1>1
  <2> QED
    BY <1>1, <1>2, <1>6, <2>1 DEF Good
<1>8. Total(wrappers) <= MaxWrappers
  BY <1>3, LifeAssumption
<1> QED
  BY <1>1, <1>7, <1>8 DEF IInv

LEMMA WrapKeeps ==
  ASSUME IInv, NEW doc \in Docs, doc[1].type = "hash", NEW text \in 0 .. Next1,
         NEW X \in SUBSET {Next1}, NEW rc \in Nat, rc < Width, IF X # {} THEN rc = 1 ELSE rc = 0,
         Wrap(doc, text, rc)
  PROVE  /\ Good(nodes', gone, abandoned \cup (Behind(doc) \cup X), wrappers')
         /\ Total(wrappers') <= MaxWrappers
         /\ Len(nodes') \in Nat /\ Next1 <= Len(nodes') /\ Len(nodes) < Next1 /\ Next1 \in Nat
<1>1. PICK b : b = [Build(doc, text) EXCEPT ![1].refCnt = rc]
  OBVIOUS
<1>2. PICK z : z = [Zeros(doc) EXCEPT ![1] = 1]
  OBVIOUS
<1>3. Len(nodes) \in Nat /\ Next1 \in Nat /\ Len(nodes) < Next1 /\ text \in Nat /\ Width \in Nat /\ rc \in 0 .. Width - 1
  BY IInvShape, LifeAssumption DEF Next1
<1>4. Laid(doc, text, b, rc)
  BY <1>1, <1>3, BuildLays
<1>5. z \in Seq(Nat) /\ Len(z) = Len(doc) /\ z[1] = 1 /\ \A i \in 2 .. Len(doc) : z[i] = 0
  BY <1>2, NoWrappers
<1>6. nodes' = nodes \o b /\ wrappers' = wrappers \o z /\ Total(wrappers) + 1 <= MaxWrappers
  BY <1>1, <1>2 DEF Wrap, Room
<1>7. Stores(nodes, nil, X)
  BY NoneStored
<1>8. Tally(doc, nil, X, rc, z, 1)
  BY <1>5 DEF Tally
<1>9. PICK f1 : f1 = nodes \o b
  OBVIOUS
<1>10. PICK w1 : w1 = wrappers \o z
  OBVIOUS
<1>a. Grown(f1, w1, Behind(doc) \cup X, 1)
  BY <1>4, <1>7, <1>8, <1>9, <1>10, Grow
<1>11. /\ Good(f1, gone, abandoned \cup (Behind(doc) \cup X), w1)
       /\ Total(w1) = Total(wrappers) + 1 /\ Len(f1) >= Next1
  BY <1>a DEF Grown
<1>12. Len(f1) \in Nat
  BY <1>11 DEF Good
<1> QED
  BY <1>3, <1>6, <1>9, <1>10, <1>11, <1>12

LEMMA InitWithStringKeeps ==
  ASSUME IInv, NEW doc \in Texts, InitWithString(doc)
  PROVE  IInv'
<1>1. doc \in Docs /\ doc[1].type = "hash"
  BY AreDocs, LifeAssumption
<1>2. Up(Down(0)) = 0 /\ Width \in Nat /\ 0 < Width
  BY Counting, LifeAssumption
<1>3. Next1 \in 0 .. Next1
  BY IInvShape DEF Next1
<1>4. Wrap(doc, Next1, 0)
  BY <1>2 DEF InitWithString
<1>5. PICK X : X = {}
  OBVIOUS
<1>6. /\ Good(nodes', gone, abandoned \cup (Behind(doc) \cup X), wrappers')
      /\ Total(wrappers') <= MaxWrappers
      /\ Len(nodes') \in Nat /\ Next1 <= Len(nodes') /\ Len(nodes) < Next1 /\ Next1 \in Nat
  BY <1>1, <1>2, <1>3, <1>4, <1>5, WrapKeeps
<1>7. abandoned' = abandoned \cup (Behind(doc) \cup X) /\ gone' = gone /\ pc' = pc /\ texts' = texts \cup {Next1}
  BY <1>5 DEF InitWithString
<1>8. texts' \subseteq 1 .. Len(nodes')
  BY <1>6, <1>7, IInvShape DEF IInv, Addresses
<1> QED
  BY <1>6, <1>7, <1>8 DEF IInv, Addresses

LEMMA InitWithDictKeeps ==
  ASSUME IInv, NEW doc \in Values, InitWithDict(doc)
  PROVE  IInv'
<1>1. doc \in Docs /\ doc[1].type = "hash"
  BY AreDocs DEF InitWithDict
<1>2. Width \in Nat /\ Total(wrappers) + 1 <= MaxWrappers
  BY LifeAssumption DEF InitWithDict, Wrap, Room
<1>3. Up(0) = 1 /\ 1 < Width
  <2>1. Total(wrappers) \in Nat
    BY IInvShape, TotalBounds
  <2>2. 0 < Width - 1
    BY <1>2, <2>1, LifeAssumption
  <2> QED
    BY <1>2, <2>2, Counting
<1>4. Owned \in 0 .. Next1
  BY IInvShape DEF Next1, Owned
<1>5. Wrap(doc, Owned, 1)
  BY <1>3 DEF InitWithDict
<1>6. PICK X : X = {Next1}
  OBVIOUS
<1>7. /\ Good(nodes', gone, abandoned \cup (Behind(doc) \cup X), wrappers')
      /\ Total(wrappers') <= MaxWrappers
      /\ Len(nodes') \in Nat /\ Next1 <= Len(nodes') /\ Len(nodes) < Next1 /\ Next1 \in Nat
  BY <1>1, <1>3, <1>4, <1>5, <1>6, WrapKeeps
<1>8. abandoned' = abandoned \cup (Behind(doc) \cup X) /\ gone' = gone /\ pc' = pc /\ texts' = texts
  BY <1>6 DEF InitWithDict
<1>9. texts' \subseteq 1 .. Len(nodes')
  BY <1>7, <1>8, IInvShape DEF IInv, Addresses
<1> QED
  BY <1>7, <1>8, <1>9 DEF IInv, Addresses

LEMMA SetObjectKeeps ==
  ASSUME IInv, NEW h \in Addresses, NEW k \in Keys, NEW doc \in Values, SetObject(h, k, doc)
  PROVE  IInv'
<1>1. doc \in Docs
  BY AreDocs
<1>2. PICK e : e = [key |-> k, text |-> Owned, val |-> Next1]
  OBVIOUS
<1>3. PICK q : q = [nodes[h] EXCEPT !.tree = Append(@, e)]
  OBVIOUS
<1>4. PICK f0 : f0 = [nodes EXCEPT ![h] = q]
  OBVIOUS
<1>5. PICK X : X = IF Get(h, k) = nil THEN {} ELSE {Next1}
  OBVIOUS
<1>6. PICK b : b = Build(doc, Owned)
  OBVIOUS
<1>7. PICK z : z = Zeros(doc)
  OBVIOUS
<1>8. PICK f1 : f1 = f0 \o b
  OBVIOUS
<1>9. PICK w1 : w1 = wrappers \o z
  OBVIOUS
<1>10. /\ pc' = pc /\ wrappers[h] > 0 /\ nodes' = f1 /\ wrappers' = w1 /\ gone' = gone /\ texts' = texts
       /\ abandoned' = abandoned \cup (Behind(doc) \cup X)
  <2>1. f0 = [nodes EXCEPT ![h].tree = Append(@, e)]
    BY <1>3, <1>4
  <2> QED
    BY <1>2, <1>5, <1>6, <1>7, <1>8, <1>9, <2>1 DEF SetObject, Call
<1>11. /\ nodes \in Seq(Node) /\ Len(nodes) \in Nat /\ Next1 = Len(nodes) + 1 /\ h \in 1 .. Len(nodes)
       /\ nodes[h] \in Node
       /\ \A n \in 1 .. Len(nodes) : Texted(nodes[n], Len(nodes)) /\ Plain(nodes[n])
  BY IInvShape DEF Next1, IInv, Good, Addresses
<1>12. nodes[h].type = "hash" /\ h \notin gone
  BY <1>10, LiveHashes
<1>13. Vals(nodes[h]) \subseteq Addresses
  BY IInvShape, ShapeIs
<1>14. e \in Entry /\ e.key = k /\ e.text = Owned /\ e.val = Next1 /\ e.val \notin Vals(nodes[h])
  BY <1>2, <1>11, <1>13 DEF Entry, Owned, Addresses
<1>15. Fuller(q, nodes[h], e)
  BY <1>3, <1>11, <1>14, AppendEntry
<1>16. /\ Plain(q) /\ (Texted(nodes[h], Len(nodes)) => Texted(q, Len(nodes)))
       /\ Vals(q) = Vals(nodes[h]) \cup {Next1}
       /\ Subs(q) = Subs(nodes[h]) \cup
            (IF \E j \in 1 .. Len(nodes[h].tree) : nodes[h].tree[j].key = k THEN {} ELSE {Next1})
  BY <1>11, <1>12, <1>14, <1>15, FullerIs
<1>17. Get(h, k) = nil <=> ~ \E j \in 1 .. Len(nodes[h].tree) : nodes[h].tree[j].key = k
  <2>1. ASSUME NEW j \in 1 .. Len(nodes[h].tree), nodes[h].tree[j].key = k
        PROVE  Get(h, k) # nil
    <3>1. PICK i \in 1 .. j : First(nodes[h], i) /\ nodes[h].tree[i].key = k
      BY <1>11, <2>1, HasFirst
    <3>2. i \in 1 .. Len(nodes[h].tree)
      BY <1>11, <3>1, NodeFields
    <3>3. Get(h, k) = nodes[h].tree[i].val
      BY <1>11, <3>1, <3>2, GetFirst
    <3>4. nodes[h].tree[i].val \in Vals(nodes[h])
      BY <3>2 DEF Vals
    <3>5. \A x \in Addresses : x # nil
      BY <1>11 DEF Addresses, nil
    <3> QED
      BY <1>13, <3>3, <3>4, <3>5
  <2> QED
    BY <2>1, GetNone
<1>18. Subs(q) = Subs(nodes[h]) \cup ({Next1} \ X) /\ X \subseteq {Next1}
  BY <1>5, <1>16, <1>17
<1>19. Stores(f0, h, X)
  <2>1. /\ f0 \in Seq(Node) /\ Len(f0) = Len(nodes) /\ f0[h] = q
        /\ \A n \in 1 .. Len(nodes) : n # h => f0[n] = nodes[n]
    BY <1>4, <1>11, <1>15 DEF Fuller
  <2>2. q.type = nodes[h].type /\ q.refCnt = nodes[h].refCnt
    BY <1>15 DEF Fuller
  <2>3. \A n \in Addresses : /\ f0[n].type = nodes[n].type /\ f0[n].refCnt = nodes[n].refCnt
                             /\ Plain(f0[n]) /\ Texted(f0[n], Len(nodes))
                             /\ n # h => f0[n] = nodes[n]
    <3> TAKE n \in Addresses
    <3>1. n \in 1 .. Len(nodes) /\ Plain(nodes[n]) /\ Texted(nodes[n], Len(nodes))
      BY <1>11 DEF Addresses
    <3>2. CASE n = h
      <4>1. Texted(nodes[h], Len(nodes))
        BY <1>11
      <4>2. Texted(q, Len(nodes)) /\ Plain(q)
        BY <1>16, <4>1
      <4>3. f0[n] = q
        BY <2>1, <3>2
      <4> QED
        BY <2>2, <3>2, <4>2, <4>3
    <3>3. CASE n # h
      BY <2>1, <3>1, <3>3
    <3> QED
      BY <3>2, <3>3
  <2> QED
    BY <1>12, <1>16, <1>18, <2>1, <2>3 DEF Stores, Addresses
<1>20. Laid(doc, 0, b, 0)
  BY <1>1, <1>6, <1>11, BuildLaysPlain DEF Owned
<1>21. Tally(doc, h, X, 0, z, 0)
  <2>1. /\ z \in Seq(Nat) /\ Len(z) = Len(doc) /\ \A i \in 1 .. Len(doc) : z[i] = 0
    BY <1>1, <1>7, AllZero
  <2>2. 1 \in 1 .. Len(doc) /\ \A i \in 2 .. Len(doc) : i \in 1 .. Len(doc)
    BY <1>1, DocFields
  <2>3. h # nil
    BY <1>11 DEF nil
  <2> QED
    BY <2>1, <2>2, <2>3 DEF Tally
<1>22. 0 \in 0 .. Next1
  BY <1>11
<1>23. Grown(f1, w1, Behind(doc) \cup X, 0)
  BY <1>1, <1>8, <1>9, <1>19, <1>20, <1>21, <1>22, Grow
<1>24. /\ Good(f1, gone, abandoned \cup (Behind(doc) \cup X), w1)
       /\ Total(w1) = Total(wrappers) /\ Len(f1) >= Next1 /\ Len(f1) \in Nat
  <2>1. Total(wrappers) \in Nat
    BY IInvShape, TotalBounds
  <2> QED
    BY <1>23, <2>1 DEF Grown, Good
<1>25. texts \subseteq 1 .. Len(f1)
  BY <1>11, <1>24 DEF IInv, Addresses
<1> QED
  BY <1>10, <1>24, <1>25 DEF IInv, Addresses

(* Nodes that change but in their counts keep the books' tables.           *)
LEMMA SameTables ==
  ASSUME NEW f, NEW f1, Len(f1) = Len(f),
         \A n \in 1 .. Len(f) : /\ Vals(f1[n]) = Vals(f[n]) /\ Subs(f1[n]) = Subs(f[n])
                                /\ f1[n].type = f[n].type
  PROVE  ValsOf(f1) = ValsOf(f) /\ SubsOf(f1) = SubsOf(f) /\ HashesOf(f1) = HashesOf(f)
BY DEF ValsOf, SubsOf, HashesOf

(* What is not gone leads to nothing that is.                              *)
LEMMA LiveLinks ==
  ASSUME IInv
  PROVE  \A n \in Addresses \ gone : Sub(n) \subseteq Addresses \ gone /\ Stored(n) \subseteq Addresses \ gone
<1>1. \A n \in (1 .. Len(nodes)) \ gone : ValsOf(nodes)[n] \cap gone = {}
  BY DEF IInv, Good, Account, Books
<1> QED
  BY <1>1, IInvShape, ShapeIs DEF Addresses

LEMMA WrappedLive ==
  ASSUME IInv, NEW c \in Addresses \ gone
  PROVE  Wrapped(c) \subseteq HashesOf(nodes) \ gone
<1>1. PICK g : Walk(Addresses, ArrLinks, SelfIfHash, g) /\ \A n : Wrapped(n) = g[n]
  BY IInvShape, WrappedIsWalk
<1>2. Descends(Addresses, Rank, ArrLinks)
  BY IInvShape, Descending
<1>3. PICK C : C = Addresses \ gone
  OBVIOUS
<1>4. PICK B : B = HashesOf(nodes) \ gone
  OBVIOUS
<1>5. C \in SUBSET Addresses /\ \A m \in C : ArrLinks[m] \subseteq C
  BY <1>3, LiveLinks DEF ArrLinks
<1>6. \A m \in C : SelfIfHash[m] \subseteq B
  BY <1>3, <1>4 DEF SelfIfHash, IsHash, HashesOf, Addresses
<1>7. \A m \in C : g[m] \subseteq B
  BY <1>1, <1>2, <1>5, <1>6, WalkWithin
<1> QED
  BY <1>1, <1>3, <1>4, <1>7

(* objectForKey: one wrapper and one reference more for each hash.          *)
LEMMA ObjectForKeyKeeps ==
  ASSUME IInv, NEW h \in Addresses, NEW k \in Keys, ObjectForKey(h, k)
  PROVE  IInv'
<1>1. PICK W : W = Wrapped(Get(h, k))
  OBVIOUS
<1>2. PICK f1 : f1 = [n \in Addresses |->
                       IF n \in W THEN [nodes[n] EXCEPT !.refCnt = Up(@)] ELSE nodes[n]]
  OBVIOUS
<1>3. PICK w1 : w1 = [n \in Addresses |-> IF n \in W THEN wrappers[n] + 1 ELSE wrappers[n]]
  OBVIOUS
<1>4. /\ wrappers[h] > 0 /\ Get(h, k) # nil /\ Total(wrappers) + Cardinality(W) <= MaxWrappers
      /\ nodes' = f1 /\ wrappers' = w1 /\ gone' = gone /\ texts' = texts /\ abandoned' = abandoned /\ pc' = pc
  BY <1>1, <1>2, <1>3 DEF ObjectForKey, Call, Room
<1>5. /\ nodes \in Seq(Node) /\ Len(nodes) \in Nat /\ wrappers \in Seq(Nat) /\ Len(wrappers) = Len(nodes)
      /\ \A n \in 1 .. Len(nodes) : Texted(nodes[n], Len(nodes)) /\ Plain(nodes[n])
      /\ Account(nodes, gone, abandoned, wrappers)
  BY DEF IInv, Good
<1>6. h \in Addresses \ gone /\ Get(h, k) \in Sub(h)
  BY <1>4, <1>5, LiveHashes, GetIn, SubIs DEF Addresses
<1>7. W \subseteq HashesOf(nodes) \ gone
  BY <1>1, <1>6, LiveLinks, WrappedLive
<1>8. W \subseteq 1 .. Len(nodes)
  BY <1>7 DEF HashesOf
<1>9. ASSUME NEW n \in W
      PROVE  Up(nodes[n].refCnt) = nodes[n].refCnt + 1 /\ nodes[n].refCnt + 1 \in 0 .. Width - 1
  <2>1. PICK c : c = nodes[n].refCnt
    OBVIOUS
  <2>2. c \in Nat /\ wrappers[n] \in Nat /\ c <= wrappers[n] /\ wrappers[n] <= MaxWrappers
    BY <1>7, <2>1, LiveHashes
  <2>3. c <= MaxWrappers /\ MaxWrappers <= Width - 2 /\ Width \in Nat /\ MaxWrappers \in Nat
    BY <2>2, LifeAssumption
  <2>4. c < Width - 1 /\ c + 1 \in 0 .. Width - 1
    BY <2>2, <2>3
  <2>5. Up(c) = c + 1
    BY <2>2, <2>4, Counting
  <2> QED
    BY <2>1, <2>4, <2>5
<1>10. ASSUME NEW n \in 1 .. Len(nodes)
       PROVE  /\ f1[n] \in Node /\ f1[n].type = nodes[n].type /\ f1[n].tree = nodes[n].tree
              /\ f1[n].items = nodes[n].items /\ f1[n].text = nodes[n].text
              /\ f1[n].refCnt = IF n \in W THEN nodes[n].refCnt + 1 ELSE nodes[n].refCnt
  <2>0. nodes[n] \in Node
    BY <1>5
  <2>1. CASE n \in W
    <3>1. PICK c : c = nodes[n].refCnt + 1
      OBVIOUS
    <3>2. f1[n] = [nodes[n] EXCEPT !.refCnt = c] /\ c \in 0 .. Width - 1
      BY <1>2, <1>9, <2>1, <3>1 DEF Addresses
    <3> QED
      BY <2>0, <2>1, <3>1, <3>2 DEF Node
  <2>2. CASE n \notin W
    BY <1>2, <2>0, <2>2 DEF Addresses
  <2> QED
    BY <2>1, <2>2
<1>11. f1 \in Seq(Node) /\ Len(f1) = Len(nodes)
  <2>1. f1 \in [1 .. Len(nodes) -> Node]
    BY <1>2, <1>10 DEF Addresses
  <2> QED
    BY <1>5, <2>1, SeqOf
<1>12. \A n \in 1 .. Len(nodes) : w1[n] = IF n \in W THEN wrappers[n] + 1 ELSE wrappers[n]
  BY <1>3 DEF Addresses
<1>13. w1 \in Seq(Nat) /\ Len(w1) = Len(nodes)
  <2>1. \A n \in 1 .. Len(nodes) : wrappers[n] \in Nat
    BY <1>5
  <2>2. \A n \in 1 .. Len(nodes) : w1[n] \in Nat
    BY <1>12, <2>1
  <2>3. w1 \in [1 .. Len(nodes) -> Nat]
    BY <1>3, <2>2 DEF Addresses
  <2> QED
    BY <1>5, <2>3, SeqOf
<1>14. \A n \in 1 .. Len(nodes) :
          /\ Vals(f1[n]) = Vals(nodes[n]) /\ Subs(f1[n]) = Subs(nodes[n])
          /\ Texted(f1[n], Len(nodes)) /\ Plain(f1[n])
  BY <1>5, <1>10, SameLinks
<1>15. ValsOf(f1) = ValsOf(nodes) /\ SubsOf(f1) = SubsOf(nodes) /\ HashesOf(f1) = HashesOf(nodes)
  BY <1>10, <1>11, <1>14, SameTables
<1>16. Raised(Len(nodes), W, CountsOf(nodes), wrappers, CountsOf(f1), w1)
  <2>1. \A n \in 1 .. Len(nodes) : CountsOf(f1)[n] = f1[n].refCnt /\ CountsOf(nodes)[n] = nodes[n].refCnt
    BY <1>5, <1>11, Columns
  <2> QED
    BY <1>10, <1>12, <2>1 DEF Raised
<1>17. Books(Len(nodes), ValsOf(nodes), SubsOf(nodes), HashesOf(nodes), CountsOf(f1), gone, abandoned, w1)
  <2>1. /\ Sets(Len(nodes), HashesOf(nodes), gone, abandoned)
        /\ Books(Len(nodes), ValsOf(nodes), SubsOf(nodes), HashesOf(nodes), CountsOf(nodes),
                 gone, abandoned, wrappers)
    BY <1>5 DEF Account
  <2>2. Tables(Len(nodes), CountsOf(nodes), wrappers) /\ Tables(Len(nodes), CountsOf(f1), w1)
    BY <1>5, <1>11, <1>13, Columns
  <2> QED
    BY <1>7, <1>16, <2>1, <2>2, CountUp
<1>18. Good(f1, gone, abandoned, w1)
  <2>1. Account(f1, gone, abandoned, w1)
    BY <1>5, <1>11, <1>15, <1>17 DEF Account
  <2> QED
    BY <1>11, <1>13, <1>14, <2>1 DEF Good
<1>19. Total(w1) <= MaxWrappers
  <2>1. Total(w1) <= Total(wrappers) + Cardinality(W)
    BY <1>5, <1>8, <1>12, <1>13, TotalOneMore
  <2>2. Total(w1) \in Nat /\ Total(wrappers) \in Nat /\ MaxWrappers \in Nat
    BY <1>5, <1>13, TotalBounds, LifeAssumption
  <2>3. Cardinality(W) \in Nat
    <3>1. IsFiniteSet(1 .. Len(nodes))
      BY <1>5, FS_Interval
    <3>2. IsFiniteSet(W)
      BY <1>8, <3>1, FS_Subset
    <3> QED
      BY <3>2, FS_CardinalityType
  <2> QED
    BY <1>4, <2>1, <2>2, <2>3
<1> QED
  BY <1>4, <1>11, <1>18, <1>19 DEF IInv, Addresses

LEMMA RemoveObjectKeeps ==
  ASSUME IInv, NEW h \in Addresses, NEW k \in Keys, RemoveObject(h, k)
  PROVE  IInv'
<1>1. /\ nodes \in Seq(Node) /\ Len(nodes) \in Nat /\ wrappers \in Seq(Nat) /\ Len(wrappers) = Len(nodes)
      /\ \A n \in 1 .. Len(nodes) : Texted(nodes[n], Len(nodes)) /\ Plain(nodes[n])
      /\ Account(nodes, gone, abandoned, wrappers) /\ h \in 1 .. Len(nodes) /\ nodes[h] \in Node
  BY DEF IInv, Good, Addresses
<1>2. PICK j \in 1 .. Len(nodes[h].tree) :
        /\ {i \in 1 .. Len(nodes[h].tree) : nodes[h].tree[i].key = k} = {j}
        /\ nodes' = [nodes EXCEPT ![h].tree = SubSeq(@, 1, j - 1) \o SubSeq(@, j + 1, Len(@))]
        /\ abandoned' = abandoned \cup {nodes[h].tree[j].val}
  BY DEF RemoveObject
<1>3. /\ wrappers[h] > 0 /\ gone' = gone /\ wrappers' = wrappers /\ texts' = texts /\ pc' = pc
  BY DEF RemoveObject, Call
<1>4. PICK q : q = [nodes[h] EXCEPT !.tree = SubSeq(@, 1, j - 1) \o SubSeq(@, j + 1, Len(@))]
  OBVIOUS
<1>5. PICK f1 : f1 = [nodes EXCEPT ![h] = q]
  OBVIOUS
<1>6. nodes' = f1
  BY <1>2, <1>4, <1>5
<1>7. PICK c : c = nodes[h].tree[j].val
  OBVIOUS
<1>8. nodes[h].type = "hash" /\ h \notin gone
  BY <1>3, LiveHashes DEF Addresses
<1>9. Emptier(q, nodes[h], j)
  BY <1>1, <1>4, RemoveEntry
<1>10. \A i \in 1 .. Len(nodes[h].tree) : nodes[h].tree[i].key = nodes[h].tree[j].key => i = j
  BY <1>2
<1>11. /\ Plain(q) /\ (Texted(nodes[h], Len(nodes)) => Texted(q, Len(nodes)))
       /\ Vals(q) = Vals(nodes[h]) \ {c} /\ Subs(q) = Subs(nodes[h]) \ {c} /\ c \in Subs(nodes[h])
  BY <1>1, <1>7, <1>8, <1>9, <1>10, EmptierIs
<1>12. q \in Node /\ q.type = nodes[h].type /\ q.refCnt = nodes[h].refCnt
  BY <1>9 DEF Emptier
<1>13. /\ f1 \in Seq(Node) /\ Len(f1) = Len(nodes) /\ f1[h] = q
       /\ \A n \in 1 .. Len(nodes) : n # h => f1[n] = nodes[n]
  BY <1>1, <1>5, <1>12
<1>14. /\ ValsOf(f1) = [ValsOf(nodes) EXCEPT ![h] = @ \ {c}]
       /\ SubsOf(f1) = [SubsOf(nodes) EXCEPT ![h] = @ \ {c}]
  BY <1>1, <1>11, <1>13 DEF ValsOf, SubsOf
<1>15. HashesOf(f1) = HashesOf(nodes) /\ CountsOf(f1) = CountsOf(nodes)
  <2>1. \A n \in 1 .. Len(nodes) : f1[n].type = nodes[n].type /\ f1[n].refCnt = nodes[n].refCnt
    BY <1>12, <1>13
  <2> QED
    BY <1>13, <2>1 DEF HashesOf, CountsOf
<1>16. c \in SubsOf(nodes)[h]
  BY <1>1, <1>11 DEF SubsOf
<1>17. /\ Forest(Len(nodes), ValsOf(nodes), SubsOf(nodes))
       /\ Sets(Len(nodes), HashesOf(nodes), gone, abandoned)
       /\ Books(Len(nodes), ValsOf(nodes), SubsOf(nodes), HashesOf(nodes), CountsOf(nodes),
                gone, abandoned, wrappers)
  BY <1>1 DEF Account
<1>18. Sound(Len(nodes), ValsOf(f1), SubsOf(f1), HashesOf(nodes), CountsOf(nodes),
             gone, abandoned \cup {c}, wrappers)
  <2>1. h \in (1 .. Len(nodes)) \ gone
    BY <1>1, <1>8
  <2> QED
    BY <1>14, <1>16, <1>17, <2>1, TakeOut
<1>19. Good(f1, gone, abandoned \cup {c}, wrappers)
  <2>1. Account(f1, gone, abandoned \cup {c}, wrappers)
    BY <1>13, <1>15, <1>18 DEF Account, Sound
  <2>2. \A n \in 1 .. Len(f1) : Texted(f1[n], Len(f1)) /\ Plain(f1[n])
    <3> TAKE n \in 1 .. Len(f1)
    <3>1. n \in 1 .. Len(nodes) /\ Plain(nodes[n]) /\ Texted(nodes[n], Len(nodes))
      BY <1>1, <1>13
    <3>2. CASE n = h
      <4>1. Texted(nodes[h], Len(nodes))
        BY <1>1
      <4>2. Texted(q, Len(f1)) /\ Plain(q)
        BY <1>11, <1>13, <4>1
      <4>3. f1[n] = q
        BY <1>13, <3>2
      <4> QED
        BY <4>2, <4>3
    <3>3. CASE n # h
      BY <1>13, <3>1, <3>3
    <3> QED
      BY <3>2, <3>3
  <2> QED
    BY <1>1, <1>13, <2>1, <2>2 DEF Good
<1> QED
  BY <1>2, <1>3, <1>6, <1>7, <1>13, <1>19 DEF IInv, Addresses

(* w1 has one wrapper of h less.                                           *)
Less(w1, h) ==
  /\ w1 \in Seq(Nat) /\ Len(w1) = Len(nodes) /\ Total(w1) <= MaxWrappers
  /\ \A n \in 1 .. Len(nodes) : w1[n] = IF n = h THEN wrappers[n] - 1 ELSE wrappers[n]

(* What the nodes outside D that those in D lead to become, by their count. *)
Led(D) == HashesOf(nodes) \cap UNION {SubsOf(nodes)[m] : m \in D}

(* f1 is what Dealloc leaves when it frees D.                              *)
Swept(f1, D) ==
  /\ f1 \in Seq(Node) /\ Len(f1) = Len(nodes)
  /\ \A n \in 1 .. Len(nodes) :
       /\ f1[n].type = nodes[n].type /\ Texted(f1[n], Len(nodes)) /\ Plain(f1[n])
       /\ n \in D => Vals(f1[n]) = {} /\ Subs(f1[n]) = {}
       /\ n \notin D =>
            /\ Vals(f1[n]) = Vals(nodes[n]) /\ Subs(f1[n]) = Subs(nodes[n])
            /\ f1[n].refCnt = IF n \in Led(D) THEN nodes[n].refCnt - 1 ELSE nodes[n].refCnt

(* f1 is nodes with one reference to h less.                               *)
Lowered(f1, h) ==
  /\ f1 \in Seq(Node) /\ Len(f1) = Len(nodes)
  /\ \A n \in 1 .. Len(nodes) :
       /\ Vals(f1[n]) = Vals(nodes[n]) /\ Subs(f1[n]) = Subs(nodes[n]) /\ f1[n].type = nodes[n].type
       /\ Plain(f1[n]) /\ Texted(f1[n], Len(nodes))
       /\ f1[n].refCnt = IF n = h THEN nodes[n].refCnt - 1 ELSE nodes[n].refCnt

(* One wrapper less.                                                       *)
LEMMA Released ==
  ASSUME IInv, NEW h \in Addresses, wrappers[h] > 0, NEW w1, w1 = [wrappers EXCEPT ![h] = @ - 1]
  PROVE  Less(w1, h)
<1>1. /\ wrappers \in Seq(Nat) /\ Len(wrappers) = Len(nodes) /\ Len(nodes) \in Nat
      /\ h \in 1 .. Len(nodes) /\ Total(wrappers) <= MaxWrappers
  BY IInvShape DEF IInv, Addresses
<1>2. \A n \in 1 .. Len(nodes) : wrappers[n] \in Nat
  BY <1>1
<1>3. \A n \in 1 .. Len(nodes) : w1[n] = IF n = h THEN wrappers[n] - 1 ELSE wrappers[n]
  BY <1>1
<1>4. \A n \in 1 .. Len(nodes) : w1[n] \in Nat /\ w1[n] <= wrappers[n]
  BY <1>1, <1>2, <1>3
<1>5. w1 \in Seq(Nat) /\ Len(w1) = Len(nodes)
  <2>1. wrappers[h] - 1 \in Nat
    BY <1>1, <1>2
  <2> QED
    BY <1>1, <2>1
<1>6. PICK d : d = [n \in 0 .. Len(nodes) |-> 0]
  OBVIOUS
<1>7. d[0] = 0 /\ d[Len(nodes)] = 0 /\ \A n \in 0 .. Len(nodes) : d[n] \in Nat
  BY <1>1, <1>6
<1>8. \A n \in 1 .. Len(nodes) : w1[n] + d[n - 1] <= wrappers[n] + d[n]
  <2> TAKE n \in 1 .. Len(nodes)
  <2>1. n - 1 \in 0 .. Len(nodes) /\ n \in 0 .. Len(nodes)
    BY <1>1
  <2>2. d[n - 1] = 0 /\ d[n] = 0
    BY <1>6, <2>1
  <2> QED
    BY <1>2, <1>4, <2>2
<1>9. Total(w1) <= Total(wrappers) + d[Len(wrappers)]
  BY <1>1, <1>5, <1>7, <1>8, TotalCompare
<1>10. Total(w1) \in Nat /\ Total(wrappers) \in Nat /\ MaxWrappers \in Nat
  BY <1>1, <1>5, TotalBounds, LifeAssumption
<1>11. Total(w1) <= MaxWrappers
  BY <1>1, <1>7, <1>9, <1>10
<1> QED
  BY <1>3, <1>5, <1>11 DEF Less

(* A hash dies with the only reference to it, and anything else with what  *)
(* holds it.                                                               *)
LEMMA DiesIf ==
  ASSUME IInv, NEW n \in Addresses \ gone
  PROVE  /\ Dies(n) <=> (n \in HashesOf(nodes) => CountsOf(nodes)[n] = 0)
         /\ n \in HashesOf(nodes) /\ ~ Dies(n) => Down(nodes[n].refCnt) = nodes[n].refCnt - 1
<1>1. nodes \in Seq(Node) /\ n \in 1 .. Len(nodes)
  BY IInvShape DEF Addresses
<1>2. CountsOf(nodes)[n] = nodes[n].refCnt /\ (n \in HashesOf(nodes) <=> IsHash(n))
  BY <1>1, Columns DEF IsHash
<1>3. CASE n \in HashesOf(nodes)
  <2>1. PICK c : c = nodes[n].refCnt
    OBVIOUS
  <2>2. c \in Nat /\ wrappers[n] \in Nat /\ c <= wrappers[n] /\ wrappers[n] <= MaxWrappers
    BY <1>3, <2>1, LiveHashes
  <2>3. c <= Width - 2 /\ Width \in Nat /\ c < Width
    BY <2>2, LifeAssumption
  <2>4. Down(c) >= Width - 2 <=> c = 0
    BY <2>2, <2>3, Counting
  <2>5. c > 0 => Down(c) = c - 1
    BY <2>2, <2>3, Counting
  <2>6. Dies(n) <=> c = 0
    BY <1>2, <1>3, <2>1, <2>4 DEF Dies
  <2> QED
    BY <1>2, <1>3, <2>1, <2>2, <2>5, <2>6
<1>4. CASE n \notin HashesOf(nodes)
  BY <1>2, <1>4 DEF Dies
<1> QED
  BY <1>3, <1>4

(* D is what dies with h.                                                  *)
FreesAll(h, D) == Removes(Len(nodes), SubsOf(nodes), HashesOf(nodes), CountsOf(nodes), gone, h, D)

LEMMA SweepRemoves ==
  ASSUME IInv, NEW h \in HashesOf(nodes) \ gone, CountsOf(nodes)[h] = 0
  PROVE  FreesAll(h, Sweep(h))
<1>1. PICK g : Walk(Addresses, DyingLinks, Self, g) /\ \A n : Sweep(n) = g[n]
  BY IInvShape, SweepIsWalk
<1>2. Descends(Addresses, Rank, DyingLinks)
  BY IInvShape, Descending
<1>3. PICK D : D = Sweep(h)
  OBVIOUS
<1>4. h \in Addresses /\ h \notin gone
  BY LiveHashes
<1>5. \A m \in Addresses : Self[m] = {m}
  BY DEF Self
<1>6. /\ h \in g[h] /\ g[h] \subseteq Addresses
      /\ \A x \in g[h] : DyingLinks[x] \subseteq g[h]
  BY <1>1, <1>2, <1>4, <1>5, WalkClosed
<1>7. \A x \in g[h] \ {h} : \E y \in g[h] : x \in DyingLinks[y]
  BY <1>1, <1>2, <1>4, <1>5, WalkReached
<1>8. g[h] \subseteq Addresses \ gone
  <2>1. PICK C : C = Addresses \ gone
    OBVIOUS
  <2>2. C \in SUBSET Addresses /\ \A m \in C : DyingLinks[m] \subseteq C
    BY <2>1, LiveLinks DEF DyingLinks
  <2>3. \A m \in C : Self[m] \subseteq C
    BY <1>5, <2>2
  <2>4. \A m \in C : g[m] \subseteq C
    BY <1>1, <1>2, <2>2, <2>3, WalkWithin
  <2> QED
    BY <1>4, <2>1, <2>4
<1>9. D = g[h]
  BY <1>1, <1>3
<1>10. \A m \in Addresses : DyingLinks[m] = {c \in Sub(m) : Dies(c)} /\ Sub(m) = SubsOf(nodes)[m]
  BY IInvShape, ShapeIs DEF DyingLinks
<1>11. \A c \in D \ {h} : \E m \in D : c \in SubsOf(nodes)[m]
  BY <1>6, <1>7, <1>9, <1>10
<1>12. ASSUME NEW m \in D, NEW c \in SubsOf(nodes)[m]
       PROVE  c \in D <=> (c \in HashesOf(nodes) => CountsOf(nodes)[c] = 0)
  <2>1. m \in Addresses \ gone
    BY <1>8, <1>9
  <2>2. c \in Sub(m) /\ c \in Addresses \ gone
    BY <1>10, <2>1, LiveLinks
  <2>3. Dies(c) <=> (c \in HashesOf(nodes) => CountsOf(nodes)[c] = 0)
    BY <2>2, DiesIf
  <2>4. Dies(c) => c \in D
    BY <1>6, <1>9, <1>10, <2>1, <2>2
  <2>5. c \in D /\ c # h => Dies(c)
    BY <1>6, <1>7, <1>9, <1>10
  <2> QED
    BY <2>3, <2>4, <2>5
<1>13. D \subseteq 1 .. Len(nodes) /\ h \in D /\ D \cap gone = {}
  BY <1>6, <1>8, <1>9 DEF Addresses
<1>14. \A c \in UNION {SubsOf(nodes)[m] : m \in D} :
          c \in D <=> (c \in HashesOf(nodes) => CountsOf(nodes)[c] = 0)
  BY <1>12
<1>15. Removes(Len(nodes), SubsOf(nodes), HashesOf(nodes), CountsOf(nodes), gone, h, D)
  BY <1>11, <1>13, <1>14 DEF Removes
<1> QED
  BY <1>3, <1>15 DEF FreesAll

(* A freed node.                                                           *)
LEMMA FreedIs ==
  ASSUME NEW n, nodes[n] \in Node
  PROVE  /\ Freed(n) \in Node /\ Freed(n).type = nodes[n].type /\ Plain(Freed(n))
         /\ Vals(Freed(n)) = {} /\ Subs(Freed(n)) = {} /\ \A L \in Nat : Texted(Freed(n), L)
<1>1. PICK r : r = Freed(n)
  OBVIOUS
<1>2. /\ r.type = nodes[n].type /\ r.refCnt = 0 /\ r.tree = <<>> /\ r.items = <<>> /\ r.text = 0
      /\ r \in Node
  <2>1. 0 \in 0 .. Width - 1 /\ <<>> \in Seq(Entry) /\ <<>> \in Seq(Nat)
    BY LifeAssumption
  <2> QED
    BY <1>1, <2>1 DEF Freed, Node, Owned
<1>3. 1 .. Len(r.tree) = {} /\ 1 .. Len(r.items) = {}
  BY <1>2
<1>4. Vals(r) = {} /\ Subs(r) = {}
  BY <1>3 DEF Vals, Subs
<1>5. Plain(r)
  BY <1>2, <1>3 DEF Plain
<1>6. \A L \in Nat : Texted(r, L)
  BY <1>2, <1>3 DEF Texted
<1> QED
  BY <1>1, <1>2, <1>4, <1>5, <1>6

(* A count that Dealloc lowers is not 0.                                   *)
LEMMA DownIs ==
  ASSUME IInv, NEW n \in HashesOf(nodes) \ gone, CountsOf(nodes)[n] # 0
  PROVE  /\ Down(nodes[n].refCnt) = nodes[n].refCnt - 1
         /\ nodes[n].refCnt - 1 \in 0 .. Width - 1 /\ nodes[n].refCnt \in Nat
<1>1. nodes \in Seq(Node) /\ n \in 1 .. Len(nodes) /\ n \in Addresses \ gone
  BY IInvShape, LiveHashes DEF Addresses
<1>2. PICK c : c = nodes[n].refCnt
  OBVIOUS
<1>3. c \in 0 .. Width - 1 /\ c # 0 /\ Width \in Nat
  BY <1>1, <1>2, Columns, LifeAssumption
<1>4. c - 1 \in 0 .. Width - 1 /\ c \in Nat
  BY <1>3
<1>5. Down(nodes[n].refCnt) = nodes[n].refCnt - 1
  BY <1>1, DiesIf, <1>2, <1>3, Columns
<1> QED
  BY <1>2, <1>4, <1>5

(* The nodes that those in D lead to.                                      *)
LEMMA LedIs ==
  ASSUME IInv, NEW h, NEW D, FreesAll(h, D), NEW n \in (1 .. Len(nodes)) \ D
  PROVE  /\ n \in Led(D) <=> n \in {c \in UNION {Sub(m) : m \in D} : IsHash(c)}
         /\ n \in Led(D) => n \in HashesOf(nodes) \ gone /\ CountsOf(nodes)[n] # 0
<1>1. /\ D \subseteq 1 .. Len(nodes) /\ D \cap gone = {}
      /\ \A c \in UNION {SubsOf(nodes)[m] : m \in D} :
           c \in D <=> (c \in HashesOf(nodes) => CountsOf(nodes)[c] = 0)
  BY DEF Removes, FreesAll
<1>2. \A m \in D : Sub(m) = SubsOf(nodes)[m] /\ Sub(m) \subseteq (1 .. Len(nodes)) \ gone
  BY <1>1, IInvShape, ShapeIs, LiveLinks DEF Addresses
<1>3. IsHash(n) <=> n \in HashesOf(nodes)
  BY DEF IsHash, HashesOf
<1>4. n \in Led(D) <=> n \in {c \in UNION {Sub(m) : m \in D} : IsHash(c)}
  BY <1>2, <1>3 DEF Led
<1>5. n \in Led(D) => n \in HashesOf(nodes) \ gone /\ CountsOf(nodes)[n] # 0
  BY <1>1, <1>2 DEF Led
<1> QED
  BY <1>4, <1>5

(* A node that Dealloc counts down.                                        *)
LEMMA CountedDown ==
  ASSUME IInv, NEW n \in HashesOf(nodes) \ gone, CountsOf(nodes)[n] # 0,
         NEW q, q = [nodes[n] EXCEPT !.refCnt = Down(@)]
  PROVE  /\ q \in Node /\ q.type = nodes[n].type /\ q.refCnt = nodes[n].refCnt - 1
         /\ Vals(q) = Vals(nodes[n]) /\ Subs(q) = Subs(nodes[n])
         /\ Plain(q) /\ Texted(q, Len(nodes))
<1>1. /\ nodes[n] \in Node /\ Plain(nodes[n]) /\ Texted(nodes[n], Len(nodes))
  BY IInvShape, LiveHashes DEF IInv, Good, Addresses
<1>2. PICK r : r = nodes[n]
  OBVIOUS
<1>3. PICK c : c = nodes[n].refCnt - 1
  OBVIOUS
<1>4. c \in 0 .. Width - 1 /\ q = [r EXCEPT !.refCnt = c] /\ r \in Node
  BY <1>1, <1>2, <1>3, DownIs
<1>5. q \in Node /\ q.type = r.type /\ q.tree = r.tree /\ q.items = r.items /\ q.text = r.text /\ q.refCnt = c
  BY <1>4 DEF Node
<1>6. Vals(q) = Vals(r) /\ Subs(q) = Subs(r) /\ (Plain(q) <=> Plain(r)) /\ \A L : Texted(q, L) <=> Texted(r, L)
  BY <1>5, SameLinks
<1> QED
  BY <1>1, <1>2, <1>3, <1>5, <1>6

LEMMA SweptIs ==
  ASSUME IInv, NEW h, NEW D, FreesAll(h, D), NEW C, C = {h} \cup {n \in UNION {Sub(m) : m \in D} : IsHash(n)},
         NEW f1, f1 = [n \in Addresses |-> IF n \in D THEN Freed(n)
                                           ELSE IF n \in C THEN [nodes[n] EXCEPT !.refCnt = Down(@)]
                                           ELSE nodes[n]]
  PROVE  Swept(f1, D)
<1>1. /\ Len(nodes) \in Nat /\ h \in D
      /\ \A n \in 1 .. Len(nodes) : Texted(nodes[n], Len(nodes)) /\ Plain(nodes[n]) /\ nodes[n] \in Node
  BY DEF IInv, Good, Removes, FreesAll
<1>2. ASSUME NEW n \in 1 .. Len(nodes)
      PROVE  /\ f1[n] \in Node
             /\ f1[n].type = nodes[n].type /\ Texted(f1[n], Len(nodes)) /\ Plain(f1[n])
             /\ n \in D => Vals(f1[n]) = {} /\ Subs(f1[n]) = {}
             /\ n \notin D =>
                  /\ Vals(f1[n]) = Vals(nodes[n]) /\ Subs(f1[n]) = Subs(nodes[n])
                  /\ f1[n].refCnt = IF n \in Led(D) THEN nodes[n].refCnt - 1 ELSE nodes[n].refCnt
  <2>1. CASE n \in D
    <3>1. f1[n] = Freed(n)
      BY <2>1 DEF Addresses
    <3>2. nodes[n] \in Node /\ Len(nodes) \in Nat
      BY <1>1
    <3> QED
      BY <2>1, <3>1, <3>2, FreedIs
  <2>2. CASE n \notin D /\ n \in C
    <3>1. PICK q : q = [nodes[n] EXCEPT !.refCnt = Down(@)]
      OBVIOUS
    <3>2. f1[n] = q
      BY <2>2, <3>1 DEF Addresses
    <3>3. n \in Led(D) /\ n \in HashesOf(nodes) \ gone /\ CountsOf(nodes)[n] # 0
      BY <1>1, <2>2, LedIs
    <3> QED
      BY <2>2, <3>1, <3>2, <3>3, CountedDown
  <2>3. CASE n \notin D /\ n \notin C
    <3>1. f1[n] = nodes[n]
      BY <2>3 DEF Addresses
    <3>2. n \notin Led(D)
      BY <2>3, LedIs
    <3> QED
      BY <1>1, <2>3, <3>1, <3>2
  <2> QED
    BY <2>1, <2>2, <2>3
<1>3. f1 \in Seq(Node) /\ Len(f1) = Len(nodes)
  <2>1. f1 \in [1 .. Len(nodes) -> Node]
    BY <1>2 DEF Addresses
  <2> QED
    BY <1>1, <2>1, SeqOf
<1> QED
  BY <1>2, <1>3 DEF Swept

(* The books once D is freed.                                              *)
LEMMA SweptCleared ==
  ASSUME IInv, NEW h, NEW D, NEW f1, Swept(f1, D), NEW w1, Less(w1, h)
  PROVE  Cleared(Len(nodes), ValsOf(nodes), SubsOf(nodes), HashesOf(nodes), CountsOf(nodes), wrappers, h, D,
                 ValsOf(f1), SubsOf(f1), CountsOf(f1), w1)
<1>1. nodes \in Seq(Node) /\ f1 \in Seq(Node) /\ Len(f1) = Len(nodes)
  BY IInvShape DEF Swept
<1>2. IsTable(ValsOf(f1), Len(nodes)) /\ IsTable(SubsOf(f1), Len(nodes))
  BY <1>1, Columns
<1>3. \A n \in 1 .. Len(nodes) :
           /\ ValsOf(nodes)[n] = Vals(nodes[n]) /\ SubsOf(nodes)[n] = Subs(nodes[n])
           /\ CountsOf(nodes)[n] = nodes[n].refCnt
  BY <1>1, Columns
<1>4. \A n \in 1 .. Len(nodes) :
         ValsOf(f1)[n] = Vals(f1[n]) /\ SubsOf(f1)[n] = Subs(f1[n]) /\ CountsOf(f1)[n] = f1[n].refCnt
  BY <1>1, Columns
<1>5. \A n \in 1 .. Len(nodes) : IF n \in D THEN ValsOf(f1)[n] = {} /\ SubsOf(f1)[n] = {}
                                 ELSE ValsOf(f1)[n] = ValsOf(nodes)[n] /\ SubsOf(f1)[n] = SubsOf(nodes)[n]
  BY <1>3, <1>4 DEF Swept
<1>6. \A n \in (1 .. Len(nodes)) \ D :
         CountsOf(f1)[n] = IF n \in HashesOf(nodes) /\ n \in UNION {SubsOf(nodes)[m] : m \in D}
                           THEN CountsOf(nodes)[n] - 1 ELSE CountsOf(nodes)[n]
  BY <1>3, <1>4 DEF Swept, Led
<1> QED
  BY <1>2, <1>5, <1>6 DEF Cleared, Less

(* The only reference to h is given back.                                  *)
LEMMA LastReleased ==
  ASSUME IInv, NEW h \in HashesOf(nodes) \ gone, wrappers[h] > 0, CountsOf(nodes)[h] = 0,
         NEW D, FreesAll(h, D), NEW f1, Swept(f1, D), NEW w1, Less(w1, h)
  PROVE  Good(f1, gone \cup D, abandoned \ D, w1)
<1>1. nodes \in Seq(Node) /\ Account(nodes, gone, abandoned, wrappers)
  BY DEF IInv, Good
<1>2. /\ f1 \in Seq(Node) /\ Len(f1) = Len(nodes) /\ w1 \in Seq(Nat) /\ Len(w1) = Len(nodes)
      /\ wrappers \in Seq(Nat) /\ Len(wrappers) = Len(nodes)
  BY IInvShape DEF Swept, Less
<1>3. HashesOf(f1) = HashesOf(nodes)
  BY DEF HashesOf, Swept
<1>4. Cleared(Len(nodes), ValsOf(nodes), SubsOf(nodes), HashesOf(nodes), CountsOf(nodes), wrappers, h, D,
              ValsOf(f1), SubsOf(f1), CountsOf(f1), w1)
  BY SweptCleared
<1>5. Sound(Len(nodes), ValsOf(f1), SubsOf(f1), HashesOf(nodes), CountsOf(f1), gone \cup D, abandoned \ D, w1)
  <2>1. /\ Forest(Len(nodes), ValsOf(nodes), SubsOf(nodes))
        /\ Sets(Len(nodes), HashesOf(nodes), gone, abandoned)
        /\ Books(Len(nodes), ValsOf(nodes), SubsOf(nodes), HashesOf(nodes), CountsOf(nodes),
                 gone, abandoned, wrappers)
    BY <1>1 DEF Account
  <2>2. Tables(Len(nodes), CountsOf(nodes), wrappers) /\ Tables(Len(nodes), CountsOf(f1), w1)
    BY <1>1, <1>2, Columns
  <2> QED
    BY <1>4, <2>1, <2>2, CutDown DEF FreesAll
<1>6. Account(f1, gone \cup D, abandoned \ D, w1)
  BY <1>2, <1>3, <1>5 DEF Account, Sound
<1> QED
  BY <1>2, <1>6 DEF Good, Swept

LEMMA LoweredIs ==
  ASSUME IInv, NEW h \in HashesOf(nodes) \ gone, CountsOf(nodes)[h] # 0,
         NEW q, q = [nodes[h] EXCEPT !.refCnt = Down(@)],
         NEW f1, f1 = [n \in Addresses |-> IF n = h THEN q ELSE nodes[n]]
  PROVE  Lowered(f1, h)
<1>1. /\ Len(nodes) \in Nat
      /\ \A n \in 1 .. Len(nodes) : Texted(nodes[n], Len(nodes)) /\ Plain(nodes[n]) /\ nodes[n] \in Node
  BY DEF IInv, Good
<1>2. /\ q \in Node /\ q.type = nodes[h].type /\ q.refCnt = nodes[h].refCnt - 1
      /\ Vals(q) = Vals(nodes[h]) /\ Subs(q) = Subs(nodes[h]) /\ Plain(q) /\ Texted(q, Len(nodes))
  BY CountedDown
<1>3. ASSUME NEW n \in 1 .. Len(nodes)
      PROVE  /\ f1[n] \in Node /\ Vals(f1[n]) = Vals(nodes[n]) /\ Subs(f1[n]) = Subs(nodes[n])
             /\ f1[n].type = nodes[n].type /\ Plain(f1[n]) /\ Texted(f1[n], Len(nodes))
             /\ f1[n].refCnt = IF n = h THEN nodes[n].refCnt - 1 ELSE nodes[n].refCnt
  <2>1. CASE n = h
    <3>1. f1[n] = q
      BY <2>1 DEF Addresses
    <3> QED
      BY <1>2, <2>1, <3>1
  <2>2. CASE n # h
    <3>1. f1[n] = nodes[n]
      BY <2>2 DEF Addresses
    <3> QED
      BY <1>1, <2>2, <3>1
  <2> QED
    BY <2>1, <2>2
<1>4. f1 \in Seq(Node) /\ Len(f1) = Len(nodes)
  <2>1. f1 \in [1 .. Len(nodes) -> Node]
    BY <1>3 DEF Addresses
  <2> QED
    BY <1>1, <2>1, SeqOf
<1> QED
  BY <1>3, <1>4 DEF Lowered

(* One of the references to h is given back.                               *)
LEMMA OneReleased ==
  ASSUME IInv, NEW h \in HashesOf(nodes) \ gone, wrappers[h] > 0,
         NEW f1, Lowered(f1, h), NEW w1, Less(w1, h)
  PROVE  Good(f1, gone, abandoned, w1)
<1>1. /\ nodes \in Seq(Node) /\ Account(nodes, gone, abandoned, wrappers)
      /\ wrappers \in Seq(Nat) /\ Len(wrappers) = Len(nodes)
  BY DEF IInv, Good
<1>2. f1 \in Seq(Node) /\ Len(f1) = Len(nodes) /\ w1 \in Seq(Nat) /\ Len(w1) = Len(nodes)
  BY DEF Lowered, Less
<1>3. ValsOf(f1) = ValsOf(nodes) /\ SubsOf(f1) = SubsOf(nodes) /\ HashesOf(f1) = HashesOf(nodes)
  BY <1>2, SameTables DEF Lowered
<1>4. Raised(Len(nodes), {h}, CountsOf(f1), w1, CountsOf(nodes), wrappers)
  <2>1. ASSUME NEW n \in 1 .. Len(nodes)
        PROVE  IF n \in {h} THEN CountsOf(nodes)[n] = CountsOf(f1)[n] + 1 /\ wrappers[n] = w1[n] + 1
               ELSE CountsOf(nodes)[n] = CountsOf(f1)[n] /\ wrappers[n] = w1[n]
    <3>1. /\ CountsOf(f1)[n] = IF n = h THEN CountsOf(nodes)[n] - 1 ELSE CountsOf(nodes)[n]
          /\ CountsOf(nodes)[n] \in Nat
      <4>1. /\ CountsOf(f1)[n] = f1[n].refCnt /\ CountsOf(nodes)[n] = nodes[n].refCnt
            /\ CountsOf(nodes)[n] \in Nat
        BY <1>1, <1>2, Columns
      <4> QED
        BY <4>1 DEF Lowered
    <3>2. w1[n] = (IF n = h THEN wrappers[n] - 1 ELSE wrappers[n]) /\ wrappers[n] \in Nat
      BY <1>1 DEF Less
    <3> QED
      BY <3>1, <3>2
  <2> QED
    BY <2>1 DEF Raised
<1>5. Books(Len(nodes), ValsOf(nodes), SubsOf(nodes), HashesOf(nodes), CountsOf(f1), gone, abandoned, w1)
  <2>1. /\ Sets(Len(nodes), HashesOf(nodes), gone, abandoned)
        /\ Books(Len(nodes), ValsOf(nodes), SubsOf(nodes), HashesOf(nodes), CountsOf(nodes),
                 gone, abandoned, wrappers)
    BY <1>1 DEF Account
  <2>2. Tables(Len(nodes), CountsOf(nodes), wrappers) /\ Tables(Len(nodes), CountsOf(f1), w1)
    BY <1>1, <1>2, Columns
  <2> QED
    BY <1>4, <2>1, <2>2, CountOff
<1>6. Account(f1, gone, abandoned, w1)
  BY <1>1, <1>2, <1>3, <1>5 DEF Account
<1> QED
  BY <1>2, <1>6 DEF Good, Lowered

LEMMA DeallocKeeps ==
  ASSUME IInv, NEW h \in Addresses, Dealloc(h)
  PROVE  IInv'
<1>1. PICK D : D = IF Dies(h) THEN Sweep(h) ELSE {}
  OBVIOUS
<1>2. PICK C : C = {h} \cup {n \in UNION {Sub(m) : m \in D} : IsHash(n)}
  OBVIOUS
<1>3. PICK f1 : f1 = [n \in Addresses |-> IF n \in D THEN Freed(n)
                                           ELSE IF n \in C THEN [nodes[n] EXCEPT !.refCnt = Down(@)]
                                           ELSE nodes[n]]
  OBVIOUS
<1>4. PICK w1 : w1 = [wrappers EXCEPT ![h] = @ - 1]
  OBVIOUS
<1>5. /\ wrappers[h] > 0 /\ texts' = texts
      /\ \/ /\ nodes' = f1 /\ gone' = gone \cup D /\ abandoned' = abandoned \ D /\ wrappers' = w1 /\ pc' = pc
         \/ /\ pc' = "Undefined" /\ UNCHANGED <<nodes, gone, wrappers, abandoned>>
  BY <1>1, <1>2, <1>3, <1>4 DEF Dealloc, Call
<1>6. h \in HashesOf(nodes) \ gone /\ h \in Addresses \ gone
  BY <1>5, LiveHashes
<1>7. Less(w1, h)
  BY <1>4, <1>5, Released
<1>8. Good(f1, gone \cup D, abandoned \ D, w1) /\ Len(f1) = Len(nodes)
  <2>1. CASE Dies(h)
    <3>1. CountsOf(nodes)[h] = 0
      BY <1>6, <2>1, DiesIf
    <3>2. FreesAll(h, D)
      BY <1>1, <1>6, <2>1, <3>1, SweepRemoves
    <3>3. Swept(f1, D)
      BY <1>2, <1>3, <3>2, SweptIs
    <3>4. Good(f1, gone \cup D, abandoned \ D, w1)
      BY <1>5, <1>6, <1>7, <3>1, <3>2, <3>3, LastReleased
    <3> QED
      BY <3>3, <3>4 DEF Swept
  <2>2. CASE ~ Dies(h)
    <3>1. D = {} /\ C = {h}
      BY <1>1, <1>2, <2>2
    <3>2. PICK q : q = [nodes[h] EXCEPT !.refCnt = Down(@)]
      OBVIOUS
    <3>3. f1 = [n \in Addresses |-> IF n = h THEN q ELSE nodes[n]]
      BY <1>3, <3>1, <3>2
    <3>4. CountsOf(nodes)[h] # 0
      BY <1>6, <2>2, DiesIf
    <3>5. Lowered(f1, h)
      BY <1>6, <3>2, <3>3, <3>4, LoweredIs
    <3>6. Good(f1, gone, abandoned, w1)
      BY <1>5, <1>6, <1>7, <3>5, OneReleased
    <3>7. gone \cup D = gone /\ abandoned \ D = abandoned
      BY <3>1
    <3> QED
      BY <3>5, <3>6, <3>7 DEF Lowered
  <2> QED
    BY <2>1, <2>2
<1>9. CASE /\ nodes' = f1 /\ gone' = gone \cup D /\ abandoned' = abandoned \ D /\ wrappers' = w1 /\ pc' = pc
  BY <1>5, <1>7, <1>8, <1>9 DEF IInv, Addresses, Less
<1>10. CASE pc' = "Undefined" /\ UNCHANGED <<nodes, gone, wrappers, abandoned>>
  BY <1>5, <1>10 DEF IInv, Addresses
<1> QED
  BY <1>5, <1>9, <1>10

-----------------------------------------------------------------------------
(* Every step keeps the invariant.                                         *)
LEMMA StepKeeps ==
  ASSUME IInv, [Next]_vars
  PROVE  IInv'
<1>1. CASE \E doc \in Texts : InitWithString(doc)
  BY <1>1, InitWithStringKeeps
<1>2. CASE \E doc \in Values : InitWithDict(doc)
  BY <1>2, InitWithDictKeeps
<1>3. ASSUME NEW h \in Addresses, NEW k \in Keys, ObjectForKey(h, k)
      PROVE  IInv'
  BY <1>3, ObjectForKeyKeeps
<1>4. ASSUME NEW h \in Addresses, NEW k \in Keys, RemoveObject(h, k)
      PROVE  IInv'
  BY <1>4, RemoveObjectKeeps
<1>5. ASSUME NEW h \in Addresses, NEW k \in Keys, NEW doc \in Values, SetObject(h, k, doc)
      PROVE  IInv'
  BY <1>5, SetObjectKeeps
<1>6. ASSUME NEW h \in Addresses, Dealloc(h)
      PROVE  IInv'
  BY <1>6, DeallocKeeps
<1>7. ASSUME NEW h \in Addresses, ReadVanished(h)
      PROVE  IInv'
  BY <1>7 DEF ReadVanished, IInv, Addresses
<1>8. ASSUME NEW b \in texts, Vanish(b)
      PROVE  IInv'
  BY <1>8 DEF Vanish, IInv, Addresses
<1>9. CASE UNCHANGED vars
  BY <1>9 DEF vars, IInv, Addresses
<1> QED
  BY <1>1, <1>2, <1>3, <1>4, <1>5, <1>6, <1>7, <1>8, <1>9 DEF Next, Rest

LEMMA Invariant == Spec => []IInv
<1>1. Init => IInv
  BY InitKeeps
<1>2. IInv /\ [Next]_vars => IInv'
  BY StepKeeps
<1> QED
  BY <1>1, <1>2, PTL DEF Spec

-----------------------------------------------------------------------------
(* The results.                                                            *)

LEMMA TypeHolds ==
  ASSUME IInv
  PROVE  TypeOK
<1>1. /\ nodes \in Seq(Node) /\ wrappers \in Seq(Nat) /\ Len(wrappers) = Len(nodes) /\ Len(nodes) \in Nat
      /\ gone \subseteq Addresses /\ abandoned \subseteq Addresses /\ Total(wrappers) <= MaxWrappers
      /\ texts \subseteq Addresses /\ pc \in {"Running", "Undefined"}
  BY IInvShape DEF IInv
<1>2. ASSUME NEW n \in Addresses
      PROVE  /\ nodes[n].type \in Types
             /\ nodes[n].refCnt \in 0 .. Width - 1
             /\ nodes[n].text \in Addresses \cup {Owned}
             /\ \A e \in {nodes[n].tree[j] : j \in 1 .. Len(nodes[n].tree)} :
                  e.key \in Keys /\ e.text \in Addresses \cup {Owned} /\ e.val \in Addresses
             /\ \A j \in 1 .. Len(nodes[n].items) : nodes[n].items[j] \in Addresses
  <2>1. nodes[n] \in Node /\ Texted(nodes[n], Len(nodes)) /\ Stored(n) \subseteq Addresses
    BY <1>1, IInvShape, ShapeIs DEF IInv, Good, Addresses
  <2>2. PICK r : r = nodes[n]
    OBVIOUS
  <2>3. r.type \in Types /\ r.refCnt \in 0 .. Width - 1 /\ \A j \in 1 .. Len(r.tree) : r.tree[j].key \in Keys
    BY <2>1, <2>2, NodeFields
  <2>4. 0 .. Len(nodes) \subseteq Addresses \cup {Owned}
    BY <1>1 DEF Addresses, Owned
  <2>5. r.text \in Addresses \cup {Owned} /\ \A j \in 1 .. Len(r.tree) : r.tree[j].text \in Addresses \cup {Owned}
    BY <2>1, <2>2, <2>4 DEF Texted
  <2>6. /\ \A j \in 1 .. Len(r.tree) : r.tree[j].val \in Addresses
        /\ \A j \in 1 .. Len(r.items) : r.items[j] \in Addresses
    BY <2>1, <2>2 DEF Stored
  <2> QED
    BY <2>2, <2>3, <2>5, <2>6
<1>3. wrappers \in [Addresses -> 0 .. MaxWrappers]
  <2>1. \A n \in 1 .. Len(nodes) : wrappers[n] \in Nat /\ wrappers[n] <= Total(wrappers)
    BY <1>1, TotalBounds
  <2>2. Total(wrappers) \in Nat /\ MaxWrappers \in Nat
    BY <1>1, TotalBounds, LifeAssumption
  <2>3. \A n \in 1 .. Len(nodes) : wrappers[n] \in 0 .. MaxWrappers
    BY <1>1, <2>1, <2>2
  <2> QED
    BY <1>1, <2>3 DEF Addresses
<1> QED
  BY <1>1, <1>2, <1>3 DEF TypeOK

LEMMA AliveHolds ==
  ASSUME IInv
  PROVE  WrappedAlive
<1>1. PICK g : Walk(Addresses, SubLinks, Self, g) /\ \A n : Reach(n) = g[n]
  BY IInvShape, ReachIsWalk
<1>2. Descends(Addresses, Rank, SubLinks)
  BY IInvShape, Descending
<1>3. PICK C : C = Addresses \ gone
  OBVIOUS
<1>4. C \in SUBSET Addresses /\ \A m \in C : SubLinks[m] \subseteq C /\ Self[m] \subseteq C
  BY <1>3, LiveLinks DEF SubLinks, Self
<1>5. \A m \in C : g[m] \subseteq C
  BY <1>1, <1>2, <1>4, WalkWithin
<1>6. \A h \in InUse : h \in C
  BY <1>3, LiveHashes DEF InUse
<1> QED
  BY <1>1, <1>3, <1>5, <1>6 DEF WrappedAlive

LEMMA HeldIs ==
  ASSUME IInv, NEW h \in Addresses
  PROVE  HeldByOther(h) <=> IsHeld(Len(nodes), ValsOf(nodes), gone, abandoned, h)
<1>1. \A c \in Addresses : Stored(c) = ValsOf(nodes)[c]
  BY IInvShape, ShapeIs
<1> QED
  BY <1>1 DEF HeldByOther, IsHeld, Addresses

LEMMA CountsHold ==
  ASSUME IInv
  PROVE  CountsReferences
<1>1. Books(Len(nodes), ValsOf(nodes), SubsOf(nodes), HashesOf(nodes), CountsOf(nodes), gone, abandoned, wrappers)
  BY DEF IInv, Good, Account
<1>2. ASSUME NEW h \in Addresses \ gone, IsHash(h)
      PROVE  nodes[h].refCnt + 1 = wrappers[h] + (IF HeldByOther(h) THEN 1 ELSE 0)
  <2>1. h \in HashesOf(nodes) \ gone /\ CountsOf(nodes)[h] = nodes[h].refCnt
    BY <1>2, IInvShape, Columns DEF IsHash, Addresses
  <2>2. wrappers[h] \in Nat /\ nodes[h].refCnt \in Nat
    BY <2>1, LiveHashes
  <2>3. /\ HeldByOther(h) => nodes[h].refCnt = wrappers[h]
        /\ ~ HeldByOther(h) => nodes[h].refCnt + 1 = wrappers[h]
    BY <1>1, <2>1, HeldIs DEF Books
  <2>4. PICK c : c = nodes[h].refCnt
    OBVIOUS
  <2> QED
    BY <2>2, <2>3, <2>4
<1> QED
  BY <1>2 DEF CountsReferences

(* Every node that is not gone is stored below one that a wrapper or a      *)
(* reference left behind leads to: the first that is not would have no     *)
(* holder.                                                                 *)
LEMMA ReleasedHolds ==
  ASSUME IInv
  PROVE  HashesReleased
<1>1. PICK g : Walk(Addresses, StoredLinks, Self, g) /\ \A n : AllOf(n) = g[n]
  BY IInvShape, AllOfIsWalk
<1>2. /\ \A m \in Addresses : m \in g[m] /\ \A x \in g[m] : StoredLinks[x] \subseteq g[m]
  BY <1>1, IInvShape, Descending, WalkClosed DEF Self
<1> DEFINE B == {n \in Addresses \ gone : ~ \E r \in InUse \cup abandoned : n \in AllOf(r)}
<1>3. ASSUME B # {}
      PROVE  FALSE
  <2>1. B \subseteq Nat
    BY DEF Addresses
  <2>2. PICK m \in B : \A k \in B : m <= k
    <3> HIDE DEF B
    <3> QED
      BY <1>3, <2>1, Least
  <2>3. m \in Addresses \ gone /\ ~ \E r \in InUse \cup abandoned : m \in AllOf(r)
    BY <2>2
  <2>4. m \notin abandoned
    BY <1>1, <1>2, <2>3
  <2>5. ASSUME NEW c \in Addresses \ gone, m \in Stored(c)
        PROVE  FALSE
    <3>1. c < m
      BY <2>5, IInvShape, ShapeIs
    <3>2. c \notin B
      BY <2>2, <2>3, <3>1 DEF Addresses
    <3>3. PICK r \in InUse \cup abandoned : c \in AllOf(r)
      BY <3>2
    <3>4. r \in Addresses
      BY <3>3, IInvShape DEF InUse
    <3>5. m \in AllOf(r)
      BY <1>1, <1>2, <2>5, <3>3, <3>4 DEF StoredLinks
    <3> QED
      BY <2>3, <3>3, <3>5
  <2>6. ~ HeldByOther(m)
    BY <2>4, <2>5 DEF HeldByOther
  <2>7. Books(Len(nodes), ValsOf(nodes), SubsOf(nodes), HashesOf(nodes), CountsOf(nodes), gone, abandoned, wrappers)
    BY DEF IInv, Good, Account
  <2>8. ~ IsHeld(Len(nodes), ValsOf(nodes), gone, abandoned, m)
    BY <2>3, <2>6, HeldIs
  <2>9. m \in HashesOf(nodes) \ gone /\ CountsOf(nodes)[m] + 1 = wrappers[m]
    BY <2>3, <2>7, <2>8 DEF Books, Addresses
  <2>10. CountsOf(nodes)[m] \in Nat
    BY <2>3, IInvShape DEF Tables, Addresses
  <2>11. m \in InUse
    BY <2>3, <2>9, <2>10 DEF InUse
  <2> QED
    BY <1>1, <1>2, <2>3, <2>11
<1> QED
  BY <1>3 DEF HashesReleased

(* Every variable has its type: counts of hashes do not wrap around, what   *)
(* is stored in a node was allocated, and the text of a key or a string is *)
(* its own or that of a root (ujson.c's node structs, UJHash).             *)
THEOREM LifeTypeCorrect == Spec => []TypeOK
BY Invariant, TypeHolds, PTL

(* In whatever order UJHash objects are deallocated, uj_hash__delete frees  *)
(* nothing that can be got from one that is left.                          *)
THEOREM LifeWrappedAlive == Spec => []WrappedAlive
BY Invariant, AliveHolds, PTL

(* refCnt of a hash that is not freed is one less than the number of its    *)
(* wrappers, of the container that it is in and of references nobody gives *)
(* back.                                                                   *)
THEOREM LifeCountsReferences == Spec => []CountsReferences
BY Invariant, CountsHold, PTL

(* uj_hash__delete frees all that nothing else holds: a hash that is not    *)
(* freed is below a wrapper, or below a reference that nobody gives back.  *)
THEOREM LifeHashesReleased == Spec => []HashesReleased
BY Invariant, ReleasedHolds, PTL
=============================================================================
