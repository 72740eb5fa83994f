-------------------------- MODULE StringTreeProofs --------------------------
(***************************************************************************)
(* Proofs about StringTree, for all keys, values, hashes, addresses and     *)
(* capacities.  Three assumptions are made where a result needs them, each *)
(* of which the runs that check the result make too.                       *)
(***************************************************************************)
EXTENDS StringTree, FiniteSetTheorems, Walks

(* No key that is stored again is deleted: string_tree__delkey_len frees    *)
(* the whole list and goes on using it.                                    *)
Apart == Repeatable \cap Deletable = {}

(* Different keys have different hashes: store_len makes a second node of   *)
(* the tree for the second key of a hash, and a query finds either.        *)
Unlike == \A j, k \in Keys : Hash[j] = Hash[k] => j = k

-----------------------------------------------------------------------------
(* Lists.                                                                  *)

Snode == [key : Keys \cup {NULL}, val : Values \cup {NULL}, next : Addresses \cup {NULL}]
Heap  == [Addresses -> Snode]

Links(f) == [a \in Addresses |-> {f[a].next} \ {NULL}]
Self     == [a \in Addresses |-> {a}]

(* Every link leads to a smaller rank.                                     *)
Ranked(f, rank, K) ==
  /\ K \in Nat /\ rank \in [Addresses -> 0 .. K]
  /\ \A a \in Addresses : f[a].next # NULL => rank[f[a].next] < rank[a]

Acyclic(f) == \E K, rank : Ranked(f, rank, K)

(* What the links lead to from every address.                              *)
From(f) == CHOOSE g : Walk(Addresses, Links(f), Self, g)

LEMMA NullIs == NULL = 0 /\ NULL \notin Addresses /\ Addresses \subseteq Nat
BY STAssumption DEF NULL

LEMMA FromWalks ==
  ASSUME NEW f \in Heap, NEW K, NEW rank, Ranked(f, rank, K)
  PROVE  Descends(Addresses, rank, Links(f)) /\ Walk(Addresses, Links(f), Self, From(f))
<1>1. \A a \in Addresses : f[a].next \in Addresses \cup {NULL}
  BY DEF Heap, Snode
<1>2. \A a \in Addresses : Links(f)[a] = {f[a].next} \ {NULL}
  BY DEF Links
<1>3. Links(f) \in [Addresses -> SUBSET Addresses]
  <2>1. \A a \in Addresses : Links(f)[a] \in SUBSET Addresses
    BY <1>1, <1>2
  <2> QED
    BY <2>1 DEF Links
<1>4. \A m \in Addresses : rank[m] \in Nat /\ rank[m] <= K /\ \A c \in Links(f)[m] : rank[c] < rank[m]
  BY <1>2 DEF Ranked
<1>5. Descends(Addresses, rank, Links(f))
  BY <1>3, <1>4 DEF Descends
<1>6. \E g : Walk(Addresses, Links(f), Self, g)
  BY <1>4, <1>5, WalkExists DEF Ranked
<1> QED
  BY <1>5, <1>6 DEF From

LEMMA FromFacts ==
  ASSUME NEW f \in Heap, NEW K, NEW rank, Ranked(f, rank, K)
  PROVE  \A a \in Addresses :
           /\ a \in From(f)[a] /\ From(f)[a] \subseteq Addresses
           /\ f[a].next = NULL => From(f)[a] = {a}
           /\ f[a].next # NULL => f[a].next \in Addresses /\ From(f)[a] = {a} \cup From(f)[f[a].next]
           /\ \A x \in From(f)[a] : rank[x] <= rank[a] /\ (f[x].next # NULL => f[x].next \in From(f)[a])
<1>1. Descends(Addresses, rank, Links(f)) /\ Walk(Addresses, Links(f), Self, From(f))
  BY FromWalks
<1>2. \A a \in Addresses : Self[a] = {a} /\ Links(f)[a] = {f[a].next} \ {NULL}
  BY DEF Self, Links
<1>3. \A a \in Addresses : a \in From(f)[a] /\ From(f)[a] \subseteq Addresses
                           /\ \A x \in From(f)[a] : Links(f)[x] \subseteq From(f)[a]
  BY <1>1, <1>2, WalkClosed
<1>4. \A a \in Addresses : f[a].next \in Addresses \cup {NULL}
  BY DEF Heap, Snode
<1>5. \A a \in Addresses : f[a].next = NULL => From(f)[a] = {a}
  <2> SUFFICES ASSUME NEW a \in Addresses, f[a].next = NULL PROVE From(f)[a] = {a}
    OBVIOUS
  <2>1. Links(f)[a] = {}
    BY <1>2
  <2> QED
    BY <1>1, <1>2, <1>3, <2>1, WalkStep
<1>6. \A a \in Addresses : f[a].next # NULL => From(f)[a] = {a} \cup From(f)[f[a].next]
  <2> SUFFICES ASSUME NEW a \in Addresses, f[a].next # NULL PROVE From(f)[a] = {a} \cup From(f)[f[a].next]
    OBVIOUS
  <2>1. Links(f)[a] = {f[a].next}
    BY <1>2
  <2>2. From(f)[f[a].next] \subseteq From(f)[a] /\ \A x \in From(f)[a] : x = a \/ x \in From(f)[f[a].next]
    BY <1>1, <1>2, <2>1, WalkStep
  <2> QED
    BY <1>3, <2>2
<1>7. \A a \in Addresses : \A x \in From(f)[a] : rank[x] <= rank[a]
  <2> SUFFICES ASSUME NEW a \in Addresses PROVE \A x \in From(f)[a] : rank[x] <= rank[a]
    OBVIOUS
  <2>1. PICK C : C = {m \in Addresses : rank[m] <= rank[a]}
    OBVIOUS
  <2>2. \A m \in Addresses : rank[m] \in Nat
    BY DEF Ranked
  <2>3. \A m \in C : Links(f)[m] \subseteq C
    BY <1>1, <2>1, <2>2 DEF Descends
  <2>4. C \in SUBSET Addresses /\ a \in C /\ \A m \in C : Self[m] \subseteq C
    BY <1>2, <2>1, <2>2
  <2>5. \A m \in C : From(f)[m] \subseteq C
    BY <1>1, <2>3, <2>4, WalkWithin
  <2> QED
    BY <2>1, <2>4, <2>5
<1> QED
  BY <1>2, <1>3, <1>4, <1>5, <1>6, <1>7

-----------------------------------------------------------------------------
(* The recursive function of Chain.                                        *)

Ends == Addresses \cup {NULL}

IsChain(f, g) == g = [b \in Ends |-> IF b = NULL THEN <<>> ELSE <<b>> \o g[f[b].next]]

LEMMA ChainExists ==
  ASSUME NEW f \in Heap, NEW K, NEW rank, Ranked(f, rank, K)
  PROVE  \E g : IsChain(f, g)
<1> DEFINE D(g)  == [b \in Ends |-> IF b = NULL THEN <<>> ELSE <<b>> \o g[f[b].next]]
           rk    == [b \in Ends |-> IF b = NULL THEN 0 ELSE rank[b] + 1]
           Ok(k) == \E g : \A m \in Ends : rk[m] < k => g[m] = D(g)[m]
           T     == {k \in Nat : Ok(k)}
<1>0. /\ \A m \in Ends : rk[m] \in Nat /\ rk[m] < K + 2
      /\ \A m \in Ends : m # NULL => f[m].next \in Ends /\ rk[f[m].next] < rk[m]
      /\ K + 2 \in Nat
  <2>1. \A m \in Addresses : rank[m] \in Nat /\ rank[m] <= K
    BY DEF Ranked
  <2>2. \A m \in Addresses : f[m].next \in Ends /\ (f[m].next # NULL => f[m].next \in Addresses)
    BY DEF Heap, Snode, Ends
  <2>3. \A m \in Addresses : m \in Ends /\ m # NULL /\ rk[m] = rank[m] + 1
    BY NullIs DEF Ends
  <2>4. rk[NULL] = 0 /\ K \in Nat
    BY DEF Ends, Ranked
  <2>5. \A m \in Ends : m = NULL \/ m \in Addresses
    BY DEF Ends
  <2> HIDE DEF rk
  <2>6. \A m \in Ends : rk[m] \in Nat /\ rk[m] < K + 2
    BY <2>1, <2>3, <2>4, <2>5
  <2>7. \A m \in Addresses : rk[f[m].next] < rk[m]
    <3> TAKE m \in Addresses
    <3>1. CASE f[m].next = NULL
      BY <2>1, <2>3, <2>4, <3>1
    <3>2. CASE f[m].next # NULL
      <4>1. rank[f[m].next] < rank[m] /\ rk[f[m].next] = rank[f[m].next] + 1 /\ rk[m] = rank[m] + 1
        BY <2>2, <2>3, <3>2 DEF Ranked
      <4> QED
        BY <2>1, <2>2, <3>2, <4>1
    <3> QED
      BY <3>1, <3>2
  <2> QED
    BY <2>2, <2>4, <2>5, <2>6, <2>7
<1> HIDE DEF rk
<1>1. 0 \in T
  BY <1>0
<1>2. ASSUME NEW k \in Nat, k \in T
      PROVE  k + 1 \in T
  <2>1. PICK g : \A m \in Ends : rk[m] < k => g[m] = D(g)[m]
    BY <1>2
  <2>2. PICK h : h = D(g)
    OBVIOUS
  <2>3. \A m \in Ends : rk[m] < k => h[m] = g[m]
    BY <2>1, <2>2
  <2>4. ASSUME NEW m \in Ends, rk[m] < k + 1
        PROVE  h[m] = D(h)[m]
    <3>1. CASE m = NULL
      BY <2>2, <3>1
    <3>2. CASE m # NULL
      <4>1. h[f[m].next] = g[f[m].next]
        BY <1>0, <2>3, <2>4, <3>2
      <4>2. h[m] = <<m>> \o g[f[m].next] /\ D(h)[m] = <<m>> \o h[f[m].next]
        BY <2>2, <3>2
      <4> QED
        BY <4>1, <4>2
    <3> QED
      BY <3>1, <3>2
  <2>5. Ok(k + 1)
    BY <2>4
  <2>6. k + 1 \in Nat
    OBVIOUS
  <2> HIDE DEF Ok
  <2> QED
    BY <2>5, <2>6
<1>3. K + 2 \in T
  <2> HIDE DEF T
  <2>1. Nat \subseteq T
    BY <1>1, <1>2, Induct
  <2> QED
    BY <1>0, <2>1
<1>4. PICK g : \A m \in Ends : rk[m] < K + 2 => g[m] = D(g)[m]
  BY <1>3
<1>5. PICK h : h = [m \in Ends |-> g[m]]
  OBVIOUS
<1>6. ASSUME NEW m \in Ends
      PROVE  h[m] = D(h)[m]
  <2>1. h[m] = D(g)[m]
    BY <1>0, <1>4, <1>5
  <2>2. CASE m = NULL
    BY <2>1, <2>2
  <2>3. CASE m # NULL
    <3>1. h[f[m].next] = g[f[m].next]
      BY <1>0, <1>5, <2>3
    <3>2. D(g)[m] = <<m>> \o g[f[m].next] /\ D(h)[m] = <<m>> \o h[f[m].next]
      BY <2>3
    <3> QED
      BY <2>1, <3>1, <3>2
  <2> QED
    BY <2>2, <2>3
<1>7. h = [m \in Ends |-> h[m]] /\ D(h) = [m \in Ends |-> D(h)[m]]
  BY <1>5
<1>8. h = D(h)
  <2> HIDE DEF D
  <2>1. [m \in Ends |-> h[m]] = [m \in Ends |-> D(h)[m]]
    BY <1>6
  <2> QED
    BY <1>7, <2>1
<1> QED
  BY <1>8 DEF IsChain

LEMMA ChainFun ==
  ASSUME snodes \in Heap, Acyclic(snodes)
  PROVE  \E g : IsChain(snodes, g) /\ \A a : Chain(a) = g[a]
<1> DEFINE G == CHOOSE g : g = [b \in Addresses \cup {NULL} |->
                                  IF b = NULL THEN <<>> ELSE <<b>> \o g[snodes[b].next]]
<1>1. \E g : g = [b \in Addresses \cup {NULL} |-> IF b = NULL THEN <<>> ELSE <<b>> \o g[snodes[b].next]]
  BY ChainExists DEF IsChain, Ends, Acyclic
<1>2. G = [b \in Addresses \cup {NULL} |-> IF b = NULL THEN <<>> ELSE <<b>> \o G[snodes[b].next]]
  BY <1>1
<1>3. \A a : Chain(a) = G[a]
  BY DEF Chain
<1> HIDE DEF G
<1>4. IsChain(snodes, G)
  BY <1>2 DEF IsChain, Ends
<1> QED
  BY <1>3, <1>4

(* s lists what the links lead to from a, each linked to the next.          *)
Lists(f, a, s) ==
  /\ s \in Seq(Addresses) /\ Len(s) >= 1 /\ s[1] = a
  /\ {s[i] : i \in 1 .. Len(s)} = From(f)[a]
  /\ f[s[Len(s)]].next = NULL

LEMMA OneLists ==
  ASSUME NEW f, NEW a \in Addresses, f[a].next = NULL, From(f)[a] = {a}
  PROVE  Lists(f, a, <<a>> \o <<>>)
<1>1. PICK s : s = <<a>> \o <<>>
  OBVIOUS
<1>2. s \in Seq(Addresses) /\ Len(s) = 1 /\ s[1] = a
  BY <1>1
<1>3. {s[i] : i \in 1 .. Len(s)} = {a}
  BY <1>2
<1> QED
  BY <1>1, <1>2, <1>3 DEF Lists

LEMMA MoreLists ==
  ASSUME NEW f, NEW a \in Addresses, NEW c, NEW s, Lists(f, c, s), From(f)[a] = {a} \cup From(f)[c]
  PROVE  Lists(f, a, <<a>> \o s)
<1>1. PICK t : t = <<a>> \o s
  OBVIOUS
<1>2. s \in Seq(Addresses) /\ Len(s) >= 1 /\ Len(s) \in Nat
  BY DEF Lists
<1>3. /\ t \in Seq(Addresses) /\ Len(t) = Len(s) + 1 /\ t[1] = a
      /\ \A i \in 1 .. Len(s) : t[i + 1] = s[i]
  BY <1>1, <1>2
<1>4. t[Len(t)] = s[Len(s)]
  BY <1>2, <1>3
<1>5. {t[i] : i \in 1 .. Len(t)} = {a} \cup {s[i] : i \in 1 .. Len(s)}
  <2>1. \A i \in 1 .. Len(t) : i = 1 \/ (i - 1 \in 1 .. Len(s) /\ t[i] = s[i - 1])
    BY <1>2, <1>3
  <2>2. 1 \in 1 .. Len(t) /\ \A i \in 1 .. Len(s) : i + 1 \in 1 .. Len(t)
    BY <1>2, <1>3
  <2> QED
    BY <1>3, <2>1, <2>2
<1>6. {s[i] : i \in 1 .. Len(s)} = From(f)[c] /\ f[s[Len(s)]].next = NULL
  BY DEF Lists
<1>7. Lists(f, a, t)
  <2>1. Len(t) >= 1
    BY <1>2, <1>3
  <2>2. {t[i] : i \in 1 .. Len(t)} = From(f)[a]
    BY <1>5, <1>6
  <2>3. f[t[Len(t)]].next = NULL
    BY <1>4, <1>6
  <2> QED
    BY <1>3, <2>1, <2>2, <2>3 DEF Lists
<1> QED
  BY <1>1, <1>7

LEMMA ChainLists ==
  ASSUME snodes \in Heap, Acyclic(snodes)
  PROVE  Chain(NULL) = <<>> /\ \A a \in Addresses : Lists(snodes, a, Chain(a))
<1>1. PICK g : IsChain(snodes, g) /\ \A a : Chain(a) = g[a]
  BY ChainFun
<1>2. PICK K, rank : Ranked(snodes, rank, K)
  BY DEF Acyclic
<1>3. g[NULL] = <<>> /\ \A b \in Addresses : g[b] = <<b>> \o g[snodes[b].next]
  BY <1>1, NullIs DEF IsChain, Ends
<1> DEFINE T == {a \in Addresses : Lists(snodes, a, g[a])}
<1>4. ASSUME NEW m \in Addresses, \A c \in Links(snodes)[m] : c \in T
      PROVE  m \in T
  <2>1. CASE snodes[m].next = NULL
    <3>1. From(snodes)[m] = {m}
      BY <1>2, <2>1, FromFacts
    <3>2. g[m] = <<m>> \o <<>>
      BY <1>3, <2>1
    <3> QED
      BY <2>1, <3>1, <3>2, OneLists
  <2>2. CASE snodes[m].next # NULL
    <3>1. From(snodes)[m] = {m} \cup From(snodes)[snodes[m].next]
      BY <1>2, <2>2, FromFacts
    <3>2. Lists(snodes, snodes[m].next, g[snodes[m].next])
      BY <1>4, <2>2 DEF Links
    <3>3. PICK c : c = snodes[m].next
      OBVIOUS
    <3>4. Lists(snodes, m, <<m>> \o g[c])
      BY <3>1, <3>2, <3>3, MoreLists
    <3>5. g[m] = <<m>> \o g[c]
      BY <1>3, <3>3
    <3> QED
      BY <3>4, <3>5
  <2> QED
    BY <2>1, <2>2
<1>5. Descends(Addresses, rank, Links(snodes))
  BY <1>2, FromWalks
<1>6. Addresses \subseteq T
  <2> HIDE DEF T
  <2> QED
    BY <1>4, <1>5, WalkInduct
<1> QED
  BY <1>1, <1>3, <1>6

-----------------------------------------------------------------------------
(* The tree and its lists.  T are the nodes of the tree, L the addresses    *)
(* that are allocated.                                                     *)

(* A list has one key, and is longer than one only if the key is stored     *)
(* again; all that is allocated is in a list.                              *)
Linked(f, T, L) ==
  /\ \A a \in L : /\ f[a].key \in Keys /\ f[a].next \in L \cup {NULL}
                  /\ f[a].next # NULL => f[f[a].next].key = f[a].key /\ f[a].key \in Repeatable
  /\ \A a, b \in L : f[a].key = f[b].key /\ f[a].key \notin Repeatable => a = b
  /\ \A n \in T : n.info \in L /\ n.hash = Hash[f[n.info].key]
  /\ L \subseteq UNION {From(f)[n.info] : n \in T}

Good(f, T, L) ==
  /\ f \in Heap /\ Acyclic(f) /\ T \subseteq [hash : Nat, info : Addresses] /\ L \subseteq Addresses
  /\ Linked(f, T, L)

(* What a list leads to is allocated and has its key.                      *)
LEMMA ListStays ==
  ASSUME NEW f, NEW T, NEW L, Good(f, T, L), NEW a \in L
  PROVE  a \in From(f)[a] /\ From(f)[a] \subseteq L /\ \A x \in From(f)[a] : f[x].key = f[a].key
<1>1. PICK K, rank : Ranked(f, rank, K)
  BY DEF Good, Acyclic
<1>2. Descends(Addresses, rank, Links(f)) /\ Walk(Addresses, Links(f), Self, From(f))
  BY <1>1, FromWalks DEF Good
<1>3. PICK C : C = {b \in L : f[b].key = f[a].key}
  OBVIOUS
<1>4. C \in SUBSET Addresses /\ a \in C
  BY <1>3 DEF Good
<1>5. \A m \in C : Links(f)[m] \subseteq C
  BY <1>3, <1>4 DEF Good, Linked, Links
<1>6. \A m \in C : Self[m] \subseteq C
  BY <1>4 DEF Self
<1>7. \A m \in C : From(f)[m] \subseteq C
  BY <1>2, <1>4, <1>5, <1>6, WalkWithin
<1>8. a \in From(f)[a]
  BY <1>1, <1>4, FromFacts DEF Good
<1> QED
  BY <1>3, <1>4, <1>7, <1>8

LEMMA AllListed ==
  ASSUME NEW f, NEW T, NEW L, Good(f, T, L)
  PROVE  L = UNION {From(f)[n.info] : n \in T}
<1>1. ASSUME NEW n \in T
      PROVE  From(f)[n.info] \subseteq L
  <2>1. n.info \in L
    BY DEF Good, Linked
  <2> QED
    BY <2>1, ListStays
<1> QED
  BY <1>1 DEF Good, Linked

(* The operators of StringTree in these terms.                             *)
LEMMA Reading ==
  ASSUME Good(snodes, rb, live)
  PROVE  /\ \A a \in Addresses : Members(a) = From(snodes)[a]
         /\ Members(NULL) = {}
         /\ Reachable = live
         /\ Stored = {snodes[a].key : a \in live}
         /\ Stored = {snodes[n.info].key : n \in rb}
         /\ Stored \subseteq Keys
<1>1. snodes \in Heap /\ Acyclic(snodes) /\ rb \subseteq [hash : Nat, info : Addresses]
  BY DEF Good
<1>2. \A a \in Addresses : Members(a) = From(snodes)[a]
  BY <1>1, ChainLists DEF Members, Lists
<1>3. Members(NULL) = {}
  <2>1. Chain(NULL) = <<>>
    BY <1>1, ChainLists
  <2>2. 1 .. Len(Chain(NULL)) = {}
    BY <2>1
  <2> QED
    BY <2>2 DEF Members
<1>4. \A n \in rb : n.info \in Addresses
  BY <1>1
<1>5. Reachable = live
  BY <1>2, <1>4, AllListed DEF Reachable
<1>6. \A a \in live : \E n \in rb : a \in From(snodes)[n.info]
  BY AllListed
<1>7. \A n \in rb : n.info \in live /\ snodes[n.info].key \in Keys
  BY DEF Good, Linked
<1>8. \A a \in live : \E n \in rb : snodes[a].key = snodes[n.info].key
  BY <1>6, <1>7, ListStays
<1>9. Stored = {snodes[a].key : a \in live}
  BY <1>5 DEF Stored
<1> QED
  BY <1>2, <1>3, <1>5, <1>7, <1>8, <1>9

(* The first snode of a list serves the key of the list.                   *)
LEMMA FindIs ==
  ASSUME Good(snodes, rb, live), NEW n \in rb, NEW k
  PROVE  Find(n, k) = IF k = snodes[n.info].key THEN n.info ELSE NULL
<1>1. PICK c : c = Chain(n.info)
  OBVIOUS
<1>2. n.info \in live /\ n.info \in Addresses
  BY DEF Good, Linked
<1>3. Lists(snodes, n.info, c)
  BY <1>1, <1>2, ChainLists DEF Good
<1>4. /\ Len(c) \in Nat /\ 1 \in 1 .. Len(c) /\ c[1] = n.info
      /\ {c[i] : i \in 1 .. Len(c)} = From(snodes)[n.info]
  BY <1>3 DEF Lists
<1>5. \A i \in 1 .. Len(c) : snodes[c[i]].key = snodes[n.info].key
  BY <1>2, <1>4, ListStays
<1> DEFINE hits == {i \in 1 .. Len(c) : snodes[c[i]].key = k}
<1>6. Find(n, k) = IF hits = {} THEN NULL ELSE c[CHOOSE i \in hits : \A j \in hits : i <= j]
  BY <1>1 DEF Find
<1>7. CASE k = snodes[n.info].key
  <2>1. hits = 1 .. Len(c)
    BY <1>5, <1>7
  <2>2. \A i \in hits : (\A j \in hits : i <= j) <=> i = 1
    BY <1>4, <2>1
  <2>3. 1 \in hits /\ \A j \in hits : 1 <= j
    BY <1>4, <2>1
  <2> HIDE DEF hits
  <2>4. (CHOOSE i \in hits : \A j \in hits : i <= j) = 1
    BY <2>2, <2>3
  <2> QED
    BY <1>4, <1>6, <1>7, <2>3, <2>4
<1>8. CASE k # snodes[n.info].key
  <2>1. hits = {}
    BY <1>5, <1>8
  <2> QED
    BY <1>6, <1>8, <2>1
<1> QED
  BY <1>7, <1>8

-----------------------------------------------------------------------------
(* What the calls do to the lists.                                         *)

(* f1 has a snode of its own for k at a.                                   *)
Put(f, f1, a, k, v) ==
  /\ f1 \in Heap /\ f1[a].key = k /\ f1[a].val = v /\ f1[a].next = NULL
  /\ \A x \in Addresses \ {a} : f1[x] = f[x]

(* f1 has a snode for k at a, behind z.                                    *)
Appended(f, f1, a, k, v, z) ==
  /\ f1 \in Heap /\ f1[a].key = k /\ f1[a].val = v /\ f1[a].next = NULL
  /\ f1[z].key = f[z].key /\ f1[z].val = f[z].val /\ f1[z].next = a
  /\ \A x \in Addresses \ {a, z} : f1[x] = f[x]

LEMMA PutIs ==
  ASSUME NEW f \in Heap, NEW a \in Addresses, NEW k \in Keys, NEW v \in Values
  PROVE  Put(f, [f EXCEPT ![a] = [key |-> k, val |-> v, next |-> NULL]], a, k, v)
<1>1. PICK q : q = [key |-> k, val |-> v, next |-> NULL]
  OBVIOUS
<1>2. q \in Snode /\ q.key = k /\ q.val = v /\ q.next = NULL
  BY <1>1 DEF Snode
<1>3. PICK f1 : f1 = [f EXCEPT ![a] = q]
  OBVIOUS
<1>4. f1 \in Heap /\ f1[a] = q /\ \A x \in Addresses \ {a} : f1[x] = f[x]
  BY <1>2, <1>3 DEF Heap
<1>5. Put(f, f1, a, k, v)
  BY <1>2, <1>4 DEF Put
<1> QED
  BY <1>1, <1>3, <1>5

LEMMA AppendedIs ==
  ASSUME NEW f \in Heap, NEW a \in Addresses, NEW k \in Keys, NEW v \in Values,
         NEW z \in Addresses, z # a, NEW f1, Put(f, f1, a, k, v)
  PROVE  Appended(f, [f1 EXCEPT ![z].next = a], a, k, v, z)
<1>1. f1 \in Heap /\ f1[a].key = k /\ f1[a].val = v /\ f1[a].next = NULL
      /\ \A x \in Addresses \ {a} : f1[x] = f[x]
  BY DEF Put
<1>2. PICK q : q = [f1[z] EXCEPT !.next = a]
  OBVIOUS
<1>3. f1[z] = f[z] /\ f1[z] \in Snode
  BY <1>1 DEF Heap
<1>4. q \in Snode /\ q.key = f[z].key /\ q.val = f[z].val /\ q.next = a
  BY <1>2, <1>3 DEF Snode
<1>5. PICK f2 : f2 = [f1 EXCEPT ![z] = q]
  OBVIOUS
<1>6. f2 \in Heap /\ f2[z] = q /\ \A x \in Addresses \ {z} : f2[x] = f1[x]
  BY <1>1, <1>4, <1>5 DEF Heap
<1>7. f2[a] = f1[a] /\ \A x \in Addresses \ {a, z} : f2[x] = f[x]
  BY <1>1, <1>6
<1>8. Appended(f, f2, a, k, v, z)
  BY <1>1, <1>4, <1>6, <1>7 DEF Appended
<1> QED
  BY <1>2, <1>5, <1>8

LEMMA PutAcyclic ==
  ASSUME NEW f, NEW f1, NEW a, NEW k, NEW v, Put(f, f1, a, k, v), Acyclic(f)
  PROVE  Acyclic(f1)
<1>1. PICK K, rank : Ranked(f, rank, K)
  BY DEF Acyclic
<1>2. Ranked(f1, rank, K)
  BY <1>1 DEF Ranked, Put
<1> QED
  BY <1>2 DEF Acyclic

LEMMA AppendAcyclic ==
  ASSUME NEW f \in Heap, NEW f1, NEW a \in Addresses, NEW k, NEW v, NEW z \in Addresses \ {a},
         Appended(f, f1, a, k, v, z), Acyclic(f)
  PROVE  Acyclic(f1)
<1>1. PICK K, rank : Ranked(f, rank, K)
  BY DEF Acyclic
<1>2. K \in Nat /\ \A x \in Addresses : rank[x] \in Nat /\ rank[x] <= K
  BY <1>1 DEF Ranked
<1>3. PICK r : r = [x \in Addresses |-> IF x = a THEN 0 ELSE rank[x] + 1]
  OBVIOUS
<1>4. r[a] = 0 /\ \A x \in Addresses \ {a} : r[x] = rank[x] + 1
  BY <1>3
<1>5. r \in [Addresses -> 0 .. K + 1] /\ K + 1 \in Nat
  <2>1. \A x \in Addresses : (IF x = a THEN 0 ELSE rank[x] + 1) \in 0 .. K + 1
    BY <1>2
  <2> QED
    BY <1>2, <1>3, <2>1
<1>6. ASSUME NEW x \in Addresses, f1[x].next # NULL
      PROVE  r[f1[x].next] < r[x]
  <2>1. x # a
    BY <1>6 DEF Appended
  <2>2. CASE x = z
    BY <1>2, <1>4, <2>1, <2>2 DEF Appended
  <2>3. CASE x # z
    <3>1. f1[x].next = f[x].next /\ f[x].next # NULL
      BY <1>6, <2>1, <2>3 DEF Appended
    <3>2. f[x].next \in Addresses
      BY <3>1 DEF Heap, Snode
    <3>3. rank[f[x].next] < rank[x]
      BY <1>1, <3>1 DEF Ranked
    <3>4. r[f[x].next] <= rank[f[x].next] + 1
      BY <1>2, <1>4, <3>2
    <3>5. r[f[x].next] \in Nat
      BY <1>2, <1>4, <3>2
    <3> QED
      BY <1>2, <1>4, <2>1, <3>1, <3>2, <3>3, <3>4, <3>5
  <2> QED
    BY <2>2, <2>3
<1>7. Ranked(f1, r, K + 1)
  BY <1>5, <1>6 DEF Ranked
<1> QED
  BY <1>7 DEF Acyclic

(* With the old links there, all that was listed still is.                 *)
LEMMA StillListed ==
  ASSUME NEW f, NEW T, NEW L, Good(f, T, L), NEW f1 \in Heap, Acyclic(f1),
         \A x \in L : f[x].next # NULL => f1[x].next = f[x].next
  PROVE  \A x \in L : From(f)[x] \subseteq From(f1)[x]
<1>1. PICK K, rank : Ranked(f, rank, K)
  BY DEF Good, Acyclic
<1>2. PICK K1, rank1 : Ranked(f1, rank1, K1)
  BY DEF Acyclic
<1>3. Descends(Addresses, rank, Links(f)) /\ Walk(Addresses, Links(f), Self, From(f))
  BY <1>1, FromWalks DEF Good
<1>4. Walk(Addresses, Links(f1), Self, From(f1))
  BY <1>2, FromWalks
<1>5. L \in SUBSET Addresses
  BY DEF Good
<1>6. \A m \in L : Links(f)[m] \subseteq L /\ Links(f)[m] \subseteq Links(f1)[m]
  BY <1>5 DEF Good, Linked, Links
<1> QED
  BY <1>3, <1>4, <1>5, <1>6, WalkInclude

LEMMA PutKeeps ==
  ASSUME NEW f, NEW T, NEW L, Good(f, T, L), NEW a \in Addresses \ L, NEW k \in Keys, NEW v,
         NEW f1, Put(f, f1, a, k, v), k \in Repeatable \/ \A x \in L : f[x].key # k
  PROVE  Good(f1, T \cup {[hash |-> Hash[k], info |-> a]}, L \cup {a})
<1>1. PICK n : n = [hash |-> Hash[k], info |-> a]
  OBVIOUS
<1>2. n.info = a /\ n.hash = Hash[k] /\ n \in [hash : Nat, info : Addresses]
  BY <1>1, STAssumption
<1>3. PICK T1 : T1 = T \cup {n}
  OBVIOUS
<1>4. PICK L1 : L1 = L \cup {a}
  OBVIOUS
<1>5. f1 \in Heap /\ Acyclic(f1) /\ T1 \subseteq [hash : Nat, info : Addresses] /\ L1 \subseteq Addresses
  BY <1>2, <1>3, <1>4, PutAcyclic DEF Good, Put
<1>6. \A x \in L : f1[x] = f[x]
  BY DEF Put, Good
<1>7. /\ \A x \in L : /\ f1[x].key \in Keys /\ f1[x].next \in L \cup {NULL}
                      /\ f1[x].next # NULL => f1[f1[x].next].key = f1[x].key /\ f1[x].key \in Repeatable
      /\ \A x, y \in L : f1[x].key = f1[y].key /\ f1[x].key \notin Repeatable => x = y
  BY <1>6 DEF Good, Linked
<1>8. f1[a].key = k /\ f1[a].next = NULL
  BY DEF Put
<1>9. /\ \A x \in L1 : /\ f1[x].key \in Keys /\ f1[x].next \in L1 \cup {NULL}
                       /\ f1[x].next # NULL => f1[f1[x].next].key = f1[x].key /\ f1[x].key \in Repeatable
  BY <1>4, <1>7, <1>8
<1>10. \A x, y \in L1 : f1[x].key = f1[y].key /\ f1[x].key \notin Repeatable => x = y
  BY <1>4, <1>6, <1>7, <1>8
<1>11. \A m \in T1 : m.info \in L1 /\ m.hash = Hash[f1[m.info].key]
  <2>1. \A m \in T : m.info \in L /\ m.hash = Hash[f1[m.info].key]
    BY <1>6 DEF Good, Linked
  <2> QED
    BY <1>2, <1>3, <1>4, <1>8, <2>1
<1>12. \A x \in L : From(f)[x] \subseteq From(f1)[x]
  BY <1>5, <1>6, StillListed
<1>13. \A x \in L : \E m \in T1 : x \in From(f1)[m.info]
  BY <1>3, <1>12, AllListed DEF Good, Linked
<1>14. a \in From(f1)[n.info]
  BY <1>2, <1>5, FromFacts DEF Acyclic
<1>15. L1 \subseteq UNION {From(f1)[m.info] : m \in T1}
  BY <1>3, <1>4, <1>13, <1>14
<1>16. Linked(f1, T1, L1)
  BY <1>9, <1>10, <1>11, <1>15 DEF Linked
<1> QED
  BY <1>1, <1>3, <1>4, <1>5, <1>16 DEF Good

LEMMA AppendKeeps ==
  ASSUME NEW f, NEW T, NEW L, Good(f, T, L), NEW a \in Addresses \ L, NEW k \in Repeatable, NEW v,
         NEW z \in L, f[z].key = k, f[z].next = NULL, NEW f1, Appended(f, f1, a, k, v, z)
  PROVE  Good(f1, T, L \cup {a})
<1>1. PICK L1 : L1 = L \cup {a}
  OBVIOUS
<1>2. z \in Addresses \ {a} /\ f \in Heap /\ L \subseteq Addresses /\ k \in Keys
  BY STAssumption DEF Good
<1>3. f1 \in Heap /\ Acyclic(f1) /\ L1 \subseteq Addresses
  BY <1>1, <1>2, AppendAcyclic DEF Good, Appended
<1>4. \A x \in L : f1[x].key = f[x].key /\ (x # z => f1[x] = f[x])
  BY <1>2 DEF Appended
<1>5. f1[a].key = k /\ f1[a].next = NULL /\ f1[z].next = a
  BY DEF Appended
<1>6. ASSUME NEW x \in L1
      PROVE  /\ f1[x].key \in Keys /\ f1[x].next \in L1 \cup {NULL}
             /\ f1[x].next # NULL => f1[f1[x].next].key = f1[x].key /\ f1[x].key \in Repeatable
  <2>1. CASE x = a
    BY <1>2, <1>5, <2>1
  <2>2. CASE x = z
    BY <1>1, <1>2, <1>4, <1>5, <2>2
  <2>3. CASE x \in L /\ x # z
    <3>1. f1[x] = f[x]
      BY <1>4, <2>3
    <3>2. /\ f[x].key \in Keys /\ f[x].next \in L \cup {NULL}
          /\ f[x].next # NULL => f[f[x].next].key = f[x].key /\ f[x].key \in Repeatable
      BY <2>3 DEF Good, Linked
    <3>3. f[x].next # NULL => f1[f[x].next].key = f[f[x].next].key
      BY <1>4, <3>2
    <3> QED
      BY <1>1, <3>1, <3>2, <3>3
  <2> QED
    BY <1>1, <2>1, <2>2, <2>3
<1>7. \A x, y \in L1 : f1[x].key = f1[y].key /\ f1[x].key \notin Repeatable => x = y
  <2>1. \A x, y \in L : f1[x].key = f1[y].key /\ f1[x].key \notin Repeatable => x = y
    BY <1>4 DEF Good, Linked
  <2> QED
    BY <1>1, <1>5, <2>1
<1>8. \A m \in T : m.info \in L /\ m.info \in L1 /\ m.hash = Hash[f1[m.info].key]
  BY <1>1, <1>4 DEF Good, Linked
<1>9. \A x \in L : From(f)[x] \subseteq From(f1)[x]
  BY <1>3, <1>4, StillListed
<1>10. \A x \in L : \E m \in T : x \in From(f1)[m.info]
  BY <1>8, <1>9, AllListed
<1>11. \E m \in T : a \in From(f1)[m.info]
  <2>1. PICK m \in T : z \in From(f1)[m.info]
    BY <1>10
  <2>2. m.info \in Addresses
    BY <1>2, <1>8
  <2>3. a \in From(f1)[m.info]
    BY <1>3, <1>5, <2>1, <2>2, FromFacts, NullIs DEF Acyclic
  <2> QED
    BY <2>3
<1>12. L1 \subseteq UNION {From(f1)[m.info] : m \in T}
  BY <1>1, <1>10, <1>11
<1>13. Linked(f1, T, L1)
  BY <1>6, <1>7, <1>8, <1>12 DEF Linked
<1> QED
  BY <1>1, <1>3, <1>13 DEF Good

LEMMA DeleteKeeps ==
  ASSUME NEW f, NEW T, NEW L, Good(f, T, L), NEW n \in T, f[n.info].key \notin Repeatable
  PROVE  f[n.info].next = NULL /\ Good(f, T \ {n}, L \ {n.info})
<1>1. PICK x : x = n.info
  OBVIOUS
<1>2. x \in L /\ x \in Addresses /\ f \in Heap /\ Acyclic(f) /\ f[x].key \notin Repeatable
  BY <1>1 DEF Good, Linked
<1>3. f[x].next = NULL
  BY <1>2 DEF Good, Linked
<1>4. \A y \in L \ {x} : f[y].key # f[x].key
  BY <1>2 DEF Good, Linked
<1>5. \A y \in L \ {x} : f[y].next # x
  <2> SUFFICES ASSUME NEW y \in L \ {x}, f[y].next = x PROVE FALSE
    OBVIOUS
  <2>1. x # NULL
    BY <1>2, NullIs
  <2> QED
    BY <1>4, <2>1 DEF Good, Linked
<1>6. \A m \in T \ {n} : m.info \in L \ {x} /\ m.hash = Hash[f[m.info].key]
  <2> SUFFICES ASSUME NEW m \in T, m.info = x PROVE m = n
    BY DEF Good, Linked
  <2>1. m.hash = n.hash
    BY <1>1 DEF Good, Linked
  <2> QED
    BY <1>1, <2>1 DEF Good
<1>7. From(f)[x] = {x}
  BY <1>2, <1>3, FromFacts DEF Acyclic
<1>8. \A y \in L \ {x} : \E m \in T \ {n} : y \in From(f)[m.info]
  BY <1>1, <1>7, AllListed
<1>9. Linked(f, T \ {n}, L \ {x})
  <2>1. L \ {x} \subseteq UNION {From(f)[m.info] : m \in T \ {n}}
    BY <1>8
  <2> QED
    BY <1>5, <1>6, <2>1 DEF Good, Linked
<1> QED
  BY <1>1, <1>3, <1>9 DEF Good

-----------------------------------------------------------------------------
(* The invariant.                                                          *)

Listing ==
  /\ todo \subseteq rb /\ (pc # "Keys" => todo = {})
  /\ keyarr \in [items : Seq(Keys), max : Nat] /\ Len(keyarr.items) < keyarr.max
  /\ pc \in {"Idle", "Keys", "Listed", "Deleted"}

IInv == Good(snodes, rb, live) /\ Listing

LEMMA RawGetIs ==
  ASSUME Good(snodes, rb, live), NEW k \in Keys, NEW found \in RawGet(k), found # NULL
  PROVE  /\ \E n \in rb : n.hash = Hash[k] /\ n.info = found /\ snodes[n.info].key = k
         /\ found \in live /\ snodes[found].key = k /\ k \in Stored
<1>1. PICK n \in Query(Hash[k]) : found = Find(n, k)
  BY DEF RawGet
<1>2. n \in rb /\ n.hash = Hash[k]
  BY <1>1 DEF Query
<1>3. n.info = found /\ snodes[n.info].key = k
  BY <1>1, <1>2, FindIs
<1>4. found \in live
  BY <1>2, <1>3 DEF Good, Linked
<1> QED
  BY <1>2, <1>3, <1>4, Reading

LEMMA LastIs ==
  ASSUME Good(snodes, rb, live), NEW a \in live, NEW z, z = Chain(a)[Len(Chain(a))]
  PROVE  z \in live /\ snodes[z].key = snodes[a].key /\ snodes[z].next = NULL
<1>1. PICK c : c = Chain(a)
  OBVIOUS
<1>2. Lists(snodes, a, c) /\ z = c[Len(c)]
  BY <1>1, ChainLists DEF Good
<1>3. Len(c) \in 1 .. Len(c) /\ snodes[z].next = NULL
  BY <1>2 DEF Lists
<1>4. z \in From(snodes)[a]
  BY <1>2, <1>3 DEF Lists
<1> QED
  BY <1>3, <1>4, ListStays

(* A store makes a new node of the tree, or a list longer by one.          *)
LEMMA StoreDoes ==
  ASSUME Good(snodes, rb, live), NEW k \in Keys, NEW v \in Values, Store(k, v)
  PROVE  \E a \in Addresses \ live :
           /\ live' = live \cup {a}
           /\ \/ /\ Put(snodes, snodes', a, k, v) /\ rb' = rb \cup {[hash |-> Hash[k], info |-> a]}
                 /\ k \in Repeatable \/ k \notin Stored
                 /\ NULL \in RawGet(k)
              \/ /\ k \in Repeatable \cap Stored /\ rb' = rb
                 /\ \E z \in live : /\ snodes[z].key = k /\ snodes[z].next = NULL
                                    /\ Appended(snodes, snodes', a, k, v, z)
<1>1. PICK a \in Addresses \ live, found \in RawGet(k) :
         LET fresh == [snodes EXCEPT ![a] = [key |-> k, val |-> v, next |-> NULL]]
         IN  /\ live' = live \cup {a}
             /\ IF found = NULL
                THEN snodes' = fresh /\ rb' = rb \cup {[hash |-> Hash[k], info |-> a]}
                ELSE /\ snodes' = [fresh EXCEPT ![Chain(found)[Len(Chain(found))]].next = a]
                     /\ UNCHANGED rb
  BY DEF Store
<1>2. k \in Repeatable \/ k \notin Stored
  BY DEF Store
<1>3. PICK fresh : fresh = [snodes EXCEPT ![a] = [key |-> k, val |-> v, next |-> NULL]]
  OBVIOUS
<1>4. snodes \in Heap /\ live \subseteq Addresses
  BY DEF Good
<1>5. Put(snodes, fresh, a, k, v)
  BY <1>3, <1>4, PutIs
<1>6. CASE found = NULL
  BY <1>1, <1>2, <1>3, <1>5, <1>6
<1>7. CASE found # NULL
  <2>1. found \in live /\ snodes[found].key = k /\ k \in Stored
    BY <1>7, RawGetIs
  <2>2. PICK z : z = Chain(found)[Len(Chain(found))]
    OBVIOUS
  <2>3. z \in live /\ snodes[z].key = k /\ snodes[z].next = NULL
    BY <2>1, <2>2, LastIs
  <2>4. snodes' = [fresh EXCEPT ![z].next = a]
    BY <1>1, <1>3, <1>7, <2>2
  <2>5. Appended(snodes, snodes', a, k, v, z)
    <3>1. z \in Addresses /\ z # a
      BY <1>4, <2>3
    <3> QED
      BY <1>4, <1>5, <2>4, <3>1, AppendedIs
  <2>6. live' = live \cup {a} /\ rb' = rb
    BY <1>1, <1>7
  <2> QED
    BY <1>2, <2>1, <2>3, <2>5, <2>6
<1> QED
  BY <1>6, <1>7

(* A deletion frees the node of the key with its only snode, or nothing.   *)
LEMMA DelKeyDoes ==
  ASSUME Apart, Good(snodes, rb, live), NEW k \in Keys, DelKey(k)
  PROVE  /\ snodes' = snodes
         /\ \/ /\ rb' = rb /\ live' = live
               /\ Query(Hash[k]) = {} \/ \E n \in Query(Hash[k]) : snodes[n.info].key # k
            \/ \E n \in rb : /\ snodes[n.info].key = k /\ k \notin Repeatable
                             /\ rb' = rb \ {n} /\ live' = live \ {n.info}
<1>1. k \notin Repeatable /\ snodes' = snodes
  BY DEF DelKey, Apart
<1>2. CASE Query(Hash[k]) = {}
  BY <1>1, <1>2 DEF DelKey
<1>3. CASE Query(Hash[k]) # {}
  <2>1. PICK n \in Query(Hash[k]) :
          LET found == Find(n, k)
              next  == snodes[found].next
              left  == IF next = NULL THEN {} ELSE {[n EXCEPT !.info = next]}
          IN  IF found = NULL THEN UNCHANGED <<rb, live>>
              ELSE /\ live' = live \ Members(found)
                   /\ rb' = (rb \ {n}) \cup left
    BY <1>3 DEF DelKey
  <2>2. n \in rb
    BY <2>1 DEF Query
  <2>3. CASE k = snodes[n.info].key
    <3>1. Find(n, k) = n.info /\ n.info # NULL /\ n.info \in Addresses
      BY <2>2, <2>3, FindIs, NullIs DEF Good, Linked
    <3>2. snodes[n.info].next = NULL
      BY <1>1, <2>2, <2>3, DeleteKeeps
    <3>3. Members(n.info) = {n.info}
      BY <3>1, <3>2, Reading, FromFacts DEF Good, Acyclic
    <3>4. rb' = rb \ {n} /\ live' = live \ {n.info}
      BY <2>1, <3>1, <3>2, <3>3
    <3> QED
      BY <1>1, <2>2, <2>3, <3>4
  <2>4. CASE k # snodes[n.info].key
    <3>1. Find(n, k) = NULL
      BY <2>2, <2>4, FindIs
    <3> QED
      BY <1>1, <2>1, <2>4, <3>1
  <2> QED
    BY <2>3, <2>4
<1> QED
  BY <1>2, <1>3

LEMMA GoodInit ==
  ASSUME Init
  PROVE  Good(snodes, rb, live)
<1>1. snodes = [a \in Addresses |-> [key |-> NULL, val |-> NULL, next |-> NULL]]
  BY DEF Init
<1>2. snodes \in Heap
  BY <1>1 DEF Heap, Snode
<1>3. PICK r : r = [a \in Addresses |-> 0]
  OBVIOUS
<1>4. Ranked(snodes, r, 0)
  <2>1. \A a \in Addresses : snodes[a].next = NULL
    BY <1>1
  <2>2. r \in [Addresses -> 0 .. 0]
    BY <1>3
  <2> QED
    BY <2>1, <2>2 DEF Ranked
<1>5. Acyclic(snodes)
  BY <1>4 DEF Acyclic
<1> QED
  BY <1>2, <1>5 DEF Init, Good, Linked

LEMMA GoodStep ==
  ASSUME Apart, IInv, [Next]_vars
  PROVE  Good(snodes', rb', live')
<1>1. Good(snodes, rb, live)
  BY DEF IInv
<1>2. ASSUME NEW k \in Keys, NEW v \in Values, Store(k, v)
      PROVE  Good(snodes', rb', live')
  <2>1. PICK a \in Addresses \ live :
           /\ live' = live \cup {a}
           /\ \/ /\ Put(snodes, snodes', a, k, v) /\ rb' = rb \cup {[hash |-> Hash[k], info |-> a]}
                 /\ k \in Repeatable \/ k \notin Stored
              \/ /\ k \in Repeatable \cap Stored /\ rb' = rb
                 /\ \E z \in live : /\ snodes[z].key = k /\ snodes[z].next = NULL
                                    /\ Appended(snodes, snodes', a, k, v, z)
    BY <1>1, <1>2, StoreDoes
  <2>2. Stored = {snodes[x].key : x \in live}
    BY <1>1, Reading
  <2>3. CASE /\ Put(snodes, snodes', a, k, v) /\ rb' = rb \cup {[hash |-> Hash[k], info |-> a]}
             /\ k \in Repeatable \/ k \notin Stored
    <3>1. k \in Repeatable \/ \A x \in live : snodes[x].key # k
      BY <2>2, <2>3
    <3>2. Good(snodes', rb \cup {[hash |-> Hash[k], info |-> a]}, live \cup {a})
      BY <1>1, <2>3, <3>1, PutKeeps
    <3> QED
      BY <2>1, <2>3, <3>2
  <2>4. CASE /\ k \in Repeatable \cap Stored /\ rb' = rb
             /\ \E z \in live : /\ snodes[z].key = k /\ snodes[z].next = NULL
                                /\ Appended(snodes, snodes', a, k, v, z)
    <3>1. Good(snodes', rb, live \cup {a})
      BY <1>1, <2>4, AppendKeeps
    <3> QED
      BY <2>1, <2>4, <3>1
  <2> QED
    BY <2>1, <2>3, <2>4
<1>3. ASSUME NEW k \in Keys, DelKey(k)
      PROVE  Good(snodes', rb', live')
  <2>1. /\ snodes' = snodes
        /\ \/ rb' = rb /\ live' = live
           \/ \E n \in rb : /\ snodes[n.info].key = k /\ k \notin Repeatable
                            /\ rb' = rb \ {n} /\ live' = live \ {n.info}
    BY <1>1, <1>3, DelKeyDoes
  <2>2. CASE rb' = rb /\ live' = live
    BY <1>1, <2>1, <2>2
  <2>3. ASSUME NEW n \in rb, snodes[n.info].key = k, k \notin Repeatable,
               rb' = rb \ {n}, live' = live \ {n.info}
        PROVE  Good(snodes', rb', live')
    <3>1. Good(snodes, rb \ {n}, live \ {n.info})
      BY <1>1, <2>3, DeleteKeeps
    <3> QED
      BY <2>1, <2>3, <3>1
  <2> QED
    BY <2>1, <2>2, <2>3
<1>4. CASE DeleteTree
  <2>1. snodes' = snodes /\ rb' = {} /\ live' = live \ Reachable
    BY <1>4 DEF DeleteTree, Reachable
  <2>2. live' = {}
    BY <1>1, <2>1, Reading
  <2>3. Good(snodes, {}, {})
    BY <1>1 DEF Good, Linked
  <2> QED
    BY <2>1, <2>2, <2>3
<1>5. CASE UNCHANGED <<rb, snodes, live>>
  BY <1>1, <1>5
<1> QED
  BY <1>2, <1>3, <1>4, <1>5 DEF Next, Get, GetKeys, GetKeysRec, Stopped, vars

LEMMA ListingStep ==
  ASSUME IInv, [Next]_vars
  PROVE  Listing'
<1>1. Good(snodes, rb, live) /\ Listing
  BY DEF IInv
<1>2. ASSUME keyarr' = NewKeyArr, todo' = {} \/ (pc' = "Keys" /\ todo' = rb /\ rb' = rb),
             pc' \in {"Idle", "Keys", "Listed", "Deleted"}
      PROVE  Listing'
  <2>1. NewKeyArr \in [items : Seq(Keys), max : Nat] /\ Len(NewKeyArr.items) < NewKeyArr.max
    BY STAssumption DEF NewKeyArr
  <2>2. todo' \subseteq rb' /\ (pc' # "Keys" => todo' = {})
    BY <1>2
  <2> QED
    BY <1>2, <2>1, <2>2 DEF Listing
<1>3. Idle => todo = {}
  BY <1>1 DEF Idle, Listing
<1>4. ASSUME Idle, Stay
      PROVE  Listing'
  BY <1>2, <1>3, <1>4 DEF Stay
<1>5. CASE GetKeys
  BY <1>2, <1>5 DEF GetKeys
<1>6. CASE GetKeysRec
  <2>1. PICK n \in todo : /\ todo' = todo \ {n}
                          /\ LET more == [keyarr EXCEPT !.items = Append(@, snodes[n.info].key)]
                             IN  keyarr' = IF Len(more.items) >= more.max THEN Double(more) ELSE more
    BY <1>6 DEF GetKeysRec
  <2>2. PICK it, mx : it = Append(keyarr.items, snodes[n.info].key) /\ mx = keyarr.max
    OBVIOUS
  <2>3. keyarr \in [items : Seq(Keys), max : Nat] /\ Len(keyarr.items) < keyarr.max
    BY <1>1 DEF Listing
  <2>4. snodes[n.info].key \in Keys
    BY <1>1 DEF Listing, Good, Linked
  <2>5. keyarr.items \in Seq(Keys) /\ mx \in Nat /\ Len(keyarr.items) \in Nat /\ Len(keyarr.items) < mx
    BY <2>2, <2>3
  <2>6. it \in Seq(Keys) /\ Len(it) \in Nat /\ Len(it) <= mx
    BY <2>2, <2>4, <2>5
  <2>7. PICK more : more = [items |-> it, max |-> mx]
    OBVIOUS
  <2>8. [keyarr EXCEPT !.items = Append(@, snodes[n.info].key)] = more
    <3>1. PICK arr : arr = keyarr
      OBVIOUS
    <3>2. arr = [items |-> arr.items, max |-> arr.max]
      BY <2>3, <3>1
    <3>3. \A x : [arr EXCEPT !.items = x] = [items |-> x, max |-> arr.max]
      BY <3>2
    <3> QED
      BY <2>2, <2>7, <3>1, <3>3
  <2>9. keyarr' = IF Len(it) >= mx THEN Double(more) ELSE more
    BY <2>1, <2>7, <2>8
  <2>10. Double(more) = [items |-> it, max |-> 2 * mx]
    BY <2>7 DEF Double
  <2>11. keyarr' \in [items : Seq(Keys), max : Nat] /\ Len(keyarr'.items) < keyarr'.max
    <3>1. CASE Len(it) >= mx
      <4>1. keyarr' = [items |-> it, max |-> 2 * mx]
        BY <2>9, <2>10, <3>1
      <4>2. 2 * mx \in Nat /\ Len(it) < 2 * mx
        BY <2>5, <2>6
      <4> QED
        BY <2>6, <4>1, <4>2
    <3>2. CASE ~ (Len(it) >= mx)
      <4>1. keyarr' = [items |-> it, max |-> mx]
        BY <2>7, <2>9, <3>2
      <4>2. Len(it) < mx
        BY <2>5, <2>6, <3>2
      <4> QED
        BY <2>5, <2>6, <4>1, <4>2
    <3> QED
      BY <3>1, <3>2
  <2>12. /\ todo' \subseteq rb' /\ (pc' # "Keys" => todo' = {})
         /\ pc' \in {"Idle", "Keys", "Listed", "Deleted"}
    <3>1. rb' = rb /\ pc' = IF todo' = {} THEN "Listed" ELSE "Keys"
      BY <1>6 DEF GetKeysRec
    <3> QED
      BY <1>1, <2>1, <3>1 DEF Listing
  <2> QED
    BY <2>11, <2>12 DEF Listing
<1>7. CASE DeleteTree
  BY <1>2, <1>3, <1>7 DEF DeleteTree
<1>8. CASE UNCHANGED vars
  BY <1>1, <1>8 DEF Listing, vars
<1>9. ASSUME NEW k \in Keys, Get(k) \/ DelKey(k) \/ \E v \in Values : Store(k, v)
      PROVE  Listing'
  BY <1>4, <1>9 DEF Get, DelKey, Store
<1> QED
  BY <1>5, <1>6, <1>7, <1>8, <1>9 DEF Next, Stopped

LEMMA InvInit ==
  ASSUME Init
  PROVE  IInv
<1>1. NewKeyArr \in [items : Seq(Keys), max : Nat] /\ Len(NewKeyArr.items) < NewKeyArr.max
  BY STAssumption DEF NewKeyArr
<1>2. Listing
  BY <1>1 DEF Init, Listing
<1> QED
  BY <1>2, GoodInit DEF IInv

LEMMA InvStep ==
  ASSUME Apart, IInv, [Next]_vars
  PROVE  IInv'
BY GoodStep, ListingStep DEF IInv

LEMMA Invariant ==
  ASSUME Apart
  PROVE  Spec => []IInv
<1>1. Init => IInv
  BY InvInit
<1>2. IInv /\ [Next]_vars => IInv'
  BY InvStep
<1> QED
  BY <1>1, <1>2, PTL DEF Spec

(* The tree, the snodes, the list of keys and the walk keep their types.    *)
THEOREM StringTreeTypeCorrect ==
  ASSUME Apart
  PROVE  Spec => []TypeOK
<1>1. IInv => TypeOK
  BY DEF IInv, Good, Listing, TypeOK, Heap, Snode
<1> QED
  BY <1>1, Invariant, PTL

(* After every call what the tree leads to is what is allocated: whatever   *)
(* the keys hash to, no list reaches a snode that was freed, and neither a *)
(* deletion nor the destruction of the tree leaves one behind.             *)
THEOREM StringTreeMemory ==
  ASSUME Apart
  PROVE  Spec => []MemoryExact
<1>1. IInv => MemoryExact
  BY Reading DEF IInv, MemoryExact, NoDangling
<1> QED
  BY <1>1, Invariant, PTL

-----------------------------------------------------------------------------
(* The map, when different keys have different hashes.                     *)

(* The list of keys names the nodes visited, each once.                    *)
Named ==
  LET names == {keyarr.items[i] : i \in 1 .. Len(keyarr.items)}
  IN  pc \in {"Keys", "Listed"} =>
        /\ IsFiniteSet(names) /\ Cardinality(names) = Len(keyarr.items)
        /\ names = {snodes[n.info].key : n \in rb \ todo}

MapInv == IInv /\ OneNodePerHash /\ Named

(* c binds the key of each list to the value of its first snode.           *)
Binds(f, T, c) ==
  /\ c = [k \in DOMAIN c |-> c[k]] /\ DOMAIN c = {f[n.info].key : n \in T}
  /\ \A n \in T : c[f[n.info].key] = f[n.info].val

LEMMA OneNodePerKey ==
  ASSUME Good(snodes, rb, live), OneNodePerHash
  PROVE  \A m, n \in rb : snodes[m.info].key = snodes[n.info].key => m = n
BY DEF Good, Linked, OneNodePerHash

LEMMA ContentsBind == MapInv => Binds(snodes, rb, Contents)
<1> SUFFICES ASSUME MapInv PROVE Binds(snodes, rb, Contents)
  OBVIOUS
<1>1. Good(snodes, rb, live) /\ OneNodePerHash
  BY DEF MapInv, IInv
<1>2. /\ \A a \in Addresses : Members(a) = From(snodes)[a]
      /\ Members(NULL) = {} /\ Reachable = live
      /\ Stored = {snodes[n.info].key : n \in rb}
  BY <1>1, Reading
<1>3. PICK K, rank : Ranked(snodes, rank, K)
  BY <1>1 DEF Good, Acyclic
<1>4. \A a \in Addresses : rank[a] \in Nat
  BY <1>3 DEF Ranked
<1>5. ASSUME NEW n \in rb
      PROVE  Oldest(snodes[n.info].key) = snodes[n.info].val
  <2>1. PICK a, k : a = n.info /\ k = snodes[a].key
    OBVIOUS
  <2>2. a \in live /\ a \in Addresses /\ snodes \in Heap
    BY <1>1, <2>1 DEF Good, Linked
  <2>3. \A b \in live : b \in Addresses /\ (snodes[b].key = k => b \in From(snodes)[a])
    <3> TAKE b \in live
    <3>1. PICK m \in rb : b \in From(snodes)[m.info]
      BY <1>1, AllListed
    <3>2. snodes[b].key = snodes[m.info].key
      <4>1. m.info \in live
        BY <1>1 DEF Good, Linked
      <4> QED
        BY <1>1, <3>1, <4>1, ListStays
    <3>3. snodes[b].key = k => m = n
      BY <1>1, <2>1, <3>2, OneNodePerKey
    <3> QED
      BY <1>1, <2>1, <3>1, <3>3 DEF Good
  <2> DEFINE First(x) == /\ snodes[x].key = k
                         /\ \A b \in Reachable : snodes[b].key = k => x \notin Members(snodes[b].next)
  <2>4. First(a)
    <3> SUFFICES ASSUME NEW b \in live, snodes[b].key = k, a \in Members(snodes[b].next) PROVE FALSE
      BY <1>2, <2>1
    <3>1. snodes[b].next # NULL
      BY <1>2
    <3>2. snodes[b].next \in Addresses
      BY <2>2, <2>3, <3>1 DEF Heap, Snode
    <3>3. a \in From(snodes)[snodes[b].next]
      BY <1>2, <3>2
    <3>4. rank[a] <= rank[snodes[b].next]
      BY <1>3, <2>2, <3>2, <3>3, FromFacts
    <3>5. rank[snodes[b].next] < rank[b]
      BY <1>3, <2>3, <3>1 DEF Ranked
    <3>6. rank[b] <= rank[a]
      BY <1>3, <2>2, <2>3, FromFacts
    <3> QED
      BY <1>4, <2>2, <2>3, <3>2, <3>4, <3>5, <3>6
  <2>5. ASSUME NEW x \in Reachable, First(x)
        PROVE  x = a
    <3> SUFFICES ASSUME x # a PROVE FALSE
      OBVIOUS
    <3>1. x \in From(snodes)[a]
      BY <1>2, <2>3, <2>5
    <3>2. snodes[a].next \in Addresses /\ x \in From(snodes)[snodes[a].next]
      BY <1>3, <2>2, <3>1, FromFacts
    <3>3. x \in Members(snodes[a].next)
      BY <1>2, <3>2
    <3> QED
      BY <1>2, <2>1, <2>2, <2>5, <3>3
  <2>6. a \in Reachable
    BY <1>2, <2>2
  <2>7. Oldest(k) = snodes[CHOOSE x \in Reachable : First(x)].val
    BY DEF Oldest
  <2> HIDE DEF First
  <2>8. (CHOOSE x \in Reachable : First(x)) = a
    BY <2>4, <2>5, <2>6
  <2> QED
    BY <2>1, <2>7, <2>8
<1>6. PICK S : S = Stored
  OBVIOUS
<1>7. Contents = [k \in S |-> Oldest(k)]
  BY <1>6 DEF Contents
<1>8. DOMAIN Contents = S /\ \A k \in S : Contents[k] = Oldest(k)
  BY <1>7
<1>9. Contents = [k \in DOMAIN Contents |-> Contents[k]]
  BY <1>7
<1>10. \A n \in rb : Contents[snodes[n.info].key] = snodes[n.info].val
  BY <1>2, <1>5, <1>6, <1>8
<1> QED
  BY <1>2, <1>6, <1>8, <1>9, <1>10 DEF Binds

(* A query finds the only node that can have the key.                      *)
LEMMA RawGetMisses ==
  ASSUME Unlike, Good(snodes, rb, live), NEW k \in Keys, NULL \in RawGet(k)
  PROVE  Query(Hash[k]) = {} /\ k \notin Stored
<1>1. \A n \in rb : n.info \in live /\ n.info # NULL /\ snodes[n.info].key \in Keys
                    /\ n.hash = Hash[snodes[n.info].key]
  BY NullIs DEF Good, Linked
<1>2. \A n \in Query(Hash[k]) : n \in rb /\ snodes[n.info].key = k
  BY <1>1 DEF Query, Unlike
<1>3. \A n \in Query(Hash[k]) : Find(n, k) # NULL
  BY <1>1, <1>2, FindIs
<1>4. Query(Hash[k]) = {}
  BY <1>3 DEF RawGet
<1>5. \A n \in rb : snodes[n.info].key # k
  BY <1>1, <1>4 DEF Query
<1> QED
  BY <1>4, <1>5, Reading

LEMMA OneNodeStep ==
  ASSUME Apart, Unlike, IInv, OneNodePerHash, [Next]_vars
  PROVE  OneNodePerHash'
<1>1. Good(snodes, rb, live)
  BY DEF IInv
<1>2. ASSUME NEW k \in Keys, NEW v \in Values, Store(k, v)
      PROVE  OneNodePerHash'
  <2>1. PICK a \in Addresses \ live :
           \/ NULL \in RawGet(k) /\ rb' = rb \cup {[hash |-> Hash[k], info |-> a]}
           \/ rb' = rb
    BY <1>1, <1>2, StoreDoes
  <2>2. CASE NULL \in RawGet(k) /\ rb' = rb \cup {[hash |-> Hash[k], info |-> a]}
    <3>1. PICK n : n = [hash |-> Hash[k], info |-> a]
      OBVIOUS
    <3>2. n.hash = Hash[k] /\ rb' = rb \cup {n}
      BY <2>2, <3>1
    <3>3. \A m \in rb : m.hash # n.hash
      BY <1>1, <2>2, <3>2, RawGetMisses DEF Query
    <3> QED
      BY <3>2, <3>3 DEF OneNodePerHash
  <2> QED
    BY <2>1, <2>2 DEF OneNodePerHash
<1>3. ASSUME NEW k \in Keys, DelKey(k)
      PROVE  OneNodePerHash'
  <2>1. rb' \subseteq rb
    BY <1>1, <1>3, DelKeyDoes
  <2> QED
    BY <2>1 DEF OneNodePerHash
<1>4. CASE DeleteTree
  BY <1>4 DEF DeleteTree, OneNodePerHash
<1>5. CASE UNCHANGED rb
  BY <1>5 DEF OneNodePerHash
<1> QED
  BY <1>2, <1>3, <1>4, <1>5 DEF Next, Get, GetKeys, GetKeysRec, Stopped, vars

LEMMA NamedStep ==
  ASSUME MapInv, [Next]_vars
  PROVE  Named'
<1>1. Good(snodes, rb, live) /\ OneNodePerHash /\ Named /\ Listing
  BY DEF MapInv, IInv
<1>2. ASSUME pc' \notin {"Keys", "Listed"}
      PROVE  Named'
  BY <1>2 DEF Named
<1>3. CASE GetKeys
  <2>1. PICK s : s = NewKeyArr.items
    OBVIOUS
  <2>2. s = <<>>
    BY <2>1 DEF NewKeyArr
  <2>3. keyarr'.items = s /\ rb' \ todo' = {}
    BY <1>3, <2>1 DEF GetKeys
  <2>4. {s[i] : i \in 1 .. Len(s)} = {} /\ Len(s) = 0
    BY <2>2
  <2>5. IsFiniteSet({}) /\ Cardinality({}) = 0
    BY FS_EmptySet
  <2> QED
    BY <2>3, <2>4, <2>5 DEF Named
<1>4. CASE GetKeysRec
  <2>1. PICK n \in todo : /\ todo' = todo \ {n}
                          /\ LET more == [keyarr EXCEPT !.items = Append(@, snodes[n.info].key)]
                             IN  keyarr' = IF Len(more.items) >= more.max THEN Double(more) ELSE more
    BY <1>4 DEF GetKeysRec
  <2>2. PICK s, k : s = keyarr.items /\ k = snodes[n.info].key
    OBVIOUS
  <2>3. PICK t : t = Append(s, k)
    OBVIOUS
  <2>4. keyarr'.items = t
    <3>1. keyarr \in [items : Seq(Keys), max : Nat]
      BY <1>1 DEF Listing
    <3>2. PICK more : more = [keyarr EXCEPT !.items = Append(@, snodes[n.info].key)]
      OBVIOUS
    <3>3. more.items = t /\ Double(more).items = t
      BY <2>2, <2>3, <3>1, <3>2 DEF Double
    <3>4. keyarr' = IF Len(more.items) >= more.max THEN Double(more) ELSE more
      BY <2>1, <3>2
    <3> QED
      BY <3>3, <3>4
  <2>5. s \in Seq(Keys) /\ Len(s) \in Nat /\ k \in Keys /\ n \in rb
    <3>1. s \in Seq(Keys)
      BY <1>1, <2>2 DEF Listing
    <3>2. n \in rb /\ k \in Keys
      BY <1>1, <2>2 DEF Listing, Good, Linked
    <3> QED
      BY <3>1, <3>2
  <2>6. PICK names : names = {s[i] : i \in 1 .. Len(s)}
    OBVIOUS
  <2>7. IsFiniteSet(names) /\ Cardinality(names) = Len(s) /\ names = {snodes[m.info].key : m \in rb \ todo}
    BY <1>1, <1>4, <2>2, <2>6 DEF Named, GetKeysRec
  <2>8. k \notin names
    BY <1>1, <2>2, <2>5, <2>7, OneNodePerKey
  <2>9. Len(t) = Len(s) + 1 /\ t[Len(s) + 1] = k /\ \A i \in 1 .. Len(s) : t[i] = s[i]
    BY <2>3, <2>5
  <2>10. {t[i] : i \in 1 .. Len(t)} = names \cup {k}
    <3>1. \A i \in 1 .. Len(t) : i \in 1 .. Len(s) \/ i = Len(s) + 1
      BY <2>5, <2>9
    <3>2. Len(s) + 1 \in 1 .. Len(t) /\ \A i \in 1 .. Len(s) : i \in 1 .. Len(t)
      BY <2>5, <2>9
    <3> QED
      BY <2>6, <2>9, <3>1, <3>2
  <2>11. IsFiniteSet(names \cup {k}) /\ Cardinality(names \cup {k}) = Len(t)
    <3>1. /\ IsFiniteSet(names \cup {k})
          /\ Cardinality(names \cup {k}) = IF k \in names THEN Cardinality(names) ELSE Cardinality(names) + 1
      BY <2>7, FS_AddElement
    <3> QED
      BY <2>7, <2>8, <2>9, <3>1
  <2>12. rb' = rb /\ snodes' = snodes /\ rb' \ todo' = (rb \ todo) \cup {n}
    BY <1>4, <2>1, <2>5 DEF GetKeysRec
  <2>13. names \cup {k} = {snodes'[m.info].key : m \in rb' \ todo'}
    BY <2>2, <2>7, <2>12
  <2> QED
    BY <2>4, <2>10, <2>11, <2>13 DEF Named
<1>5. CASE DeleteTree
  BY <1>2, <1>5 DEF DeleteTree
<1>6. CASE UNCHANGED vars
  <2>1. keyarr' = keyarr /\ pc' = pc /\ rb' = rb /\ todo' = todo /\ snodes' = snodes
    BY <1>6 DEF vars
  <2>2. Named' <=> Named
    BY <2>1 DEF Named
  <2> QED
    BY <1>1, <2>2
<1>7. ASSUME NEW k \in Keys, Get(k) \/ DelKey(k) \/ \E v \in Values : Store(k, v)
      PROVE  Named'
  BY <1>2, <1>7 DEF Get, DelKey, Store, Stay
<1> QED
  BY <1>3, <1>4, <1>5, <1>6, <1>7 DEF Next, Stopped

LEMMA MapInvariant ==
  ASSUME Apart, Unlike
  PROVE  Spec => []MapInv
<1>1. Init => MapInv
  BY InvInit DEF Init, MapInv, OneNodePerHash, Named
<1>2. MapInv /\ [Next]_vars => MapInv'
  BY InvStep, OneNodeStep, NamedStep DEF MapInv
<1> QED
  BY <1>1, <1>2, PTL DEF Spec

(* Once getkeys is through, its list names every key stored, once, and it   *)
(* never was full when getkeys_rec wrote the next.                         *)
THEOREM StringTreeListsKeys ==
  ASSUME Apart, Unlike
  PROVE  Spec => []KeysListed
<1>1. MapInv => KeysListed
  <2> SUFFICES ASSUME MapInv PROVE KeysListed
    OBVIOUS
  <2>1. Good(snodes, rb, live) /\ Listing /\ Named
    BY DEF MapInv, IInv
  <2>2. Stored = {snodes[n.info].key : n \in rb}
    BY <2>1, Reading
  <2>3. ASSUME pc = "Listed"
        PROVE  /\ Len(keyarr.items) = Cardinality(Stored)
               /\ {keyarr.items[i] : i \in 1 .. Len(keyarr.items)} = Stored
    <3>1. rb \ todo = rb
      BY <2>1, <2>3 DEF Listing
    <3> QED
      BY <2>1, <2>2, <2>3, <3>1 DEF Named
  <2> QED
    BY <2>1, <2>3 DEF KeysListed, Listing
<1> QED
  BY <1>1, MapInvariant, PTL

-----------------------------------------------------------------------------
(* A get.                                                                  *)

LEMMA GetIs ==
  ASSUME Unlike, MapInv, NEW k \in Keys, NEW found \in RawGet(k)
  PROVE  (IF found = NULL THEN NULL ELSE snodes[found].val)
           = IF k \in Stored THEN Contents[k] ELSE NULL
<1>1. Good(snodes, rb, live) /\ Binds(snodes, rb, Contents)
  BY ContentsBind DEF MapInv, IInv
<1>2. CASE found = NULL
  <2>1. k \notin Stored
    BY <1>1, <1>2, RawGetMisses
  <2> QED
    BY <1>2, <2>1
<1>3. CASE found # NULL
  <2>1. PICK n \in rb : n.info = found /\ snodes[n.info].key = k
    BY <1>1, <1>3, RawGetIs
  <2>2. k \in Stored
    BY <1>1, <1>3, RawGetIs
  <2>3. Contents[k] = snodes[found].val
    BY <1>1, <2>1 DEF Binds
  <2> QED
    BY <1>3, <2>2, <2>3
<1> QED
  BY <1>2, <1>3

(* The contents are those of the tree and the snodes.                      *)
LEMMA SameContents ==
  ASSUME UNCHANGED <<rb, snodes>>
  PROVE  Stored' = Stored /\ Contents' = Contents
<1>1. \A a : Chain(a)' = Chain(a)
  BY DEF Chain
<1>2. \A a : Members(a)' = Members(a)
  BY <1>1 DEF Members
<1>3. Reachable' = Reachable
  BY <1>2 DEF Reachable
<1>4. Stored' = Stored
  BY <1>3 DEF Stored
<1>5. \A k : Oldest(k)' = Oldest(k)
  BY <1>2, <1>3 DEF Oldest
<1> QED
  BY <1>4, <1>5 DEF Contents

(* What get returns is the value the map has for the key, and 0 for a key   *)
(* it has not.                                                             *)
THEOREM StringTreeGets ==
  ASSUME Apart, Unlike
  PROVE  Spec => []GetFinds
<1>1. Init => GetFinds
  BY DEF Init, Nothing, GetFinds
<1>2. MapInv /\ GetFinds /\ [Next]_vars => GetFinds'
  <2> SUFFICES ASSUME MapInv, GetFinds, [Next]_vars PROVE GetFinds'
    OBVIOUS
  <2>1. CASE got' = Nothing
    BY <2>1 DEF Nothing, GetFinds
  <2>2. ASSUME NEW k \in Keys, Get(k)
        PROVE  GetFinds'
    <3>1. PICK found \in RawGet(k) :
            got' = [asked |-> TRUE, key |-> k,
                    val |-> IF found = NULL THEN NULL ELSE snodes[found].val]
      BY <2>2 DEF Get
    <3>2. Stored' = Stored /\ Contents' = Contents
      BY <2>2, SameContents DEF Get
    <3>3. got'.key = k /\ got'.val = IF found = NULL THEN NULL ELSE snodes[found].val
      BY <3>1
    <3>4. got'.val = IF k \in Stored THEN Contents[k] ELSE NULL
      BY <3>3, GetIs
    <3> QED
      BY <3>2, <3>3, <3>4 DEF GetFinds
  <2>3. CASE UNCHANGED <<rb, snodes, got>>
    <3>1. Stored' = Stored /\ Contents' = Contents
      BY <2>3, SameContents
    <3> QED
      BY <2>3, <3>1 DEF GetFinds
  <2> QED
    BY <2>1, <2>2, <2>3 DEF Next, Store, DelKey, GetKeys, GetKeysRec, DeleteTree, Stopped, vars
<1> QED
  BY <1>1, <1>2, MapInvariant, PTL DEF Spec

-----------------------------------------------------------------------------
(* The refinement.                                                         *)

LEMMA EmptyMap ==
  ASSUME NEW f, NEW c, Binds(f, {}, c)
  PROVE  c = <<>>
<1>1. DOMAIN c = {} /\ c = [k \in DOMAIN c |-> c[k]]
  BY DEF Binds
<1>2. <<>> = [k \in {} |-> c[k]]
  OBVIOUS
<1> QED
  BY <1>1, <1>2

LEMMA MapInit ==
  ASSUME Init, MapInv
  PROVE  Abstract!Init
<1>1. Binds(snodes, {}, Contents)
  BY ContentsBind DEF Init
<1> QED
  BY <1>1, EmptyMap DEF Abstract!Init

LEMMA MapStore ==
  ASSUME Unlike, MapInv, Binds(snodes', rb', Contents'), NEW k \in Keys, NEW v \in Values, Store(k, v)
  PROVE  Abstract!Store(k, v) \/ Contents' = Contents
<1>1. Good(snodes, rb, live) /\ Binds(snodes, rb, Contents)
  BY ContentsBind DEF MapInv, IInv
<1>2. PICK c, d : c = Contents /\ d = Contents'
  OBVIOUS
<1>3. Binds(snodes, rb, c) /\ Binds(snodes', rb', d)
  BY <1>1, <1>2
<1>4. /\ c = [j \in DOMAIN c |-> c[j]] /\ DOMAIN c = {snodes[n.info].key : n \in rb}
      /\ \A n \in rb : c[snodes[n.info].key] = snodes[n.info].val
  BY <1>3 DEF Binds
<1>5. /\ d = [j \in DOMAIN d |-> d[j]] /\ DOMAIN d = {snodes'[n.info].key : n \in rb'}
      /\ \A n \in rb' : d[snodes'[n.info].key] = snodes'[n.info].val
  BY <1>3 DEF Binds
<1>6. \A n \in rb : n.info \in live /\ n.info \in Addresses
  BY <1>1 DEF Good, Linked
<1>7. PICK a \in Addresses \ live :
         \/ /\ Put(snodes, snodes', a, k, v) /\ rb' = rb \cup {[hash |-> Hash[k], info |-> a]}
            /\ NULL \in RawGet(k)
         \/ /\ rb' = rb
            /\ \E z \in live : Appended(snodes, snodes', a, k, v, z)
  BY <1>1, StoreDoes
<1>8. ASSUME Put(snodes, snodes', a, k, v), rb' = rb \cup {[hash |-> Hash[k], info |-> a]},
             NULL \in RawGet(k)
      PROVE  Abstract!Store(k, v)
  <2>1. PICK n : n = [hash |-> Hash[k], info |-> a]
    OBVIOUS
  <2>2. n.info = a /\ rb' = rb \cup {n} /\ snodes'[a].key = k /\ snodes'[a].val = v
    BY <1>8, <2>1 DEF Put
  <2>3. \A m \in rb : snodes'[m.info] = snodes[m.info]
    BY <1>6, <1>8 DEF Put
  <2>4. k \notin DOMAIN c
    <3>1. k \notin Stored
      BY <1>1, <1>8, RawGetMisses
    <3> QED
      BY <1>1, <1>4, <3>1, Reading
  <2>5. DOMAIN d = DOMAIN c \cup {k}
    BY <1>4, <1>5, <2>2, <2>3
  <2>6. d[k] = v /\ \A j \in DOMAIN c : d[j] = c[j]
    BY <1>4, <1>5, <2>2, <2>3
  <2>7. \A j \in DOMAIN d : d[j] = IF j = k THEN v ELSE c[j]
    BY <2>5, <2>6
  <2>8. d = [j \in DOMAIN c \cup {k} |-> IF j = k THEN v ELSE c[j]]
    BY <1>5, <2>5, <2>7
  <2> QED
    BY <1>2, <2>4, <2>8 DEF Abstract!Store
<1>9. ASSUME rb' = rb, NEW z \in live, Appended(snodes, snodes', a, k, v, z)
      PROVE  Contents' = Contents
  <2>1. \A m \in rb : snodes'[m.info].key = snodes[m.info].key /\ snodes'[m.info].val = snodes[m.info].val
    BY <1>6, <1>9 DEF Appended
  <2>2. DOMAIN d = DOMAIN c
    BY <1>4, <1>5, <1>9, <2>1
  <2>3. \A j \in DOMAIN c : d[j] = c[j]
    BY <1>4, <1>5, <1>9, <2>1
  <2>4. d = [j \in DOMAIN c |-> d[j]]
    BY <1>5, <2>2
  <2>5. d = c
    BY <1>4, <2>3, <2>4
  <2> QED
    BY <1>2, <2>5
<1> QED
  BY <1>7, <1>8, <1>9

LEMMA MapDelKey ==
  ASSUME Apart, Unlike, MapInv, Binds(snodes', rb', Contents'), NEW k \in Keys, DelKey(k)
  PROVE  Abstract!Delete(k) \/ Contents' = Contents
<1>1. Good(snodes, rb, live) /\ OneNodePerHash /\ Binds(snodes, rb, Contents)
  BY ContentsBind DEF MapInv, IInv
<1>2. PICK c, d : c = Contents /\ d = Contents'
  OBVIOUS
<1>3. Binds(snodes, rb, c) /\ Binds(snodes', rb', d)
  BY <1>1, <1>2
<1>4. /\ DOMAIN c = {snodes[n.info].key : n \in rb}
      /\ \A n \in rb : c[snodes[n.info].key] = snodes[n.info].val
  BY <1>3 DEF Binds
<1>5. /\ d = [j \in DOMAIN d |-> d[j]] /\ DOMAIN d = {snodes'[n.info].key : n \in rb'}
      /\ \A n \in rb' : d[snodes'[n.info].key] = snodes'[n.info].val
  BY <1>3 DEF Binds
<1>6. /\ snodes' = snodes
      /\ \/ rb' = rb /\ live' = live
         \/ \E n \in rb : snodes[n.info].key = k /\ rb' = rb \ {n}
  BY <1>1, DelKeyDoes
<1>7. CASE rb' = rb
  BY <1>6, <1>7, SameContents
<1>8. ASSUME NEW n \in rb, snodes[n.info].key = k, rb' = rb \ {n}
      PROVE  Abstract!Delete(k)
  <2>1. \A m \in rb \ {n} : snodes[m.info].key # k
    BY <1>1, <1>8, OneNodePerKey
  <2>2. k \in DOMAIN c /\ DOMAIN d = DOMAIN c \ {k}
    BY <1>4, <1>5, <1>6, <1>8, <2>1
  <2>3. \A j \in DOMAIN d : d[j] = c[j]
    BY <1>4, <1>5, <1>6, <1>8
  <2>4. d = [j \in DOMAIN c \ {k} |-> c[j]]
    BY <1>5, <2>2, <2>3
  <2> QED
    BY <1>2, <2>2, <2>4 DEF Abstract!Delete
<1> QED
  BY <1>6, <1>7, <1>8

LEMMA MapStep ==
  ASSUME Apart, Unlike, MapInv, Binds(snodes', rb', Contents'), [Next]_vars
  PROVE  [Abstract!Next]_Contents
<1>1. ASSUME NEW k \in Keys, NEW v \in Values, Store(k, v)
      PROVE  Abstract!Next \/ Contents' = Contents
  BY <1>1, MapStore DEF Abstract!Next
<1>2. ASSUME NEW k \in Keys, DelKey(k)
      PROVE  Abstract!Next \/ Contents' = Contents
  BY <1>2, MapDelKey DEF Abstract!Next
<1>3. CASE DeleteTree
  <2>1. Binds(snodes', {}, Contents')
    BY <1>3 DEF DeleteTree
  <2>2. Contents' = <<>>
    BY <2>1, EmptyMap
  <2> QED
    BY <2>2 DEF Abstract!Next, Abstract!Clear
<1>4. CASE UNCHANGED <<rb, snodes>>
  BY <1>4, SameContents
<1> QED
  BY <1>1, <1>2, <1>3, <1>4 DEF Next, Get, GetKeys, GetKeysRec, Stopped, vars

(* Lists, hashes and the order of the tree are no part of what the calls    *)
(* promise: a store binds a new key or changes no binding, a deletion      *)
(* unbinds its key alone, and the destruction all of them.                 *)
THEOREM StringTreeIsMap ==
  ASSUME Apart, Unlike
  PROVE  Spec => ImplementsMap
<1>1. MapInv => Binds(snodes, rb, Contents)
  BY ContentsBind
<1>2. Init /\ MapInv => Abstract!Init
  BY MapInit
<1>3. MapInv /\ Binds(snodes, rb, Contents)' /\ [Next]_vars => [Abstract!Next]_Contents
  <2>1. Binds(snodes, rb, Contents)' <=> Binds(snodes', rb', Contents')
    BY DEF Binds
  <2> QED
    BY <2>1, MapStep
<1> QED
  BY <1>1, <1>2, <1>3, MapInvariant, PTL DEF Spec, ImplementsMap, Abstract!Spec
=============================================================================
