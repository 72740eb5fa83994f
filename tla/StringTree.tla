----------------------------- MODULE StringTree -----------------------------
(***************************************************************************)
(* The map of c/string-tree.c behind every uj_hash: a red-black tree whose  *)
(* nodes have a 32-bit hash as key and a list of snodes as info, one snode *)
(* for every store.  The tree itself is RBTree's subject; here it is the   *)
(* bag RBTree implements (OrderedBag): a set of nodes, a query answering   *)
(* with one of those that have the hash, a walk in the order of the keys.  *)
(*                                                                         *)
(* The snodes are a heap of addresses.  free() takes an address out of     *)
(* live and leaves its fields as they are; malloc() may hand it out again. *)
(***************************************************************************)
EXTENDS Integers, Sequences, FiniteSets

CONSTANTS
  Keys, Values,
  Hash,          \* fnv1a_len, of each key
  Addresses,     \* what malloc may return; NULL is 0
  KeyArrMax,     \* XJR_KEY_ARR_MAX, the first capacity of a list of keys
  Repeatable,    \* the keys the caller may store while they are stored
  Deletable      \* the keys the caller may delete

NULL == 0

ASSUME STAssumption ==
  /\ Hash \in [Keys -> Nat]
  /\ Addresses \subseteq Nat \ {NULL}
  /\ KeyArrMax \in Nat \ {0}
  /\ Repeatable \subseteq Keys /\ Deletable \subseteq Keys

VARIABLES
  rb,        \* the tree: a set of [hash, info]
  snodes,    \* the contents of every address
  live,      \* the addresses allocated and not freed
  keyarr,    \* the list getkeys fills: [items, max]
  todo,      \* the nodes of the tree TreeForEach1p has still to visit
  got,       \* the key last asked for and the answer
  pc         \* "Idle", "Keys" while getkeys runs, "Listed" after it, "Deleted"

vars == <<rb, snodes, live, keyarr, todo, got, pc>>

NewKeyArr == [items |-> <<>>, max |-> KeyArrMax]
Nothing   == [asked |-> FALSE]

Init ==
  /\ rb = {}
  /\ snodes = [a \in Addresses |-> [key |-> NULL, val |-> NULL, next |-> NULL]]
  /\ live = {}
  /\ keyarr = NewKeyArr
  /\ todo = {} /\ got = Nothing
  /\ pc = "Idle"

-----------------------------------------------------------------------------
(* The snodes from address a on.                                           *)
Chain(a) ==
  LET from[b \in Addresses \cup {NULL}] ==
        IF b = NULL THEN <<>> ELSE <<b>> \o from[snodes[b].next]
  IN  from[a]

Members(a) == {Chain(a)[i] : i \in 1 .. Len(Chain(a))}

Reachable == UNION {Members(n.info) : n \in rb}
Stored    == {snodes[a].key : a \in Reachable}

(* RBExactQuery: a node with the hash, whichever the tree comes to first.   *)
Query(h) == {n \in rb : n.hash = h}

(* Mutant: the last snode that has the key.                                *)
Find_Last(n, k) ==
  LET c    == Chain(n.info)
      hits == {i \in 1 .. Len(c) : snodes[c[i]].key = k}
  IN  IF hits = {} THEN NULL ELSE c[CHOOSE i \in hits : \A j \in hits : i >= j]

(* The loop of the rawget functions over one node's list: the first snode   *)
(* that has the key, or NULL.                                              *)
Find(n, k) ==
  LET c    == Chain(n.info)
      hits == {i \in 1 .. Len(c) : snodes[c[i]].key = k}
  IN  IF hits = {} THEN NULL ELSE c[CHOOSE i \in hits : \A j \in hits : i <= j]

(* string_tree__rawget_len(k) and rawget_precalc: what it may return.       *)
RawGet(k) ==
  IF Query(Hash[k]) = {} THEN {NULL} ELSE {Find(n, k) : n \in Query(Hash[k])}

-----------------------------------------------------------------------------
(* The tree between two calls.  getkeys leaves its list with the caller.    *)
Idle == pc \in {"Idle", "Listed"}
Stay == keyarr' = NewKeyArr /\ pc' = "Idle" /\ UNCHANGED todo

(* Mutant: a key stored again is put in front of the list.                 *)
Store_InFront(k, v) ==
  /\ Idle
  /\ k \in Repeatable \/ k \notin Stored
  /\ \E a \in Addresses \ live :
       LET same  == Query(Hash[k])
           front == IF same = {} THEN NULL ELSE (CHOOSE n \in same : TRUE).info
       IN  /\ \A b \in Addresses \ live : a <= b
           /\ live' = live \cup {a}
           /\ snodes' = [snodes EXCEPT ![a] = [key |-> k, val |-> v, next |-> front]]
           /\ rb' = (rb \ same) \cup {[hash |-> Hash[k], info |-> a]}
  /\ got' = Nothing /\ Stay

(* string_tree__store_len: a key that is found gets a snode at the end of   *)
(* the list; one that is not gets a node of the tree for itself, also when *)
(* the tree has a node with its hash.                                      *)
Store(k, v) ==
  /\ Idle
  /\ k \in Repeatable \/ k \notin Stored
  /\ \E a \in Addresses \ live, found \in RawGet(k) :
       LET fresh == [snodes EXCEPT ![a] = [key |-> k, val |-> v, next |-> NULL]]
       IN  /\ \A b \in Addresses \ live : a <= b
           /\ live' = live \cup {a}
           /\ IF found = NULL
              THEN snodes' = fresh /\ rb' = rb \cup {[hash |-> Hash[k], info |-> a]}
              ELSE /\ snodes' = [fresh EXCEPT ![Chain(found)[Len(Chain(found))]].next = a]
                   /\ UNCHANGED rb
  /\ got' = Nothing /\ Stay

(* Mutant: a node left without a list stays in the tree.                   *)
DelKey_KeepsNode(k) ==
  /\ Idle /\ k \in Deletable
  /\ IF Query(Hash[k]) = {} THEN UNCHANGED <<rb, live>>
     ELSE \E n \in Query(Hash[k]) :
       LET found == Find(n, k)
       IN  IF found = NULL THEN UNCHANGED <<rb, live>>
           ELSE /\ live' = live \ Members(found)
                /\ rb' = (rb \ {n}) \cup {[n EXCEPT !.info = snodes[found].next]}
  /\ UNCHANGED snodes
  /\ got' = Nothing /\ Stay

(* Mutant: the node still points at the snode that was freed.              *)
DelKey_NoUnlink(k) ==
  /\ Idle /\ k \in Deletable
  /\ live' = live \ UNION {Members(Find(n, k)) : n \in Query(Hash[k])}
  /\ UNCHANGED <<rb, snodes>>
  /\ got' = Nothing /\ Stay

(* string_tree__delkey_len.  snode__delete frees the snode with everything  *)
(* behind it; then, prev being NULL throughout the loop, the node's list is *)
(* set to what followed.  A node left without a list is deleted.           *)
DelKey(k) ==
  /\ Idle /\ k \in Deletable
  /\ IF Query(Hash[k]) = {} THEN UNCHANGED <<rb, live>>
     ELSE \E n \in Query(Hash[k]) :
       LET found == Find(n, k)
           next  == snodes[found].next
           left  == IF next = NULL THEN {} ELSE {[n EXCEPT !.info = next]}
       IN  IF found = NULL THEN UNCHANGED <<rb, live>>
           ELSE /\ live' = live \ Members(found)
                /\ rb' = (rb \ {n}) \cup left
  /\ UNCHANGED snodes
  /\ got' = Nothing /\ Stay

(* string_tree__get_len and get_precalc: the data, 0 when there is none.    *)
Get(k) ==
  /\ Idle
  /\ \E found \in RawGet(k) :
       got' = [asked |-> TRUE, key |-> k,
               val |-> IF found = NULL THEN NULL ELSE snodes[found].val]
  /\ Stay /\ UNCHANGED <<rb, snodes, live>>

(* Mutant: doubling does not carry the old keys over.                      *)
Double_NoCopy(arr) == [items |-> <<>>, max |-> 2 * arr.max]

(* xjr_key_arr__double.                                                    *)
Double(arr) == [arr EXCEPT !.max = 2 * @]

(* string_tree__getkeys: a new list, and TreeForEach1p over the tree.  On   *)
(* an empty tree the walk calls getkeys_rec with the info of the sentinel, *)
(* which is not modelled.                                                  *)
GetKeys ==
  /\ Idle /\ rb # {}
  /\ keyarr' = NewKeyArr /\ todo' = rb /\ pc' = "Keys" /\ got' = Nothing
  /\ UNCHANGED <<rb, snodes, live>>

(* Mutant: the list is doubled one key too late.                           *)
GetKeysRec_Late ==
  /\ pc = "Keys"
  /\ \E n \in todo :
       LET more == [keyarr EXCEPT !.items = Append(@, snodes[n.info].key)]
       IN  /\ \A m \in todo : n.hash <= m.hash
           /\ todo' = todo \ {n}
           /\ keyarr' = IF Len(more.items) > more.max THEN Double(more) ELSE more
  /\ pc' = IF todo' = {} THEN "Listed" ELSE "Keys"
  /\ UNCHANGED <<rb, snodes, live, got>>

(* string_tree__getkeys_rec, for the next node in order: the key of its     *)
(* first snode, and twice the capacity once the list is full.              *)
GetKeysRec ==
  /\ pc = "Keys"
  /\ \E n \in todo :
       LET more == [keyarr EXCEPT !.items = Append(@, snodes[n.info].key)]
       IN  /\ \A m \in todo : n.hash <= m.hash
           /\ todo' = todo \ {n}
           /\ keyarr' = IF Len(more.items) >= more.max THEN Double(more) ELSE more
  /\ pc' = IF todo' = {} THEN "Listed" ELSE "Keys"
  /\ UNCHANGED <<rb, snodes, live, got>>

(* string_tree__delete: RBTreeDestroy, and InfoDest for the list of every   *)
(* node.                                                                   *)
DeleteTree ==
  /\ Idle
  /\ live' = live \ UNION {Members(n.info) : n \in rb}
  /\ rb' = {} /\ pc' = "Deleted"
  /\ got' = Nothing /\ keyarr' = NewKeyArr
  /\ UNCHANGED <<snodes, todo>>

Stopped == pc = "Deleted" /\ UNCHANGED vars

Next ==
  \/ \E k \in Keys : Get(k) \/ DelKey(k) \/ \E v \in Values : Store(k, v)
  \/ GetKeys \/ GetKeysRec \/ DeleteTree \/ Stopped

Spec == Init /\ [][Next]_vars

-----------------------------------------------------------------------------
(* The type invariant.                                                     *)
TypeOK ==
  /\ rb \subseteq [hash : Nat, info : Addresses]
  /\ snodes \in [Addresses -> [key : Keys \cup {NULL}, val : Values \cup {NULL},
                               next : Addresses \cup {NULL}]]
  /\ live \subseteq Addresses
  /\ keyarr \in [items : Seq(Keys), max : Nat]
  /\ todo \subseteq rb
  /\ pc \in {"Idle", "Keys", "Listed", "Deleted"}

NoDangling == Reachable \subseteq live

(* Memory is exact after every call: what the tree leads to is allocated,   *)
(* so no later get, walk or destruction touches a freed snode, and what is *)
(* allocated is still led to: deleting a key, or the tree, leaks none.     *)
MemoryExact == NoDangling /\ live \subseteq Reachable

(* For every key stored, the value stored first.                           *)
Oldest(k) ==
  LET first == CHOOSE a \in Reachable : snodes[a].key = k
                 /\ \A b \in Reachable : snodes[b].key = k => a \notin Members(snodes[b].next)
  IN  snodes[first].val
Contents == [k \in Stored |-> Oldest(k)]

Abstract == INSTANCE KeyMap WITH map <- Contents

(* The lists and the tree implement a map: a store binds one new key, or    *)
(* changes nothing a get can see; a deletion unbinds its key and no other. *)
ImplementsMap == Abstract!Spec

(* A get answers with the binding, and 0 for a key that has none.          *)
GetFinds ==
  got.asked => got.val = IF got.key \in Stored THEN Contents[got.key] ELSE NULL

(* Serialisation and uj_hash__delete walk the list of keys and get each:    *)
(* the list names every key stored, once, though its arrays are moved and   *)
(* doubled while it is made; and getkeys_rec, which writes at arr->count,   *)
(* always does so inside of them.                                          *)
KeysListed ==
  /\ Len(keyarr.items) < keyarr.max
  /\ pc = "Listed" =>
       /\ Len(keyarr.items) = Cardinality(Stored)
       /\ {keyarr.items[i] : i \in 1 .. Len(keyarr.items)} = Stored

(* string-tree.c, in string_tree__delkey_len: "multiple keys may hash to    *)
(* this same value", so a node of the tree may hold several keys and its   *)
(* hash leads to all of them; two nodes with one hash would hide a key.    *)
OneNodePerHash == \A m, n \in rb : m.hash = n.hash => m = n

(* The same comment keeps the tree node when one of its keys is deleted:    *)
(* "we unfortunately cannot just delete the rbnode".  So a node serves all  *)
(* keys of its hash, and what it keeps is there.  This is violated only    *)
(* where neither half is true, so one history shows both.                  *)
NodesServeTheirKeys == OneNodePerHash \/ NoDangling
=============================================================================
