------------------------------ MODULE NodeLife ------------------------------
(***************************************************************************)
(* How long nodes live: the delete functions of c/ujson.c, with the        *)
(* reference count of a hash, under the UJHash wrappers of                 *)
(* objc/ujsonObjc.m.  The program holds wrappers, gets from one the        *)
(* wrappers of hashes inside it, changes hashes through them, and releases *)
(* them in any order.                                                      *)
(*                                                                         *)
(* refCnt counts from 0 for one reference, and its largest value stands    *)
(* for none; an array has no count and its nodes are never freed.  The     *)
(* characters of a key or a string lie in memory of their own (a strdup,   *)
(* the key cache) or in the UTF8String that was parsed.                    *)
(***************************************************************************)
EXTENDS Integers, Sequences, FiniteSets

CONSTANTS
  Keys,
  Texts,         \* the documents a caller may parse
  Values,        \* the objects a caller may convert: documents as well
  Width,         \* the number of values refCnt has, 256 in the source
  MaxWrappers,   \* how many wrappers the program holds at a time
  MaxNodes       \* how many nodes are allocated in a behaviour

(* A document is a tree: a sequence of nodes, the root first; entries, as   *)
(* <<key, position>>, and elements lead further on in it, and every node   *)
(* but the root is in one hash or array.                                   *)
Lead(r) == {r.tree[j][2] : j \in 1 .. Len(r.tree)} \cup {r.items[j] : j \in 1 .. Len(r.items)}

Types == {"hash", "arr", "str"}

IsDocument(doc) ==
  /\ doc \in Seq([type : Types, tree : Seq(Keys \X Nat), items : Seq(Nat)]) /\ doc # <<>>
  /\ \A i \in 1 .. Len(doc) :
       /\ Lead(doc[i]) \subseteq i + 1 .. Len(doc)
       /\ \A j \in 1 .. Len(doc) : i # j => Lead(doc[i]) \cap Lead(doc[j]) = {}
       /\ \A j, l \in 1 .. Len(doc[i].tree) : doc[i].tree[j][2] = doc[i].tree[l][2] => j = l
       /\ doc[i].type = "hash" => doc[i].items = <<>>
       /\ doc[i].type # "hash" => doc[i].tree = <<>>
  /\ 2 .. Len(doc) \subseteq UNION {Lead(doc[i]) : i \in 1 .. Len(doc)}

(* The root of a text that was parsed is a hash.  The assumption on         *)
(* MaxWrappers keeps the count of a hash that something else holds as well *)
(* from wrapping around.                                                   *)
ASSUME LifeAssumption ==
  /\ \A doc \in Texts \cup Values : IsDocument(doc)
  /\ \A doc \in Texts : doc[1].type = "hash"
  /\ Width \in Nat /\ MaxWrappers \in Nat /\ MaxNodes \in Nat
  /\ MaxWrappers <= Width - 2

VARIABLES
  nodes,       \* the nodes allocated so far; an address is an index
  gone,        \* those a delete function has dealt with: freed, but for arrays
  wrappers,    \* how many UJHash there are for each node
  texts,       \* the UTF8Strings still there, named by the root parsed from them
  abandoned,   \* ghost: nodes with a reference that nothing will give back
  pc           \* Undefined once memory was read that has vanished

vars == <<nodes, gone, wrappers, texts, abandoned, pc>>

Owned == 0     \* characters in memory of their own
nil   == 0

Addresses == 1 .. Len(nodes)
IsHash(n) == nodes[n].type = "hash"

Init ==
  /\ nodes = <<>> /\ gone = {} /\ wrappers = <<>>
  /\ texts = {} /\ abandoned = {} /\ pc = "Running"

-----------------------------------------------------------------------------
(* Mutant: refCnt is an int.                                               *)
Down_Signed(c) == c - 1

(* refCnt++ and refCnt--.                                                  *)
Up(c)   == (c + 1) % Width
Down(c) == (c - 1) % Width

(* The nodes of a document at the addresses allocated next, as uj_parse or  *)
(* toNode makes them: a leaf stands for a string or a number.              *)
Build(doc, text) ==
  LET base == Len(nodes)
  IN  [i \in 1 .. Len(doc) |->
        [type   |-> doc[i].type,
         refCnt |-> 0,
         tree   |-> [j \in 1 .. Len(doc[i].tree) |->
                      [key |-> doc[i].tree[j][1], text |-> text, val |-> base + doc[i].tree[j][2]]],
         items  |-> [j \in 1 .. Len(doc[i].items) |-> base + doc[i].items[j]],
         text   |-> text]]

Next1 == Len(nodes) + 1     \* where the root of a new document goes

Total(w) == LET sum[n \in 0 .. Len(w)] == IF n = 0 THEN 0 ELSE sum[n - 1] + w[n]
            IN  sum[Len(w)]

Room(doc, more) == Len(nodes) + Len(doc) <= MaxNodes /\ Total(wrappers) + more <= MaxWrappers

Zeros(doc) == [i \in 1 .. Len(doc) |-> 0]

(* What a document stores under a key that the hash has already is behind  *)
(* the first one, where neither get nor delete comes.                      *)
Behind(doc) ==
  UNION {{Len(nodes) + doc[i].tree[j][2] :
            j \in {j \in 1 .. Len(doc[i].tree) :
                    \E l \in 1 .. j - 1 : doc[i].tree[l][1] = doc[i].tree[j][1]}} :
         i \in 1 .. Len(doc)}

(* A new document with a wrapper for its root.                             *)
Wrap(doc, text, refCnt) ==
  /\ Room(doc, 1)
  /\ nodes' = nodes \o [Build(doc, text) EXCEPT ![1].refCnt = refCnt]
  /\ wrappers' = wrappers \o [Zeros(doc) EXCEPT ![1] = 1]

(* Mutant: the reference that uj_hash__new counts is not taken back.       *)
InitWithString_CountsTwice(doc) ==
  /\ pc = "Running"
  /\ Wrap(doc, Next1, Up(0))
  /\ texts' = texts \cup {Next1}
  /\ abandoned' = abandoned \cup Behind(doc)
  /\ UNCHANGED <<gone, pc>>

(* initWithString: the keys and strings of the hash are slices of the       *)
(* UTF8String, and the reference uj_hash__new counts becomes the wrapper's. *)
InitWithString(doc) ==
  /\ pc = "Running"
  /\ Wrap(doc, Next1, Up(Down(0)))
  /\ texts' = texts \cup {Next1}
  /\ abandoned' = abandoned \cup Behind(doc)
  /\ UNCHANGED <<gone, pc>>

(* initWithDict, and init for an empty document: the wrapper's reference    *)
(* comes on top of the one uj_hash__new counts.                            *)
InitWithDict(doc) ==
  /\ pc = "Running" /\ doc[1].type = "hash"
  /\ Wrap(doc, Owned, Up(0))
  /\ abandoned' = abandoned \cup {Next1} \cup Behind(doc)
  /\ UNCHANGED <<gone, texts, pc>>

-----------------------------------------------------------------------------
(* uj_hash__get: what was stored first under the key.                      *)
Get(n, k) ==
  LET hits == {j \in 1 .. Len(nodes[n].tree) : nodes[n].tree[j].key = k}
  IN  IF hits = {} THEN nil ELSE nodes[n].tree[CHOOSE j \in hits : \A i \in hits : j <= i].val

(* Mutant: the walk of an array stops at its head.                         *)
Sub_HeadOnly(n) ==
  {Get(n, nodes[n].tree[j].key) : j \in 1 .. Len(nodes[n].tree)}
    \cup {nodes[n].items[j] : j \in 1 .. Len(nodes[n].items) \cap {1}}

(* The characters of n and of its keys are still there.                    *)
Readable(n) ==
  /\ nodes[n].text \in texts \cup {Owned}
  /\ \A j \in 1 .. Len(nodes[n].tree) : nodes[n].tree[j].text \in texts \cup {Owned}

(* What the keys of a hash lead to, or the elements of an array.           *)
Sub(n) ==
  {Get(n, nodes[n].tree[j].key) : j \in 1 .. Len(nodes[n].tree)}
    \cup {nodes[n].items[j] : j \in 1 .. Len(nodes[n].items)}

(* node2ns: the hashes it makes wrappers of, all those of nested arrays.   *)
Wrapped(n) ==
  LET of[m \in Addresses] ==
        IF nodes[m].type = "hash" THEN {m}
        ELSE IF nodes[m].type = "arr" THEN UNION {of[c] : c \in Sub(m)} ELSE {}
  IN  of[n]

Call(h) == pc = "Running" /\ wrappers[h] > 0

(* get, set and remove compare the key with those of the hash.             *)
ReadVanished(h) ==
  /\ Call(h) /\ ~ Readable(h)
  /\ pc' = "Undefined"
  /\ UNCHANGED <<nodes, gone, wrappers, texts, abandoned>>

(* Mutant: the wrapper of an inner hash takes no reference.                *)
ObjectForKey_NoCount(h, k) ==
  /\ Call(h) /\ Readable(h)
  /\ Get(h, k) # nil
  /\ LET w == Wrapped(Get(h, k))
     IN  /\ w # {} /\ Room(<<>>, Cardinality(w))
         /\ UNCHANGED nodes
         /\ wrappers' = [n \in Addresses |-> IF n \in w THEN wrappers[n] + 1 ELSE wrappers[n]]
  /\ UNCHANGED <<gone, texts, abandoned, pc>>

(* objectForKey; a key that is not there, or one with another value, gives  *)
(* the program nothing to release.                                         *)
ObjectForKey(h, k) ==
  /\ Call(h) /\ Readable(h)
  /\ Get(h, k) # nil
  /\ LET w == Wrapped(Get(h, k))
     IN  /\ w # {} /\ Room(<<>>, Cardinality(w))
         /\ nodes' = [n \in Addresses |->
                       IF n \in w THEN [nodes[n] EXCEPT !.refCnt = Up(@)] ELSE nodes[n]]
         /\ wrappers' = [n \in Addresses |-> IF n \in w THEN wrappers[n] + 1 ELSE wrappers[n]]
  /\ UNCHANGED <<gone, texts, abandoned, pc>>

(* setObject: toNode copies the object, the key is the cache's.  Under a    *)
(* key that is there already the value is stored behind the first one.     *)
SetObject(h, k, doc) ==
  /\ Call(h) /\ Readable(h) /\ Room(doc, 0)
  /\ nodes' = [nodes EXCEPT ![h].tree = Append(@, [key |-> k, text |-> Owned, val |-> Next1])]
                \o Build(doc, Owned)
  /\ wrappers' = wrappers \o Zeros(doc)
  /\ abandoned' = abandoned \cup Behind(doc) \cup (IF Get(h, k) = nil THEN {} ELSE {Next1})
  /\ UNCHANGED <<gone, texts, pc>>

(* removeObjectForKey, for a key stored once (StringTree shows what becomes *)
(* of the others): the entry goes, the node stays.                         *)
RemoveObject(h, k) ==
  /\ Call(h) /\ Readable(h)
  /\ \E j \in 1 .. Len(nodes[h].tree) :
       /\ {i \in 1 .. Len(nodes[h].tree) : nodes[h].tree[i].key = k} = {j}
       /\ nodes' = [nodes EXCEPT ![h].tree = SubSeq(@, 1, j - 1) \o SubSeq(@, j + 1, Len(@))]
       /\ abandoned' = abandoned \cup {nodes[h].tree[j].val}
  /\ UNCHANGED <<gone, wrappers, texts, pc>>

-----------------------------------------------------------------------------
(* `if( self->refCnt < 254 ) return`, once the count went down.            *)
Dies(n) == IsHash(n) => Down(nodes[n].refCnt) >= Width - 2

(* The delete functions, on a node that dies: with what it leads to, down   *)
(* to the hashes that something else holds.                                *)
Sweep(n) ==
  LET of[m \in Addresses] == {m} \cup UNION {of[c] : c \in {c \in Sub(m) : Dies(c)}}
  IN  of[n]

(* getkeys on an empty tree makes a key of the sentinel's info, which was   *)
(* never assigned, and the node got for it is NULL.                        *)
Deletable(n) == IsHash(n) => nodes[n].tree # <<>> /\ Readable(n)

(* What a freed node held is not told apart; nothing leads to a node that  *)
(* uj_arr__delete has left either.                                         *)
Freed(n) == [nodes[n] EXCEPT !.refCnt = 0, !.tree = <<>>, !.items = <<>>, !.text = Owned]

(* dealloc, which calls uj_hash__delete.                                   *)
Dealloc(h) ==
  LET swept   == IF Dies(h) THEN Sweep(h) ELSE {}
      counted == {h} \cup {n \in UNION {Sub(m) : m \in swept} : IsHash(n)}
  IN  /\ Call(h)
      /\ IF \A n \in swept : Deletable(n)
         THEN /\ nodes' = [n \in Addresses |->
                            IF n \in swept THEN Freed(n)
                            ELSE IF n \in counted THEN [nodes[n] EXCEPT !.refCnt = Down(@)]
                            ELSE nodes[n]]
              /\ gone' = gone \cup swept
              /\ abandoned' = abandoned \ swept
              /\ wrappers' = [wrappers EXCEPT ![h] = @ - 1]
              /\ UNCHANGED pc
         ELSE pc' = "Undefined" /\ UNCHANGED <<nodes, gone, wrappers, abandoned>>
      /\ UNCHANGED texts

(* The UTF8String goes, with the NSString or the autorelease pool it        *)
(* belongs to.                                                             *)
Vanish(b) ==
  /\ pc = "Running"
  /\ texts' = texts \ {b}
  /\ UNCHANGED <<nodes, gone, wrappers, abandoned, pc>>

(* The program makes no more calls, or none is defined.                    *)
Rest == UNCHANGED vars

Next ==
  \/ \E doc \in Texts : InitWithString(doc)
  \/ \E doc \in Values : InitWithDict(doc)
  \/ \E h \in Addresses : \E k \in Keys :
       \/ ObjectForKey(h, k) \/ RemoveObject(h, k) \/ \E doc \in Values : SetObject(h, k, doc)
  \/ \E h \in Addresses : Dealloc(h) \/ ReadVanished(h)
  \/ \E b \in texts : Vanish(b)
  \/ Rest

Spec == Init /\ [][Next]_vars

-----------------------------------------------------------------------------
(* The type invariant.                                                     *)
TypeOK ==
  /\ \A n \in Addresses :
       /\ nodes[n].type \in Types
       /\ nodes[n].refCnt \in 0 .. Width - 1
       /\ nodes[n].text \in Addresses \cup {Owned}
       /\ \A e \in {nodes[n].tree[j] : j \in 1 .. Len(nodes[n].tree)} :
            e.key \in Keys /\ e.text \in Addresses \cup {Owned} /\ e.val \in Addresses
       /\ \A j \in 1 .. Len(nodes[n].items) : nodes[n].items[j] \in Addresses
  /\ gone \subseteq Addresses /\ abandoned \subseteq Addresses /\ texts \subseteq Addresses
  /\ wrappers \in [Addresses -> 0 .. MaxWrappers]
  /\ pc \in {"Running", "Undefined"}

(* All that can be got from n, and all that is stored in it.               *)
Reach(n) == LET of[m \in Addresses] == {m} \cup UNION {of[c] : c \in Sub(m)} IN of[n]

Stored(n) == {nodes[n].tree[j].val : j \in 1 .. Len(nodes[n].tree)}
               \cup {nodes[n].items[j] : j \in 1 .. Len(nodes[n].items)}
AllOf(n) == LET of[m \in Addresses] == {m} \cup UNION {of[c] : c \in Stored(m)} IN of[n]

InUse == {h \in Addresses : wrappers[h] > 0}

(* In whatever order the wrappers of a hash, of the hashes inside it and of *)
(* those inside arrays are released: what can be got from a wrapper that   *)
(* is left has not been freed.                                             *)
WrappedAlive == \A h \in InUse : Reach(h) \cap gone = {}

HeldByOther(h) == h \in abandoned \/ \E c \in Addresses \ gone : h \in Stored(c)

(* "255 == no references; 0 = 1 reference" of uj_hash__delete: the count of *)
(* a hash is the number of its wrappers, and one more for the container it *)
(* is in or for a reference that nothing gives back.                       *)
CountsReferences ==
  \A h \in Addresses \ gone :
    IsHash(h) => nodes[h].refCnt + 1 = wrappers[h] + (IF HeldByOther(h) THEN 1 ELSE 0)

(* "node_hash now uses a reference count, so this may not actually delete   *)
(* it": but the last release does.  A hash is freed unless a wrapper leads *)
(* to it, or it is one of those left behind by init, initWithDict,         *)
(* removeObjectForKey and a key set twice.                                 *)
HashesReleased ==
  \A h \in Addresses \ gone :
    IsHash(h) => \E r \in InUse \cup abandoned : h \in AllOf(r)

(* In setObject: "Use a cached key because this C version of the NSString   *)
(* will vanish".  The keys and strings that can be got from a wrapper lie  *)
(* in memory that has not vanished.                                        *)
TextOutlivesString == \A h \in InUse : \A n \in Reach(h) : Readable(n)
=============================================================================
