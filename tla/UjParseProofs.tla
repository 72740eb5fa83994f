--------------------------- MODULE UjParseProofs ----------------------------
(***************************************************************************)
(* Proofs about UjParse, for every set of buffers and every stack length.  *)
(***************************************************************************)
EXTENDS UjParse, Walks

-----------------------------------------------------------------------------
(* Constructors and links.                                                 *)

LEMMA NewNodeType ==
  ASSUME NEW t \in NodeTypes
  PROVE  NewNode(t) \in Node
<1> DEFINE E == [key : Slice, val : Nat]
<1>1. <<>> \in Seq(E)
  OBVIOUS
<1>2. NullStr \in Slice
  BY DEF NullStr, Slice
<1> HIDE DEF E
<1>3. NewNode(t) \in [type : NodeTypes, parent : Nat, tree : Seq(E), head : Nat, tail : Nat,
                      count : Nat, str : Slice, alloc : BOOLEAN]
  BY <1>1, <1>2 DEF NewNode, NULL
<1> QED
  BY <1>3 DEF Node, E

LEMMA NewHashType ==
  ASSUME NEW up \in Nat
  PROVE  NewHash(up) \in Node
<1>1. NewNode("hash") \in Node
  BY NewNodeType DEF NodeTypes
<1> QED
  BY <1>1 DEF NewHash, Node

LEMMA NewArrType == NewArr \in Node
BY NewNodeType DEF NewArr, NodeTypes

LEMMA NewStrType ==
  ASSUME NEW t \in NodeTypes, NEW start \in Int, NEW len \in Int, NEW decoded \in BOOLEAN
  PROVE  NewStr(t, start, len, decoded) \in Node
<1>1. NewNode(t) \in Node
  BY NewNodeType
<1>2. [start |-> start, len |-> len] \in Slice
  BY DEF Slice
<1> QED
  BY <1>1, <1>2 DEF NewStr, Node

(* A node as a constructor leaves it: no entries, no elements.             *)
Blank(node, up) ==
  /\ node \in Node
  /\ node.tree = <<>> /\ node.head = NULL /\ node.tail = NULL
  /\ node.parent = up

LEMMA NewNodeBlank ==
  ASSUME NEW t \in NodeTypes
  PROVE  Blank(NewNode(t), NULL) /\ NewNode(t).str = NullStr
BY NewNodeType DEF NewNode, Blank

LEMMA NewHashBlank ==
  ASSUME NEW up \in Nat
  PROVE  Blank(NewHash(up), up) /\ NewHash(up).str = NullStr
<1>1. NewHash(up) \in Node
  BY NewHashType
<1> QED
  BY <1>1 DEF NewHash, NewNode, Blank

LEMMA NewStrBlank ==
  ASSUME NEW t \in {"str", "pos", "neg"}, NEW start \in Int, NEW len \in Int, NEW decoded \in BOOLEAN
  PROVE  /\ Blank(NewStr(t, start, len, decoded), NULL)
         /\ NewStr(t, start, len, decoded).str = [start |-> start, len |-> len]
<1>1. t \in NodeTypes
  BY DEF NodeTypes
<1>2. NewStr(t, start, len, decoded) \in Node
  BY <1>1, NewStrType
<1> QED
  BY <1>2 DEF NewStr, NewNode, Blank

(* Storing in a hash changes the entries of that hash alone.               *)
LEMMA HashStoreFrame ==
  ASSUME NEW hp \in Seq(Node), NEW h \in 1 .. Len(hp),
         NEW key \in Slice, NEW el \in Nat
  PROVE  LET new == HashStore(hp, h, key, el)
         IN  /\ new \in Seq(Node)
             /\ Len(new) = Len(hp)
             /\ \A n \in 1 .. Len(hp) :
                  /\ new[n].parent = hp[n].parent
                  /\ new[n].head = hp[n].head /\ new[n].tail = hp[n].tail
                  /\ new[n].str = hp[n].str /\ new[n].type = hp[n].type
                  /\ n # h => new[n].tree = hp[n].tree
             /\ new[h].tree = Append(hp[h].tree, [key |-> key, val |-> el])
<1> DEFINE entry == [key |-> key, val |-> el]
           node  == [hp[h] EXCEPT !.tree = Append(@, entry)]
<1>1. hp[h] \in Node
  OBVIOUS
<1>2. hp[h].tree \in Seq([key : Slice, val : Nat])
  BY <1>1 DEF Node
<1>3. Append(hp[h].tree, entry) \in Seq([key : Slice, val : Nat])
  BY <1>2
<1>4. /\ node \in Node
      /\ node.tree = Append(hp[h].tree, entry)
      /\ node.parent = hp[h].parent
      /\ node.head = hp[h].head /\ node.tail = hp[h].tail
      /\ node.str = hp[h].str /\ node.type = hp[h].type
  BY <1>1, <1>3 DEF Node
<1>5. HashStore(hp, h, key, el) = [hp EXCEPT ![h] = node]
  BY DEF HashStore
<1> HIDE DEF node, entry
<1>6. /\ [hp EXCEPT ![h] = node] \in Seq(Node)
      /\ Len([hp EXCEPT ![h] = node]) = Len(hp)
      /\ \A n \in 1 .. Len(hp) : [hp EXCEPT ![h] = node][n] = IF n = h THEN node ELSE hp[n]
  BY <1>4
<1> QED
  BY <1>4, <1>5, <1>6 DEF entry

(* Adding to an array changes that array's ends and the old tail's link.   *)
LEMMA ArrAddFrame ==
  ASSUME NEW hp \in Seq(Node), NEW a \in 1 .. Len(hp), NEW el \in 1 .. Len(hp)
  PROVE  LET new == ArrAdd(hp, a, el)
         IN  /\ new \in Seq(Node)
             /\ Len(new) = Len(hp)
             /\ \A n \in 1 .. Len(hp) :
                  /\ new[n].parent \in {hp[n].parent, el}
                  /\ new[n].head \in {hp[n].head, el} /\ new[n].tail \in {hp[n].tail, el}
                  /\ new[n].str = hp[n].str /\ new[n].type = hp[n].type
                  /\ new[n].tree = hp[n].tree
<1> DEFINE E == Seq([key : Slice, val : Nat])
<1> HIDE DEF E
<1>0. Node = [type : NodeTypes, parent : Nat, tree : E, head : Nat, tail : Nat,
              count : Nat, str : Slice, alloc : BOOLEAN]
  BY DEF Node, E
<1> DEFINE c   == hp[a].count + 1
           arr == [hp[a] EXCEPT !.count = c, !.tail = el]
           mid == [hp EXCEPT ![a] = arr]
<1>1. hp[a] \in Node /\ el \in Nat
  OBVIOUS
<1>2. hp[a].count \in Nat
  BY <1>1 DEF Node
<1>3. c \in Nat
  BY <1>2
<1>4. /\ arr \in Node
      /\ arr.parent \in {hp[a].parent, el}
      /\ arr.head \in {hp[a].head, el} /\ arr.tail \in {hp[a].tail, el}
      /\ arr.str = hp[a].str /\ arr.type = hp[a].type /\ arr.tree = hp[a].tree
  <2> HIDE DEF c
  <2> QED
    BY <1>0, <1>1, <1>3
<1>5. CASE hp[a].head = NULL
  <2> DEFINE first == [arr EXCEPT !.head = el]
  <2>1. ArrAdd(hp, a, el) = [hp EXCEPT ![a] = first]
    BY <1>5 DEF ArrAdd
  <2> HIDE DEF arr
  <2>2. /\ first \in Node
        /\ first.parent \in {arr.parent, el}
        /\ first.head \in {arr.head, el} /\ first.tail \in {arr.tail, el}
        /\ first.str = arr.str /\ first.type = arr.type /\ first.tree = arr.tree
    BY <1>0, <1>1, <1>4
  <2> HIDE DEF first
  <2>3. /\ [hp EXCEPT ![a] = first] \in Seq(Node)
        /\ Len([hp EXCEPT ![a] = first]) = Len(hp)
        /\ \A n \in 1 .. Len(hp) : [hp EXCEPT ![a] = first][n] = IF n = a THEN first ELSE hp[n]
    BY <2>2
  <2> QED
    BY <2>1, <2>2, <2>3, <1>4
<1>6. CASE hp[a].head # NULL
  <2> DEFINE b    == hp[a].tail
             last == [mid[b] EXCEPT !.parent = el]
  <2>1. ArrAdd(hp, a, el) = [mid EXCEPT ![b] = last]
    BY <1>6 DEF ArrAdd
  <2> HIDE DEF arr
  <2>2. /\ mid \in Seq(Node)
        /\ Len(mid) = Len(hp)
        /\ \A n \in 1 .. Len(hp) : mid[n] = IF n = a THEN arr ELSE hp[n]
    BY <1>4
  <2> HIDE DEF mid
  <2>3. CASE b \in 1 .. Len(hp)
    <3>1. mid[b] \in Node
      BY <2>2, <2>3
    <3>2. /\ last \in Node
          /\ last.parent \in {mid[b].parent, el}
          /\ last.head \in {mid[b].head, el} /\ last.tail \in {mid[b].tail, el}
          /\ last.str = mid[b].str /\ last.type = mid[b].type /\ last.tree = mid[b].tree
      BY <1>0, <1>1, <3>1
    <3> HIDE DEF last
    <3>3. /\ [mid EXCEPT ![b] = last] \in Seq(Node)
          /\ Len([mid EXCEPT ![b] = last]) = Len(hp)
          /\ \A n \in 1 .. Len(hp) : [mid EXCEPT ![b] = last][n] = IF n = b THEN last ELSE mid[n]
      BY <3>2, <2>2, <2>3
    <3> HIDE DEF b
    <3> QED
      BY <2>1, <2>2, <3>2, <3>3, <1>4
  <2>4. CASE b \notin 1 .. Len(hp)
    <3>1. [mid EXCEPT ![b] = last] = mid
      BY <2>2, <2>4
    <3> HIDE DEF last, b
    <3>2. ArrAdd(hp, a, el) = mid
      BY <2>1, <3>1
    <3> QED
      BY <3>2, <2>2, <1>4
  <2> QED
    BY <2>3, <2>4
<1> QED
  BY <1>5, <1>6

LEMMA TreeLength ==
  ASSUME NEW node \in Node
  PROVE  Len(node.tree) \in Nat
<1>1. node.tree \in Seq([key : Slice, val : Nat])
  BY DEF Node
<1> QED
  BY <1>1

(* Attaching a fresh node under cur: the heap grows by that node, links    *)
(* stay inside it, strings stay as they are, and the only new key is the   *)
(* one in keyStart and keyLen, stored when cur is a hash.                  *)
LEMMA AttachedFrame ==
  ASSUME TypeOK, NEW node, NEW up \in 0 .. Len(heap), Blank(node, up)
  PROVE  LET new == Attached(node)
         IN  /\ new \in Seq(Node)
             /\ Len(new) = Len(heap) + 1
             /\ \A n \in 1 .. Len(heap) + 1 : Linked(new[n], Len(heap) + 1)
             /\ \A n \in 1 .. Len(heap) : new[n].str = heap[n].str /\ new[n].type = heap[n].type
             /\ new[Len(heap) + 1].str = node.str
             /\ \A n \in 1 .. Len(heap) + 1 : \A i \in 1 .. Len(new[n].tree) :
                  \/ /\ n <= Len(heap) /\ i <= Len(heap[n].tree)
                     /\ new[n].tree[i].key = heap[n].tree[i].key
                  \/ /\ heap[cur].type = "hash"
                     /\ new[n].tree[i].key = [start |-> keyStart, len |-> keyLen]
<1> DEFINE N     == Len(heap)
           el    == N + 1
           grown == Append(heap, node)
           key   == [start |-> keyStart, len |-> keyLen]
           new   == Attached(node)
<1>1. /\ heap \in Seq(Node) /\ N \in Nat /\ cur \in 1 .. N
      /\ \A n \in 1 .. N : heap[n] \in Node /\ Linked(heap[n], N)
      /\ key \in Slice /\ el \in Nat /\ el = N + 1 /\ N = Len(heap)
      /\ node.parent \in 0 .. N
      /\ node \in Node /\ node.tree = <<>> /\ node.head = NULL /\ node.tail = NULL
  BY DEF TypeOK, Slice, Blank
<1>2. /\ grown \in Seq(Node) /\ Len(grown) = N + 1
      /\ \A n \in 1 .. N : grown[n] = heap[n]
      /\ grown[N + 1] = node
  BY <1>1
<1>h. /\ heap[cur].type = "hash" => new = HashStore(grown, cur, key, el)
      /\ heap[cur].type # "hash" => new = ArrAdd(grown, cur, el)
  BY DEF Attached
<1> HIDE DEF N, el, grown, key, new
<1>3. \A n \in 1 .. N + 1 : Linked(grown[n], N + 1)
  <2>1. Linked(node, N + 1)
    BY <1>1 DEF Linked, NULL
  <2>2. \A n \in 1 .. N : Linked(heap[n], N + 1)
    BY <1>1 DEF Linked
  <2>3. \A n \in 1 .. N + 1 : n \in 1 .. N \/ n = N + 1
    BY <1>1
  <2> QED
    BY <2>1, <2>2, <2>3, <1>2
<1>4. CASE heap[cur].type = "hash"
  <2>1. new = HashStore(grown, cur, key, el)
    BY <1>4, <1>h
  <2>a. cur \in 1 .. Len(grown)
    BY <1>1, <1>2
  <2>2. /\ new \in Seq(Node)
        /\ Len(new) = Len(grown)
        /\ \A n \in 1 .. Len(grown) :
             /\ new[n].parent = grown[n].parent
             /\ new[n].head = grown[n].head /\ new[n].tail = grown[n].tail
             /\ new[n].str = grown[n].str /\ new[n].type = grown[n].type
             /\ n # cur => new[n].tree = grown[n].tree
        /\ new[cur].tree = Append(grown[cur].tree, [key |-> key, val |-> el])
    BY <1>1, <1>2, <2>1, <2>a, HashStoreFrame, SMTT(40)
  <2>3. /\ grown[cur].tree \in Seq([key : Slice, val : Nat])
        /\ [key |-> key, val |-> el] \in [key : Slice, val : Nat]
    BY <1>1, <1>2 DEF Node
  <2>4. /\ Len(new[cur].tree) = Len(grown[cur].tree) + 1
        /\ \A i \in 1 .. Len(grown[cur].tree) : new[cur].tree[i] = grown[cur].tree[i]
        /\ new[cur].tree[Len(grown[cur].tree) + 1] = [key |-> key, val |-> el]
        /\ Len(grown[cur].tree) \in Nat
    BY <2>2, <2>3
  <2>5. \A n \in 1 .. N + 1 : Linked(new[n], N + 1)
    <3> SUFFICES ASSUME NEW n \in 1 .. N + 1
                 PROVE  Linked(new[n], N + 1)
      OBVIOUS
    <3>1. CASE n # cur
      BY <3>1, <1>2, <1>3, <2>2 DEF Linked
    <3>2. CASE n = cur
      <4>1. Linked(grown[cur], N + 1)
        BY <1>1, <1>3
      <4>2. \A i \in 1 .. Len(new[cur].tree) : new[cur].tree[i].val \in 1 .. N + 1
        <5>1. \A i \in 1 .. Len(grown[cur].tree) : new[cur].tree[i].val \in 1 .. N + 1
          BY <2>4, <4>1 DEF Linked
        <5>2. new[cur].tree[Len(grown[cur].tree) + 1].val \in 1 .. N + 1
          BY <2>4, <1>1
        <5>3. \A i \in 1 .. Len(new[cur].tree) :
                i \in 1 .. Len(grown[cur].tree) \/ i = Len(grown[cur].tree) + 1
          BY <2>4
        <5> QED
          BY <5>1, <5>2, <5>3
      <4> QED
        BY <3>2, <4>1, <4>2, <1>1, <1>2, <2>2 DEF Linked
    <3> QED
      BY <3>1, <3>2
  <2>6. \A n \in 1 .. N + 1 : \A i \in 1 .. Len(new[n].tree) :
          \/ n <= N /\ i <= Len(heap[n].tree) /\ new[n].tree[i].key = heap[n].tree[i].key
          \/ heap[cur].type = "hash" /\ new[n].tree[i].key = key
    <3> SUFFICES ASSUME NEW n \in 1 .. N + 1, NEW i \in 1 .. Len(new[n].tree)
                 PROVE  \/ /\ n <= N /\ i <= Len(heap[n].tree)
                           /\ new[n].tree[i].key = heap[n].tree[i].key
                        \/ heap[cur].type = "hash" /\ new[n].tree[i].key = key
      OBVIOUS
    <3>1. CASE n = cur
      <4>1. grown[cur].tree = heap[cur].tree /\ cur <= N
        BY <1>1, <1>2
      <4>2. CASE i \in 1 .. Len(grown[cur].tree)
        <5>1. new[cur].tree[i] = grown[cur].tree[i]
          BY <4>2, <2>4
        <5>2. i <= Len(heap[cur].tree)
          BY <4>1, <4>2, <2>4
        <5> QED
          BY <3>1, <4>1, <5>1, <5>2
      <4>3. CASE i = Len(grown[cur].tree) + 1
        BY <3>1, <4>3, <2>4, <1>4
      <4> QED
        BY <4>2, <4>3, <2>4, <3>1
    <3>2. CASE n # cur /\ n \in 1 .. N
      <4>1. new[n].tree = heap[n].tree
        BY <3>2, <1>1, <1>2, <2>2
      <4>2. Len(heap[n].tree) \in Nat
        BY <3>2, <1>1, TreeLength
      <4> QED
        BY <3>2, <4>1, <4>2
    <3>3. CASE n = N + 1
      <4>1. new[n].tree = <<>>
        BY <3>3, <1>1, <1>2, <2>2
      <4> QED
        BY <4>1
    <3> QED
      BY <3>1, <3>2, <3>3, <1>1
  <2> QED
    <3>1. \A n \in 1 .. N : new[n].str = heap[n].str /\ new[n].type = heap[n].type
      BY <1>1, <1>2, <2>2
    <3>2. new[N + 1].str = node.str
      BY <1>1, <1>2, <2>2
    <3> QED
      BY <1>2, <2>2, <2>5, <2>6, <3>1, <3>2 DEF key, new, N
<1>5. CASE heap[cur].type # "hash"
  <2>1. new = ArrAdd(grown, cur, el)
    BY <1>5, <1>h
  <2>2. /\ new \in Seq(Node)
        /\ Len(new) = Len(grown)
        /\ \A n \in 1 .. Len(grown) :
             /\ new[n].parent \in {grown[n].parent, el}
             /\ new[n].head \in {grown[n].head, el} /\ new[n].tail \in {grown[n].tail, el}
             /\ new[n].str = grown[n].str /\ new[n].type = grown[n].type
             /\ new[n].tree = grown[n].tree
    <3>1. cur \in 1 .. Len(grown) /\ el \in 1 .. Len(grown)
      BY <1>1, <1>2
    <3> QED
      BY <1>2, <2>1, <3>1, ArrAddFrame
  <2>3. \A n \in 1 .. N + 1 : Linked(new[n], N + 1)
    <3> SUFFICES ASSUME NEW n \in 1 .. N + 1
                 PROVE  Linked(new[n], N + 1)
      OBVIOUS
    <3>1. Linked(grown[n], N + 1)
      BY <1>3
    <3>2. el \in 0 .. N + 1
      BY <1>1
    <3> QED
      BY <3>1, <3>2, <1>2, <2>2 DEF Linked
  <2>4. \A n \in 1 .. N + 1 : \A i \in 1 .. Len(new[n].tree) :
          n <= N /\ i <= Len(heap[n].tree) /\ new[n].tree[i].key = heap[n].tree[i].key
    <3> SUFFICES ASSUME NEW n \in 1 .. N + 1, NEW i \in 1 .. Len(new[n].tree)
                 PROVE  /\ n <= N /\ i <= Len(heap[n].tree)
                        /\ new[n].tree[i].key = heap[n].tree[i].key
      OBVIOUS
    <3>1. CASE n \in 1 .. N
      <4>1. new[n].tree = heap[n].tree
        BY <3>1, <1>1, <1>2, <2>2
      <4>2. Len(heap[n].tree) \in Nat
        BY <3>1, <1>1, TreeLength
      <4> QED
        BY <3>1, <4>1, <4>2
    <3>2. CASE n = N + 1
      <4>1. new[n].tree = <<>>
        BY <3>2, <1>1, <1>2, <2>2
      <4> QED
        BY <4>1
    <3> QED
      BY <3>1, <3>2, <1>1
  <2> QED
    <3>1. \A n \in 1 .. N : new[n].str = heap[n].str /\ new[n].type = heap[n].type
      BY <1>1, <1>2, <2>2
    <3>2. new[N + 1].str = node.str
      BY <1>1, <1>2, <2>2
    <3> QED
      BY <1>2, <2>2, <2>3, <2>4, <3>1, <3>2 DEF new, N
<1> QED
  BY <1>4, <1>5

-----------------------------------------------------------------------------
(* Type correctness.                                                       *)

(* The part of TypeOK about the tree.                                      *)
TreeOK ==
  /\ heap \in Seq(Node)
  /\ \A n \in 1 .. Len(heap) : Linked(heap[n], Len(heap))
  /\ cur \in 1 .. Len(heap)
  /\ stack \in Seq(1 .. Len(heap)) /\ Len(stack) <= ArrayStackMax

LEMMA ScalarType ==
  ASSUME TypeOK, NEW node, NEW eaten \in Nat, Scalar(node, eaten), Blank(node, NULL)
  PROVE  TreeOK' /\ pc' \in Reading /\ pos' \in Nat \ {0}
<1>1. NULL \in 0 .. Len(heap)
  BY DEF TypeOK, NULL
<1>2. /\ heap' \in Seq(Node)
      /\ Len(heap') = Len(heap) + 1
      /\ \A n \in 1 .. Len(heap) + 1 : Linked(heap'[n], Len(heap) + 1)
  BY <1>1, AttachedFrame DEF Scalar
<1>3. cur' \in 1 .. Len(heap') /\ stack' \in Seq(1 .. Len(heap')) /\ Len(stack') <= ArrayStackMax
  BY <1>2 DEF Scalar, TypeOK
<1>4. pc' \in Reading /\ pos' \in Nat \ {0}
  BY DEF Scalar, Goto, AfterAttach, Reading, ValueScan, TypeOK
<1> QED
  BY <1>2, <1>3, <1>4 DEF TreeOK

(* Going to a label keeps control at a label and the position positive.    *)
LEMMA GotoType ==
  ASSUME TypeOK, NEW label \in Reading, NEW n \in Nat, Goto(label, n)
  PROVE  pc' \in Reading \cup Terminal /\ pos' \in Nat \ {0}
BY DEF Goto, TypeOK

LEMMA Labels ==
  {"Hash", "HashComment", "HashComment2", "QQKeyName1", "QQKeyNameX", "QKeyName1", "QKeyNameX",
   "KeyName1", "KeyNameX", "Colon", "AfterColon", "TypeX", "AC_Comment", "AC_Comment2",
   "Number1", "NumberX", "AfterDot", "String1", "StringX", "StrSlash1", "SlashHex1",
   "SlashHex2", "SlashHex3", "SlashHex4", "AfterVal"} = Reading
BY DEF Reading, KeyScan, ValueScan, HashScan, HexScan

LEMMA InitType == Init => TypeOK
<1> SUFFICES ASSUME Init
             PROVE  TypeOK
  OBVIOUS
<1>1. pc \in Reading
  <2>1. PICK b \in BeginStates : pc = IF b \in 1 .. 19 THEN ResumeLabel[b] ELSE "Hash"
    BY DEF Init
  <2>2. CASE b \in 1 .. 19
    BY <2>1, <2>2 DEF ResumeLabel, Reading, KeyScan, ValueScan, HashScan
  <2>3. CASE b \notin 1 .. 19
    BY <2>1, <2>3 DEF Reading, HashScan
  <2> QED
    BY <2>2, <2>3
<1>2. data \in Seq(STRING)
  BY ParseAssumption DEF Init
<1>3. /\ NewHash(NULL) \in Node
      /\ Linked(NewHash(NULL), 1)
  <2>1. NULL \in Nat
    BY DEF NULL
  <2>2. Blank(NewHash(NULL), NULL)
    BY <2>1, NewHashBlank
  <2> QED
    BY <2>2 DEF Linked, Blank, NULL
<1>4. heap \in Seq(Node) /\ Len(heap) = 1 /\ heap[1] = NewHash(NULL)
  <2>1. heap = <<NewHash(NULL)>>
    BY DEF Init
  <2> QED
    BY <1>3, <2>1
<1>5. \A n \in 1 .. Len(heap) : Linked(heap[n], Len(heap))
  BY <1>3, <1>4
<1>6. stack \in Seq(1 .. Len(heap)) /\ Len(stack) <= ArrayStackMax
  <2>1. stack = <<>>
    BY DEF Init
  <2>2. ArrayStackMax \in Nat
    BY ParseAssumption
  <2> QED
    BY <2>1, <2>2
<1>7. /\ pos \in Nat \ {0}
      /\ keyStart \in Int /\ keyLen \in Int
      /\ typeStart \in Int /\ strStart \in Int
      /\ neg \in BOOLEAN /\ slashCnt \in Nat /\ stringType \in {0, 1}
  <2>1. /\ pos = 1 /\ keyStart = Uninit /\ keyLen = Uninit
        /\ typeStart = Uninit /\ strStart = Uninit
        /\ neg = FALSE /\ slashCnt = 0 /\ stringType = 0
    BY DEF Init
  <2>2. neg \in BOOLEAN
    BY <2>1, Zenon
  <2> QED
    BY <2>1, <2>2 DEF Uninit
<1>8. cur \in 1 .. Len(heap)
  BY <1>4 DEF Init, Root
<1> QED
  BY <1>1, <1>2, <1>4, <1>5, <1>6, <1>7, <1>8 DEF TypeOK

(* What Safe and the labels leave alone; the rest of a step is the tree.    *)
LEMMA StepType == TypeOK /\ [Next]_vars => TypeOK'
<1> SUFFICES ASSUME TypeOK, [Next]_vars
             PROVE  TypeOK'
  OBVIOUS
<1> USE DEF keyVars, valVars, treeVars
<1>s. ASSUME UNCHANGED treeVars, UNCHANGED data, pc' \in Reading \cup Terminal, pos' \in Nat \ {0},
             keyStart' \in Int, keyLen' \in Int, typeStart' \in Int, strStart' \in Int,
             neg' \in BOOLEAN, slashCnt' \in Nat, stringType' \in {0, 1}
      PROVE  TypeOK'
  BY <1>s DEF TypeOK
<1>t. ASSUME TreeOK', UNCHANGED <<data, keyVars, valVars>>,
             pc' \in Reading \cup Terminal, pos' \in Nat \ {0}
      PROVE  TypeOK'
  BY <1>t DEF TypeOK, TreeOK
<1> USE DEF At
<1>1. CASE Safe
  BY <1>1, <1>s DEF Safe, TypeOK, Terminal
<1>2. CASE Hash
  <2>1. cur' \in 1 .. Len(heap)
    <3>1. heap[cur].parent # NULL => heap[cur].parent \in 1 .. Len(heap)
      BY DEF TypeOK, Linked, NULL
    <3> QED
      BY <1>2, <3>1 DEF Hash, TypeOK
  <2>2. TreeOK'
    BY <1>2, <2>1 DEF Hash, TypeOK, TreeOK
  <2>3. \E label \in Reading, n \in Nat : Goto(label, n)
    BY <1>2, Labels DEF Hash
  <2> QED
    BY <1>2, <2>2, <2>3, <1>t, GotoType DEF Hash
<1>3. CASE HashComment \/ HashComment2 \/ AC_Comment \/ AC_Comment2
  <2>1. \E label \in Reading, n \in Nat : Goto(label, n)
    BY <1>3, Labels DEF HashComment, HashComment2, AC_Comment, AC_Comment2, EolComment, StarComment
  <2>2. UNCHANGED <<data, keyVars, valVars, treeVars>>
    BY <1>3 DEF HashComment, HashComment2, AC_Comment, AC_Comment2, EolComment, StarComment
  <2> QED
    BY <2>1, <2>2, <1>s, GotoType DEF TypeOK
<1>4. CASE QQKeyName1 \/ QKeyName1 \/ KeyName1
  <2>1. \E label \in Reading, n \in Nat : Goto(label, n)
    BY <1>4, Labels DEF QQKeyName1, QKeyName1, KeyName1, QuotedKey1
  <2>2. UNCHANGED <<data, keyLen, valVars, treeVars>> /\ keyStart' = pos
    BY <1>4 DEF QQKeyName1, QKeyName1, KeyName1, QuotedKey1
  <2> QED
    BY <2>1, <2>2, <1>s, GotoType DEF TypeOK
<1>5. CASE QQKeyNameX \/ QKeyNameX \/ KeyNameX \/ Colon
  <2>1. \E label \in Reading, n \in Nat : Goto(label, n)
    BY <1>5, Labels DEF QQKeyNameX, QKeyNameX, KeyNameX, Colon, QuotedKeyX
  <2>2. UNCHANGED <<data, keyStart, valVars, treeVars>> /\ keyLen' \in {keyLen, pos - keyStart}
    BY <1>5 DEF QQKeyNameX, QKeyNameX, KeyNameX, Colon, QuotedKeyX
  <2>3. keyLen' \in Int
    BY <2>2 DEF TypeOK
  <2> QED
    BY <2>1, <2>2, <2>3, <1>s, GotoType DEF TypeOK
<1>6. CASE AfterColon
  <2>0. UNCHANGED <<data, keyVars>>
    BY <1>6 DEF AfterColon
  <2>n. cur \in Nat /\ cur \in 0 .. Len(heap) /\ NULL \in 0 .. Len(heap) /\ Len(heap) \in Nat
    BY DEF TypeOK, NULL
  <2>1. CASE OpenHash
    <3>1. Blank(NewHash(cur), cur)
      BY <2>n, NewHashBlank
    <3>2. /\ heap' \in Seq(Node)
          /\ Len(heap') = Len(heap) + 1
          /\ \A n \in 1 .. Len(heap) + 1 : Linked(heap'[n], Len(heap) + 1)
      BY <2>n, <2>1, <3>1, AttachedFrame DEF OpenHash
    <3>a. cur' = Len(heap) + 1 /\ UNCHANGED stack
      BY <2>1 DEF OpenHash
    <3>3. cur' \in 1 .. Len(heap') /\ UNCHANGED stack
      BY <2>n, <3>a, <3>2
    <3>4. stack' \in Seq(1 .. Len(heap')) /\ Len(stack') <= ArrayStackMax
      BY <3>2, <3>3 DEF TypeOK
    <3>5. TreeOK'
      BY <3>2, <3>3, <3>4 DEF TreeOK
    <3>6. Goto("Hash", 1) /\ UNCHANGED valVars
      BY <2>1 DEF OpenHash
    <3> QED
      BY <2>0, <3>5, <3>6, <1>t, GotoType, Labels
  <2>2. CASE OpenArr /\ Len(stack) < ArrayStackMax
    <3>1. Blank(NewArr, NULL)
      BY NewNodeBlank DEF NewArr, NodeTypes
    <3>2. /\ heap' \in Seq(Node)
          /\ Len(heap') = Len(heap) + 1
          /\ \A n \in 1 .. Len(heap) + 1 : Linked(heap'[n], Len(heap) + 1)
      BY <2>n, <2>2, <3>1, AttachedFrame DEF OpenArr
    <3>3. cur' \in 1 .. Len(heap')
      BY <2>n, <2>2, <3>2 DEF OpenArr
    <3>4. stack' \in Seq(1 .. Len(heap')) /\ Len(stack') <= ArrayStackMax
      <4>1. stack' = Append(stack, cur)
        BY <2>2 DEF OpenArr
      <4>2. stack \in Seq(1 .. Len(heap')) /\ cur \in 1 .. Len(heap')
        BY <3>2 DEF TypeOK
      <4>3. Len(stack) + 1 <= ArrayStackMax
        BY <2>2, ParseAssumption DEF TypeOK
      <4> QED
        BY <4>1, <4>2, <4>3
    <3>5. TreeOK'
      BY <3>2, <3>3, <3>4 DEF TreeOK
    <3>6. Goto("AfterColon", 1) /\ UNCHANGED valVars
      BY <2>2 DEF OpenArr
    <3> QED
      BY <2>0, <3>5, <3>6, <1>t, GotoType, Labels
  <2>3. CASE CloseArr /\ stack # <<>>
    <3>1. Len(stack) \in Nat \ {0} /\ stack \in Seq(1 .. Len(heap))
      BY <2>3 DEF TypeOK
    <3>2. cur' \in 1 .. Len(heap)
      BY <2>3, <3>1 DEF CloseArr
    <3>3. stack' \in Seq(1 .. Len(heap)) /\ Len(stack') = Len(stack) - 1
      BY <2>3, <3>1 DEF CloseArr
    <3>4. Len(stack') <= ArrayStackMax
      BY <3>1, <3>3, ParseAssumption DEF TypeOK
    <3>5. UNCHANGED <<heap, valVars>>
      BY <2>3 DEF CloseArr
    <3>6. TreeOK'
      BY <3>2, <3>3, <3>4, <3>5 DEF TypeOK, TreeOK
    <3>7. \E label \in Reading : Goto(label, 1)
      BY <2>3, Labels DEF CloseArr
    <3> QED
      BY <2>0, <3>5, <3>6, <3>7, <1>t, GotoType
  <2>4. CASE \/ OpenArr /\ ~ (Len(stack) < ArrayStackMax)
             \/ CloseArr /\ stack = <<>>
    <3>1. UNCHANGED <<data, pos, keyVars, valVars, treeVars>> /\ pc' = "Undefined"
      BY <2>0, <2>4 DEF OpenArr, CloseArr
    <3> QED
      BY <3>1, <1>s DEF TypeOK, Terminal
  <2>5. CASE StartValue
    <3>1. \E label \in Reading, n \in Nat : Goto(label, n)
      BY <2>5, Labels DEF StartValue
    <3>2. UNCHANGED <<strStart, slashCnt, treeVars>>
      BY <2>5 DEF StartValue
    <3>3. /\ typeStart' \in {typeStart, pos} /\ neg' \in {neg, TRUE, FALSE}
          /\ stringType' \in {stringType, 0, 1}
      BY <2>5 DEF StartValue
    <3>4. typeStart' \in Int /\ neg' \in BOOLEAN /\ stringType' \in {0, 1}
      <4>1. pos \in Int /\ typeStart \in Int /\ stringType \in {0, 1}
        BY DEF TypeOK
      <4>2. neg' \in BOOLEAN
        BY <3>3, Zenon DEF TypeOK
      <4> QED
        BY <3>3, <4>1, <4>2
    <3>5. /\ strStart' \in Int /\ slashCnt' \in Nat
          /\ keyStart' \in Int /\ keyLen' \in Int
      BY <2>0, <3>2 DEF TypeOK
    <3>6. pc' \in Reading \cup Terminal /\ pos' \in Nat \ {0}
      BY <3>1, GotoType
    <3> QED
      BY <2>0, <3>2, <3>4, <3>5, <3>6, <1>s
  <2> QED
    BY <1>6, <2>1, <2>2, <2>3, <2>4, <2>5 DEF AfterColon
<1>7. CASE TypeX
  <2> DEFINE word == SubSeq(data, (IF typeStart = Uninit THEN 0 ELSE typeStart) + 1, pos)
  <2>0. UNCHANGED <<data, keyVars, valVars>>
    BY <1>7 DEF TypeX
  <2>1. CASE word \in DOMAIN Handlers /\ Scalar(NewNode(Handlers[word]), 0)
    <3> HIDE DEF word
    <3>1. Handlers[word] \in NodeTypes
      BY <2>1, ParseAssumption DEF NodeTypes
    <3>2. Blank(NewNode(Handlers[word]), NULL)
      BY <3>1, NewNodeBlank
    <3> QED
      BY <2>0, <2>1, <3>2, ScalarType, <1>t
  <2>2. CASE UNCHANGED treeVars /\ Goto("TypeX", 1)
    BY <2>0, <2>2, <1>s, GotoType, Labels DEF TypeOK
  <2>3. CASE UNCHANGED treeVars /\ Goto("Exit", 0)
    BY <2>0, <2>3, <1>s DEF TypeOK, Goto, Terminal
  <2> QED
    BY <1>7, <2>1, <2>2, <2>3 DEF TypeX
<1>8. CASE Number1
  <2>1. /\ UNCHANGED <<data, keyVars, typeStart, neg, slashCnt, stringType, treeVars>>
        /\ strStart' = pos - 1 /\ Goto("NumberX", 0)
    BY <1>8 DEF Number1
  <2>2. pc' \in Reading \cup Terminal /\ pos' \in Nat \ {0}
    BY <2>1, GotoType, Labels
  <2>3. strStart' \in Int
    BY <2>1 DEF TypeOK
  <2> QED
    BY <2>1, <2>2, <2>3, <1>s DEF TypeOK
<1>9. CASE NumberX \/ AfterDot
  <2>0. UNCHANGED <<data, keyVars, valVars>>
    BY <1>9 DEF NumberX, AfterDot
  <2>1. Blank(NumberNode, NULL)
    <3>1. pos - strStart \in Int /\ strStart \in Int
      BY DEF TypeOK
    <3> QED
      BY <3>1, NewStrBlank DEF NumberNode
  <2>2. CASE Scalar(NumberNode, 0) \/ Scalar(NumberNode, 1)
    BY <2>0, <2>1, <2>2, ScalarType, <1>t
  <2>3. CASE UNCHANGED treeVars /\ (Goto("AfterDot", 1) \/ Goto("NumberX", 1))
    BY <2>0, <2>3, <1>s, GotoType, Labels DEF TypeOK
  <2> QED
    BY <1>9, <2>2, <2>3 DEF NumberX, AfterDot
<1>10. CASE String1
  <2> DEFINE node == NewStr("str", Uninit, 0, FALSE)
  <2>0. UNCHANGED <<data, keyVars, typeStart, neg, stringType>> /\ slashCnt' = 0
    BY <1>10 DEF String1
  <2>1. CASE Scalar(node, 1) /\ UNCHANGED strStart
    <3>1. Uninit \in Int /\ 0 \in Int
      BY DEF Uninit
    <3>2. Blank(node, NULL)
      BY <3>1, NewStrBlank
    <3> HIDE DEF node
    <3>3. TreeOK' /\ pc' \in Reading /\ pos' \in Nat \ {0}
      BY <2>1, <3>2, ScalarType
    <3> QED
      BY <2>0, <2>1, <3>3 DEF TypeOK, TreeOK
  <2>2. CASE strStart' = pos /\ Goto("StringX", 1) /\ UNCHANGED treeVars
    <3>1. pc' \in Reading \cup Terminal /\ pos' \in Nat \ {0}
      BY <2>2, GotoType, Labels
    <3>2. strStart' \in Int /\ slashCnt' \in Nat
      BY <2>0, <2>2 DEF TypeOK
    <3> QED
      BY <2>0, <2>2, <3>1, <3>2, <1>s DEF TypeOK
  <2> QED
    BY <1>10, <2>1, <2>2 DEF String1
<1>11. CASE StringX \/ StrSlash1 \/ SlashHexN
  <2> DEFINE decoded == slashCnt > 0
             node    == NewStr("str", strStart, pos - strStart, decoded)
  <2>0. UNCHANGED <<data, keyVars, typeStart, strStart, neg, stringType>>
    BY <1>11 DEF StringX, StrSlash1, SlashHexN, SlashHex, SlashHex4, StringFrame
  <2>1. CASE StringX2
    <3>1. CASE Scalar(node, 1) /\ UNCHANGED slashCnt
      <4>1. pos - strStart \in Int /\ strStart \in Int
        BY DEF TypeOK
      <4>2. decoded \in BOOLEAN
        OBVIOUS
      <4> HIDE DEF decoded
      <4>3. Blank(node, NULL)
        BY <4>1, <4>2, NewStrBlank
      <4> HIDE DEF node
      <4> QED
        BY <2>0, <3>1, <4>3, ScalarType, <1>t
    <3>2. CASE UNCHANGED treeVars /\ slashCnt' \in {slashCnt, slashCnt + 1}
               /\ (Goto("StrSlash1", 1) \/ Goto("StringX", 1))
      <4>1. pc' \in Reading \cup Terminal /\ pos' \in Nat \ {0}
        BY <3>2, GotoType, Labels
      <4>2. slashCnt' \in Nat
        BY <3>2 DEF TypeOK
      <4> QED
        BY <2>0, <3>2, <4>1, <4>2, <1>s DEF TypeOK
    <3> QED
      BY <2>1, <3>1, <3>2 DEF StringX2
  <2>2. CASE /\ UNCHANGED <<slashCnt, treeVars>>
             /\ \E label \in Reading : Goto(label, 1)
    BY <2>0, <2>2, <1>s, GotoType DEF TypeOK
  <2> QED
    BY <1>11, <2>1, <2>2, Labels DEF StringX, StrSlash1, SlashHexN, SlashHex, SlashHex4
<1>12. CASE AfterVal
  BY <1>12, <1>s, GotoType, Labels DEF AfterVal, TypeOK
<1>13. CASE UNCHANGED vars
  BY <1>13 DEF vars, TypeOK
<1> QED
  BY <1>1, <1>2, <1>3, <1>4, <1>5, <1>6, <1>7, <1>8, <1>9, <1>10, <1>11, <1>12, <1>13
     DEF Next, Step, Stopped

(* Every variable keeps its type whatever the buffer: in particular cur     *)
(* and every link always lead to an allocated node, so none of the          *)
(* dereferences of uj_parse is of a wild pointer.                           *)
THEOREM TypeCorrect == Spec => []TypeOK
  BY InitType, StepType, PTL DEF Spec

-----------------------------------------------------------------------------
(* Slices.                                                                 *)

(* The states a run starts in when beginState is NULL, or names a state     *)
(* the switch does not know.                                                *)
Fresh == BeginStates \cap 1 .. 19 = {}

LEMMA InitSlices ==
  ASSUME Fresh, Init
  PROVE  SliceInv
<1>1. pc = "Hash"
  BY DEF Init, Fresh
<1>2. /\ Blank(NewHash(NULL), NULL) /\ NewHash(NULL).str = NullStr
  BY NewHashBlank DEF NULL
<1>3. Len(heap) = 1 /\ heap[1] = NewHash(NULL)
  BY DEF Init
<1>4. SlicesInBounds
  BY <1>2, <1>3 DEF SlicesInBounds, Blank
<1>5. pc \notin {"QQKeyNameX", "QKeyNameX", "KeyNameX", "Number1", "NumberX", "AfterDot",
                 "StringX", "StrSlash1"} \cup HexScan \cup ValueScan
  BY <1>1 DEF HexScan, ValueScan
<1> QED
  BY <1>2, <1>3, <1>4, <1>5 DEF SliceInv, Blank

(* A fresh node whose string is a slice, attached while the key is one      *)
(* unless cur is an array, leaves nothing but slices in the tree.           *)
LEMMA AttachedSlices ==
  ASSUME TypeOK, SlicesInBounds, KeySet, NEW node, NEW up \in 0 .. Len(heap), Blank(node, up),
         node.str = NullStr \/ InData(node.str), UNCHANGED data, heap' = Attached(node)
  PROVE  SlicesInBounds' /\ Len(heap') = Len(heap) + 1 /\ Len(heap') >= 2
<1> DEFINE key == [start |-> keyStart, len |-> keyLen]
<1>1. /\ Len(heap') = Len(heap) + 1
      /\ \A n \in 1 .. Len(heap) : heap'[n].str = heap[n].str
      /\ heap'[Len(heap) + 1].str = node.str
      /\ \A n \in 1 .. Len(heap) + 1 : \A i \in 1 .. Len(heap'[n].tree) :
           \/ /\ n <= Len(heap) /\ i <= Len(heap[n].tree)
              /\ heap'[n].tree[i].key = heap[n].tree[i].key
           \/ heap'[n].tree[i].key = key
  BY AttachedFrame
<1>2. InData(key)
  BY DEF KeySet
<1>3. Len(heap) \in Nat /\ Len(heap) >= 1
  BY DEF TypeOK
<1> HIDE DEF key
<1>4. \A n \in 1 .. Len(heap') : heap'[n].str = NullStr \/ InData(heap'[n].str)
  <2> SUFFICES ASSUME NEW n \in 1 .. Len(heap')
               PROVE  heap'[n].str = NullStr \/ InData(heap'[n].str)
    OBVIOUS
  <2>1. n \in 1 .. Len(heap) \/ n = Len(heap) + 1
    BY <1>1, <1>3
  <2> QED
    BY <2>1, <1>1 DEF SlicesInBounds
<1>5. \A n \in 1 .. Len(heap') : \A i \in 1 .. Len(heap'[n].tree) : InData(heap'[n].tree[i].key)
  <2> SUFFICES ASSUME NEW n \in 1 .. Len(heap'), NEW i \in 1 .. Len(heap'[n].tree)
               PROVE  InData(heap'[n].tree[i].key)
    OBVIOUS
  <2>1. CASE heap'[n].tree[i].key = key
    BY <2>1, <1>2
  <2>2. CASE /\ n <= Len(heap) /\ i <= Len(heap[n].tree)
             /\ heap'[n].tree[i].key = heap[n].tree[i].key
    <3>1. n \in 1 .. Len(heap)
      BY <2>2, <1>1, <1>3
    <3>2. Len(heap[n].tree) \in Nat
      BY <3>1, TreeLength DEF TypeOK
    <3>3. i \in 1 .. Len(heap[n].tree)
      BY <2>2, <3>2
    <3> QED
      BY <2>2, <3>1, <3>3 DEF SlicesInBounds
  <2> QED
    BY <1>1, <2>1, <2>2
<1>6. \A s : InData(s) => InData(s)'
  BY DEF InData
<1> QED
  BY <1>1, <1>3, <1>4, <1>5 DEF SlicesInBounds, InData

LEMMA StepSlices == TypeOK /\ SliceInv /\ [Next]_vars => SliceInv'
<1> SUFFICES ASSUME TypeOK, SliceInv, [Next]_vars
             PROVE  SliceInv'
  OBVIOUS
<1> USE DEF keyVars, valVars, treeVars, At
<1> DEFINE KeyX == {"QQKeyNameX", "QKeyNameX", "KeyNameX"}
           StrX == {"NumberX", "AfterDot", "StringX", "StrSlash1"} \cup HexScan
<1>0. /\ SlicesInBounds /\ pos \in Nat \ {0} /\ Len(heap) \in Nat \ {0}
      /\ keyStart \in Int /\ keyLen \in Int /\ strStart \in Int
      /\ pc \in KeyX => keyStart >= 1 /\ keyStart < pos
      /\ pc \in ValueScan => KeySet
      /\ pc \in HashScan => KeySet \/ Len(heap) = 1
      /\ Len(heap) = 1 => heap[1].parent = NULL
      /\ pc = "Number1" => pos >= 2
      /\ pc \in StrX => strStart >= 1 /\ strStart < pos
  BY DEF SliceInv, TypeOK
(* Steps that keep the tree. *)
<1>k. ASSUME UNCHANGED <<data, heap>>,
             pc' \in KeyX => keyStart' >= 1 /\ keyStart' < pos',
             pc' \in ValueScan => KeySet',
             pc' \in HashScan => KeySet' \/ Len(heap) = 1,
             pc' = "Number1" => pos' >= 2,
             pc' \in StrX => strStart' >= 1 /\ strStart' < pos'
      PROVE  SliceInv'
  <2>1. SlicesInBounds'
    BY <1>0, <1>k DEF SlicesInBounds, InData
  <2> QED
    BY <1>0, <1>k, <2>1 DEF SliceInv
(* Steps that attach a node. *)
<1>a. ASSUME NEW node, NEW up \in 0 .. Len(heap), Blank(node, up),
             node.str = NullStr \/ InData(node.str),
             UNCHANGED <<data, keyVars>>, heap' = Attached(node), KeySet,
             pc' \in {"Hash", "AfterColon", "AfterVal"}
      PROVE  SliceInv'
  <2>1. SlicesInBounds' /\ Len(heap') # 1
    <3>1. Len(heap') = Len(heap) + 1 /\ Len(heap') >= 2 /\ SlicesInBounds'
      BY <1>0, <1>a, AttachedSlices, SMTT(40)
    <3> QED
      BY <1>0, <3>1
  <2>2. KeySet'
    BY <1>a DEF KeySet, InData
  <2>3. pc' \notin KeyX \cup StrX \cup {"Number1"}
    BY <1>a DEF HexScan
  <2> QED
    BY <2>1, <2>2, <2>3 DEF SliceInv
<1>v. "AfterVal" \in ValueScan /\ "AfterColon" \in ValueScan /\ "TypeX" \in ValueScan
      /\ StrX \subseteq ValueScan /\ "Number1" \in ValueScan /\ "String1" \in ValueScan
      /\ {"AC_Comment", "AC_Comment2", "Colon"} \subseteq ValueScan
      /\ {"Hash", "HashComment", "HashComment2"} = HashScan
      /\ ValueScan \cap HashScan = {} /\ KeyX \cap (ValueScan \cup HashScan) = {}
      /\ KeyScan \cap (ValueScan \cup HashScan) = {} /\ KeyX \subseteq KeyScan
      /\ {"QQKeyName1", "QKeyName1", "KeyName1"} \subseteq KeyScan
      /\ {"QQKeyName1", "QKeyName1", "KeyName1"} \cap KeyX = {}
      /\ {"AfterVal", "AfterColon", "TypeX", "Number1", "String1", "AC_Comment", "AC_Comment2", "Colon"}
           \cap StrX = {}
      /\ Terminal \cap (KeyX \cup ValueScan \cup HashScan) = {}
  BY DEF ValueScan, HashScan, HexScan, KeyScan, Terminal
<1>n. NULL \in 0 .. Len(heap)
  BY <1>0 DEF NULL
<1>c. KeySet /\ UNCHANGED <<data, keyVars>> => KeySet'
  BY DEF KeySet, InData
<1> HIDE DEF KeyX, StrX
<1>1. CASE Safe
  <2>1. pc' = "Done" /\ UNCHANGED <<data, heap>> /\ "Done" \in Terminal
    BY <1>1 DEF Safe, Terminal
  <2> QED
    BY <2>1, <1>v, <1>k
<1>2. CASE Hash
  <2>1. /\ UNCHANGED <<data, keyVars, strStart, heap>> /\ pc \in HashScan
    BY <1>2, <1>v DEF Hash
  <2>2. KeySet \/ Len(heap) = 1
    BY <1>0, <2>1
  <2>3. \/ pc' \in HashScan \cup {"QQKeyName1", "QKeyName1", "KeyName1"}
        \/ pc' = "AfterColon" /\ heap[cur].parent # NULL
    <3> DEFINE Opens == {"Hash", "HashComment", "HashComment2", "QQKeyName1", "QKeyName1", "KeyName1"}
    <3>1. \/ pc' \in Opens
          \/ heap[cur].parent # NULL /\ pc' \in {"AfterColon", "Hash"}
      <4>1. CASE \E label \in Opens, n \in Nat : Goto(label, n)
        BY <4>1 DEF Goto
      <4>2. CASE /\ heap[cur].parent # NULL
                 /\ Goto(IF heap[cur'].type = "arr" THEN "AfterColon" ELSE "Hash", 1)
        BY <4>2 DEF Goto
      <4>3. 0 \in Nat /\ 1 \in Nat /\ 2 \in Nat
        OBVIOUS
      <4> QED
        BY <1>2, <4>1, <4>2, <4>3 DEF Hash
    <3> QED
      BY <3>1 DEF HashScan
  <2>4. heap[cur].parent # NULL => KeySet
    <3>1. cur \in 1 .. Len(heap)
      BY DEF TypeOK
    <3> QED
      BY <1>0, <2>2, <3>1
  <2> QED
    BY <2>1, <2>2, <2>3, <2>4, <1>c, <1>v, <1>k
<1>3. CASE HashComment \/ HashComment2
  <2>1. UNCHANGED <<data, keyVars, strStart, heap>> /\ pc \in HashScan /\ pc' \in HashScan
    BY <1>3, <1>v DEF HashComment, HashComment2, EolComment, StarComment, Goto
  <2> QED
    BY <1>0, <2>1, <1>c, <1>v, <1>k
<1>4. CASE QQKeyName1 \/ QKeyName1 \/ KeyName1
  <2>1. UNCHANGED <<data, heap>> /\ keyStart' = pos /\ pos' > pos /\ pc' \in KeyX
    BY <1>0, <1>4 DEF QQKeyName1, QKeyName1, KeyName1, QuotedKey1, Goto, KeyX
  <2> QED
    BY <1>0, <2>1, <1>v, <1>k
<1>5. CASE QQKeyNameX \/ QKeyNameX \/ KeyNameX
  <2>1. /\ UNCHANGED <<data, keyStart, heap>> /\ pos < Len(data)
        /\ pc \in KeyX
        /\ \/ \E n \in {1, 2} : Goto(pc, n)
           \/ /\ \E label \in {"Colon", "AfterColon"} : Goto(label, 1)
              /\ keyLen' = pos - keyStart
    <3>1. ASSUME NEW label \in KeyX, NEW quote, QuotedKeyX(label, quote)
          PROVE  /\ UNCHANGED <<data, keyStart, heap>> /\ pos < Len(data)
                 /\ pc \in KeyX
                 /\ \/ \E n \in {1, 2} : Goto(pc, n)
                    \/ /\ \E l \in {"Colon", "AfterColon"} : Goto(l, 1)
                       /\ keyLen' = pos - keyStart
      BY <3>1 DEF QuotedKeyX
    <3>2. CASE QQKeyNameX \/ QKeyNameX
      BY <3>1, <3>2 DEF QQKeyNameX, QKeyNameX, KeyX
    <3>3. CASE KeyNameX
      BY <3>3 DEF KeyNameX, KeyX
    <3> QED
      BY <1>5, <3>2, <3>3
  <2>2. /\ pos' > pos
        /\ pc' \in KeyX \/ (pc' \in {"Colon", "AfterColon"} /\ keyLen' = pos - keyStart)
    <3>1. pos' \in {pos + 1, pos + 2}
      BY <2>1 DEF Goto
    <3>2. pc' \in KeyX \/ (pc' \in {"Colon", "AfterColon"} /\ keyLen' = pos - keyStart)
      BY <2>1 DEF Goto
    <3> QED
      BY <1>0, <3>1, <3>2
  <2>3. Len(data) \in Nat
    BY DEF TypeOK
  <2>4. keyStart >= 1 /\ keyStart < pos /\ keyStart' < pos'
    <3>1. pos' \in Nat
      BY StepType DEF TypeOK
    <3> QED
      BY <1>0, <2>1, <2>2, <3>1
  <2>5. keyLen' = pos - keyStart => KeySet'
    BY <1>0, <2>1, <2>3, <2>4 DEF KeySet, InData
  <2> QED
    BY <2>1, <2>2, <2>4, <2>5, <1>v, <1>k
<1>6. CASE Colon \/ AC_Comment \/ AC_Comment2
  <2>1. /\ UNCHANGED <<data, keyVars, heap>> /\ pc \in ValueScan
        /\ pc' \in {"Hash", "AfterColon", "AC_Comment", "AC_Comment2", "Colon"}
    BY <1>6, <1>v DEF Colon, AC_Comment, AC_Comment2, EolComment, StarComment, Goto
  <2> QED
    BY <1>0, <2>1, <1>c, <1>v, <1>k
<1>7. CASE AfterColon
  <2>0. KeySet /\ KeySet' /\ UNCHANGED <<data, keyVars>>
    BY <1>0, <1>7, <1>c, <1>v DEF AfterColon
  <2>1. CASE OpenHash
    <3>1. cur \in Nat /\ cur \in 0 .. Len(heap)
      BY DEF TypeOK
    <3>2. Blank(NewHash(cur), cur) /\ NewHash(cur).str = NullStr
      BY <3>1, NewHashBlank
    <3>3. heap' = Attached(NewHash(cur)) /\ pc' = "Hash"
      BY <2>1 DEF OpenHash, Goto
    <3> QED
      BY <2>0, <3>1, <3>2, <3>3, <1>a
  <2>2. CASE OpenArr /\ Len(stack) < ArrayStackMax
    <3>1. Blank(NewArr, NULL) /\ NewArr.str = NullStr
      BY NewNodeBlank DEF NewArr, NodeTypes
    <3>2. heap' = Attached(NewArr) /\ pc' = "AfterColon"
      BY <2>2 DEF OpenArr, Goto
    <3> QED
      BY <2>0, <3>1, <3>2, <1>a, <1>n
  <2>3. CASE CloseArr \/ (OpenArr /\ ~ (Len(stack) < ArrayStackMax))
    <3>1. UNCHANGED heap /\ pc' \in {"Hash", "AfterColon", "Undefined"}
      BY <2>3 DEF CloseArr, OpenArr, Goto
    <3>2. "Undefined" \in Terminal
      BY DEF Terminal
    <3> QED
      BY <2>0, <3>1, <3>2, <1>v, <1>k
  <2>4. CASE StartValue
    <3>1. /\ UNCHANGED heap /\ pos' >= 2
          /\ pc' \in {"String1", "TypeX", "Number1", "AC_Comment", "AC_Comment2", "AfterColon"}
      <4>1. /\ UNCHANGED heap /\ pos' \in {pos + 1, pos + 2}
            /\ pc' \in {"String1", "TypeX", "Number1", "AC_Comment", "AC_Comment2", "AfterColon"}
        BY <2>4 DEF StartValue, Goto
      <4> QED
        BY <1>0, <4>1
    <3> QED
      BY <2>0, <3>1, <1>v, <1>k
  <2> QED
    BY <1>7, <2>1, <2>2, <2>3, <2>4 DEF AfterColon
<1>s. ASSUME NEW node, NEW eaten \in Nat, Scalar(node, eaten), Blank(node, NULL), KeySet,
             node.str = NullStr \/ InData(node.str), UNCHANGED <<data, keyVars>>
      PROVE  SliceInv'
  <2>1. heap' = Attached(node) /\ pc' \in {"AfterVal", "AfterColon"}
    BY <1>s DEF Scalar, Goto, AfterAttach
  <2> QED
    BY <1>s, <2>1, <1>a, <1>n
<1>8. CASE TypeX
  <2> DEFINE word == SubSeq(data, (IF typeStart = Uninit THEN 0 ELSE typeStart) + 1, pos)
  <2>0. KeySet /\ KeySet' /\ UNCHANGED <<data, keyVars>>
    BY <1>0, <1>8, <1>c, <1>v DEF TypeX
  <2>1. CASE word \in DOMAIN Handlers /\ Scalar(NewNode(Handlers[word]), 0)
    <3> HIDE DEF word
    <3>1. Handlers[word] \in NodeTypes
      BY <2>1, ParseAssumption DEF NodeTypes
    <3>2. Blank(NewNode(Handlers[word]), NULL) /\ NewNode(Handlers[word]).str = NullStr
      BY <3>1, NewNodeBlank
    <3> QED
      BY <2>0, <2>1, <3>2, <1>s
  <2>2. CASE UNCHANGED treeVars /\ (Goto("TypeX", 1) \/ Goto("Exit", 0))
    <3>1. UNCHANGED heap /\ pc' \in {"TypeX", "Exit"} /\ "Exit" \in Terminal
      BY <2>2 DEF Goto, Terminal
    <3> QED
      BY <2>0, <3>1, <1>v, <1>k
  <2> QED
    BY <1>8, <2>1, <2>2 DEF TypeX
<1>9. CASE Number1
  <2>1. /\ UNCHANGED <<data, keyVars, heap>> /\ pc = "Number1"
        /\ strStart' = pos - 1 /\ pos' = pos /\ pc' = "NumberX"
    BY <1>0, <1>9 DEF Number1, Goto
  <2>2. KeySet' /\ strStart' >= 1 /\ strStart' < pos'
    BY <1>0, <2>1, <1>c, <1>v
  <2>3. "NumberX" # "Number1" /\ "NumberX" \notin HashScan /\ "NumberX" \notin KeyX
    BY DEF HashScan, KeyX
  <2> QED
    BY <2>1, <2>2, <2>3, <1>k
<1>10. CASE NumberX \/ AfterDot
  <2>0. /\ KeySet /\ KeySet' /\ UNCHANGED <<data, keyVars, strStart>>
        /\ strStart >= 1 /\ strStart < pos /\ pos < Len(data)
    <3>1. pc \in StrX /\ UNCHANGED <<data, keyVars, strStart>> /\ pos < Len(data)
      BY <1>10 DEF NumberX, AfterDot, StrX
    <3> QED
      BY <1>0, <3>1, <1>c, <1>v
  <2>1. /\ Blank(NumberNode, NULL)
        /\ NumberNode.str = [start |-> strStart, len |-> pos - strStart]
    <3>1. pos - strStart \in Int /\ strStart \in Int
      BY <1>0
    <3> QED
      BY <3>1, NewStrBlank DEF NumberNode
  <2>2. InData(NumberNode.str)
    <3>1. Len(data) \in Nat
      BY DEF TypeOK
    <3> QED
      BY <1>0, <2>0, <2>1, <3>1 DEF InData
  <2>3. CASE Scalar(NumberNode, 0) \/ Scalar(NumberNode, 1)
    BY <2>0, <2>1, <2>2, <2>3, <1>s
  <2>4. CASE UNCHANGED treeVars /\ (Goto("AfterDot", 1) \/ Goto("NumberX", 1))
    <3>1. UNCHANGED heap /\ pc' \in {"AfterDot", "NumberX"} /\ pos' > pos /\ pos' \in Nat
      BY <2>4, <1>0 DEF Goto
    <3>2. pc' \notin HashScan \cup KeyX \cup {"Number1"}
      BY <3>1 DEF HashScan, KeyX
    <3>3. strStart' >= 1 /\ strStart' < pos'
      BY <1>0, <2>0, <3>1
    <3> QED
      BY <2>0, <3>1, <3>2, <3>3, <1>k
  <2> QED
    BY <1>10, <2>3, <2>4 DEF NumberX, AfterDot
<1>11. CASE String1
  <2> DEFINE node == NewStr("str", Uninit, 0, FALSE)
  <2>0. KeySet /\ KeySet' /\ UNCHANGED <<data, keyVars>>
    BY <1>0, <1>11, <1>c, <1>v DEF String1
  <2>1. CASE Scalar(node, 1)
    <3>1. Uninit \in Int /\ 0 \in Int
      BY DEF Uninit
    <3>2. Blank(node, NULL) /\ node.str = NullStr
      BY <3>1, NewStrBlank DEF NullStr, Uninit
    <3> HIDE DEF node
    <3> QED
      BY <2>0, <2>1, <3>2, <1>s
  <2>2. CASE strStart' = pos /\ Goto("StringX", 1) /\ UNCHANGED treeVars
    <3>1. UNCHANGED heap /\ pc' = "StringX" /\ strStart' >= 1 /\ strStart' < pos'
      BY <1>0, <2>2 DEF Goto
    <3>2. pc' \notin HashScan \cup KeyX \cup {"Number1"}
      BY <3>1 DEF HashScan, KeyX
    <3> QED
      BY <2>0, <3>1, <3>2, <1>k
  <2> QED
    BY <1>11, <2>1, <2>2 DEF String1
<1>12. CASE StringX \/ StrSlash1 \/ SlashHexN
  <2> DEFINE decoded == slashCnt > 0
             node    == NewStr("str", strStart, pos - strStart, decoded)
  <2>0. /\ KeySet /\ KeySet' /\ UNCHANGED <<data, keyVars, strStart>>
        /\ strStart >= 1 /\ strStart < pos /\ pos < Len(data)
    <3>1. pc \in StrX /\ UNCHANGED <<data, keyVars, strStart>> /\ pos < Len(data)
      BY <1>12 DEF StringX, StrSlash1, SlashHexN, SlashHex, SlashHex4, StringFrame, StrX, HexScan
    <3> QED
      BY <1>0, <3>1, <1>c, <1>v
  <2>1. CASE Scalar(node, 1)
    <3>1. decoded \in BOOLEAN
      OBVIOUS
    <3> HIDE DEF decoded
    <3>2. Blank(node, NULL) /\ node.str = [start |-> strStart, len |-> pos - strStart]
      BY <1>0, <3>1, NewStrBlank
    <3>3. InData(node.str)
      <4>1. Len(data) \in Nat
        BY DEF TypeOK
      <4> QED
        BY <1>0, <2>0, <3>2, <4>1 DEF InData
    <3> HIDE DEF node
    <3> QED
      BY <2>0, <2>1, <3>2, <3>3, <1>s
  <2>2. CASE UNCHANGED treeVars /\ \E label \in StrX \ {"NumberX", "AfterDot"} : Goto(label, 1)
    <3>1. UNCHANGED heap /\ pc' \in StrX \ {"NumberX", "AfterDot"} /\ pos' > pos /\ pos' \in Nat
      BY <2>2, <1>0 DEF Goto
    <3>2. pc' \notin HashScan \cup KeyX \cup {"Number1"}
      BY <3>1 DEF HashScan, KeyX, StrX, HexScan
    <3>3. strStart' >= 1 /\ strStart' < pos'
      BY <1>0, <2>0, <3>1
    <3> QED
      BY <2>0, <3>1, <3>2, <3>3, <1>k
  <2>3. StringX2 => Scalar(node, 1) \/ (UNCHANGED treeVars /\ (Goto("StrSlash1", 1) \/ Goto("StringX", 1)))
    BY DEF StringX2
  <2>4. {"StringX", "StrSlash1", "SlashHex1", "SlashHex2", "SlashHex3", "SlashHex4"}
          = StrX \ {"NumberX", "AfterDot"}
    BY DEF StrX, HexScan
  <2>5. \/ StringX2
        \/ UNCHANGED treeVars /\ \E label \in StrX \ {"NumberX", "AfterDot"} : Goto(label, 1)
    BY <1>12, <2>4 DEF StringX, StrSlash1, SlashHexN, SlashHex, SlashHex4
  <2> HIDE DEF node
  <2> QED
    BY <2>1, <2>2, <2>3, <2>4, <2>5
<1>13. CASE AfterVal
  <2>1. /\ UNCHANGED <<data, keyVars, heap>> /\ pc \in ValueScan /\ pc' = "Hash"
    BY <1>13, <1>v DEF AfterVal, Goto
  <2> QED
    BY <1>0, <2>1, <1>c, <1>v, <1>k
<1>14. CASE UNCHANGED vars
  BY <1>14 DEF vars, SliceInv, SlicesInBounds, KeySet, InData
<1> QED
  BY <1>1, <1>2, <1>3, <1>4, <1>5, <1>6, <1>7, <1>8, <1>9, <1>10, <1>11, <1>12, <1>13, <1>14
     DEF Next, Step, Stopped

(* Every slice the parser keeps lies in the buffer, and no value is stored  *)
(* under a key never read, for every buffer parsed from a fresh start.      *)
THEOREM SlicesCorrect ==
  ASSUME Fresh
  PROVE  Spec => []SlicesInBounds
<1>1. Init => SliceInv
  BY InitSlices
<1>2. SliceInv => SlicesInBounds
  BY DEF SliceInv
<1> QED
  BY <1>1, <1>2, InitType, StepType, StepSlices, PTL DEF Spec

(* Wherever a value may be stored in a hash, keyStart and keyLen have been   *)
(* assigned: the C locals without initialisers are never used as they are.  *)
THEOREM KeyCorrect ==
  ASSUME Fresh
  PROVE  Spec => []KeyAssigned
<1>1. Init => SliceInv
  BY InitSlices
<1>2. SliceInv => KeyAssigned
  BY DEF SliceInv, KeyAssigned, KeySet, InData, Uninit, ValueScan
<1> QED
  BY <1>1, <1>2, InitType, StepType, StepSlices, PTL DEF Spec

-----------------------------------------------------------------------------
(* Progress.                                                               *)

LEMMA Ranks ==
  /\ \A label \in Terminal : Rank(label) = 5
  /\ \A label \in Reading : Rank(label) \in 0 .. 4
  /\ Rank("TypeX") = 0 /\ Rank("Number1") = 0 /\ Rank("NumberX") = 1
  /\ Rank("AfterVal") = 2 /\ Rank("Hash") = 3
  /\ Rank("KeyName1") = 4 /\ Rank("AfterColon") = 4
<1>1. \A label \in Terminal : Rank(label) = 5
  BY DEF Rank, Terminal
<1>2. \A label \in Reading : Rank(label) \in 0 .. 4
  <2>1. Reading \cap Terminal = {}
    BY Labels DEF Terminal
  <2> QED
    BY <2>1 DEF Rank
<1>3. /\ "TypeX" \notin Terminal /\ "Number1" \notin Terminal /\ "NumberX" \notin Terminal
      /\ "AfterVal" \notin Terminal /\ "Hash" \notin Terminal
      /\ "KeyName1" \notin Terminal /\ "AfterColon" \notin Terminal
  BY DEF Terminal
<1>4. /\ Rank("TypeX") = 0 /\ Rank("Number1") = 0 /\ Rank("NumberX") = 1
      /\ Rank("AfterVal") = 2 /\ Rank("Hash") = 3
      /\ Rank("KeyName1") = 4 /\ Rank("AfterColon") = 4
  BY <1>3 DEF Rank
<1> QED
  BY <1>1, <1>2, <1>4

LEMMA StepAdvances ==
  TypeOK /\ [Next]_vars => [pos' > pos \/ (pos' = pos /\ Rank(pc') > Rank(pc))]_vars
<1> SUFFICES ASSUME TypeOK, Step
             PROVE  pos' > pos \/ (pos' = pos /\ Rank(pc') > Rank(pc))
  BY DEF Next, Stopped
<1> USE DEF At
<1>0. pos \in Nat
  BY DEF TypeOK
<1>g. \A label : Goto(label, 1) \/ Goto(label, 2) => pos' > pos
  BY <1>0 DEF Goto
<1>z. ASSUME NEW label, Goto(label, 0), Rank(label) > Rank(pc)
      PROVE  pos' = pos /\ Rank(pc') > Rank(pc)
  BY <1>0, <1>z DEF Goto
<1>t. Reading \cap Terminal = {} /\ {"Done", "Exit", "Undefined"} = Terminal
  BY Labels DEF Terminal
<1>1. CASE Safe
  <2>1. pc \in Reading /\ pc' \in Terminal /\ pos' = pos
    BY <1>1 DEF Safe, Terminal
  <2> QED
    BY <2>1, Ranks
<1>2. CASE Hash
  <2>1. pc = "Hash"
    BY <1>2 DEF Hash
  <2>2. Goto("KeyName1", 0) \/ \E label : Goto(label, 1) \/ Goto(label, 2)
    BY <1>2 DEF Hash
  <2> QED
    BY <2>1, <2>2, <1>g, <1>z, Ranks
<1>3. CASE \/ HashComment \/ HashComment2 \/ AC_Comment \/ AC_Comment2
           \/ QQKeyName1 \/ QKeyName1 \/ KeyName1 \/ QQKeyNameX \/ QKeyNameX \/ KeyNameX \/ Colon
  <2>1. \E label : Goto(label, 1) \/ Goto(label, 2)
    BY <1>3 DEF HashComment, HashComment2, AC_Comment, AC_Comment2, EolComment, StarComment,
                QQKeyName1, QKeyName1, KeyName1, QuotedKey1,
                QQKeyNameX, QKeyNameX, KeyNameX, QuotedKeyX, Colon
  <2> QED
    BY <2>1, <1>g
<1>4. CASE AfterColon
  <2>1. pc = "AfterColon"
    BY <1>4 DEF AfterColon
  <2>2. \/ pc' = "Undefined" /\ pos' = pos
        \/ \E label : Goto(label, 1) \/ Goto(label, 2)
    BY <1>4 DEF AfterColon, OpenHash, OpenArr, CloseArr, StartValue
  <2> QED
    BY <2>1, <2>2, <1>g, <1>t, Ranks
<1>5. CASE TypeX
  <2>1. pc = "TypeX"
    BY <1>5 DEF TypeX
  <2>2. \E label \in {"TypeX", "AfterVal", "AfterColon", "Exit"} :
          Goto(label, 1) \/ (label # "TypeX" /\ Goto(label, 0))
    BY <1>5 DEF TypeX, Scalar, AfterAttach
  <2> QED
    BY <2>1, <2>2, <1>g, <1>z, <1>t, Ranks
<1>6. CASE Number1
  <2>1. pc = "Number1" /\ Goto("NumberX", 0)
    BY <1>6 DEF Number1
  <2> QED
    BY <2>1, <1>z, Ranks
<1>7. CASE NumberX \/ AfterDot
  <2>1. \/ \E label : Goto(label, 1)
        \/ pc = "NumberX" /\ \E label \in {"AfterVal", "AfterColon"} : Goto(label, 0)
    BY <1>7 DEF NumberX, AfterDot, Scalar, AfterAttach
  <2> QED
    BY <2>1, <1>g, <1>z, Ranks
<1>8. CASE String1 \/ StringX \/ StrSlash1 \/ SlashHexN
  <2>1. \E label : Goto(label, 1)
    BY <1>8 DEF String1, StringX, StrSlash1, SlashHexN, SlashHex, SlashHex4, StringX2, Scalar
  <2> QED
    BY <2>1, <1>g
<1>9. CASE AfterVal
  <2>1. pc = "AfterVal" /\ Goto("Hash", 0)
    BY <1>9 DEF AfterVal
  <2> QED
    BY <2>1, <1>z, Ranks
<1> QED
  BY <1>1, <1>2, <1>3, <1>4, <1>5, <1>6, <1>7, <1>8, <1>9 DEF Step

(* Every step consumes input or moves up in Rank, whatever the buffer: the  *)
(* parser takes at most six steps per character and never loops.            *)
THEOREM AdvanceCorrect == Spec => Advance
<1>1. TypeOK /\ [Next]_vars => [pos' > pos \/ (pos' = pos /\ Rank(pc') > Rank(pc))]_vars
  BY StepAdvances
<1> QED
  BY <1>1, TypeCorrect, PTL DEF Spec, Advance

-----------------------------------------------------------------------------
(* The tree as a document.                                                 *)

(* s is what node n holds: the elements of an array, linked from head to    *)
(* tail by parent, or the values of a hash.                                 *)
Holds(hp, n, s) ==
  /\ hp[n].type = "arr" =>
       /\ Len(s) = hp[n].count
       /\ s = <<>> => hp[n].head = NULL
       /\ s # <<>> => hp[n].head = s[1] /\ hp[n].tail = s[Len(s)]
       /\ \A i \in 1 .. Len(s) - 1 : hp[s[i]].parent = s[i + 1]
  /\ hp[n].type = "hash" =>
       /\ Len(s) = Len(hp[n].tree)
       /\ \A i \in 1 .. Len(s) : s[i] = hp[n].tree[i].val
  /\ hp[n].type \notin {"arr", "hash"} => s = <<>>

(* ks is what every node holds: nodes created after it, each held once.    *)
Family(hp, ks) ==
  /\ ks \in Seq(Seq(Nat)) /\ Len(ks) = Len(hp)
  /\ \A n \in 1 .. Len(hp) : Holds(hp, n, ks[n])
  /\ \A n \in 1 .. Len(hp) : \A i \in 1 .. Len(ks[n]) : ks[n][i] \in n + 1 .. Len(hp)
  /\ \A n, m \in 1 .. Len(hp) : \A i \in 1 .. Len(ks[n]), j \in 1 .. Len(ks[m]) :
       ks[n][i] = ks[m][j] => n = m /\ i = j

KidsOf(hp, n) ==
  CASE hp[n].type = "arr"  -> Elements(hp, n)
    [] hp[n].type = "hash" -> [i \in 1 .. Len(hp[n].tree) |-> hp[n].tree[i].val]
    [] OTHER               -> <<>>

LEMMA ElementsIs ==
  ASSUME NEW hp, NEW n, NEW s \in Seq(Nat), Holds(hp, n, s), hp[n].type = "arr"
  PROVE  Elements(hp, n) = s
<1> DEFINE D(f) == [i \in 1 .. hp[n].count |-> IF i = 1 THEN hp[n].head ELSE hp[f[i - 1]].parent]
           U    == CHOOSE f : f = D(f)
<1>1. /\ Len(s) = hp[n].count /\ Len(s) \in Nat
      /\ s # <<>> => hp[n].head = s[1]
      /\ \A i \in 1 .. Len(s) - 1 : hp[s[i]].parent = s[i + 1]
  BY DEF Holds
<1>2. s = D(s)
  <2>1. \A i \in 1 .. Len(s) : s[i] = IF i = 1 THEN hp[n].head ELSE hp[s[i - 1]].parent
    <3> SUFFICES ASSUME NEW i \in 1 .. Len(s), i # 1
                 PROVE  s[i] = hp[s[i - 1]].parent
      BY <1>1
    <3>1. i - 1 \in 1 .. Len(s) - 1 /\ (i - 1) + 1 = i
      BY <1>1
    <3> QED
      BY <1>1, <3>1
  <2>2. s = [i \in 1 .. Len(s) |-> s[i]]
    OBVIOUS
  <2> QED
    BY <1>1, <2>1, <2>2
<1>3. PICK f : f = D(f) /\ Elements(hp, n) = f
  <2>1. Elements(hp, n) = U
    BY DEF Elements
  <2> QED
    BY <1>2, <2>1
<1> DEFINE T == {k \in Nat : k + 1 <= Len(s) => f[k + 1] = s[k + 1]}
<1>4. \A i \in 1 .. Len(s) : f[i] = IF i = 1 THEN hp[n].head ELSE hp[f[i - 1]].parent
  BY <1>1, <1>3
<1>5. 0 \in T
  BY <1>1, <1>4
<1>6. ASSUME NEW k \in Nat, k \in T
      PROVE  k + 1 \in T
  <2> SUFFICES ASSUME (k + 1) + 1 <= Len(s)
               PROVE  f[(k + 1) + 1] = s[(k + 1) + 1]
    OBVIOUS
  <2>1. f[k + 1] = s[k + 1] /\ k + 1 \in 1 .. Len(s) - 1 /\ (k + 1) + 1 \in 1 .. Len(s)
    BY <1>1, <1>6
  <2>2. f[(k + 1) + 1] = hp[f[k + 1]].parent
    BY <1>4, <2>1
  <2> QED
    BY <1>1, <2>1, <2>2
<1>7. Nat \subseteq T
  <2> HIDE DEF T
  <2> QED
    BY <1>5, <1>6, Induct
<1>8. \A i \in 1 .. Len(s) : f[i] = s[i]
  <2> SUFFICES ASSUME NEW i \in 1 .. Len(s) PROVE f[i] = s[i]
    OBVIOUS
  <2>1. i - 1 \in Nat /\ (i - 1) + 1 = i /\ i <= Len(s)
    BY <1>1
  <2>2. i - 1 \in T
    BY <1>7, <2>1
  <2> QED
    BY <2>1, <2>2
<1>9. f = [i \in 1 .. Len(s) |-> f[i]] /\ s = [i \in 1 .. Len(s) |-> s[i]]
  BY <1>1, <1>3
<1> QED
  BY <1>3, <1>8, <1>9

LEMMA KidsIs ==
  ASSUME NEW hp, NEW n, NEW s \in Seq(Nat), Holds(hp, n, s)
  PROVE  KidsOf(hp, n) = s
<1>1. CASE hp[n].type = "arr"
  BY <1>1, ElementsIs DEF KidsOf
<1>2. CASE hp[n].type = "hash"
  <2>1. KidsOf(hp, n) = [i \in 1 .. Len(hp[n].tree) |-> hp[n].tree[i].val]
    BY <1>2 DEF KidsOf
  <2>2. Len(s) = Len(hp[n].tree) /\ \A i \in 1 .. Len(s) : s[i] = hp[n].tree[i].val
    BY <1>2 DEF Holds
  <2>3. s = [i \in 1 .. Len(s) |-> s[i]]
    OBVIOUS
  <2> QED
    BY <2>1, <2>2, <2>3
<1>3. CASE hp[n].type \notin {"arr", "hash"}
  BY <1>3 DEF KidsOf, Holds
<1> QED
  BY <1>1, <1>2, <1>3

LEMMA FamilyKids ==
  ASSUME NEW hp, NEW ks, Family(hp, ks)
  PROVE  [n \in 1 .. Len(hp) |-> KidsOf(hp, n)] = ks
<1>1. \A n \in 1 .. Len(hp) : KidsOf(hp, n) = ks[n]
  <2> SUFFICES ASSUME NEW n \in 1 .. Len(hp) PROVE KidsOf(hp, n) = ks[n]
    OBVIOUS
  <2>1. ks[n] \in Seq(Nat) /\ Holds(hp, n, ks[n])
    BY DEF Family
  <2> QED
    BY <2>1, KidsIs
<1>2. ks = [n \in 1 .. Len(hp) |-> ks[n]]
  BY DEF Family
<1> QED
  BY <1>1, <1>2

-----------------------------------------------------------------------------
(* The containers still open, p, and how many arrays of st are open at      *)
(* each of them, d.                                                        *)
Stop(hp, st, p, d, i) ==
  \/ /\ hp[p[i]].type = "arr" /\ hp[p[i]].parent = NULL
     /\ d[i] = d[i - 1] + 1 /\ st[d[i]] = p[i - 1]
  \/ /\ hp[p[i]].type = "hash" /\ hp[p[i]].parent = p[i - 1]
     /\ d[i] = d[i - 1]

Way(hp, st, c, p, d) ==
  /\ p \in Seq(1 .. Len(hp)) /\ d \in Seq(0 .. Len(st)) /\ Len(d) = Len(p) /\ Len(p) >= 1
  /\ p[1] = Root /\ p[Len(p)] = c
  /\ d[1] = 0 /\ d[Len(p)] = Len(st)
  /\ \A i \in 1 .. Len(p) : i <= p[i]
  /\ \A i, j \in 1 .. Len(p) : i < j => p[i] < p[j] /\ d[i] <= d[j]
  /\ \A k \in 1 .. Len(st) : \E i \in 2 .. Len(p) : hp[p[i]].type = "arr" /\ d[i] = k
  /\ hp[Root].type = "hash" /\ hp[Root].parent = NULL
  /\ \A i \in 2 .. Len(p) : Stop(hp, st, p, d, i)

(* The links of the heap and of the stack stay among the nodes.            *)
Inside(hp, st) ==
  /\ Len(hp) \in Nat /\ st \in Seq(1 .. Len(hp))
  /\ \A n \in 1 .. Len(hp) : hp[n].parent \in 0 .. Len(hp)

Places(hp, st) == (1 .. Len(hp)) \X (0 .. Len(st)) \X (0 .. Len(hp))

UpFrom(hp, st, e) ==
  IF hp[e[1]].type # "arr" THEN hp[e[1]].parent ELSE IF e[2] = 0 THEN NULL ELSE st[e[2]]

DepthUp(hp, e) == IF hp[e[1]].type = "arr" /\ e[2] > 0 THEN e[2] - 1 ELSE e[2]

WalkBody(hp, st, g) ==
  [e \in Places(hp, st) |->
    IF UpFrom(hp, st, e) = NULL \/ e[3] = 0 THEN <<e[1]>>
    ELSE Append(g[<<UpFrom(hp, st, e), DepthUp(hp, e), e[3] - 1>>], e[1])]

PathOf(hp, st, c) ==
  LET walk == CHOOSE g : g = WalkBody(hp, st, g)
  IN  walk[<<c, Len(st), Len(hp)>>]

LEMMA UpInside ==
  ASSUME NEW hp, NEW st, Inside(hp, st), NEW e \in Places(hp, st),
         UpFrom(hp, st, e) # NULL, e[3] # 0
  PROVE  /\ <<UpFrom(hp, st, e), DepthUp(hp, e), e[3] - 1>> \in Places(hp, st)
         /\ e[3] - 1 < e[3]
<1>1. PICK n \in 1 .. Len(hp), k \in 0 .. Len(st), l \in 0 .. Len(hp) : e = <<n, k, l>>
  BY DEF Places
<1>2. e[1] = n /\ e[2] = k /\ e[3] = l
  BY <1>1
<1>3. UpFrom(hp, st, e) \in 0 .. Len(hp)
  BY <1>2 DEF UpFrom, Inside, NULL
<1>4. DepthUp(hp, e) \in 0 .. Len(st)
  BY <1>2 DEF DepthUp, Inside
<1>5. UpFrom(hp, st, e) \in 1 .. Len(hp)
  BY <1>3 DEF NULL, Inside
<1>6. l - 1 \in 0 .. Len(hp) /\ l - 1 < l
  BY <1>2 DEF Inside
<1> QED
  BY <1>2, <1>4, <1>5, <1>6 DEF Places

LEMMA WalkBodyExists ==
  ASSUME NEW hp, NEW st, Inside(hp, st)
  PROVE  \E g : g = WalkBody(hp, st, g)
<1>1. PICK S : S = Places(hp, st)
  OBVIOUS
<1>2. PICK V : V = Seq(1 .. Len(hp))
  OBVIOUS
<1>3. PICK F : F = [g \in [S -> V] |-> WalkBody(hp, st, g)]
  OBVIOUS
<1>4. PICK rank : rank = [e \in S |-> e[3]]
  OBVIOUS
<1>5. ASSUME NEW e \in S
      PROVE  rank[e] = e[3] /\ e[3] \in 0 .. Len(hp) /\ e[1] \in 1 .. Len(hp)
  BY <1>1, <1>4 DEF Places
<1> DEFINE above(e) == <<UpFrom(hp, st, e), DepthUp(hp, e), e[3] - 1>>
           leaf(e)  == UpFrom(hp, st, e) = NULL \/ e[3] = 0
<1>6. ASSUME NEW e \in S, ~ leaf(e)
      PROVE  above(e) \in S /\ rank[above(e)] < rank[e]
  <2>1. above(e) \in S /\ e[3] - 1 < e[3]
    BY <1>1, <1>6, UpInside
  <2>2. above(e)[3] = e[3] - 1
    OBVIOUS
  <2> HIDE DEF above
  <2> QED
    BY <2>1, <2>2, <1>5
<1> HIDE DEF above, leaf
<1>7. ASSUME NEW g \in [S -> V]
      PROVE  /\ F[g] \in [S -> V]
             /\ \A e \in S : F[g][e] = IF leaf(e) THEN <<e[1]>> ELSE Append(g[above(e)], e[1])
  <2>1. F[g] = WalkBody(hp, st, g)
    BY <1>3
  <2>2. F[g] = [e \in S |-> IF leaf(e) THEN <<e[1]>> ELSE Append(g[above(e)], e[1])]
    BY <2>1, <1>1 DEF WalkBody, leaf, above
  <2>3. ASSUME NEW e \in S
        PROVE  (IF leaf(e) THEN <<e[1]>> ELSE Append(g[above(e)], e[1])) \in V
    <3>1. e[1] \in 1 .. Len(hp)
      BY <1>5
    <3>2. CASE leaf(e)
      <4>1. <<e[1]>> \in V
        BY <3>1, <1>2
      <4> QED
        BY <3>2, <4>1
    <3>3. CASE ~ leaf(e)
      <4>1. g[above(e)] \in V
        BY <3>3, <1>6
      <4>2. Append(g[above(e)], e[1]) \in V
        BY <3>1, <4>1, <1>2
      <4> QED
        BY <3>3, <4>2
    <3> QED
      BY <3>2, <3>3
  <2> QED
    BY <2>2, <2>3
<1>8. Recursion(S, V, rank, F)
  <2>1. F \in [[S -> V] -> [S -> V]]
    BY <1>3, <1>7
  <2>2. ASSUME NEW g \in [S -> V], NEW h \in [S -> V], NEW m \in S, \A c \in S : rank[c] < rank[m] => g[c] = h[c]
        PROVE  F[g][m] = F[h][m]
    <3>1. ~ leaf(m) => g[above(m)] = h[above(m)]
      BY <1>6, <2>2
    <3>2. /\ F[g][m] = IF leaf(m) THEN <<m[1]>> ELSE Append(g[above(m)], m[1])
          /\ F[h][m] = IF leaf(m) THEN <<m[1]>> ELSE Append(h[above(m)], m[1])
      BY <1>7
    <3> QED
      BY <3>1, <3>2
  <2> QED
    BY <2>1, <2>2 DEF Recursion
<1>9. RankedTo(S, rank, Len(hp))
  <2>1. Len(hp) \in Nat
    BY DEF Inside
  <2> QED
    BY <2>1, <1>5 DEF RankedTo
<1>10. <<>> \in V
  BY <1>2
<1>11. PICK g \in [S -> V] : g = F[g]
  BY <1>8, <1>9, <1>10, RecursionExists
<1> QED
  BY <1>3, <1>11

LEMMA FirstOf ==
  ASSUME NEW S, NEW p \in Seq(S), Len(p) >= 1
  PROVE  SubSeq(p, 1, 1) = <<p[1]>>
<1>1. PICK q : q = SubSeq(p, 1, 1)
  OBVIOUS
<1>2. q \in Seq(S) /\ Len(q) = 1 /\ q[1] = p[1]
  BY <1>1
<1>3. q = <<q[1]>>
  BY <1>2
<1> QED
  BY <1>1, <1>2, <1>3

(* The walk from any container of the path passes those before it.         *)
LEMMA WalkIs ==
  ASSUME NEW hp, NEW st, NEW c, NEW p, NEW d, Inside(hp, st), Way(hp, st, c, p, d)
  PROVE  PathOf(hp, st, c) = p
<1> DEFINE U == CHOOSE g : g = WalkBody(hp, st, g)
<1>n. PICK N : N = Len(hp)
  OBVIOUS
<1>1. PICK g : g = WalkBody(hp, st, g) /\ PathOf(hp, st, c) = g[<<c, Len(st), Len(hp)>>]
  <2>1. PathOf(hp, st, c) = U[<<c, Len(st), Len(hp)>>]
    BY DEF PathOf
  <2>2. U = WalkBody(hp, st, U)
    BY WalkBodyExists
  <2> HIDE DEF U
  <2> QED
    BY <2>1, <2>2
<1>2. /\ N \in Nat /\ st \in Seq(1 .. N) /\ Len(st) \in Nat
      /\ p \in Seq(1 .. N) /\ d \in Seq(0 .. Len(st)) /\ Len(d) = Len(p) /\ Len(p) \in Nat /\ Len(p) >= 1
  BY <1>n DEF Way, Inside
<1>b. N \in Nat /\ Len(st) \in Nat /\ Len(p) \in Nat /\ Len(p) >= 1
  BY <1>2
<1>w. /\ p[1] = Root /\ p[Len(p)] = c /\ d[1] = 0 /\ d[Len(p)] = Len(st)
      /\ \A i \in 1 .. Len(p) : i <= p[i]
      /\ hp[Root].type = "hash" /\ hp[Root].parent = NULL
      /\ \A i \in 2 .. Len(p) : Stop(hp, st, p, d, i)
  BY DEF Way
<1>3. \A i \in 1 .. Len(p) : p[i] \in 1 .. N /\ d[i] \in 0 .. Len(st)
  BY <1>2
<1>4. ASSUME NEW i \in 1 .. Len(p), NEW l \in 0 .. N
      PROVE  LET e == <<p[i], d[i], l>>
             IN  g[e] = IF UpFrom(hp, st, e) = NULL \/ l = 0 THEN <<p[i]>>
                        ELSE Append(g[<<UpFrom(hp, st, e), DepthUp(hp, e), l - 1>>], p[i])
  <2>1. PICK e : e = <<p[i], d[i], l>>
    OBVIOUS
  <2>2. e \in Places(hp, st) /\ e[1] = p[i] /\ e[2] = d[i] /\ e[3] = l
    BY <2>1, <1>3, <1>n DEF Places
  <2>3. g[e] = IF UpFrom(hp, st, e) = NULL \/ e[3] = 0 THEN <<e[1]>>
               ELSE Append(g[<<UpFrom(hp, st, e), DepthUp(hp, e), e[3] - 1>>], e[1])
    BY <1>1, <2>2 DEF WalkBody
  <2> QED
    BY <2>1, <2>2, <2>3
<1>5. ASSUME NEW l \in 0 .. N
      PROVE  g[<<p[1], d[1], l>>] = <<p[1]>>
  <2>1. 1 \in 1 .. Len(p)
    BY <1>2
  <2>2. UpFrom(hp, st, <<p[1], d[1], l>>) = NULL
    BY <1>w DEF UpFrom
  <2> QED
    BY <2>1, <2>2, <1>4
<1>6. ASSUME NEW i \in 2 .. Len(p), NEW l \in 1 .. N
      PROVE  g[<<p[i], d[i], l>>] = Append(g[<<p[i - 1], d[i - 1], l - 1>>], p[i])
  <2>1. i \in 1 .. Len(p) /\ i - 1 \in 1 .. Len(p) /\ l \in 0 .. N /\ l # 0
    BY <1>2
  <2>a. p[i - 1] \in 1 .. N /\ d[i - 1] \in 0 .. Len(st) /\ d[i] \in 0 .. Len(st)
    BY <1>3, <2>1
  <2>2. p[i - 1] \in 1 .. N /\ d[i - 1] \in Nat /\ d[i] \in Nat
    BY <1>b, <2>a
  <2>3. PICK e : e = <<p[i], d[i], l>>
    OBVIOUS
  <2>4. UpFrom(hp, st, e) = p[i - 1] /\ DepthUp(hp, e) = d[i - 1]
    <3>1. e[1] = p[i] /\ e[2] = d[i]
      BY <2>3
    <3>2. Stop(hp, st, p, d, i)
      BY <1>w
    <3>3. CASE hp[p[i]].type = "arr"
      <4>1. d[i] = d[i - 1] + 1 /\ st[d[i]] = p[i - 1]
        BY <3>2, <3>3 DEF Stop
      <4>2. d[i] > 0 /\ d[i] # 0 /\ d[i] - 1 = d[i - 1]
        BY <2>2, <4>1
      <4> QED
        BY <3>1, <3>3, <4>1, <4>2 DEF UpFrom, DepthUp
    <3>4. CASE hp[p[i]].type # "arr"
      <4>1. hp[p[i]].parent = p[i - 1] /\ d[i] = d[i - 1]
        BY <3>2, <3>4 DEF Stop
      <4> QED
        BY <3>1, <3>4, <4>1 DEF UpFrom, DepthUp
    <3> QED
      BY <3>3, <3>4
  <2>5. p[i - 1] # NULL
    BY <2>2 DEF NULL
  <2> QED
    BY <1>4, <2>1, <2>3, <2>4, <2>5
<1> DEFINE T == {k \in Nat : k + 1 <= Len(p) =>
                   \A l \in k .. N : g[<<p[k + 1], d[k + 1], l>>] = SubSeq(p, 1, k + 1)}
<1>7. 0 \in T
  <2>1. SubSeq(p, 1, 1) = <<p[1]>>
    BY <1>2, FirstOf
  <2> QED
    BY <1>5, <2>1
<1>8. ASSUME NEW k \in Nat, k \in T
      PROVE  k + 1 \in T
  <2> SUFFICES ASSUME (k + 1) + 1 <= Len(p), NEW l \in k + 1 .. N
               PROVE  g[<<p[(k + 1) + 1], d[(k + 1) + 1], l>>] = SubSeq(p, 1, (k + 1) + 1)
    OBVIOUS
  <2>1. PICK i : i = k + 2
    OBVIOUS
  <2>2. /\ i \in 2 .. Len(p) /\ i - 1 = k + 1 /\ (k + 1) + 1 = i /\ k + 1 <= Len(p)
        /\ l \in 1 .. N /\ l - 1 \in k .. N
    BY <1>2, <2>1
  <2>3. g[<<p[i], d[i], l>>] = Append(g[<<p[i - 1], d[i - 1], l - 1>>], p[i])
    BY <1>6, <2>2
  <2>4. g[<<p[k + 1], d[k + 1], l - 1>>] = SubSeq(p, 1, k + 1)
    BY <1>8, <2>2
  <2>5. Append(SubSeq(p, 1, i - 1), p[i]) = SubSeq(p, 1, i)
    BY <1>2, <2>2
  <2> QED
    BY <2>2, <2>3, <2>4, <2>5
<1>9. Nat \subseteq T
  <2> HIDE DEF T
  <2> QED
    BY <1>7, <1>8, Induct
<1>10. PICK k : k = Len(p) - 1
  OBVIOUS
<1>11. k \in Nat /\ k + 1 = Len(p) /\ N \in k .. N
  <2>0. Len(p) \in 1 .. Len(p)
    BY <1>2
  <2>1. Len(p) <= p[Len(p)] /\ p[Len(p)] \in 1 .. N
    BY <2>0, <1>3, <1>w
  <2> QED
    BY <2>1, <1>b, <1>10
<1>12. g[<<p[k + 1], d[k + 1], N>>] = SubSeq(p, 1, k + 1)
  <2>1. k \in T
    <3> HIDE DEF T
    <3> QED
      BY <1>9, <1>11
  <2>2. k + 1 <= Len(p)
    BY <1>2, <1>11
  <2> QED
    BY <2>1, <2>2, <1>11
<1>13. SubSeq(p, 1, Len(p)) = p
  BY <1>2
<1> QED
  BY <1>1, <1>2, <1>n, <1>w, <1>11, <1>12, <1>13

(* The nodes up to c keep their type and their parent.                     *)
Older(hp, new, c) ==
  /\ Len(hp) \in Nat /\ Len(new) \in Nat /\ Len(hp) <= Len(new)
  /\ \A n \in 1 .. Len(hp) :
       new[n].type = hp[n].type /\ (n <= c => new[n].parent = hp[n].parent)

LEMMA SeqWiden ==
  ASSUME NEW S, NEW T, S \subseteq T, NEW q \in Seq(S)
  PROVE  q \in Seq(T)
<1>1. q = [i \in 1 .. Len(q) |-> q[i]] /\ Len(q) \in Nat
  OBVIOUS
<1>2. \A i \in 1 .. Len(q) : q[i] \in T
  OBVIOUS
<1> QED
  BY <1>1, <1>2

LEMMA Prefix ==
  ASSUME NEW S, NEW q \in Seq(S), NEW k \in 0 .. Len(q)
  PROVE  /\ SubSeq(q, 1, k) \in Seq(S) /\ Len(SubSeq(q, 1, k)) = k
         /\ \A i \in 1 .. k : SubSeq(q, 1, k)[i] = q[i]
OBVIOUS

LEMMA WaySizes ==
  ASSUME NEW hp, NEW st, NEW c, NEW p, NEW d, Way(hp, st, c, p, d), Len(hp) \in Nat, Len(st) \in Nat
  PROVE  /\ Len(p) \in Nat /\ Len(p) >= 1
         /\ \A i \in 1 .. Len(p) : p[i] \in 1 .. Len(hp) /\ i <= p[i] /\ p[i] <= c /\ d[i] \in 0 .. Len(st)
         /\ p[Len(p)] = c /\ c \in 1 .. Len(hp) /\ d[Len(p)] = Len(st)
<1>1. /\ p \in Seq(1 .. Len(hp)) /\ d \in Seq(0 .. Len(st)) /\ Len(d) = Len(p) /\ Len(p) >= 1
      /\ p[Len(p)] = c /\ d[Len(p)] = Len(st)
      /\ \A i \in 1 .. Len(p) : i <= p[i]
  BY DEF Way
<1>2. Len(p) \in Nat /\ Len(p) \in 1 .. Len(p)
  BY <1>1
<1>3. \A i \in 1 .. Len(p) : p[i] \in 1 .. Len(hp) /\ d[i] \in 0 .. Len(st)
  BY <1>1
<1>4. ASSUME NEW i \in 1 .. Len(p)
      PROVE  p[i] <= c
  <2>1. CASE i = Len(p)
    <3>1. p[i] = c /\ p[i] \in 1 .. Len(hp)
      BY <2>1, <1>1, <1>3
    <3> QED
      BY <3>1
  <2>2. CASE i # Len(p)
    <3>1. i < Len(p)
      BY <2>2, <1>2
    <3>2. p[i] < p[Len(p)]
      BY <3>1, <1>2 DEF Way
    <3>3. p[i] \in 1 .. Len(hp) /\ c \in 1 .. Len(hp)
      BY <1>1, <1>2, <1>3
    <3> QED
      BY <3>2, <3>3, <1>1
  <2> QED
    BY <2>1, <2>2
<1>5. c \in 1 .. Len(hp)
  BY <1>1, <1>2, <1>3
<1> QED
  BY <1>1, <1>2, <1>3, <1>4, <1>5

LEMMA WaySame ==
  ASSUME NEW hp, NEW st, NEW c, NEW p, NEW d, Way(hp, st, c, p, d), Len(st) \in Nat,
         NEW new, Older(hp, new, c)
  PROVE  Way(new, st, c, p, d)
<1>1. /\ Len(p) \in Nat /\ Len(p) >= 1 /\ c \in 1 .. Len(hp)
      /\ \A i \in 1 .. Len(p) : p[i] \in 1 .. Len(hp) /\ p[i] <= c
  BY WaySizes DEF Older
<1>2. \A i \in 1 .. Len(p) : new[p[i]].type = hp[p[i]].type /\ new[p[i]].parent = hp[p[i]].parent
  BY <1>1 DEF Older
<1>3. p \in Seq(1 .. Len(new))
  <2>1. p \in Seq(1 .. Len(hp)) /\ 1 .. Len(hp) \subseteq 1 .. Len(new)
    BY DEF Way, Older
  <2> QED
    BY <2>1, SeqWiden
<1>4. \A k \in 1 .. Len(st) : \E i \in 2 .. Len(p) : new[p[i]].type = "arr" /\ d[i] = k
  <2> SUFFICES ASSUME NEW k \in 1 .. Len(st)
               PROVE  \E i \in 2 .. Len(p) : new[p[i]].type = "arr" /\ d[i] = k
    OBVIOUS
  <2>1. PICK i \in 2 .. Len(p) : hp[p[i]].type = "arr" /\ d[i] = k
    BY DEF Way
  <2>2. i \in 1 .. Len(p)
    BY <1>1
  <2> QED
    BY <2>1, <2>2, <1>2
<1>5. \A i \in 2 .. Len(p) : Stop(new, st, p, d, i)
  <2> SUFFICES ASSUME NEW i \in 2 .. Len(p) PROVE Stop(new, st, p, d, i)
    OBVIOUS
  <2>1. i \in 1 .. Len(p) /\ Stop(hp, st, p, d, i)
    BY <1>1 DEF Way
  <2>2. new[p[i]].type = hp[p[i]].type /\ new[p[i]].parent = hp[p[i]].parent
    BY <2>1, <1>2
  <2> QED
    BY <2>1, <2>2 DEF Stop
<1>6. new[Root].type = "hash" /\ new[Root].parent = NULL
  <2>1. p[1] = Root /\ hp[Root].type = "hash" /\ hp[Root].parent = NULL /\ 1 \in 1 .. Len(p)
    BY <1>1 DEF Way
  <2> QED
    BY <2>1, <1>2
<1> QED
  BY <1>3, <1>4, <1>5, <1>6 DEF Way

(* A container opened in c is one more on the path, and its array, if it is *)
(* one, one more on the stack.                                             *)
LEMMA WayOn ==
  ASSUME NEW hp, NEW st, NEW c, NEW p, NEW d, Way(hp, st, c, p, d), Len(hp) \in Nat,
         NEW el \in c + 1 .. Len(hp),
         NEW st1, Len(st) \in Nat, Len(st1) \in {Len(st), Len(st) + 1},
         \A k \in 1 .. Len(st) : st1[k] = st[k],
         NEW p1, p1 = Append(p, el), NEW d1, d1 = Append(d, Len(st1)),
         Stop(hp, st1, p1, d1, Len(p) + 1),
         Len(st1) > Len(st) => hp[el].type = "arr"
  PROVE  Way(hp, st1, el, p1, d1)
<1>1. /\ Len(p) \in Nat /\ Len(p) >= 1 /\ c \in 1 .. Len(hp) /\ p[Len(p)] = c
      /\ \A i \in 1 .. Len(p) : p[i] \in 1 .. Len(hp) /\ i <= p[i] /\ p[i] <= c /\ d[i] \in 0 .. Len(st)
      /\ d[Len(p)] = Len(st)
  BY WaySizes
<1>2. p \in Seq(1 .. Len(hp)) /\ d \in Seq(0 .. Len(st)) /\ Len(d) = Len(p)
  BY DEF Way
<1>3. el \in 1 .. Len(hp) /\ c < el /\ Len(p) < el
  <2>1. Len(p) \in 1 .. Len(p)
    BY <1>1
  <2>2. Len(p) <= c
    BY <2>1, <1>1
  <2> QED
    BY <1>1, <2>2
<1>4. p1 \in Seq(1 .. Len(hp)) /\ Len(p1) = Len(p) + 1
  BY <1>2, <1>3
<1>b. Len(p) \in Nat /\ Len(p) >= 1 /\ Len(p1) = Len(p) + 1
  BY <1>1, <1>4
<1>5. p1[Len(p) + 1] = el /\ \A i \in 1 .. Len(p) : p1[i] = p[i]
  BY <1>2
<1>6. d1 \in Seq(0 .. Len(st1)) /\ Len(d1) = Len(p) + 1
  <2>1. 0 .. Len(st) \subseteq 0 .. Len(st1) /\ Len(st1) \in 0 .. Len(st1)
    OBVIOUS
  <2>2. d \in Seq(0 .. Len(st1))
    BY <1>2, <2>1, SeqWiden
  <2> QED
    BY <1>2, <2>1, <2>2
<1>7. d1[Len(p) + 1] = Len(st1) /\ \A i \in 1 .. Len(p) : d1[i] = d[i]
  BY <1>2
<1>8. \A i \in 1 .. Len(p1) : i \in 1 .. Len(p) \/ i = Len(p) + 1
  BY <1>1, <1>4
<1>9. \A i \in 1 .. Len(p1) : i <= p1[i]
  <2>1. Len(p) + 1 <= el
    BY <1>1, <1>3
  <2> QED
    BY <1>1, <1>5, <1>8, <2>1
<1>10. ASSUME NEW i \in 1 .. Len(p1), NEW j \in 1 .. Len(p1), i < j
       PROVE  p1[i] < p1[j] /\ d1[i] <= d1[j]
  <2>1. i \in 1 .. Len(p)
    BY <1>1, <1>4, <1>10
  <2>2. CASE j \in 1 .. Len(p)
    <3>1. p[i] < p[j] /\ d[i] <= d[j]
      BY <1>10, <2>1, <2>2 DEF Way
    <3> QED
      BY <3>1, <2>1, <2>2, <1>5, <1>7
  <2>3. CASE j = Len(p) + 1
    <3>1. p1[j] = el /\ d1[j] = Len(st1) /\ p1[i] = p[i] /\ d1[i] = d[i]
      BY <2>1, <2>3, <1>5, <1>7
    <3>2. p[i] <= c /\ p[i] \in 1 .. Len(hp) /\ d[i] \in 0 .. Len(st)
      BY <2>1, <1>1
    <3>3. p[i] < el
      BY <3>2, <1>1, <1>3
    <3>4. d[i] <= Len(st1)
      BY <3>2
    <3> QED
      BY <3>1, <3>3, <3>4
  <2> QED
    BY <2>2, <2>3, <1>8
<1>11. ASSUME NEW k \in 1 .. Len(st1)
       PROVE  \E i \in 2 .. Len(p1) : hp[p1[i]].type = "arr" /\ d1[i] = k
  <2>1. CASE k \in 1 .. Len(st)
    <3>1. PICK i \in 2 .. Len(p) : hp[p[i]].type = "arr" /\ d[i] = k
      BY <2>1 DEF Way
    <3>2. i \in 1 .. Len(p) /\ i \in 2 .. Len(p1)
      BY <1>b
    <3> QED
      BY <3>1, <3>2, <1>5, <1>7
  <2>2. CASE k \notin 1 .. Len(st)
    <3>1. k = Len(st1) /\ Len(st1) > Len(st) /\ Len(p) + 1 \in 2 .. Len(p1)
      BY <2>2, <1>1, <1>4
    <3> QED
      BY <3>1, <1>5, <1>7
  <2> QED
    BY <2>1, <2>2
<1>12. ASSUME NEW i \in 2 .. Len(p1)
       PROVE  Stop(hp, st1, p1, d1, i)
  <2>1. CASE i \in 2 .. Len(p)
    <3>1. i \in 1 .. Len(p) /\ i - 1 \in 1 .. Len(p)
      BY <2>1, <1>1
    <3>2. Stop(hp, st, p, d, i)
      BY <2>1 DEF Way
    <3>3. p1[i] = p[i] /\ p1[i - 1] = p[i - 1] /\ d1[i] = d[i] /\ d1[i - 1] = d[i - 1]
      BY <3>1, <1>5, <1>7
    <3>4. d[i] = d[i - 1] + 1 => st1[d[i]] = st[d[i]]
      <4>1. d[i] \in 0 .. Len(st) /\ d[i - 1] \in 0 .. Len(st)
        BY <3>1, <1>1
      <4>2. d[i] = d[i - 1] + 1 => d[i] \in 1 .. Len(st)
        BY <4>1
      <4> QED
        BY <4>2
    <3> QED
      BY <3>2, <3>3, <3>4 DEF Stop
  <2>2. CASE i = Len(p) + 1
    BY <2>2
  <2>3. i \in 2 .. Len(p) \/ i = Len(p) + 1
    BY <1>b
  <2> QED
    BY <2>1, <2>2, <2>3
<1>13. /\ p1[1] = Root /\ d1[1] = 0 /\ p1[Len(p1)] = el /\ d1[Len(p1)] = Len(st1)
       /\ hp[Root].type = "hash" /\ hp[Root].parent = NULL /\ Len(p1) >= 1 /\ Len(d1) = Len(p1)
  <2>1. 1 \in 1 .. Len(p)
    BY <1>1
  <2>2. p[1] = Root /\ d[1] = 0 /\ hp[Root].type = "hash" /\ hp[Root].parent = NULL
    BY DEF Way
  <2>3. Len(p1) >= 1
    BY <1>1, <1>4
  <2> QED
    BY <2>1, <2>2, <2>3, <1>4, <1>5, <1>6, <1>7
<1> QED
  BY <1>4, <1>6, <1>9, <1>10, <1>11, <1>12, <1>13 DEF Way

(* Back at the k-th container of the path, with the arrays open there.     *)
LEMMA WayBack ==
  ASSUME NEW hp, NEW st, NEW c, NEW p, NEW d, Way(hp, st, c, p, d), Len(hp) \in Nat,
         NEW S, st \in Seq(S), NEW k \in 1 .. Len(p),
         NEW st1, st1 = SubSeq(st, 1, d[k]),
         NEW p1, p1 = SubSeq(p, 1, k), NEW d1, d1 = SubSeq(d, 1, k)
  PROVE  Way(hp, st1, p[k], p1, d1)
<1>0. Len(st) \in Nat
  OBVIOUS
<1>1. /\ Len(p) \in Nat /\ Len(p) >= 1
      /\ \A i \in 1 .. Len(p) : p[i] \in 1 .. Len(hp) /\ i <= p[i] /\ d[i] \in 0 .. Len(st)
  BY <1>0, WaySizes
<1>2. p \in Seq(1 .. Len(hp)) /\ d \in Seq(0 .. Len(st)) /\ Len(d) = Len(p)
  BY DEF Way
<1>3. k \in Nat /\ k >= 1 /\ k <= Len(p) /\ d[k] \in 0 .. Len(st) /\ d[k] \in Nat
  BY <1>0, <1>1
<1>4. p1 \in Seq(1 .. Len(hp)) /\ Len(p1) = k /\ \A i \in 1 .. k : p1[i] = p[i]
  <2>1. k \in 0 .. Len(p)
    BY <1>1, <1>3
  <2> QED
    BY <1>2, <2>1, Prefix
<1>5. Len(st1) = d[k] /\ \A i \in 1 .. d[k] : st1[i] = st[i]
  BY <1>3
<1>6. \A i, j \in 1 .. Len(p) : i < j => p[i] < p[j] /\ d[i] <= d[j]
  BY DEF Way
<1>7. \A i \in 1 .. k : i \in 1 .. Len(p) /\ d[i] \in 0 .. d[k]
  <2> SUFFICES ASSUME NEW i \in 1 .. k PROVE i \in 1 .. Len(p) /\ d[i] \in 0 .. d[k]
    OBVIOUS
  <2>1. i \in 1 .. Len(p)
    BY <1>1, <1>3
  <2>2. i = k \/ d[i] <= d[k]
    BY <2>1, <1>3, <1>6
  <2>3. d[i] \in 0 .. Len(st)
    BY <2>1, <1>1
  <2> QED
    BY <2>1, <2>2, <2>3, <1>3
<1>8. Len(d1) = k /\ \A i \in 1 .. k : d1[i] = d[i]
  BY <1>2, <1>3
<1>9. d1 \in Seq(0 .. d[k])
  <2>1. d1 = [i \in 1 .. k |-> d[i]]
    BY <1>2, <1>3
  <2> QED
    BY <2>1, <1>3, <1>7
<1>10. ASSUME NEW a \in 1 .. d[k]
       PROVE  \E i \in 2 .. k : hp[p1[i]].type = "arr" /\ d1[i] = a
  <2>1. a \in 1 .. Len(st)
    BY <1>0, <1>3
  <2>2. PICK i \in 2 .. Len(p) : hp[p[i]].type = "arr" /\ d[i] = a
    BY <2>1 DEF Way
  <2>3. i <= k
    <3> SUFFICES ASSUME i > k PROVE FALSE
      BY <1>1, <1>3
    <3>1. Stop(hp, st, p, d, i)
      BY DEF Way
    <3>2. d[i] = d[i - 1] + 1
      BY <2>2, <3>1 DEF Stop
    <3>3. i - 1 \in 1 .. Len(p) /\ (k = i - 1 \/ k < i - 1)
      BY <1>1, <1>3
    <3>4. d[k] <= d[i - 1]
      <4>1. CASE k = i - 1
        BY <4>1, <1>3
      <4>2. CASE k < i - 1
        BY <4>2, <3>3, <1>6
      <4> QED
        BY <3>3, <4>1, <4>2
    <3>5. d[i - 1] \in 0 .. Len(st)
      BY <3>3, <1>1
    <3>6. a <= d[k] /\ a = d[i - 1] + 1
      BY <2>2, <3>2, <1>3
    <3> QED
      BY <3>4, <3>5, <3>6, <1>0, <1>3
  <2>4. i \in 2 .. k /\ i \in 1 .. k
    BY <2>3, <1>1, <1>3
  <2> QED
    BY <2>2, <2>4, <1>4, <1>8
<1>11. ASSUME NEW i \in 2 .. k
       PROVE  Stop(hp, st1, p1, d1, i)
  <2>1. i \in 1 .. k /\ i - 1 \in 1 .. k /\ i \in 2 .. Len(p)
    BY <1>1, <1>3
  <2>2. Stop(hp, st, p, d, i)
    BY <2>1 DEF Way
  <2>3. p1[i] = p[i] /\ p1[i - 1] = p[i - 1] /\ d1[i] = d[i] /\ d1[i - 1] = d[i - 1]
    BY <2>1, <1>4, <1>8
  <2>4. d[i] = d[i - 1] + 1 => st1[d[i]] = st[d[i]]
    <3>1. d[i] \in 0 .. d[k] /\ d[i - 1] \in 0 .. d[k]
      BY <2>1, <1>7
    <3>2. d[i] = d[i - 1] + 1 => d[i] \in 1 .. d[k]
      BY <3>1, <1>3
    <3> QED
      BY <3>2, <1>5
  <2> QED
    BY <2>2, <2>3, <2>4 DEF Stop
<1>12. /\ p1[1] = Root /\ d1[1] = 0 /\ p1[Len(p1)] = p[k] /\ d1[Len(p1)] = Len(st1)
       /\ hp[Root].type = "hash" /\ hp[Root].parent = NULL /\ Len(p1) >= 1 /\ Len(d1) = Len(p1)
  <2>1. 1 \in 1 .. k /\ k \in 1 .. k
    BY <1>3
  <2>2. p[1] = Root /\ d[1] = 0 /\ hp[Root].type = "hash" /\ hp[Root].parent = NULL
    BY DEF Way
  <2> QED
    BY <2>1, <2>2, <1>3, <1>4, <1>5, <1>8
<1>13. /\ \A i \in 1 .. Len(p1) : i <= p1[i]
       /\ \A i, j \in 1 .. Len(p1) : i < j => p1[i] < p1[j] /\ d1[i] <= d1[j]
  BY <1>1, <1>4, <1>6, <1>7, <1>8
<1>14. d1 \in Seq(0 .. Len(st1))
  BY <1>5, <1>9
<1>15. /\ \A a \in 1 .. Len(st1) : \E i \in 2 .. Len(p1) : hp[p1[i]].type = "arr" /\ d1[i] = a
       /\ \A i \in 2 .. Len(p1) : Stop(hp, st1, p1, d1, i)
  BY <1>4, <1>5, <1>10, <1>11
<1> QED
  BY <1>4, <1>12, <1>13, <1>14, <1>15 DEF Way

-----------------------------------------------------------------------------
(* A node attached.                                                        *)

(* What uj_arr__add changes.                                               *)
LEMMA ArrAddLinks ==
  ASSUME NEW hp \in Seq(Node), NEW a \in 1 .. Len(hp), NEW el \in 1 .. Len(hp),
         NEW new, new = ArrAdd(hp, a, el),
         hp[a].head # NULL => hp[a].tail \in 1 .. Len(hp) /\ hp[a].tail # a
  PROVE  /\ Len(new) = Len(hp)
         /\ \A n \in 1 .. Len(hp) :
              /\ new[n].type = hp[n].type /\ new[n].tree = hp[n].tree
              /\ n # a => /\ new[n].head = hp[n].head /\ new[n].tail = hp[n].tail
                          /\ new[n].count = hp[n].count
              /\ ~ (hp[a].head # NULL /\ n = hp[a].tail) => new[n].parent = hp[n].parent
         /\ hp[a].head # NULL => new[hp[a].tail].parent = el
         /\ new[a].count = hp[a].count + 1 /\ new[a].tail = el
         /\ new[a].head = IF hp[a].head = NULL THEN el ELSE hp[a].head
<1> DEFINE E == Seq([key : Slice, val : Nat])
<1> HIDE DEF E
<1>0. Node = [type : NodeTypes, parent : Nat, tree : E, head : Nat, tail : Nat,
              count : Nat, str : Slice, alloc : BOOLEAN]
  BY DEF Node, E
<1>1. PICK arr : arr = [hp[a] EXCEPT !.count = @ + 1, !.tail = el]
  OBVIOUS
<1>2. hp[a] \in Node
  OBVIOUS
<1>3. /\ arr.count = hp[a].count + 1 /\ arr.tail = el /\ arr.head = hp[a].head
      /\ arr.type = hp[a].type /\ arr.tree = hp[a].tree /\ arr.parent = hp[a].parent
      /\ DOMAIN arr = DOMAIN hp[a] /\ "head" \in DOMAIN arr
  BY <1>0, <1>1, <1>2
<1>4. CASE hp[a].head = NULL
  <2>1. PICK first : first = [arr EXCEPT !.head = el]
    OBVIOUS
  <2>2. /\ first.head = el /\ first.count = arr.count /\ first.tail = arr.tail
        /\ first.type = arr.type /\ first.tree = arr.tree /\ first.parent = arr.parent
    BY <1>3, <2>1
  <2>3. new = [hp EXCEPT ![a] = first]
    BY <1>1, <1>4, <2>1 DEF ArrAdd
  <2>4. Len(new) = Len(hp) /\ new[a] = first /\ \A n \in 1 .. Len(hp) : n # a => new[n] = hp[n]
    BY <2>3
  <2> QED
    BY <1>3, <1>4, <2>2, <2>4
<1>5. CASE hp[a].head # NULL
  <2>1. PICK mid : mid = [hp EXCEPT ![a] = arr]
    OBVIOUS
  <2>2. PICK b : b = hp[a].tail
    OBVIOUS
  <2>3. b \in 1 .. Len(hp) /\ b # a
    BY <1>5, <2>2
  <2>4. mid[b] = hp[b] /\ hp[b] \in Node
    BY <2>1, <2>3
  <2>5. PICK last : last = [hp[b] EXCEPT !.parent = el]
    OBVIOUS
  <2>6. /\ last.parent = el /\ last.head = hp[b].head /\ last.tail = hp[b].tail
        /\ last.count = hp[b].count /\ last.type = hp[b].type /\ last.tree = hp[b].tree
    BY <1>0, <2>4, <2>5
  <2>7. new = [mid EXCEPT ![b] = last]
    BY <1>1, <1>5, <2>1, <2>2, <2>4, <2>5 DEF ArrAdd
  <2>8. /\ Len(new) = Len(hp) /\ new[a] = arr /\ new[b] = last
        /\ \A n \in 1 .. Len(hp) : n # a /\ n # b => new[n] = hp[n]
    BY <2>1, <2>3, <2>7
  <2> QED
    BY <1>3, <1>5, <2>2, <2>3, <2>6, <2>8
<1> QED
  BY <1>4, <1>5

(* The children of the nodes with el added last to those of a.             *)
Adopt(ks, a, el) == [ks EXCEPT ![a] = Append(@, el)]

(* No node of the tree holds el yet.                                       *)
Orphan(hp, ks, el) ==
  \A n \in 1 .. Len(hp) : \A i \in 1 .. Len(ks[n]) : ks[n][i] # el

Adopted(size, ks, a, el, k1) ==
  /\ k1 \in Seq(Seq(Nat)) /\ Len(k1) = size
  /\ \A n \in 1 .. size : n # a => k1[n] = ks[n]
  /\ \A n \in 1 .. size : ks[n] \in Seq(Nat) /\ Len(ks[n]) \in Nat
  /\ Len(k1[a]) = Len(ks[a]) + 1
  /\ k1[a][Len(ks[a]) + 1] = el
  /\ \A i \in 1 .. Len(ks[a]) : k1[a][i] = ks[a][i]

LEMMA AdoptIs ==
  ASSUME NEW hp, NEW ks, Family(hp, ks), Len(hp) \in Nat, NEW a \in 1 .. Len(hp), NEW el \in Nat,
         NEW k1, k1 = Adopt(ks, a, el)
  PROVE  Adopted(Len(hp), ks, a, el, k1)
<1>1. ks \in Seq(Seq(Nat)) /\ Len(ks) = Len(hp)
  BY DEF Family
<1>2. \A n \in 1 .. Len(hp) : ks[n] \in Seq(Nat) /\ Len(ks[n]) \in Nat
  BY <1>1
<1>3. PICK s : s = Append(ks[a], el)
  OBVIOUS
<1>4. s \in Seq(Nat) /\ Len(s) = Len(ks[a]) + 1 /\ s[Len(ks[a]) + 1] = el
  BY <1>2, <1>3
<1>5. \A i \in 1 .. Len(ks[a]) : s[i] = ks[a][i]
  BY <1>2, <1>3
<1>6. k1 = [ks EXCEPT ![a] = s]
  BY <1>3 DEF Adopt
<1>7. /\ k1 \in Seq(Seq(Nat)) /\ Len(k1) = Len(hp) /\ k1[a] = s
      /\ \A n \in 1 .. Len(hp) : n # a => k1[n] = ks[n]
  BY <1>1, <1>4, <1>6
<1> QED
  BY <1>2, <1>4, <1>5, <1>7 DEF Adopted

(* A later node nobody holds can be adopted, once a's own links are right   *)
(* and the other nodes hold what they held.                                *)
LEMMA AdoptFamily ==
  ASSUME NEW hp, NEW ks, Family(hp, ks), Len(hp) \in Nat, NEW a \in 1 .. Len(hp),
         NEW el \in a + 1 .. Len(hp), Orphan(hp, ks, el),
         NEW k1, k1 = Adopt(ks, a, el),
         NEW new, Len(new) = Len(hp), Holds(new, a, k1[a]),
         \A n \in 1 .. Len(hp) : n # a => Holds(new, n, ks[n])
  PROVE  Family(new, k1)
<1>1. /\ k1 \in Seq(Seq(Nat)) /\ Len(k1) = Len(hp)
      /\ \A n \in 1 .. Len(hp) : n # a => k1[n] = ks[n]
      /\ \A n \in 1 .. Len(hp) : Len(ks[n]) \in Nat
      /\ Len(k1[a]) = Len(ks[a]) + 1
      /\ k1[a][Len(ks[a]) + 1] = el
      /\ \A i \in 1 .. Len(ks[a]) : k1[a][i] = ks[a][i]
  <2>1. el \in Nat
    OBVIOUS
  <2>2. Adopted(Len(hp), ks, a, el, k1)
    BY <2>1, AdoptIs
  <2> QED
    BY <2>2 DEF Adopted
<1>u. \A n, m \in 1 .. Len(hp) : \A i \in 1 .. Len(ks[n]), j \in 1 .. Len(ks[m]) :
        ks[n][i] = ks[m][j] => n = m /\ i = j
  BY DEF Family
<1>2. ASSUME NEW n \in 1 .. Len(hp), NEW i \in 1 .. Len(k1[n])
      PROVE  \/ i \in 1 .. Len(ks[n]) /\ k1[n][i] = ks[n][i]
             \/ n = a /\ i = Len(ks[n]) + 1 /\ k1[n][i] = el
  <2>1. CASE n # a
    BY <2>1, <1>1
  <2>2. CASE n = a
    <3>0. Len(ks[n]) \in Nat /\ Len(k1[n]) = Len(ks[n]) + 1
      BY <2>2, <1>1
    <3>1. i \in 1 .. Len(ks[n]) \/ i = Len(ks[n]) + 1
      BY <3>0
    <3> QED
      BY <2>2, <3>1, <1>1
  <2> QED
    BY <2>1, <2>2
<1>3. \A n \in 1 .. Len(new) : Holds(new, n, k1[n])
  BY <1>1
<1>4. ASSUME NEW n \in 1 .. Len(new), NEW i \in 1 .. Len(k1[n])
      PROVE  k1[n][i] \in n + 1 .. Len(new)
  <2>1. i \in 1 .. Len(ks[n]) => ks[n][i] \in n + 1 .. Len(hp)
    BY DEF Family
  <2> QED
    BY <2>1, <1>2
<1>5. ASSUME NEW n \in 1 .. Len(new), NEW m \in 1 .. Len(new),
             NEW i \in 1 .. Len(k1[n]), NEW j \in 1 .. Len(k1[m]), k1[n][i] = k1[m][j]
      PROVE  n = m /\ i = j
  <2>1. n \in 1 .. Len(hp) /\ m \in 1 .. Len(hp)
    OBVIOUS
  <2>2. CASE i \in 1 .. Len(ks[n]) /\ j \in 1 .. Len(ks[m])
    <3>1. k1[n][i] = ks[n][i] \/ (n = a /\ i = Len(ks[n]) + 1)
      BY <1>2, <2>1
    <3>2. k1[m][j] = ks[m][j] \/ (m = a /\ j = Len(ks[m]) + 1)
      BY <1>2, <2>1
    <3>3. k1[n][i] = ks[n][i] /\ k1[m][j] = ks[m][j]
      <4>1. Len(ks[n]) \in Nat /\ Len(ks[m]) \in Nat
        BY <1>1, <2>1
      <4>2. i # Len(ks[n]) + 1 /\ j # Len(ks[m]) + 1
        BY <2>2, <4>1
      <4> QED
        BY <3>1, <3>2, <4>2
    <3> QED
      <4>1. ks[n][i] = ks[m][j]
        BY <1>5, <3>3
      <4> QED
        BY <4>1, <2>1, <2>2, <1>u
  <2>3. CASE i \in 1 .. Len(ks[n]) /\ j \notin 1 .. Len(ks[m])
    <3>1. k1[m][j] = el
      BY <1>2, <2>1, <2>3
    <3>2. k1[n][i] = ks[n][i]
      <4>1. i # Len(ks[n]) + 1
        BY <1>1, <2>1, <2>3
      <4> QED
        BY <1>2, <2>1, <4>1
    <3> QED
      BY <1>5, <2>1, <2>3, <3>1, <3>2 DEF Orphan
  <2>4. CASE i \notin 1 .. Len(ks[n]) /\ j \in 1 .. Len(ks[m])
    <3>1. k1[n][i] = el
      BY <1>2, <2>1, <2>4
    <3>2. k1[m][j] = ks[m][j]
      <4>1. j # Len(ks[m]) + 1
        BY <1>1, <2>1, <2>4
      <4> QED
        BY <1>2, <2>1, <4>1
    <3> QED
      BY <1>5, <2>1, <2>4, <3>1, <3>2 DEF Orphan
  <2>5. CASE i \notin 1 .. Len(ks[n]) /\ j \notin 1 .. Len(ks[m])
    BY <1>2, <2>1, <2>5
  <2> QED
    BY <2>2, <2>3, <2>4, <2>5
<1> QED
  BY <1>1, <1>3, <1>4, <1>5 DEF Family

LEMMA AddHash ==
  ASSUME NEW hp \in Seq(Node), NEW ks, Family(hp, ks), NEW a \in 1 .. Len(hp), hp[a].type = "hash",
         NEW el \in a + 1 .. Len(hp), Orphan(hp, ks, el), NEW key \in Slice,
         NEW new, new = HashStore(hp, a, key, el)
  PROVE  Family(new, Adopt(ks, a, el)) /\ Older(hp, new, Len(hp))
<1>0. Len(hp) \in Nat /\ el \in Nat
  OBVIOUS
<1>1. /\ Len(new) = Len(hp)
      /\ \A n \in 1 .. Len(hp) :
           /\ new[n].parent = hp[n].parent /\ new[n].type = hp[n].type
           /\ new[n].head = hp[n].head /\ new[n].tail = hp[n].tail
           /\ n # a => new[n].tree = hp[n].tree
      /\ new[a].tree = Append(hp[a].tree, [key |-> key, val |-> el])
  BY <1>0, HashStoreFrame
<1>c. \A n \in 1 .. Len(hp) : new[n].count = hp[n].count
  <2>1. PICK node : node = [hp[a] EXCEPT !.tree = Append(@, [key |-> key, val |-> el])]
    OBVIOUS
  <2>2. new = [hp EXCEPT ![a] = node]
    BY <2>1 DEF HashStore
  <2>3. new[a] = node /\ \A n \in 1 .. Len(hp) : n # a => new[n] = hp[n]
    BY <2>2
  <2>4. node.count = hp[a].count
    <3>1. hp[a] \in Node
      OBVIOUS
    <3> QED
      BY <2>1, <3>1 DEF Node
  <2> QED
    BY <2>3, <2>4
<1>2. PICK k1 : k1 = Adopt(ks, a, el)
  OBVIOUS
<1>3. /\ Len(ks[a]) \in Nat /\ Len(k1[a]) = Len(ks[a]) + 1
      /\ k1[a][Len(ks[a]) + 1] = el
      /\ \A i \in 1 .. Len(ks[a]) : k1[a][i] = ks[a][i]
  <2>1. Adopted(Len(hp), ks, a, el, k1)
    BY <1>0, <1>2, AdoptIs
  <2> QED
    BY <2>1 DEF Adopted
<1>f. /\ \A n \in 1 .. Len(hp) : Holds(hp, n, ks[n])
      /\ \A n \in 1 .. Len(hp) : \A i \in 1 .. Len(ks[n]) : ks[n][i] \in n + 1 .. Len(hp)
      /\ \A n \in 1 .. Len(hp) : ks[n] \in Seq(Nat)
  BY DEF Family
<1>4. Holds(new, a, k1[a])
  <2>1. Len(ks[a]) = Len(hp[a].tree) /\ \A i \in 1 .. Len(ks[a]) : ks[a][i] = hp[a].tree[i].val
    BY <1>f DEF Holds
  <2>2. hp[a].tree \in Seq([key : Slice, val : Nat]) /\ [key |-> key, val |-> el] \in [key : Slice, val : Nat]
    <3>1. hp[a] \in Node
      OBVIOUS
    <3> QED
      BY <1>0, <3>1 DEF Node
  <2>3. /\ Len(new[a].tree) = Len(hp[a].tree) + 1
        /\ \A i \in 1 .. Len(hp[a].tree) : new[a].tree[i] = hp[a].tree[i]
        /\ new[a].tree[Len(hp[a].tree) + 1] = [key |-> key, val |-> el]
    BY <1>1, <2>2
  <2>4. \A i \in 1 .. Len(k1[a]) : k1[a][i] = new[a].tree[i].val
    <3> SUFFICES ASSUME NEW i \in 1 .. Len(k1[a]) PROVE k1[a][i] = new[a].tree[i].val
      OBVIOUS
    <3>1. i \in 1 .. Len(ks[a]) \/ i = Len(ks[a]) + 1
      BY <1>3
    <3>2. CASE i \in 1 .. Len(ks[a])
      BY <3>2, <1>3, <2>1, <2>3
    <3>3. CASE i = Len(ks[a]) + 1
      BY <3>3, <1>3, <2>1, <2>3
    <3> QED
      BY <3>1, <3>2, <3>3
  <2>5. new[a].type = "hash"
    BY <1>1
  <2> QED
    BY <1>3, <2>1, <2>3, <2>4, <2>5 DEF Holds
<1>5. ASSUME NEW n \in 1 .. Len(hp), n # a
      PROVE  Holds(new, n, ks[n])
  <2>1. Holds(hp, n, ks[n])
    BY <1>f
  <2>2. \A i \in 1 .. Len(ks[n]) : new[ks[n][i]].parent = hp[ks[n][i]].parent
    <3>1. \A i \in 1 .. Len(ks[n]) : ks[n][i] \in 1 .. Len(hp)
      <4>1. \A i \in 1 .. Len(ks[n]) : ks[n][i] \in n + 1 .. Len(hp)
        BY <1>f
      <4>2. n + 1 .. Len(hp) \subseteq 1 .. Len(hp)
        BY <1>0
      <4> QED
        BY <4>1, <4>2
    <3> QED
      BY <1>1, <3>1
  <2>3. Len(ks[n]) \in Nat
    BY <1>f
  <2>4. \A i \in 1 .. Len(ks[n]) - 1 : i \in 1 .. Len(ks[n])
    BY <2>3
  <2> QED
    BY <2>1, <2>2, <2>4, <1>1, <1>5, <1>c DEF Holds
<1>6. Family(new, k1)
  BY <1>0, <1>1, <1>2, <1>4, <1>5, AdoptFamily
<1>7. Older(hp, new, Len(hp))
  BY <1>0, <1>1 DEF Older
<1> QED
  BY <1>2, <1>6, <1>7

LEMMA AddArr ==
  ASSUME NEW hp \in Seq(Node), NEW ks, Family(hp, ks), NEW a \in 1 .. Len(hp), hp[a].type = "arr",
         NEW el \in a + 1 .. Len(hp), Orphan(hp, ks, el),
         NEW new, new = ArrAdd(hp, a, el)
  PROVE  Family(new, Adopt(ks, a, el)) /\ Older(hp, new, a) /\ new[el].parent = hp[el].parent
<1>0. Len(hp) \in Nat /\ el \in Nat /\ el \in 1 .. Len(hp) /\ a \in Nat
  OBVIOUS
<1>f. /\ \A n \in 1 .. Len(hp) : Holds(hp, n, ks[n])
      /\ \A n \in 1 .. Len(hp) : ks[n] \in Seq(Nat) /\ Len(ks[n]) \in Nat
  BY DEF Family
<1>r. ASSUME NEW n \in 1 .. Len(hp), NEW i \in 1 .. Len(ks[n])
      PROVE  ks[n][i] \in n + 1 .. Len(hp) /\ ks[n][i] \in 1 .. Len(hp)
  <2>1. ks[n][i] \in n + 1 .. Len(hp)
    BY DEF Family
  <2>2. n + 1 .. Len(hp) \subseteq 1 .. Len(hp)
    BY <1>0
  <2> QED
    BY <2>1, <2>2
<1>u. \A n, m \in 1 .. Len(hp) : \A i \in 1 .. Len(ks[n]), j \in 1 .. Len(ks[m]) :
        ks[n][i] = ks[m][j] => n = m /\ i = j
  BY DEF Family
<1>a. /\ Len(ks[a]) = hp[a].count
      /\ ks[a] = <<>> => hp[a].head = NULL
      /\ ks[a] # <<>> => hp[a].head = ks[a][1] /\ hp[a].tail = ks[a][Len(ks[a])]
      /\ \A i \in 1 .. Len(ks[a]) - 1 : hp[ks[a][i]].parent = ks[a][i + 1]
  BY <1>f DEF Holds
<1> DEFINE l == Len(ks[a])
<1>l. l \in Nat /\ (ks[a] = <<>> <=> l = 0)
  BY <1>f
<1>h. hp[a].head # NULL <=> l # 0
  <2>1. CASE l # 0
    <3>1. 1 \in 1 .. l /\ hp[a].head = ks[a][1]
      BY <2>1, <1>l, <1>a
    <3>2. ks[a][1] \in 1 .. Len(hp)
      BY <3>1, <1>r
    <3> QED
      BY <2>1, <3>1, <3>2 DEF NULL
  <2>2. CASE l = 0
    BY <2>2, <1>l, <1>a
  <2> QED
    BY <2>1, <2>2
<1>t. l # 0 => hp[a].tail = ks[a][l] /\ l \in 1 .. l /\ hp[a].tail \in a + 1 .. Len(hp) /\ hp[a].tail \in 1 .. Len(hp)
  <2> SUFFICES ASSUME l # 0
               PROVE  hp[a].tail = ks[a][l] /\ l \in 1 .. l /\ hp[a].tail \in a + 1 .. Len(hp) /\ hp[a].tail \in 1 .. Len(hp)
    OBVIOUS
  <2>1. hp[a].tail = ks[a][l] /\ l \in 1 .. l
    BY <1>l, <1>a
  <2> QED
    BY <2>1, <1>r
<1>1. /\ Len(new) = Len(hp)
      /\ \A n \in 1 .. Len(hp) :
           /\ new[n].type = hp[n].type /\ new[n].tree = hp[n].tree
           /\ n # a => /\ new[n].head = hp[n].head /\ new[n].tail = hp[n].tail
                       /\ new[n].count = hp[n].count
           /\ ~ (hp[a].head # NULL /\ n = hp[a].tail) => new[n].parent = hp[n].parent
      /\ hp[a].head # NULL => new[hp[a].tail].parent = el
      /\ new[a].count = hp[a].count + 1 /\ new[a].tail = el
      /\ new[a].head = IF hp[a].head = NULL THEN el ELSE hp[a].head
  <2>1. hp[a].head # NULL => hp[a].tail \in 1 .. Len(hp) /\ hp[a].tail # a
    BY <1>0, <1>h, <1>t
  <2> QED
    BY <1>0, <2>1, ArrAddLinks
<1>p. ASSUME NEW n \in 1 .. Len(hp), ~ (l # 0 /\ n = ks[a][l])
      PROVE  new[n].parent = hp[n].parent
  BY <1>1, <1>h, <1>t, <1>p
<1>2. PICK k1 : k1 = Adopt(ks, a, el)
  OBVIOUS
<1>3. /\ Len(k1[a]) = l + 1
      /\ k1[a][l + 1] = el
      /\ \A i \in 1 .. l : k1[a][i] = ks[a][i]
  <2>1. Adopted(Len(hp), ks, a, el, k1)
    BY <1>0, <1>2, AdoptIs
  <2> QED
    BY <2>1 DEF Adopted
<1> HIDE DEF l
<1>ll. l = Len(ks[a])
  BY DEF l
<1>4. Holds(new, a, k1[a])
  <2>1. Len(k1[a]) = new[a].count
    BY <1>1, <1>3, <1>a, <1>ll
  <2>2. k1[a] # <<>>
    BY <1>3, <1>l
  <2>3. new[a].head = k1[a][1]
    <3>1. CASE l = 0
      BY <3>1, <1>1, <1>3, <1>h
    <3>2. CASE l # 0
      <4>1. 1 \in 1 .. l
        BY <3>2, <1>l
      <4>2. hp[a].head = ks[a][1]
        BY <3>2, <1>l, <1>a
      <4> QED
        BY <3>2, <4>1, <4>2, <1>1, <1>3, <1>h
    <3> QED
      BY <3>1, <3>2
  <2>4. new[a].tail = k1[a][Len(k1[a])]
    BY <1>1, <1>3
  <2>5. ASSUME NEW i \in 1 .. Len(k1[a]) - 1
        PROVE  new[k1[a][i]].parent = k1[a][i + 1]
    <3>1. i \in 1 .. l /\ i \in Nat
      BY <1>3, <1>l
    <3>2. k1[a][i] = ks[a][i] /\ ks[a][i] \in 1 .. Len(hp)
      BY <3>1, <1>3, <1>r, <1>ll
    <3>3. CASE i = l
      <4>1. new[ks[a][l]].parent = el
        BY <3>1, <3>3, <1>1, <1>h, <1>t, <1>l, <1>ll
      <4> QED
        BY <3>2, <3>3, <4>1, <1>3
    <3>4. CASE i # l
      <4>1. i \in 1 .. l - 1 /\ i + 1 \in 1 .. l /\ l \in 1 .. l /\ l # 0
        BY <3>1, <3>4, <1>l
      <4>2. ks[a][i] # ks[a][l]
        BY <3>1, <3>4, <4>1, <1>u, <1>ll
      <4>3. new[ks[a][i]].parent = hp[ks[a][i]].parent
        BY <3>2, <4>2, <1>p, <1>ll
      <4>4. hp[ks[a][i]].parent = ks[a][i + 1]
        BY <4>1, <1>a, <1>ll
      <4> QED
        BY <3>2, <4>1, <4>3, <4>4, <1>3
    <3> QED
      BY <3>3, <3>4
  <2>6. new[a].type = "arr"
    BY <1>1
  <2> QED
    BY <2>1, <2>2, <2>3, <2>4, <2>5, <2>6 DEF Holds
<1>5. ASSUME NEW n \in 1 .. Len(hp), n # a
      PROVE  Holds(new, n, ks[n])
  <2>1. Holds(hp, n, ks[n])
    BY <1>f
  <2>2. ASSUME NEW i \in 1 .. Len(ks[n])
        PROVE  new[ks[n][i]].parent = hp[ks[n][i]].parent
    <3>1. l # 0 => ks[n][i] # ks[a][l]
      BY <1>5, <1>u, <1>t, <1>ll
    <3>2. ks[n][i] \in 1 .. Len(hp)
      BY <1>r
    <3> QED
      BY <3>1, <3>2, <1>p, <1>ll
  <2>3. \A i \in 1 .. Len(ks[n]) - 1 : i \in 1 .. Len(ks[n])
    BY <1>f
  <2> QED
    BY <2>1, <2>2, <2>3, <1>1, <1>5 DEF Holds
<1>6. Family(new, k1)
  BY <1>0, <1>1, <1>2, <1>4, <1>5, AdoptFamily
<1>7. Older(hp, new, a)
  <2>1. ASSUME NEW n \in 1 .. Len(hp), n <= a
        PROVE  new[n].parent = hp[n].parent
    <3>1. l # 0 => ks[a][l] # n
      BY <1>0, <1>t, <1>ll, <2>1
    <3> QED
      BY <3>1, <1>p, <1>ll
  <2> QED
    BY <1>0, <1>1, <2>1 DEF Older
<1>8. new[el].parent = hp[el].parent
  <2>1. l # 0 => ks[a][l] # el
    BY <1>0, <1>t, <1>ll DEF Orphan
  <2> QED
    BY <1>0, <2>1, <1>p, <1>ll
<1> QED
  BY <1>2, <1>6, <1>7, <1>8

(* A node holds what it held when neither it nor the links of those it     *)
(* holds have changed.                                                     *)
LEMMA HoldsSame ==
  ASSUME NEW hp, NEW new, NEW n, NEW q, Holds(hp, n, q), new[n] = hp[n],
         \A i \in 1 .. Len(q) - 1 : new[q[i]].parent = hp[q[i]].parent
  PROVE  Holds(new, n, q)
BY Zenon DEF Holds

(* The tree with a new node that nothing holds.                            *)
LEMMA FamilyFresh ==
  ASSUME NEW hp \in Seq(Node), NEW ks, Family(hp, ks), NEW node, NEW up, Blank(node, up), node.count = 0,
         NEW grown, grown = Append(hp, node)
  PROVE  /\ Family(grown, Append(ks, <<>>))
         /\ Orphan(grown, Append(ks, <<>>), Len(hp) + 1)
<1> DEFINE N  == Len(hp)
           k1 == Append(ks, <<>>)
<1>0. N \in Nat /\ ks \in Seq(Seq(Nat)) /\ Len(ks) = N
  BY DEF Family
<1>1. Len(grown) = N + 1 /\ grown[N + 1] = node /\ \A n \in 1 .. N : grown[n] = hp[n]
  BY DEF Blank
<1>2. /\ k1 \in Seq(Seq(Nat)) /\ Len(k1) = N + 1
      /\ k1[N + 1] = <<>> /\ \A n \in 1 .. N : k1[n] = ks[n]
  <2>1. <<>> \in Seq(Nat)
    OBVIOUS
  <2> QED
    BY <1>0, <2>1
<1> HIDE DEF N, k1
<1>3. \A n \in 1 .. N + 1 : n \in 1 .. N \/ n = N + 1
  BY <1>0
<1>f. /\ \A n \in 1 .. N : Holds(hp, n, ks[n])
      /\ \A n \in 1 .. N : Len(ks[n]) \in Nat
  BY <1>0 DEF Family, N
<1>r. ASSUME NEW n \in 1 .. N, NEW i \in 1 .. Len(ks[n])
      PROVE  ks[n][i] \in n + 1 .. N /\ ks[n][i] \in 1 .. N
  <2>1. ks[n][i] \in n + 1 .. N
    BY DEF Family, N
  <2>2. n + 1 .. N \subseteq 1 .. N
    BY <1>0
  <2> QED
    BY <2>1, <2>2
<1>4. ASSUME NEW n \in 1 .. N
      PROVE  Holds(grown, n, ks[n])
  <2>1. Holds(hp, n, ks[n])
    BY <1>f
  <2>2. \A i \in 1 .. Len(ks[n]) - 1 : i \in 1 .. Len(ks[n])
    BY <1>f
  <2>3. \A i \in 1 .. Len(ks[n]) : grown[ks[n][i]].parent = hp[ks[n][i]].parent
    BY <1>r, <1>1
  <2>4. \A i \in 1 .. Len(ks[n]) - 1 : grown[ks[n][i]].parent = hp[ks[n][i]].parent
    BY <2>2, <2>3
  <2>5. grown[n] = hp[n]
    BY <1>1
  <2> QED
    BY <2>1, <2>4, <2>5, HoldsSame
<1>5. Holds(grown, N + 1, <<>>)
  BY <1>1 DEF Holds, Blank
<1>6. \A n \in 1 .. N + 1 : Holds(grown, n, k1[n])
  BY <1>2, <1>3, <1>4, <1>5
<1>7. ASSUME NEW n \in 1 .. N + 1, NEW i \in 1 .. Len(k1[n])
      PROVE  n \in 1 .. N /\ k1[n] = ks[n] /\ k1[n][i] \in n + 1 .. N
  <2>1. n # N + 1
    <3>1. Len(<<>>) = 0
      OBVIOUS
    <3> QED
      BY <1>2, <3>1
  <2> QED
    BY <2>1, <1>2, <1>3, <1>r
<1>8. ASSUME NEW n \in 1 .. N + 1, NEW i \in 1 .. Len(k1[n])
      PROVE  k1[n][i] \in n + 1 .. N + 1
  <2>1. k1[n][i] \in n + 1 .. N /\ n \in Nat
    BY <1>7
  <2> QED
    BY <1>0, <2>1
<1>9. \A n, m \in 1 .. N + 1 : \A i \in 1 .. Len(k1[n]), j \in 1 .. Len(k1[m]) :
        k1[n][i] = k1[m][j] => n = m /\ i = j
  <2>0. SUFFICES ASSUME NEW n \in 1 .. N + 1, NEW m \in 1 .. N + 1,
                        NEW i \in 1 .. Len(k1[n]), NEW j \in 1 .. Len(k1[m]), k1[n][i] = k1[m][j]
                 PROVE  n = m /\ i = j
    OBVIOUS
  <2>1. \A n1, m1 \in 1 .. N : \A i1 \in 1 .. Len(ks[n1]), j1 \in 1 .. Len(ks[m1]) :
          ks[n1][i1] = ks[m1][j1] => n1 = m1 /\ i1 = j1
    BY DEF Family, N
  <2>2. n \in 1 .. N /\ k1[n] = ks[n] /\ m \in 1 .. N /\ k1[m] = ks[m]
    BY <1>7
  <2> QED
    BY <2>0, <2>1, <2>2
<1>10. Family(grown, k1)
  BY <1>1, <1>2, <1>6, <1>8, <1>9 DEF Family
<1>11. Orphan(grown, k1, N + 1)
  <2> SUFFICES ASSUME NEW n \in 1 .. N + 1, NEW i \in 1 .. Len(k1[n])
               PROVE  k1[n][i] # N + 1
    BY <1>1 DEF Orphan
  <2>1. k1[n][i] \in n + 1 .. N
    BY <1>7
  <2> QED
    BY <1>0, <2>1
<1> QED
  BY <1>10, <1>11 DEF k1, N

Replaced(a, e, i, v, S) ==
  /\ a \in Seq(S) /\ Len(a) = Len(e)
  /\ \A n \in 1 .. Len(e) : a[n] = IF n = i THEN v ELSE e[n]

Extended(e, q, w, S) ==
  /\ e \in Seq(S) /\ Len(e) = Len(q) + 1 /\ e[Len(q) + 1] = w
  /\ \A n \in 1 .. Len(q) : e[n] = q[n]

LEMMA ExceptIs ==
  ASSUME NEW S, NEW e \in Seq(S), NEW i \in 1 .. Len(e), NEW v \in S
  PROVE  Replaced([e EXCEPT ![i] = v], e, i, v, S)
BY DEF Replaced

LEMMA AppendIs ==
  ASSUME NEW S, NEW q \in Seq(S), NEW w \in S
  PROVE  Extended(Append(q, w), q, w, S)
BY DEF Extended

LEMMA SameSeq ==
  ASSUME NEW S, NEW a \in Seq(S), NEW b \in Seq(S), Len(a) = Len(b),
         \A n \in 1 .. Len(a) : a[n] = b[n]
  PROVE  a = b
<1>1. a = [n \in 1 .. Len(a) |-> a[n]] /\ b = [n \in 1 .. Len(b) |-> b[n]]
  OBVIOUS
<1> QED
  BY <1>1

Commute(e, q, i, v, w) == [e EXCEPT ![i] = v] = Append([q EXCEPT ![i] = v], w)

LEMMA AppendExcept ==
  ASSUME NEW S, NEW q \in Seq(S), NEW i \in 1 .. Len(q), NEW v \in S, NEW w \in S,
         NEW e, e = Append(q, w)
  PROVE  Commute(e, q, i, v, w)
<1>2. PICK r : r = [q EXCEPT ![i] = v]
  OBVIOUS
<1>3. PICK a : a = [e EXCEPT ![i] = v]
  OBVIOUS
<1>4. PICK b : b = Append(r, w)
  OBVIOUS
<1>5. Extended(e, q, w, S)
  BY AppendIs, Zenon
<1>6. Replaced(r, q, i, v, S)
  BY <1>2, ExceptIs, Zenon
<1>n. PICK m : m = Len(q) /\ m \in Nat
  OBVIOUS
<1>7. i \in 1 .. Len(e) /\ e \in Seq(S)
  BY <1>5 DEF Extended
<1>8. Replaced(a, e, i, v, S)
  BY <1>3, <1>7, ExceptIs, Zenon
<1>r. r \in Seq(S)
  BY <1>6 DEF Replaced
<1>9. Extended(b, r, w, S)
  BY <1>4, <1>r, AppendIs, Zenon
<1>10. /\ Len(e) = m + 1 /\ Len(r) = m /\ Len(a) = m + 1 /\ Len(b) = m + 1
       /\ e[m + 1] = w /\ b[m + 1] = w /\ i \in 1 .. m
       /\ \A n \in 1 .. m : e[n] = q[n] /\ b[n] = r[n] /\ r[n] = IF n = i THEN v ELSE q[n]
       /\ \A n \in 1 .. m + 1 : a[n] = IF n = i THEN v ELSE e[n]
  <2>1. Len(e) = m + 1 /\ e[m + 1] = w /\ \A n \in 1 .. m : e[n] = q[n]
    BY <1>5, <1>n, Zenon DEF Extended
  <2>2. Len(r) = m /\ \A n \in 1 .. m : r[n] = IF n = i THEN v ELSE q[n]
    BY <1>6, <1>n, Zenon DEF Replaced
  <2>3. Len(a) = m + 1 /\ \A n \in 1 .. m + 1 : a[n] = IF n = i THEN v ELSE e[n]
    BY <1>8, <2>1, Zenon DEF Replaced
  <2>4. Len(b) = m + 1 /\ b[m + 1] = w /\ \A n \in 1 .. m : b[n] = r[n]
    BY <1>9, <2>2, Zenon DEF Extended
  <2>5. i \in 1 .. m
    BY <1>n
  <2> QED
    BY <2>1, <2>2, <2>3, <2>4, <2>5
<1>11. \A n \in 1 .. m + 1 : a[n] = b[n]
  <2> SUFFICES ASSUME NEW n \in 1 .. m + 1 PROVE a[n] = b[n]
    OBVIOUS
  <2>1. n \in 1 .. m \/ (n = m + 1 /\ n # i)
    <3>1. m \in Nat /\ i \in 1 .. m
      BY <1>n, <1>10
    <3> QED
      BY <3>1
  <2>2. CASE n \in 1 .. m
    BY <2>2, <1>10
  <2>3. CASE n = m + 1 /\ n # i
    BY <2>3, <1>10
  <2> QED
    BY <2>1, <2>2, <2>3
<1>12. a \in Seq(S) /\ b \in Seq(S)
  BY <1>8, <1>9, Zenon DEF Replaced, Extended
<1>13. a = b
  BY <1>10, <1>11, <1>12, SameSeq, Zenon
<1> QED
  BY <1>3, <1>2, <1>4, <1>13 DEF Commute

Grown(new, ks, node, up, el) ==
  /\ Family(new, Append(Adopt(ks, cur, el), <<>>)) /\ Older(heap, new, cur)
  /\ Len(new) = el /\ new[el].type = node.type /\ new[el].parent = up

LEMMA AttachedIs ==
  ASSUME TypeOK, NEW ks, Family(heap, ks), heap[cur].type \in {"hash", "arr"},
         NEW node, NEW up, Blank(node, up), node.count = 0,
         NEW new, new = Attached(node), NEW el, el = Len(heap) + 1
  PROVE  Grown(new, ks, node, up, el)
<1>0. /\ heap \in Seq(Node) /\ Len(heap) \in Nat /\ cur \in 1 .. Len(heap)
      /\ node \in Node /\ node.parent = up
  BY DEF TypeOK, Blank
<1>1. PICK grown : grown = Append(heap, node)
  OBVIOUS
<1>2. PICK k1 : k1 = Append(ks, <<>>)
  OBVIOUS
<1>3. Family(grown, k1) /\ Orphan(grown, k1, el)
  BY <1>0, <1>1, <1>2, FamilyFresh
<1>4. /\ grown \in Seq(Node) /\ Len(grown) = Len(heap) + 1 /\ grown[el] = node
      /\ \A n \in 1 .. Len(heap) : grown[n] = heap[n]
  BY <1>0, <1>1
<1>5. cur \in 1 .. Len(grown) /\ el \in cur + 1 .. Len(grown) /\ el \in 1 .. Len(grown) /\ grown[cur].type = heap[cur].type
  BY <1>0, <1>4
<1>6. /\ Family(new, Adopt(k1, cur, el)) /\ Older(grown, new, cur)
      /\ new[el].parent = grown[el].parent
  <2>1. CASE heap[cur].type = "hash"
    <3>1. PICK key : key = [start |-> keyStart, len |-> keyLen]
      OBVIOUS
    <3>2. key \in Slice
      BY <3>1 DEF TypeOK, Slice
    <3>3. new = HashStore(grown, cur, key, el)
      BY <2>1, <3>1, <1>1 DEF Attached
    <3>4. Family(new, Adopt(k1, cur, el)) /\ Older(grown, new, Len(grown))
      BY <2>1, <3>2, <3>3, <1>3, <1>4, <1>5, AddHash
    <3>5. Older(grown, new, cur) /\ new[el].parent = grown[el].parent
      BY <3>4, <1>0, <1>4, <1>5 DEF Older
    <3> QED
      BY <3>4, <3>5
  <2>2. CASE heap[cur].type = "arr"
    <3>1. new = ArrAdd(grown, cur, el)
      BY <2>2, <1>1 DEF Attached
    <3> QED
      BY <2>2, <3>1, <1>3, <1>4, <1>5, AddArr
  <2> QED
    BY <2>1, <2>2
<1>7. Adopt(k1, cur, el) = Append(Adopt(ks, cur, el), <<>>) /\ Len(Adopt(k1, cur, el)) = Len(heap) + 1
  <2>1. ks \in Seq(Seq(Nat)) /\ Len(ks) = Len(heap)
    BY DEF Family
  <2>2. k1 \in Seq(Seq(Nat)) /\ Len(k1) = Len(heap) + 1 /\ k1[Len(heap) + 1] = <<>> /\ \A n \in 1 .. Len(heap) : k1[n] = ks[n]
    <3>1. <<>> \in Seq(Nat)
      OBVIOUS
    <3> QED
      BY <2>1, <3>1, <1>2
  <2>3. PICK s : s = Append(ks[cur], el)
    OBVIOUS
  <2>4. s \in Seq(Nat)
    <3>1. ks[cur] \in Seq(Nat) /\ el \in Nat
      BY <1>0, <2>1
    <3> QED
      BY <2>3, <3>1
  <2>5. Adopt(ks, cur, el) = [ks EXCEPT ![cur] = s] /\ Adopt(k1, cur, el) = [k1 EXCEPT ![cur] = s]
    BY <1>0, <2>2, <2>3 DEF Adopt
  <2>6. [k1 EXCEPT ![cur] = s] = Append([ks EXCEPT ![cur] = s], <<>>)
    <3>1. <<>> \in Seq(Nat) /\ cur \in 1 .. Len(ks)
      BY <1>0, <2>1
    <3>2. PICK S, w : S = Seq(Nat) /\ w = <<>>
      OBVIOUS
    <3>4. ks \in Seq(S) /\ s \in S /\ w \in S /\ k1 = Append(ks, w)
      BY <2>1, <2>4, <3>1, <1>2, <3>2
    <3>5. Commute(k1, ks, cur, s, w)
      BY <3>1, <3>4, AppendExcept, Zenon
    <3> QED
      BY <3>2, <3>5 DEF Commute
  <2>7. Len([k1 EXCEPT ![cur] = s]) = Len(heap) + 1
    BY <2>2
  <2> QED
    BY <2>5, <2>6, <2>7
<1>8. Len(new) = el
  BY <1>6, <1>7 DEF Family
<1>9. new[el].type = node.type
  BY <1>4, <1>5, <1>6 DEF Older
<1>10. Older(heap, new, cur)
  BY <1>0, <1>4, <1>6, <1>8 DEF Older
<1> QED
  BY <1>0, <1>4, <1>6, <1>7, <1>8, <1>9, <1>10 DEF Grown

LEMMA WayEnd ==
  ASSUME NEW hp, NEW st, NEW c, NEW p, NEW d, Way(hp, st, c, p, d), Len(hp) \in Nat, Len(st) \in Nat
  PROVE  /\ hp[c].type \in {"hash", "arr"}
         /\ hp[c].type = "arr" => hp[c].parent = NULL
         /\ hp[c].parent # NULL => /\ Len(p) - 1 \in 1 .. Len(p)
                                   /\ hp[c].parent = p[Len(p) - 1] /\ d[Len(p) - 1] = Len(st)
<1>1. /\ Len(p) \in Nat /\ Len(p) >= 1 /\ p[Len(p)] = c /\ d[Len(p)] = Len(st)
      /\ \A i \in 1 .. Len(p) : p[i] \in 1 .. Len(hp)
  BY WaySizes
<1>2. CASE Len(p) = 1
  BY <1>1, <1>2 DEF Way
<1>3. CASE Len(p) # 1
  <2>0. Len(p) \in Nat /\ Len(p) >= 1
    BY <1>1
  <2>a. PICK m : m = Len(p)
    OBVIOUS
  <2>b. m \in 2 .. m /\ m - 1 \in 1 .. m
    BY <2>0, <2>a, <1>3
  <2>1. Len(p) \in 2 .. Len(p) /\ Len(p) - 1 \in 1 .. Len(p)
    BY <2>a, <2>b
  <2>2. Stop(hp, st, p, d, Len(p))
    BY <2>1 DEF Way
  <2> QED
    BY <2>1, <2>2, <1>1 DEF Stop
<1> QED
  BY <1>2, <1>3

(* The last array of the path: the hashes behind it are still open.        *)
Opener(hp, st, p, d, i) ==
  /\ hp[p[i]].type = "arr" /\ \A j \in i + 1 .. Len(p) : hp[p[j]].type = "hash"
  /\ i - 1 \in 1 .. Len(p) /\ st[Len(st)] = p[i - 1] /\ d[i - 1] = Len(st) - 1

LEMMA LastArr ==
  ASSUME NEW hp, NEW st, NEW c, NEW p, NEW d, Way(hp, st, c, p, d), Len(hp) \in Nat,
         Len(st) \in Nat, Len(st) # 0
  PROVE  \E i \in 2 .. Len(p) : Opener(hp, st, p, d, i)
<1>1. /\ Len(p) \in Nat /\ Len(p) >= 1 /\ d[Len(p)] = Len(st)
      /\ \A i \in 1 .. Len(p) : d[i] \in 0 .. Len(st)
  BY WaySizes
<1>2. PICK i \in 2 .. Len(p) : hp[p[i]].type = "arr" /\ d[i] = Len(st)
  <2>1. Len(st) \in 1 .. Len(st)
    OBVIOUS
  <2> QED
    BY <2>1 DEF Way
<1>3. i \in 1 .. Len(p) /\ i - 1 \in 1 .. Len(p)
  BY <1>1
<1>4. d[i] = d[i - 1] + 1 /\ st[d[i]] = p[i - 1]
  BY <1>2 DEF Way, Stop
<1>5. d[i - 1] = Len(st) - 1
  <2>1. d[i - 1] \in 0 .. Len(st)
    BY <1>1, <1>3
  <2> QED
    BY <2>1, <1>2, <1>4
<1>6. ASSUME NEW j \in i + 1 .. Len(p)
      PROVE  hp[p[j]].type = "hash"
  <2>1. j \in 2 .. Len(p) /\ j \in 1 .. Len(p) /\ j - 1 \in 1 .. Len(p) /\ (i = j - 1 \/ i < j - 1)
    BY <1>1, <1>3
  <2>2. Stop(hp, st, p, d, j)
    BY <2>1 DEF Way
  <2>3. d[i] <= d[j - 1]
    <3>1. CASE i = j - 1
      BY <3>1, <1>2
    <3>2. CASE i < j - 1
      BY <3>2, <2>1, <1>3 DEF Way
    <3> QED
      BY <2>1, <3>1, <3>2
  <2>4. d[j] \in 0 .. Len(st) /\ d[j - 1] \in 0 .. Len(st)
    BY <2>1, <1>1
  <2>5. d[j] # d[j - 1] + 1
    BY <2>3, <2>4, <1>2
  <2> QED
    BY <2>2, <2>5 DEF Stop
<1> QED
  BY <1>2, <1>3, <1>4, <1>5, <1>6 DEF Opener

-----------------------------------------------------------------------------
(* What a state shows of the document.                                     *)
Shows(p, d, ks) == Family(heap, ks) /\ Way(heap, stack, cur, p, d)

Built == \E p, d, ks : Shows(p, d, ks)

LEMMA TypeInside ==
  ASSUME TypeOK
  PROVE  /\ Inside(heap, stack) /\ Len(heap) \in Nat /\ Len(stack) \in Nat
         /\ heap \in Seq(Node) /\ stack \in Seq(1 .. Len(heap)) /\ cur \in 1 .. Len(heap)
<1>1. Len(heap) \in Nat /\ stack \in Seq(1 .. Len(heap)) /\ heap \in Seq(Node) /\ cur \in 1 .. Len(heap)
  BY DEF TypeOK
<1>2. \A n \in 1 .. Len(heap) : heap[n].parent \in 0 .. Len(heap)
  BY DEF TypeOK, Linked
<1> QED
  BY <1>1, <1>2 DEF Inside

LEMMA PathDef == OpenPath = PathOf(heap, stack, cur)
BY DEF OpenPath, PathOf, WalkBody, Places, UpFrom, DepthUp

LEMMA KidsDef == [n \in 1 .. Len(heap) |-> Kids(n)] = [n \in 1 .. Len(heap) |-> KidsOf(heap, n)]
BY DEF Kids, KidsOf

LEMMA ShowsIs ==
  \A p, d, ks : TypeOK /\ Shows(p, d, ks) => OpenPath = p /\ [n \in 1 .. Len(heap) |-> Kids(n)] = ks
<1> SUFFICES ASSUME NEW p, NEW d, NEW ks, TypeOK, Shows(p, d, ks)
             PROVE  OpenPath = p /\ [n \in 1 .. Len(heap) |-> Kids(n)] = ks
  OBVIOUS
<1>1. Inside(heap, stack) /\ Family(heap, ks) /\ Way(heap, stack, cur, p, d)
  BY TypeInside DEF Shows
<1>2. PathOf(heap, stack, cur) = p
  BY <1>1, WalkIs
<1>3. [n \in 1 .. Len(heap) |-> KidsOf(heap, n)] = ks
  BY <1>1, FamilyKids
<1> QED
  BY <1>2, <1>3, PathDef, KidsDef

LEMMA ShowsNext ==
  (\A p, d, ks : TypeOK /\ Shows(p, d, ks) =>
     OpenPath = p /\ [n \in 1 .. Len(heap) |-> Kids(n)] = ks)'
BY ShowsIs, PTL

Types(hp) == [n \in 1 .. Len(hp) |-> hp[n].type]

KidsNext(k1) == [n \in 1 .. Len(heap') |-> Kids(n)'] = k1

LEMMA TypesSeq ==
  ASSUME NEW hp, Len(hp) \in Nat
  PROVE  Len(Types(hp)) = Len(hp)
BY DEF Types

LEMMA TypesGrow ==
  ASSUME NEW hp, NEW new, NEW c, Older(hp, new, c), Len(new) = Len(hp) + 1
  PROVE  Types(new) = Append(Types(hp), new[Len(new)].type)
<1>1. PICK q : q = [n \in 1 .. Len(hp) |-> hp[n].type]
  OBVIOUS
<1>2. PICK r : r = [n \in 1 .. Len(new) |-> new[n].type]
  OBVIOUS
<1>3. PICK t : t = new[Len(new)].type
  OBVIOUS
<1>4. PICK S : S = {q[n] : n \in 1 .. Len(hp)} \cup {t}
  OBVIOUS
<1>5. /\ Len(hp) \in Nat /\ Len(new) \in Nat /\ Len(new) = Len(hp) + 1
      /\ \A n \in 1 .. Len(hp) : new[n].type = hp[n].type
  BY DEF Older
<1>6. q \in Seq(S) /\ Len(q) = Len(hp) /\ t \in S
  BY <1>1, <1>4, <1>5
<1>7. \A n \in 1 .. Len(new) : n \in 1 .. Len(hp) \/ n = Len(new)
  BY <1>5
<1>8. \A n \in 1 .. Len(new) : r[n] = IF n \in 1 .. Len(hp) THEN q[n] ELSE t
  BY <1>1, <1>2, <1>3, <1>5, <1>7
<1>9. r \in Seq(S) /\ Len(r) = Len(new)
  <2>1. \A n \in 1 .. Len(new) : r[n] \in S
    BY <1>4, <1>8
  <2> QED
    BY <2>1, <1>2, <1>5
<1>10. PICK e : e = Append(q, t)
  OBVIOUS
<1>11. Extended(e, q, t, S)
  BY <1>6, <1>10, AppendIs, Zenon
<1>12. e \in Seq(S) /\ Len(e) = Len(r) /\ \A n \in 1 .. Len(r) : r[n] = e[n]
  <2>1. e \in Seq(S) /\ Len(e) = Len(new) /\ e[Len(new)] = t /\ \A n \in 1 .. Len(hp) : e[n] = q[n]
    BY <1>5, <1>6, <1>11 DEF Extended
  <2>2. \A n \in 1 .. Len(new) : r[n] = e[n]
    <3> SUFFICES ASSUME NEW n \in 1 .. Len(new) PROVE r[n] = e[n]
      OBVIOUS
    <3>1. CASE n \in 1 .. Len(hp)
      BY <3>1, <2>1, <1>8
    <3>2. CASE n \notin 1 .. Len(hp)
      BY <3>2, <2>1, <1>7, <1>8
    <3> QED
      BY <3>1, <3>2
  <2> QED
    BY <2>1, <2>2, <1>9
<1>13. r = e
  BY <1>9, <1>12, SameSeq, Zenon
<1> QED
  BY <1>1, <1>2, <1>3, <1>10, <1>13 DEF Types

Attaches(p, d, node, up, el, k1) ==
  /\ Family(heap', k1) /\ Way(heap', stack, cur, p, d)
  /\ Len(heap') = el /\ heap'[el].type = node.type /\ heap'[el].parent = up
  /\ Types(heap') = Append(Types(heap), node.type)

(* A value attached: the path is as it was and the value is the last child  *)
(* of its end.                                                             *)
LEMMA AttachBuilds ==
  ASSUME TypeOK, NEW p, NEW d, NEW ks, Shows(p, d, ks),
         NEW node, NEW up, Blank(node, up), node.count = 0, heap' = Attached(node),
         NEW el, el = Len(heap) + 1, NEW k1, k1 = Append(Adopt(ks, cur, el), <<>>)
  PROVE  Attaches(p, d, node, up, el, k1)
<1>1. Family(heap, ks) /\ Way(heap, stack, cur, p, d)
  BY DEF Shows
<1>2. Len(heap) \in Nat /\ Len(stack) \in Nat
  BY TypeInside
<1>3. heap[cur].type \in {"hash", "arr"}
  BY <1>1, <1>2, WayEnd, Zenon
<1>4. PICK new : new = Attached(node) /\ heap' = new
  OBVIOUS
<1>a. Grown(new, ks, node, up, el)
  BY <1>1, <1>3, <1>4, AttachedIs, Zenon
<1>5. /\ Family(new, k1) /\ Older(heap, new, cur)
      /\ Len(new) = el /\ new[el].type = node.type /\ new[el].parent = up
  BY <1>a, Zenon DEF Grown
<1>6. Way(new, stack, cur, p, d)
  BY <1>1, <1>2, <1>5, WaySame, Zenon
<1>7. Types(new) = Append(Types(heap), new[Len(new)].type)
  <2>1. Len(new) = Len(heap) + 1
    BY <1>5
  <2> QED
    BY <1>5, <2>1, TypesGrow, Zenon
<1> QED
  BY <1>4, <1>5, <1>6, <1>7, Zenon DEF Attaches

LEMMA DocAttach ==
  ASSUME TypeOK, NEW p, NEW d, NEW ks, Shows(p, d, ks), NEW t,
         NEW el, el = Len(heap) + 1, NEW k1, k1 = Append(Adopt(ks, cur, el), <<>>),
         Types(heap') = Append(Types(heap), t), KidsNext(k1)
  PROVE  Document!Attach(t)
<1>1. OpenPath = p /\ [n \in 1 .. Len(heap) |-> Kids(n)] = ks
  BY ShowsIs
<1>2. Len(Types(heap)) + 1 = el
  BY TypeInside, TypesSeq
<1>3. p[Len(p)] = cur
  BY DEF Shows, Way
<1>4. k1 = Append([ks EXCEPT ![cur] = Append(@, el)], <<>>)
  BY DEF Adopt
<1>5. Document!NextId = el
  BY <1>2 DEF Document!NextId, Types
<1>6. Document!Innermost = cur
  BY <1>1, <1>3 DEF Document!Innermost
<1> QED
  BY <1>1, <1>4, <1>5, <1>6, Zenon DEF Document!Attach, Types, KidsNext

LEMMA BuildScalar ==
  ASSUME TypeOK, TypeOK', Built, NEW node, Blank(node, NULL), node.count = 0,
         node.type \in Document!Leaves, heap' = Attached(node), UNCHANGED <<cur, stack>>
  PROVE  Built' /\ Document!Next
<1>1. PICK p, d, ks : Shows(p, d, ks)
  BY DEF Built
<1>2. PICK el, k1 : el = Len(heap) + 1 /\ k1 = Append(Adopt(ks, cur, el), <<>>)
  OBVIOUS
<1>a. Attaches(p, d, node, NULL, el, k1)
  BY <1>1, <1>2, AttachBuilds, Zenon
<1>3. /\ Family(heap', k1) /\ Way(heap', stack, cur, p, d)
      /\ Types(heap') = Append(Types(heap), node.type)
  BY <1>a DEF Attaches
<1>4. Shows(p, d, k1)'
  BY <1>3 DEF Shows
<1>5. OpenPath' = p /\ KidsNext(k1)
  BY <1>4, ShowsNext DEF KidsNext
<1>6. OpenPath = p
  BY <1>1, ShowsIs
<1>7. Document!Attach(node.type)
  BY <1>1, <1>2, <1>3, <1>5, DocAttach, Zenon
<1>8. Document!AddLeaf
  BY <1>5, <1>6, <1>7 DEF Document!AddLeaf
<1> QED
  BY <1>4, <1>8 DEF Built, Document!Next

(* A container attached and entered: the path grows by it.                 *)
LEMMA BuildOpen ==
  ASSUME TypeOK, TypeOK', Built, NEW node, NEW up, Blank(node, up), node.count = 0,
         heap' = Attached(node), cur' = Len(heap) + 1,
         \/ node.type = "hash" /\ up = cur /\ stack' = stack
         \/ node.type = "arr" /\ up = NULL /\ stack' = Append(stack, cur)
  PROVE  Built' /\ Document!Next
<1>1. PICK p, d, ks : Shows(p, d, ks)
  BY DEF Built
<1>2. PICK el, k1 : el = Len(heap) + 1 /\ k1 = Append(Adopt(ks, cur, el), <<>>)
  OBVIOUS
<1>a. Attaches(p, d, node, up, el, k1)
  BY <1>1, <1>2, AttachBuilds, Zenon
<1>3. /\ Family(heap', k1) /\ Way(heap', stack, cur, p, d)
      /\ Len(heap') = el /\ heap'[el].type = node.type /\ heap'[el].parent = up
      /\ Types(heap') = Append(Types(heap), node.type)
  BY <1>a DEF Attaches
<1>4. PICK st1, p1, d1 : st1 = stack' /\ p1 = Append(p, el) /\ d1 = Append(d, Len(st1))
  OBVIOUS
<1>5. /\ Len(heap) \in Nat /\ Len(stack) \in Nat /\ stack \in Seq(1 .. Len(heap))
      /\ cur \in 1 .. Len(heap) /\ Len(heap') \in Nat /\ el \in cur + 1 .. Len(heap')
  <2>1. Len(heap) \in Nat /\ Len(stack) \in Nat /\ stack \in Seq(1 .. Len(heap)) /\ cur \in 1 .. Len(heap)
    BY TypeInside
  <2> QED
    BY <2>1, <1>2, <1>3
<1>6. /\ Len(p) \in Nat /\ Len(p) >= 1 /\ p[Len(p)] = cur /\ d[Len(p)] = Len(stack)
      /\ p \in Seq(1 .. Len(heap')) /\ d \in Seq(0 .. Len(stack)) /\ Len(d) = Len(p)
  BY <1>3, <1>5 DEF Way
<1>7. /\ p1[Len(p) + 1] = el /\ p1[Len(p)] = cur
      /\ d1[Len(p) + 1] = Len(st1) /\ d1[Len(p)] = Len(stack)
  <2>1. el \in 1 .. Len(heap')
    BY <1>5
  <2>2. p1[Len(p) + 1] = el /\ p1[Len(p)] = p[Len(p)]
    BY <1>4, <1>6, <2>1
  <2>3. d1[Len(p) + 1] = Len(st1) /\ d1[Len(p)] = d[Len(p)]
    BY <1>4, <1>6
  <2> QED
    BY <2>2, <2>3, <1>6
<1>8. /\ Len(st1) \in {Len(stack), Len(stack) + 1} /\ \A k \in 1 .. Len(stack) : st1[k] = stack[k]
      /\ Len(st1) > Len(stack) => heap'[el].type = "arr"
      /\ heap'[el].type = "arr" => Len(st1) = Len(stack) + 1 /\ st1[Len(st1)] = cur /\ up = NULL
      /\ heap'[el].type = "hash" => Len(st1) = Len(stack) /\ up = cur
      /\ heap'[el].type \in {"arr", "hash"}
  <2>1. CASE node.type = "hash" /\ up = cur /\ stack' = stack
    BY <2>1, <1>3, <1>4, <1>5
  <2>2. CASE node.type = "arr" /\ up = NULL /\ stack' = Append(stack, cur)
    <3>1. /\ Len(st1) = Len(stack) + 1 /\ st1[Len(stack) + 1] = cur
          /\ \A k \in 1 .. Len(stack) : st1[k] = stack[k]
      BY <2>2, <1>4, <1>5
    <3> QED
      BY <3>1, <2>2, <1>3
  <2> QED
    BY <2>1, <2>2
<1>9. Stop(heap', st1, p1, d1, Len(p) + 1)
  <2>1. (Len(p) + 1) - 1 = Len(p)
    BY <1>6
  <2> QED
    BY <2>1, <1>3, <1>7, <1>8 DEF Stop
<1>10. Way(heap', st1, el, p1, d1)
  BY <1>3, <1>4, <1>5, <1>8, <1>9, WayOn
<1>11. Shows(p1, d1, k1)'
  BY <1>2, <1>3, <1>4, <1>10 DEF Shows
<1>12. OpenPath' = p1 /\ KidsNext(k1)
  BY <1>11, ShowsNext DEF KidsNext
<1>13. OpenPath = p
  BY <1>1, ShowsIs
<1>14. Document!Attach(node.type)
  BY <1>1, <1>2, <1>3, <1>12, DocAttach, Zenon
<1>15. Document!NextId = el
  <2>1. Len(Types(heap)) + 1 = el
    BY <1>2, <1>5, TypesSeq
  <2> QED
    BY <2>1 DEF Document!NextId, Types
<1>16. node.type \in Document!Containers
  BY DEF Document!Containers
<1>17. Document!Open
  <2>1. OpenPath' = Append(OpenPath, Document!NextId)
    BY <1>4, <1>12, <1>13, <1>15, Zenon
  <2> QED
    BY <2>1, <1>14, <1>16, Zenon DEF Document!Open
<1> QED
  BY <1>11, <1>17 DEF Built, Document!Next

(* A container left: the path is cut, nothing else changes.                 *)
LEMMA BuildBack ==
  ASSUME TypeOK, TypeOK', NEW p, NEW d, NEW ks, Shows(p, d, ks), UNCHANGED heap,
         NEW k \in 1 .. Len(p), cur' = p[k], stack' = SubSeq(stack, 1, d[k])
  PROVE  /\ Built' /\ OpenPath = p /\ OpenPath' = SubSeq(p, 1, k)
         /\ [n \in 1 .. Len(heap') |-> Kids(n)'] = [n \in 1 .. Len(heap) |-> Kids(n)]
<1>1. PICK st1, p1, d1 : st1 = stack' /\ p1 = SubSeq(p, 1, k) /\ d1 = SubSeq(d, 1, k)
  OBVIOUS
<1>2. Way(heap, st1, p[k], p1, d1)
  <2>1. Way(heap, stack, cur, p, d) /\ Len(heap) \in Nat /\ stack \in Seq(1 .. Len(heap))
    BY TypeInside DEF Shows
  <2>2. st1 = SubSeq(stack, 1, d[k])
    BY <1>1
  <2> QED
    BY <2>1, <2>2, <1>1, WayBack, Zenon
<1>3. Shows(p1, d1, ks)'
  BY <1>1, <1>2 DEF Shows
<1>4. OpenPath = p /\ [n \in 1 .. Len(heap) |-> Kids(n)] = ks
  BY ShowsIs
<1>5. OpenPath' = p1 /\ [n \in 1 .. Len(heap') |-> Kids(n)'] = ks
  BY <1>3, ShowsNext
<1> QED
  BY <1>1, <1>3, <1>4, <1>5 DEF Built

(* A closing brace on a hash that is not the root.                         *)
LEMMA BuildCloseHash ==
  ASSUME TypeOK, TypeOK', Built, UNCHANGED <<heap, stack>>,
         heap[cur].parent # NULL, cur' = heap[cur].parent
  PROVE  Built' /\ Document!Next
<1>1. PICK p, d, ks : Shows(p, d, ks)
  BY DEF Built
<1>2. Way(heap, stack, cur, p, d) /\ Len(heap) \in Nat /\ Len(stack) \in Nat
  BY <1>1, TypeInside DEF Shows
<1>3. PICK k : k = Len(p) - 1
  OBVIOUS
<1>4. /\ heap[cur].type = "hash"
      /\ k \in 1 .. Len(p) /\ heap[cur].parent = p[k] /\ d[k] = Len(stack)
  BY <1>2, <1>3, WayEnd
<1>5. stack' = SubSeq(stack, 1, d[k])
  <2>1. SubSeq(stack, 1, Len(stack)) = stack
    BY TypeInside
  <2> QED
    BY <2>1, <1>4
<1>6. /\ Built' /\ OpenPath = p /\ OpenPath' = SubSeq(p, 1, k)
      /\ [n \in 1 .. Len(heap') |-> Kids(n)'] = [n \in 1 .. Len(heap) |-> Kids(n)]
  BY <1>1, <1>4, <1>5, BuildBack
<1>7. p[Len(p)] = cur /\ Len(p) \in Nat /\ Len(p) > 1
  <2>1. p[Len(p)] = cur /\ Len(p) \in Nat
    BY <1>2, WaySizes
  <2> QED
    BY <2>1, <1>3, <1>4
<1>8. Document!Innermost = cur
  BY <1>6, <1>7 DEF Document!Innermost
<1>9. [n \in 1 .. Len(heap) |-> heap[n].type][cur] = "hash"
  BY <1>4, TypeInside
<1>10. OpenPath' = SubSeq(OpenPath, 1, Len(OpenPath) - 1) /\ Len(OpenPath) > 1
  BY <1>3, <1>6, <1>7, Zenon
<1>11. [n \in 1 .. Len(heap') |-> heap'[n].type] = [n \in 1 .. Len(heap) |-> heap[n].type]
  OBVIOUS
<1>12. Document!CloseHash
  BY <1>6, <1>8, <1>9, <1>10, <1>11, Zenon DEF Document!CloseHash
<1> QED
  BY <1>6, <1>12 DEF Document!Next

(* A closing bracket while an array is open.                               *)
LEMMA BuildCloseArr ==
  ASSUME TypeOK, TypeOK', Built, UNCHANGED heap,
         stack # <<>>, cur' = stack[Len(stack)], stack' = SubSeq(stack, 1, Len(stack) - 1)
  PROVE  Built' /\ Document!Next
<1>1. PICK p, d, ks : Shows(p, d, ks)
  BY DEF Built
<1>2. /\ Way(heap, stack, cur, p, d) /\ Len(heap) \in Nat /\ Len(stack) \in Nat
      /\ Len(stack) # 0
  BY <1>1, TypeInside DEF Shows
<1>a. PICK i \in 2 .. Len(p) : Opener(heap, stack, p, d, i)
  BY <1>2, LastArr, Zenon
<1>3. /\ heap[p[i]].type = "arr" /\ \A j \in i + 1 .. Len(p) : heap[p[j]].type = "hash"
      /\ i - 1 \in 1 .. Len(p) /\ stack[Len(stack)] = p[i - 1] /\ d[i - 1] = Len(stack) - 1
  BY <1>a DEF Opener
<1>4. PICK k : k = i - 1
  OBVIOUS
<1>5. k \in 1 .. Len(p) /\ cur' = p[k] /\ stack' = SubSeq(stack, 1, d[k])
  BY <1>3, <1>4
<1>6. /\ Built' /\ OpenPath = p /\ OpenPath' = SubSeq(p, 1, k)
      /\ [n \in 1 .. Len(heap') |-> Kids(n)'] = [n \in 1 .. Len(heap) |-> Kids(n)]
  BY <1>1, <1>5, BuildBack
<1>7. Len(p) \in Nat /\ \A j \in 1 .. Len(p) : p[j] \in 1 .. Len(heap)
  BY <1>2, WaySizes
<1>8. \A j \in 2 .. Len(p) : [n \in 1 .. Len(heap) |-> heap[n].type][p[j]] = heap[p[j]].type
  <2> SUFFICES ASSUME NEW j \in 2 .. Len(p)
               PROVE  [n \in 1 .. Len(heap) |-> heap[n].type][p[j]] = heap[p[j]].type
    OBVIOUS
  <2>1. j \in 1 .. Len(p)
    BY <1>7
  <2> QED
    BY <2>1, <1>7
<1>9. \A j \in i + 1 .. Len(p) : j \in 2 .. Len(p)
  BY <1>7
<1>10. /\ [n \in 1 .. Len(heap) |-> heap[n].type][p[i]] = "arr"
       /\ \A j \in i + 1 .. Len(p) : [n \in 1 .. Len(heap) |-> heap[n].type][p[j]] = "hash"
  BY <1>3, <1>8, <1>9, Zenon
<1>11. [n \in 1 .. Len(heap') |-> heap'[n].type] = [n \in 1 .. Len(heap) |-> heap[n].type]
  OBVIOUS
<1>12. Document!CloseArr
  <2>1. i \in 2 .. Len(OpenPath) /\ OpenPath' = SubSeq(OpenPath, 1, i - 1)
    BY <1>4, <1>6, Zenon
  <2>2. /\ [n \in 1 .. Len(heap) |-> heap[n].type][OpenPath[i]] = "arr"
        /\ \A j \in i + 1 .. Len(OpenPath) : [n \in 1 .. Len(heap) |-> heap[n].type][OpenPath[j]] = "hash"
    BY <1>6, <1>10, Zenon
  <2> QED
    BY <2>1, <2>2, <1>6, <1>11, Zenon DEF Document!CloseArr
<1> QED
  BY <1>6, <1>12 DEF Document!Next

LEMMA BuildSame ==
  ASSUME TypeOK, TypeOK', Built, UNCHANGED treeVars
  PROVE  Built' /\ UNCHANGED Document!vars
<1>1. PICK p, d, ks : Shows(p, d, ks)
  BY DEF Built
<1>2. Shows(p, d, ks)'
  BY <1>1 DEF Shows, treeVars
<1>3. OpenPath = p /\ [n \in 1 .. Len(heap) |-> Kids(n)] = ks
  BY <1>1, ShowsIs
<1>4. OpenPath' = p /\ [n \in 1 .. Len(heap') |-> Kids(n)'] = ks
  BY <1>2, ShowsNext
<1>5. [n \in 1 .. Len(heap') |-> heap'[n].type] = [n \in 1 .. Len(heap) |-> heap[n].type]
  BY DEF treeVars
<1>6. UNCHANGED Document!vars
  BY <1>3, <1>4, <1>5, Zenon DEF Document!vars
<1> QED
  BY <1>2, <1>6 DEF Built

LEMMA LeafNodes ==
  /\ \A t \in {"true", "false", "null"} :
       /\ Blank(NewNode(t), NULL) /\ NewNode(t).count = 0 /\ NewNode(t).type \in Document!Leaves
  /\ \A t \in {"str", "pos", "neg"}, start \in Int, len \in Int, decoded \in BOOLEAN :
       LET node == NewStr(t, start, len, decoded)
       IN  Blank(node, NULL) /\ node.count = 0 /\ node.type \in Document!Leaves
<1>1. ASSUME NEW t \in {"true", "false", "null"}
      PROVE  /\ Blank(NewNode(t), NULL) /\ NewNode(t).count = 0
             /\ NewNode(t).type \in Document!Leaves
  <2>1. t \in NodeTypes /\ t \in Document!Leaves
    BY DEF NodeTypes, Document!Leaves
  <2>2. NewNode(t).count = 0 /\ NewNode(t).type = t
    BY DEF NewNode
  <2> QED
    BY <2>1, <2>2, NewNodeBlank
<1>2. ASSUME NEW t \in {"str", "pos", "neg"}, NEW start \in Int, NEW len \in Int, NEW decoded \in BOOLEAN
      PROVE  /\ Blank(NewStr(t, start, len, decoded), NULL)
             /\ NewStr(t, start, len, decoded).count = 0
             /\ NewStr(t, start, len, decoded).type \in Document!Leaves
  <2>1. t \in Document!Leaves
    BY DEF Document!Leaves
  <2>2. NewStr(t, start, len, decoded).count = 0 /\ NewStr(t, start, len, decoded).type = t
    BY DEF NewStr, NewNode
  <2> QED
    BY <2>1, <2>2, NewStrBlank
<1> QED
  BY <1>1, <1>2

LEMMA ContainerNodes ==
  /\ \A up \in Nat : /\ Blank(NewHash(up), up)
                     /\ NewHash(up).count = 0 /\ NewHash(up).type = "hash"
  /\ Blank(NewArr, NULL) /\ NewArr.count = 0 /\ NewArr.type = "arr"
<1>1. ASSUME NEW up \in Nat
      PROVE  Blank(NewHash(up), up) /\ NewHash(up).count = 0 /\ NewHash(up).type = "hash"
  <2>1. NewHash(up).count = 0 /\ NewHash(up).type = "hash"
    BY DEF NewHash, NewNode
  <2> QED
    BY <2>1, NewHashBlank
<1>2. Blank(NewArr, NULL)
  BY NewNodeBlank DEF NewArr, NodeTypes
<1>3. NewArr.count = 0 /\ NewArr.type = "arr"
  BY DEF NewArr, NewNode
<1> QED
  BY <1>1, <1>2, <1>3

LEMMA StepBuilds ==
  TypeOK /\ TypeOK' /\ Built /\ [Next]_vars => Built' /\ [Document!Next]_(Document!vars)
<1> SUFFICES ASSUME TypeOK, TypeOK', Built, [Next]_vars
             PROVE  Built' /\ (Document!Next \/ UNCHANGED Document!vars)
  OBVIOUS
<1>s. ASSUME NEW node, NEW eaten, Scalar(node, eaten), Blank(node, NULL), node.count = 0,
             node.type \in Document!Leaves
      PROVE  Built' /\ Document!Next
  <2>1. heap' = Attached(node) /\ UNCHANGED <<cur, stack>>
    BY <1>s DEF Scalar
  <2> QED
    BY <2>1, <1>s, BuildScalar, Zenon
<1>v. ASSUME UNCHANGED treeVars
      PROVE  Built' /\ UNCHANGED Document!vars
  BY <1>v, BuildSame, Zenon
<1>0. pos \in Int /\ strStart \in Int /\ slashCnt \in Nat /\ Uninit \in Int /\ pos - strStart \in Int
  BY DEF TypeOK, Uninit
<1>1. CASE \/ Safe \/ HashComment \/ HashComment2 \/ AC_Comment \/ AC_Comment2
           \/ QQKeyName1 \/ QQKeyNameX \/ QKeyName1 \/ QKeyNameX \/ KeyName1 \/ KeyNameX \/ Colon
           \/ Number1 \/ AfterVal \/ UNCHANGED vars
  <2>1. UNCHANGED treeVars
    BY <1>1 DEF Safe, HashComment, HashComment2, AC_Comment, AC_Comment2, EolComment, StarComment,
                QQKeyName1, QQKeyNameX, QKeyName1, QKeyNameX, QuotedKey1, QuotedKeyX,
                KeyName1, KeyNameX, Colon, Number1, AfterVal, vars
  <2> QED
    BY <2>1, <1>v
<1>2. CASE Hash
  <2>1. CASE heap[cur].parent # NULL /\ cur' = heap[cur].parent
    <3>1. UNCHANGED <<heap, stack>>
      BY <1>2 DEF Hash
    <3> QED
      BY <2>1, <3>1, BuildCloseHash, Zenon
  <2>2. CASE UNCHANGED cur
    <3>1. UNCHANGED treeVars
      BY <1>2, <2>2 DEF Hash, treeVars
    <3> QED
      BY <3>1, <1>v
  <2> QED
    BY <1>2, <2>1, <2>2 DEF Hash
<1>3. CASE AfterColon
  <2>1. CASE OpenHash
    <3>1. heap' = Attached(NewHash(cur)) /\ cur' = Len(heap) + 1 /\ stack' = stack
      BY <2>1 DEF OpenHash
    <3>2. cur \in Nat
      BY TypeInside
    <3>3. Blank(NewHash(cur), cur) /\ NewHash(cur).count = 0 /\ NewHash(cur).type = "hash"
      BY <3>2, ContainerNodes
    <3> QED
      BY <3>1, <3>3, BuildOpen, Zenon
  <2>2. CASE OpenArr /\ Len(stack) < ArrayStackMax
    <3>1. heap' = Attached(NewArr) /\ cur' = Len(heap) + 1 /\ stack' = Append(stack, cur)
      BY <2>2 DEF OpenArr
    <3> QED
      BY <3>1, ContainerNodes, BuildOpen, Zenon
  <2>3. CASE CloseArr /\ stack # <<>>
    <3>1. /\ UNCHANGED heap /\ cur' = stack[Len(stack)]
          /\ stack' = SubSeq(stack, 1, Len(stack) - 1)
      BY <2>3 DEF CloseArr
    <3> QED
      BY <2>3, <3>1, BuildCloseArr, Zenon
  <2>4. CASE \/ OpenArr /\ ~ (Len(stack) < ArrayStackMax)
             \/ CloseArr /\ stack = <<>>
             \/ StartValue
    <3>1. UNCHANGED treeVars
      BY <2>4 DEF OpenArr, CloseArr, StartValue, treeVars
    <3> QED
      BY <3>1, <1>v
  <2> QED
    BY <1>3, <2>1, <2>2, <2>3, <2>4 DEF AfterColon
<1>4. CASE TypeX
  <2> DEFINE word == SubSeq(data, (IF typeStart = Uninit THEN 0 ELSE typeStart) + 1, pos)
  <2>1. CASE word \in DOMAIN Handlers /\ Scalar(NewNode(Handlers[word]), 0)
    <3> HIDE DEF word
    <3>1. Handlers[word] \in {"true", "false", "null"}
      BY <2>1, ParseAssumption
    <3> QED
      BY <2>1, <3>1, <1>s, LeafNodes, Zenon
  <2>2. CASE UNCHANGED treeVars
    BY <2>2, <1>v
  <2> QED
    BY <1>4, <2>1, <2>2 DEF TypeX
<1>5. CASE NumberX \/ AfterDot
  <2>1. Blank(NumberNode, NULL) /\ NumberNode.count = 0 /\ NumberNode.type \in Document!Leaves
    <3>1. PICK t : t = (IF neg THEN "neg" ELSE "pos") /\ t \in {"str", "pos", "neg"}
      OBVIOUS
    <3>2. NumberNode = NewStr(t, strStart, pos - strStart, FALSE)
      BY <3>1 DEF NumberNode
    <3> QED
      BY <1>0, <3>1, <3>2, LeafNodes
  <2>2. CASE Scalar(NumberNode, 0) \/ Scalar(NumberNode, 1)
    BY <2>1, <2>2, <1>s
  <2>3. CASE UNCHANGED treeVars
    BY <2>3, <1>v
  <2> QED
    BY <1>5, <2>2, <2>3 DEF NumberX, AfterDot
<1>6. CASE String1
  <2>1. CASE Scalar(NewStr("str", Uninit, 0, FALSE), 1)
    <3> DEFINE node == NewStr("str", Uninit, 0, FALSE)
    <3>1. "str" \in {"str", "pos", "neg"} /\ 0 \in Int /\ FALSE \in BOOLEAN
      OBVIOUS
    <3>2. Blank(node, NULL) /\ node.count = 0 /\ node.type \in Document!Leaves
      BY <1>0, <3>1, LeafNodes
    <3> HIDE DEF node
    <3>3. Scalar(node, 1)
      BY <2>1 DEF node
    <3> QED
      BY <3>2, <3>3, <1>s
  <2>2. CASE UNCHANGED treeVars
    BY <2>2, <1>v
  <2> QED
    BY <1>6, <2>1, <2>2 DEF String1
<1>7. CASE StringX \/ StrSlash1 \/ SlashHexN
  <2> DEFINE decoded == slashCnt > 0
             node    == NewStr("str", strStart, pos - strStart, decoded)
  <2>3. Blank(node, NULL) /\ node.count = 0 /\ node.type \in Document!Leaves
    <3>1. decoded \in BOOLEAN
      OBVIOUS
    <3> HIDE DEF decoded
    <3> QED
      BY <1>0, <3>1, LeafNodes
  <2>4. StringX2 => Scalar(node, 1) \/ UNCHANGED treeVars
    BY DEF StringX2
  <2>5. StringX2 \/ UNCHANGED treeVars
    BY <1>7 DEF StringX, StrSlash1, SlashHexN, SlashHex, SlashHex4
  <2> HIDE DEF node
  <2> QED
    BY <2>3, <2>4, <2>5, <1>s, <1>v
<1> QED
  BY <1>1, <1>2, <1>3, <1>4, <1>5, <1>6, <1>7 DEF Next, Step, Stopped

LEMMA InitBuilt == Init => Built /\ TypeOK /\ Document!Init
<1> SUFFICES ASSUME Init
             PROVE  Built /\ TypeOK /\ Document!Init
  OBVIOUS
<1>1. TypeOK
  BY InitType
<1>2. /\ heap = <<NewHash(NULL)>> /\ stack = <<>> /\ cur = 1
      /\ Len(heap) = 1 /\ Len(stack) = 0 /\ heap[1] = NewHash(NULL)
  BY DEF Init, Root
<1>3. heap[1].type = "hash" /\ heap[1].parent = NULL /\ heap[1].tree = <<>>
  BY <1>2 DEF NewHash, NewNode
<1>4. PICK p, d, ks : p = <<1>> /\ d = <<0>> /\ ks = << <<>> >>
  OBVIOUS
<1>5. /\ p \in Seq(1 .. 1) /\ Len(p) = 1 /\ p[1] = 1
      /\ d \in Seq(0 .. 0) /\ Len(d) = 1 /\ d[1] = 0
  BY <1>4
<1>6. ks \in Seq(Seq(Nat)) /\ Len(ks) = 1 /\ ks[1] = <<>> /\ Len(ks[1]) = 0
  <2>1. <<>> \in Seq(Nat)
    OBVIOUS
  <2> QED
    BY <2>1, <1>4
<1>7. Family(heap, ks)
  <2>1. Holds(heap, 1, ks[1])
    <3>1. Len(heap[1].tree) = 0
      BY <1>3
    <3> QED
      BY <1>3, <1>6, <3>1 DEF Holds
  <2>2. \A n \in 1 .. Len(heap) : n = 1
    BY <1>2
  <2> QED
    BY <1>2, <1>6, <2>1, <2>2 DEF Family
<1>8. Way(heap, stack, cur, p, d)
  BY <1>2, <1>3, <1>5 DEF Way, Root
<1>9. Shows(p, d, ks)
  BY <1>7, <1>8 DEF Shows
<1>10. OpenPath = <<1>> /\ [n \in 1 .. Len(heap) |-> Kids(n)] = << <<>> >>
  BY <1>1, <1>4, <1>9, ShowsIs
<1>11. [n \in 1 .. Len(heap) |-> heap[n].type] = <<"hash">>
  BY <1>2, <1>3
<1>12. Document!Init
  BY <1>10, <1>11, Zenon DEF Document!Init
<1> QED
  BY <1>1, <1>9, <1>12 DEF Built

(* The parser builds the document: from any label it starts at, on every    *)
(* buffer, each closer returns to the container that holds the one closed,  *)
(* each value goes last into the innermost open container, and no value is  *)
(* lost or moved, although base.parent is both the up link of a hash and    *)
(* the next link of an array and the way up from an array is on a stack.    *)
THEOREM BuildsCorrect == Spec => BuildsDocument
<1>1. Init => Built /\ TypeOK /\ Document!Init
  BY InitBuilt
<1>2. TypeOK /\ TypeOK' /\ Built /\ [Next]_vars => Built' /\ [Document!Next]_(Document!vars)
  BY StepBuilds
<1> QED
  BY <1>1, <1>2, TypeCorrect, PTL DEF Spec, BuildsDocument, Document!Spec
=============================================================================
