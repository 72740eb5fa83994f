--------------------------- MODULE GoParseProofs ----------------------------
(***************************************************************************)
(* Proofs about GoParse and GoNodes, for every set of calls, alphabet, word *)
(* table, set of paths and set of probes.                                  *)
(***************************************************************************)
EXTENDS GoNodes, SequenceTheorems, Walks

-----------------------------------------------------------------------------
(* The heap.                                                               *)

Tables == UNION {[K -> Nat] : K \in SUBSET Seq(STRING)}

GoNode == [type : NodeTypes, parent : Nat, hash : Tables, arr : Seq(Nat), str : Seq(STRING)]

(* The n-th of len nodes: its parent is older, is a container, and what it  *)
(* leads to is allocated.                                                  *)
NodeOK(hp, n) ==
  /\ hp[n].parent \in 0 .. n - 1
  /\ hp[n].parent # nil => hp[hp[n].parent].type \in Containers
  /\ \A i \in 1 .. Len(hp[n].arr) : hp[n].arr[i] \in 1 .. Len(hp)
  /\ \A k \in DOMAIN hp[n].hash : hp[n].hash[k] \in 1 .. Len(hp)

HeapOK(hp) == hp \in Seq(GoNode) /\ \A n \in 1 .. Len(hp) : NodeOK(hp, n)

(* A node as a constructor leaves it.                                      *)
Fresh(node, up) ==
  node \in GoNode /\ node.parent = up /\ node.hash = <<>> /\ node.arr = <<>>

LEMMA EmptyTable == <<>> \in Tables /\ DOMAIN <<>> = {}
<1>1. <<>> \in [{} -> Nat]
  OBVIOUS
<1>2. {} \in SUBSET Seq(STRING)
  OBVIOUS
<1> QED
  BY <1>1, <1>2 DEF Tables

LEMMA NewNodeFresh ==
  ASSUME NEW t \in NodeTypes, NEW up \in Nat, NEW text \in Seq(STRING),
         NEW node, node = NewNode(t, up, text)
  PROVE  Fresh(node, up) /\ node.type = t
<1>1. <<>> \in Seq(Nat)
  OBVIOUS
<1>2. node = [type |-> t, parent |-> up, hash |-> <<>>, arr |-> <<>>, str |-> text]
  BY DEF NewNode
<1>3. node \in GoNode
  BY <1>1, <1>2, EmptyTable DEF GoNode
<1> QED
  BY <1>2, <1>3 DEF Fresh

(* A key more in a table.                                                  *)
Keyed(f, k, el, g) ==
  /\ g \in Tables
  /\ DOMAIN g = DOMAIN f \cup {k}
  /\ g[k] = el
  /\ \A x \in DOMAIN f : x # k => g[x] = f[x]

LEMMA TableGrows ==
  ASSUME NEW f \in Tables, NEW k \in Seq(STRING), NEW el \in Nat,
         NEW g, g = [x \in DOMAIN f \cup {k} |-> IF x = k THEN el ELSE f[x]]
  PROVE  Keyed(f, k, el, g)
<1>1. PICK K \in SUBSET Seq(STRING) : f \in [K -> Nat]
  BY DEF Tables
<1>2. DOMAIN f = K /\ \A x \in K : f[x] \in Nat
  BY <1>1
<1>3. K \cup {k} \in SUBSET Seq(STRING)
  BY <1>1
<1>4. g \in [K \cup {k} -> Nat]
  BY <1>2
<1>5. g \in Tables
  BY <1>3, <1>4 DEF Tables
<1> QED
  BY <1>2, <1>5 DEF Keyed

(* Add changes the container, and no other node.                           *)
Added(hp, c, k, el, new) ==
  /\ new \in Seq(GoNode) /\ Len(new) = Len(hp)
  /\ \A n \in 1 .. Len(hp) : n # c => new[n] = hp[n]
  /\ new[c].type = hp[c].type /\ new[c].parent = hp[c].parent /\ new[c].str = hp[c].str
  /\ hp[c].type = "hash" => new[c].arr = hp[c].arr /\ Keyed(hp[c].hash, k, el, new[c].hash)
  /\ hp[c].type # "hash" =>
       new[c].hash = hp[c].hash /\ new[c].arr = Append(hp[c].arr, el)

LEMMA AddFrame ==
  ASSUME NEW hp \in Seq(GoNode), NEW c \in 1 .. Len(hp),
         NEW k \in Seq(STRING), NEW el \in Nat,
         NEW new, new = Add(hp, c, k, el)
  PROVE  Added(hp, c, k, el, new)
<1> DEFINE r == hp[c]
<1>0. r \in GoNode
  OBVIOUS
<1>1. /\ r \in GoNode
      /\ r.type \in NodeTypes /\ r.parent \in Nat /\ r.hash \in Tables
      /\ r.arr \in Seq(Nat) /\ r.str \in Seq(STRING)
  BY <1>0 DEF GoNode
<1> HIDE DEF r
<1>2. CASE r.type = "hash"
  <2> DEFINE g == [x \in DOMAIN r.hash \cup {k} |-> IF x = k THEN el ELSE r.hash[x]]
  <2>1. Keyed(r.hash, k, el, g)
    BY <1>1, TableGrows
  <2>2. new = [hp EXCEPT ![c].hash = g]
    BY <1>2 DEF Add, r
  <2> HIDE DEF g
  <2>a. g \in Tables
    BY <2>1 DEF Keyed
  <2>3. PICK s : s = [r EXCEPT !.hash = g]
    OBVIOUS
  <2>4. /\ s \in GoNode /\ s.type = r.type /\ s.parent = r.parent
        /\ s.hash = g /\ s.arr = r.arr /\ s.str = r.str
    BY <1>1, <2>a, <2>3 DEF GoNode
  <2>5. new = [hp EXCEPT ![c] = s]
    BY <2>2, <2>3 DEF r
  <2>6. /\ new \in Seq(GoNode) /\ Len(new) = Len(hp) /\ new[c] = s
        /\ \A n \in 1 .. Len(hp) : n # c => new[n] = hp[n]
    BY <2>4, <2>5
  <2> QED
    BY <1>2, <2>1, <2>4, <2>6 DEF r, Added
<1>3. CASE r.type # "hash"
  <2>2. new = [hp EXCEPT ![c].arr = Append(r.arr, el)]
    BY <1>3 DEF Add, r
  <2>3. PICK a : a = Append(r.arr, el)
    OBVIOUS
  <2>4. a \in Seq(Nat)
    BY <1>1, <2>3
  <2>5. PICK s : s = [r EXCEPT !.arr = a]
    OBVIOUS
  <2>6. /\ s \in GoNode /\ s.type = r.type /\ s.parent = r.parent
        /\ s.hash = r.hash /\ s.arr = a /\ s.str = r.str
    BY <1>1, <2>4, <2>5 DEF GoNode
  <2>7. new = [hp EXCEPT ![c] = s]
    BY <2>2, <2>3, <2>5 DEF r
  <2>8. /\ new \in Seq(GoNode) /\ Len(new) = Len(hp) /\ new[c] = s
        /\ \A n \in 1 .. Len(hp) : n # c => new[n] = hp[n]
    BY <2>6, <2>7
  <2> QED
    BY <1>3, <2>3, <2>6, <2>8 DEF r, Added
<1> QED
  BY <1>2, <1>3

(* A fresh node that a heap can take.                                      *)
Fits(hp, node) ==
  /\ Fresh(node, node.parent) /\ node.parent \in 0 .. Len(hp)
  /\ node.parent # nil => hp[node.parent].type \in Containers

Appended(hp, node, new) ==
  /\ HeapOK(new) /\ Len(new) = Len(hp) + 1
  /\ \A n \in 1 .. Len(hp) : new[n] = hp[n]
  /\ new[Len(hp) + 1] = node

LEMMA HeapGrows ==
  ASSUME NEW hp, HeapOK(hp), NEW node, Fits(hp, node), NEW new, new = Append(hp, node)
  PROVE  Appended(hp, node, new)
<1> DEFINE up == node.parent
<1>1. /\ hp \in Seq(GoNode) /\ node \in GoNode /\ Len(hp) \in Nat
      /\ up \in 0 .. Len(hp) /\ node.hash = <<>> /\ node.arr = <<>>
      /\ up # nil => hp[up].type \in Containers
  BY DEF HeapOK, Fits, Fresh
<1>2. /\ new \in Seq(GoNode) /\ Len(new) = Len(hp) + 1
      /\ \A n \in 1 .. Len(hp) : new[n] = hp[n]
      /\ new[Len(hp) + 1] = node
  BY <1>1
<1>3. ASSUME NEW n \in 1 .. Len(hp)
      PROVE  NodeOK(new, n)
  <2>1. NodeOK(hp, n)
    BY DEF HeapOK
  <2>2. hp[n].parent # nil => new[hp[n].parent] = hp[hp[n].parent]
    BY <2>1, <1>1, <1>2 DEF NodeOK, nil
  <2>3. hp[n].parent # nil => new[new[n].parent].type \in Containers
    BY <1>2, <2>1, <2>2 DEF NodeOK
  <2>4. \A m \in 1 .. Len(hp) : m \in 1 .. Len(new)
    BY <1>1, <1>2
  <2> QED
    BY <1>2, <2>1, <2>3, <2>4 DEF NodeOK
<1>4. NodeOK(new, Len(hp) + 1)
  <2>1. up # nil => new[up] = hp[up]
    BY <1>1, <1>2 DEF nil
  <2>2. 1 .. Len(node.arr) = {} /\ DOMAIN node.hash = {}
    BY <1>1, EmptyTable
  <2>3. up \in 0 .. (Len(hp) + 1) - 1
    BY <1>1
  <2>4. up # nil => new[up].type \in Containers
    BY <1>1, <2>1
  <2> QED
    BY <1>2, <2>2, <2>3, <2>4 DEF NodeOK
<1>5. \A n \in 1 .. Len(new) : NodeOK(new, n)
  BY <1>1, <1>2, <1>3, <1>4
<1> QED
  BY <1>2, <1>5 DEF HeapOK, Appended

(* What Store and Descend leave in place of hp: a node more, under c.      *)
Under(hp, c, node, new) ==
  /\ HeapOK(new) /\ Len(new) = Len(hp) + 1
  /\ \A n \in 1 .. Len(hp) : new[n].type = hp[n].type /\ new[n].parent = hp[n].parent
  /\ \A n \in 1 .. Len(hp) : n # c => new[n] = hp[n]
  /\ new[Len(hp) + 1].type = node.type /\ new[Len(hp) + 1].parent = node.parent
  /\ IsChild(new, Len(hp) + 1, c)

LEMMA AddedUnder ==
  ASSUME NEW hp, HeapOK(hp), NEW node, Fits(hp, node),
         NEW c \in 1 .. Len(hp), hp[c].type \in Containers, NEW k \in Seq(STRING),
         NEW new, new = Add(Append(hp, node), c, k, Len(hp) + 1)
  PROVE  Under(hp, c, node, new)
<1>1. PICK mid : mid = Append(hp, node)
  OBVIOUS
<1>2. PICK el : el = Len(hp) + 1
  OBVIOUS
<1>a. Appended(hp, node, mid)
  BY <1>1, HeapGrows
<1>3. /\ HeapOK(mid) /\ Len(mid) = Len(hp) + 1
      /\ \A n \in 1 .. Len(hp) : mid[n] = hp[n]
      /\ mid[Len(hp) + 1] = node
  BY <1>a DEF Appended
<1>4. /\ Len(hp) \in Nat /\ el \in Nat /\ c \in 1 .. Len(mid)
      /\ mid \in Seq(GoNode) /\ new = Add(mid, c, k, el)
  BY <1>1, <1>2, <1>3 DEF HeapOK
<1>b. mid[c] \in GoNode
  BY <1>4
<1>c. mid[c].arr \in Seq(Nat)
  BY <1>b DEF GoNode
<1>d. Added(mid, c, k, el, new)
  BY <1>4, AddFrame
<1>5. /\ new \in Seq(GoNode) /\ Len(new) = Len(mid)
      /\ \A n \in 1 .. Len(mid) : n # c => new[n] = mid[n]
      /\ new[c].type = mid[c].type /\ new[c].parent = mid[c].parent
      /\ mid[c].type = "hash" => new[c].arr = mid[c].arr /\ Keyed(mid[c].hash, k, el, new[c].hash)
      /\ mid[c].type # "hash" =>
           new[c].hash = mid[c].hash /\ new[c].arr = Append(mid[c].arr, el)
  BY <1>d DEF Added
<1>6. \A n \in 1 .. Len(mid) : new[n].type = mid[n].type /\ new[n].parent = mid[n].parent
  BY <1>5
<1>7. ASSUME NEW n \in 1 .. Len(mid)
      PROVE  NodeOK(new, n)
  <2>1. NodeOK(mid, n)
    BY <1>3 DEF HeapOK
  <2>2. /\ new[n].parent \in 0 .. n - 1
        /\ new[n].parent # nil => new[new[n].parent].type \in Containers
    BY <1>3, <1>4, <1>6, <2>1 DEF NodeOK, nil
  <2>3. CASE n # c
    BY <1>5, <2>1, <2>2, <2>3 DEF NodeOK
  <2>4. CASE n = c /\ mid[c].type = "hash"
    <3>1. \A i \in 1 .. Len(new[n].arr) : new[n].arr[i] \in 1 .. Len(new)
      BY <1>5, <2>1, <2>4 DEF NodeOK
    <3>2. ASSUME NEW x \in DOMAIN new[n].hash
          PROVE  new[n].hash[x] \in 1 .. Len(new)
      <4>1. x = k => new[n].hash[x] = el
        BY <1>5, <2>4 DEF Keyed
      <4>2. x # k => x \in DOMAIN mid[n].hash /\ new[n].hash[x] = mid[n].hash[x]
        BY <1>5, <2>4 DEF Keyed
      <4>3. el \in 1 .. Len(new)
        BY <1>2, <1>3, <1>4, <1>5
      <4> QED
        BY <1>5, <2>1, <4>1, <4>2, <4>3 DEF NodeOK
    <3> QED
      BY <2>2, <3>1, <3>2 DEF NodeOK
  <2>5. CASE n = c /\ mid[c].type # "hash"
    <3>a. el \in 1 .. Len(new) /\ Len(new) = Len(mid)
      BY <1>2, <1>3, <1>4, <1>5
    <3>b. PICK a : a = mid[n].arr
      OBVIOUS
    <3>c. a \in Seq(Nat) /\ new[n].arr = Append(a, el)
      BY <1>5, <2>5, <1>c, <3>b
    <3>d. \A i \in 1 .. Len(a) : a[i] \in 1 .. Len(new)
      BY <2>1, <3>a, <3>b DEF NodeOK
    <3>e. \A i \in 1 .. Len(Append(a, el)) : Append(a, el)[i] \in 1 .. Len(new)
      BY <3>a, <3>c, <3>d
    <3>1. \A i \in 1 .. Len(new[n].arr) : new[n].arr[i] \in 1 .. Len(new)
      BY <3>c, <3>e
    <3>2. \A x \in DOMAIN new[n].hash : new[n].hash[x] \in 1 .. Len(new)
      BY <1>5, <2>1, <2>5 DEF NodeOK
    <3> QED
      BY <2>2, <3>1, <3>2 DEF NodeOK
  <2> QED
    BY <2>3, <2>4, <2>5
<1>8. IsChild(new, Len(hp) + 1, c)
  <2>0. new[c].type \in Containers
    BY <1>3, <1>4, <1>6
  <2>1. CASE mid[c].type = "hash"
    BY <1>2, <1>5, <2>1 DEF IsChild, Keyed
  <2>2. CASE mid[c].type # "hash"
    <3>1. new[c].arr[Len(new[c].arr)] = el /\ Len(new[c].arr) \in 1 .. Len(new[c].arr)
      BY <1>4, <1>5, <2>2, <1>c, SMTT(30)
    <3>2. new[c].type = "arr"
      BY <2>0, <2>2, <1>5 DEF Containers
    <3> QED
      BY <1>2, <3>1, <3>2 DEF IsChild
  <2> QED
    BY <2>1, <2>2
<1>9. HeapOK(new)
  BY <1>5, <1>7 DEF HeapOK
<1> QED
  BY <1>3, <1>4, <1>5, <1>6, <1>8, <1>9 DEF Under

-----------------------------------------------------------------------------
(* The inductive invariant.                                                *)

(* The variables that are not about the tree.                              *)
TextsOK == /\ data \in Seq(STRING) /\ key \in Seq(STRING) /\ str \in Seq(STRING)
           /\ endc \in STRING /\ remainder \in Seq(STRING)
NumsOK  == /\ pos \in Nat /\ keyStart \in Nat /\ typeStart \in Nat /\ substrStart \in Nat
           /\ strStart \in Int
FlagsOK == /\ onRootChunk \in BOOLEAN /\ neg \in BOOLEAN
           /\ err \in {"none", "JSON Incomplete", "unknown type"}
LabelOK == pc \in RootScan \cup InRoot \cup {"OverEnd", "Returned"}

ScanOK == TextsOK /\ NumsOK /\ FlagsOK /\ LabelOK

TreeOK ==
  /\ HeapOK(heap)
  /\ cur \in 0 .. Len(heap) /\ root \in 0 .. Len(heap)
  /\ nodeType \in Containers \cup {"none"}
  /\ chunks \in Seq(Nat) /\ \A i \in 1 .. Len(chunks) : chunks[i] \in 1 .. Len(heap)

(* Inside a root cur is a container and nodeType its type.                 *)
CurOK == cur \in 1 .. Len(heap) /\ nodeType = heap[cur].type /\ nodeType \in Containers

(* What each label knows of the start noted at an earlier one.             *)
SliceOK == SlicesInBounds /\ (pc = "Number1" => pos >= 1)

IInv == ScanOK /\ TreeOK /\ (pc \in InRoot => CurOK) /\ SliceOK

-----------------------------------------------------------------------------
(* Slices of the data.                                                     *)

LEMMA SliceType ==
  ASSUME NEW d \in Seq(STRING), NEW a \in Nat, NEW b \in Nat, b <= Len(d)
  PROVE  SubSeq(d, a + 1, b) \in Seq(STRING)
<1>1. CASE a + 1 > b
  <2>1. SubSeq(d, a + 1, b) = <<>>
    BY <1>1
  <2> QED
    BY <2>1
<1>2. CASE a + 1 <= b
  BY <1>2
<1> QED
  BY <1>1, <1>2

LEMMA Single ==
  ASSUME NEW S, NEW e \in S
  PROVE  <<e>> \in Seq(S)
OBVIOUS

LEMMA ByteType ==
  ASSUME TextsOK, NumsOK, NEW label, At(label)
  PROVE  Let \in STRING
BY DEF TextsOK, NumsOK, At, Let, size

LEMMA SinceType ==
  ASSUME TextsOK, NumsOK, NEW label, At(label), NEW a \in Nat
  PROVE  Since(a) \in Seq(STRING)
<1>1. pos \in Nat /\ pos <= Len(data) /\ data \in Seq(STRING)
  BY DEF TextsOK, NumsOK, At, size
<1> QED
  BY <1>1, SliceType DEF Since

LEMMA RestType ==
  ASSUME TextsOK, NumsOK
  PROVE  Rest(pos + 1) \in Seq(STRING)
<1>1. data \in Seq(STRING) /\ Len(data) \in Nat /\ pos + 1 \in Nat
  BY DEF TextsOK, NumsOK
<1> QED
  BY <1>1, SliceType DEF Rest, size

-----------------------------------------------------------------------------
(* The labels.                                                             *)

LEMMA Labels ==
  /\ \A l \in InRoot : l \notin {"OverEnd", "Returned"} \cup RootScan
  /\ {"Hash", "AfterColon", "QKeyName1", "KeyName1", "HashComment", "HashComment2", "Colon",
      "QKeyNameX", "KeyNameX", "String1", "TypeX", "Number1", "AC_Comment", "AC_Comment2",
      "NumberX", "AfterDot", "StringX", "Escape"} \subseteq InRoot
  /\ {"UnknownRoot", "RootHashComment", "RootHashComment2"} = RootScan
BY DEF InRoot, KeyScan, ValScan, RootScan

(* A label at which no start is remembered.                                *)
Plain == (RootScan \cup InRoot \cup {"OverEnd", "Returned"})
            \ {"QKeyNameX", "KeyNameX", "TypeX", "NumberX", "AfterDot", "StringX", "Escape", "Number1"}

LEMMA PlainSlices ==
  ASSUME pc' \in Plain
  PROVE  SliceOK'
BY DEF Plain, SliceOK, SlicesInBounds

LEMMA TreeKept ==
  ASSUME IInv, UNCHANGED <<tree, root, chunks>>
  PROVE  TreeOK' /\ (pc \in InRoot => CurOK')
BY DEF IInv, TreeOK, CurOK, tree

(* A step that leaves the tree alone and ends at a plain label.            *)
LEMMA QuietStep ==
  ASSUME IInv, ScanOK', UNCHANGED <<tree, root, chunks>>,
         pc' \in InRoot => pc \in InRoot, pc' \in Plain
  PROVE  IInv'
BY TreeKept, PlainSlices DEF IInv

-----------------------------------------------------------------------------
(* Actions that leave the tree alone.                                      *)

frame == <<args, keyVars, numVars, endc, strVars, tree, root, outVars>>

LEMMA Jump ==
  ASSUME IInv, NEW l \in Plain, NEW n \in Nat, Goto(l, n), UNCHANGED frame,
         l \in InRoot => pc \in InRoot
  PROVE  IInv'
<1>1. ScanOK /\ pos' = pos + n /\ pc' = l
  BY DEF IInv, Goto
<1>2. TextsOK' /\ FlagsOK'
  BY <1>1 DEF ScanOK, TextsOK, FlagsOK, frame, args, keyVars, numVars, strVars, outVars
<1>3. NumsOK'
  BY <1>1 DEF ScanOK, NumsOK, frame, args, keyVars, numVars, strVars
<1>4. LabelOK'
  BY <1>1 DEF LabelOK, Plain
<1>5. UNCHANGED <<tree, root, chunks>>
  BY DEF frame, outVars
<1> QED
  BY <1>1, <1>2, <1>3, <1>4, <1>5, QuietStep DEF ScanOK

LEMMA OverrunStep ==
  ASSUME IInv, OverrunAt
  PROVE  IInv'
BY Jump, Labels DEF OverrunAt, frame, Plain

LEMMA EolCommentStep ==
  ASSUME IInv, NEW label \in Plain, NEW back \in Plain, EolComment(label, back),
         label \in InRoot <=> back \in InRoot
  PROVE  IInv'
<1>1. PICK l \in {label, back} : Goto(l, 1) /\ pc = label
  BY DEF EolComment, At
<1>2. UNCHANGED frame
  BY DEF EolComment, At, frame
<1> QED
  BY <1>1, <1>2, Jump

LEMMA StarCommentStep ==
  ASSUME IInv, NEW label \in Plain, NEW back \in Plain, StarComment(label, back),
         label \in InRoot <=> back \in InRoot
  PROVE  IInv'
<1>1. PICK l \in {label, back, "OverEnd"}, n \in {1, 2} : Goto(l, n) /\ pc = label
  BY DEF StarComment, At
<1>2. UNCHANGED frame
  BY DEF StarComment, At, frame
<1>3. "OverEnd" \in Plain \ InRoot
  BY DEF Plain, InRoot, KeyScan, ValScan
<1> QED
  BY <1>1, <1>2, <1>3, Jump

LEMMA CommentSteps ==
  ASSUME IInv, \/ RootHashComment \/ RootHashComment2 \/ HashComment \/ HashComment2
               \/ AC_Comment \/ AC_Comment2
  PROVE  IInv'
<1>1. {"RootHashComment", "RootHashComment2", "UnknownRoot"} \subseteq Plain \ InRoot
  BY DEF Plain, RootScan, InRoot, KeyScan, ValScan
<1>2. {"HashComment", "HashComment2", "Hash", "AC_Comment", "AC_Comment2", "AfterColon"}
        \subseteq Plain \cap InRoot
  BY DEF Plain, InRoot, KeyScan, ValScan
<1>3. CASE RootHashComment \/ HashComment \/ AC_Comment
  BY <1>1, <1>2, <1>3, EolCommentStep DEF RootHashComment, HashComment, AC_Comment
<1>4. CASE RootHashComment2 \/ HashComment2 \/ AC_Comment2
  BY <1>1, <1>2, <1>4, StarCommentStep DEF RootHashComment2, HashComment2, AC_Comment2
<1> QED
  BY <1>3, <1>4

LEMMA ColonStep ==
  ASSUME IInv, Colon
  PROVE  IInv'
<1>1. PICK l \in {"AfterColon", "Colon"} : Goto(l, 1) /\ pc = "Colon"
  BY DEF Colon, At
<1>2. UNCHANGED frame
  BY DEF Colon, At, frame
<1>3. {"AfterColon", "Colon"} \subseteq Plain \cap InRoot
  BY DEF Plain, InRoot, KeyScan, ValScan
<1> QED
  BY <1>1, <1>2, <1>3, Jump

(* The deferred function reads nothing.                                    *)
LEMMA OverEndStep ==
  ASSUME IInv, OverEnd
  PROVE  IInv'
<1>1. /\ ScanOK /\ TreeOK
      /\ pos' = pos + 0 /\ pc' = "Returned"
      /\ UNCHANGED <<args, keyVars, numVars, endc, strVars, tree, chunks>>
  BY DEF IInv, OverEnd, Goto
<1>a. root' \in {nil, root} /\ remainder' \in {<<>>, remainder}
  BY DEF OverEnd, Recovered
<1>b. err' \in {"none", "JSON Incomplete"}
  BY DEF OverEnd, Recovered
<1>2. TextsOK'
  <2>1. <<>> \in Seq(STRING) /\ remainder \in Seq(STRING)
    BY <1>1 DEF ScanOK, TextsOK
  <2>2. remainder' \in Seq(STRING)
    BY <1>a, <2>1
  <2> QED
    BY <1>1, <2>2 DEF ScanOK, TextsOK, args, keyVars, strVars
<1>3. FlagsOK'
  BY <1>1, <1>b DEF ScanOK, FlagsOK, args, numVars
<1>4. NumsOK'
  BY <1>1 DEF ScanOK, NumsOK, keyVars, numVars, strVars
<1>5. pc' \in Plain \ InRoot
  BY <1>1 DEF Plain, InRoot, KeyScan, ValScan
<1>6. LabelOK'
  BY <1>5 DEF LabelOK, Plain
<1>7. TreeOK'
  <2>1. root' \in 0 .. Len(heap)
    <3>1. Len(heap) \in Nat
      BY <1>1 DEF TreeOK, HeapOK
    <3> QED
      BY <1>1, <1>a, <3>1 DEF TreeOK, nil
  <2> QED
    BY <1>1, <2>1 DEF TreeOK, tree
<1> QED
  BY <1>2, <1>3, <1>4, <1>5, <1>6, <1>7, PlainSlices DEF IInv, ScanOK

LEMMA FirstOfKeyStep ==
  ASSUME IInv, QKeyName1 \/ KeyName1
  PROVE  IInv'
<1>1. /\ ScanOK
      /\ keyStart' = pos /\ pos' = pos + 1 /\ pc' \in {"QKeyNameX", "KeyNameX"}
      /\ pc \in {"QKeyName1", "KeyName1"}
      /\ UNCHANGED <<args, key, numVars, endc, strVars, tree, root, outVars>>
  BY DEF IInv, QKeyName1, KeyName1, FirstOfKey, Goto
<1>2. TextsOK'
  BY <1>1 DEF ScanOK, TextsOK, args, strVars, outVars
<1>3. FlagsOK'
  BY <1>1 DEF ScanOK, FlagsOK, args, numVars, outVars
<1>4. NumsOK'
  BY <1>1 DEF ScanOK, NumsOK, numVars, strVars
<1>5. LabelOK' /\ pc \in InRoot
  BY <1>1 DEF LabelOK, InRoot, KeyScan
<1>6. SliceOK'
  BY <1>1 DEF SliceOK, SlicesInBounds, ScanOK, NumsOK
<1> QED
  BY <1>1, <1>2, <1>3, <1>4, <1>5, <1>6, TreeKept DEF IInv, ScanOK, outVars

-----------------------------------------------------------------------------
(* Actions on the tree.                                                    *)

LEMMA LeafFits ==
  ASSUME NEW hp, HeapOK(hp), NEW t \in NodeTypes, NEW text \in Seq(STRING),
         NEW node, node = NewJVal(t, text)
  PROVE  Fits(hp, node) /\ node.type = t
<1>1. Fresh(node, nil) /\ node.type = t
  BY NewNodeFresh DEF NewJVal, nil
<1>2. Len(hp) \in Nat
  BY DEF HeapOK
<1> QED
  BY <1>1, <1>2 DEF Fits, Fresh, nil

LEMMA ContainerFits ==
  ASSUME NEW hp, HeapOK(hp), NEW up \in 0 .. Len(hp), up # nil => hp[up].type \in Containers,
         NEW node, node \in {NewJHash(up), NewJArr(up)}
  PROVE  Fits(hp, node) /\ node.type \in Containers /\ node.parent = up
<1>1. up \in Nat /\ <<>> \in Seq(STRING) /\ {"hash", "arr"} \subseteq NodeTypes
  BY DEF HeapOK, NodeTypes, Containers
<1>a. PICK t \in {"hash", "arr"} : node = NewNode(t, up, <<>>)
  BY DEF NewJHash, NewJArr
<1>b. Fresh(node, up) /\ node.type = t
  BY <1>1, <1>a, NewNodeFresh
<1>2. Fresh(node, up) /\ node.type \in Containers
  BY <1>b DEF Containers
<1> QED
  BY <1>2 DEF Fits, Fresh

HashOrValue == {"Hash", "AfterColon"}

LEMMA HashOrValueLabels == HashOrValue \subseteq Plain \cap InRoot
BY DEF HashOrValue, Plain, InRoot, KeyScan, ValScan

LEMMA StoreTree ==
  ASSUME TreeOK, CurOK, key \in Seq(STRING), NEW node, Fits(heap, node), NEW n \in Nat,
         Store(node, n), UNCHANGED <<root, chunks>>
  PROVE  /\ TreeOK' /\ CurOK' /\ pc' \in HashOrValue /\ pos' = pos + n
         /\ Under(heap, cur, node, heap') /\ cur' = cur
<1>1. /\ heap' = Add(Append(heap, node), cur, key, Len(heap) + 1)
      /\ cur' = cur /\ nodeType' = nodeType
  BY DEF Store
<1>2. Under(heap, cur, node, heap')
  BY <1>1, AddedUnder DEF TreeOK, CurOK
<1>3. /\ HeapOK(heap') /\ Len(heap') = Len(heap) + 1 /\ Len(heap) \in Nat
      /\ heap'[cur].type = heap[cur].type
  BY <1>2 DEF Under, CurOK, TreeOK, HeapOK
<1>4. TreeOK'
  BY <1>1, <1>3 DEF TreeOK
<1>5. CurOK'
  BY <1>1, <1>3 DEF CurOK
<1> QED
  BY <1>1, <1>2, <1>4, <1>5 DEF Store, Goto, HashOrAfterColon, HashOrValue

LEMMA DescendTree ==
  ASSUME TreeOK, CurOK, key \in Seq(STRING), NEW node, node \in {NewJHash(cur), NewJArr(cur)},
         NEW label, Descend(node, label), UNCHANGED <<root, chunks>>
  PROVE  /\ TreeOK' /\ CurOK' /\ pc' = label /\ pos' = pos + 1
         /\ Under(heap, cur, node, heap') /\ node.parent = cur /\ cur' = Len(heap) + 1
<1>1. /\ heap' = Add(Append(heap, node), cur, key, Len(heap) + 1)
      /\ cur' = Len(heap) + 1 /\ nodeType' = node.type
  BY DEF Descend
<1>2. Fits(heap, node) /\ node.type \in Containers /\ node.parent = cur
  BY ContainerFits DEF TreeOK, CurOK
<1>3. Under(heap, cur, node, heap')
  BY <1>1, <1>2, AddedUnder DEF TreeOK, CurOK
<1>a. Len(heap) \in Nat
  BY DEF TreeOK, HeapOK
<1>4. /\ HeapOK(heap') /\ Len(heap') = Len(heap) + 1 /\ Len(heap) \in Nat
      /\ heap'[Len(heap) + 1].type = node.type
  BY <1>3, <1>a DEF Under
<1>5. TreeOK'
  BY <1>1, <1>2, <1>4 DEF TreeOK
<1>6. CurOK'
  BY <1>1, <1>2, <1>4 DEF CurOK
<1> QED
  BY <1>1, <1>2, <1>3, <1>5, <1>6 DEF Descend, Goto

LEMMA NewRootTree ==
  ASSUME TreeOK, NEW node, node \in {NewJHash(nil), NewJArr(nil)}, NewRoot(node), UNCHANGED chunks
  PROVE  TreeOK' /\ CurOK' /\ root' = cur' /\ heap'[cur'].parent = nil
<1>1. heap' = Append(heap, node) /\ cur' = Len(heap) + 1 /\ root' = cur' /\ nodeType' = node.type
  BY DEF NewRoot
<1>2. HeapOK(heap) /\ Len(heap) \in Nat
  BY DEF TreeOK, HeapOK
<1>3. Fits(heap, node) /\ node.type \in Containers /\ node.parent = nil
  BY <1>2, ContainerFits DEF nil
<1>4. Appended(heap, node, heap')
  BY <1>1, <1>2, <1>3, HeapGrows
<1>5. HeapOK(heap') /\ Len(heap') = Len(heap) + 1 /\ heap'[Len(heap) + 1] = node
  BY <1>4 DEF Appended
<1>6. TreeOK'
  BY <1>1, <1>2, <1>3, <1>5 DEF TreeOK
<1>7. CurOK'
  BY <1>1, <1>2, <1>3, <1>5 DEF CurOK
<1> QED
  BY <1>1, <1>3, <1>5, <1>6, <1>7

(* What the container above cur is.                                        *)
LEMMA ParentType ==
  ASSUME TreeOK, CurOK
  PROVE  /\ heap[cur].parent \in 0 .. cur - 1
         /\ heap[cur].parent # nil =>
              heap[cur].parent \in 1 .. Len(heap) /\ heap[heap[cur].parent].type \in Containers
<1>1. NodeOK(heap, cur)
  BY DEF TreeOK, CurOK, HeapOK
<1>2. cur \in 1 .. Len(heap) /\ Len(heap) \in Nat
  BY DEF TreeOK, CurOK, HeapOK
<1> QED
  BY <1>1, <1>2 DEF NodeOK, nil

LEMMA AscendTree ==
  ASSUME TreeOK, CurOK, Ascend, UNCHANGED root
  PROVE  TreeOK' /\ CurOK' /\ pc' \in HashOrValue /\ pos' = pos + 1
<1>1. /\ heap[cur].parent # nil /\ cur' = heap[cur].parent /\ nodeType' = heap[cur'].type
      /\ heap' = heap /\ chunks' = chunks
  BY DEF Ascend, outVars
<1>2. CurOK'
  BY <1>1, ParentType DEF CurOK
<1>3. TreeOK'
  <2>1. Len(heap) \in Nat
    BY DEF TreeOK, HeapOK
  <2>2. cur' \in 0 .. Len(heap) /\ nodeType' \in Containers
    BY <1>1, <1>2, <2>1 DEF CurOK
  <2> QED
    BY <1>1, <2>2 DEF TreeOK
<1> QED
  BY <1>2, <1>3 DEF Ascend, Goto, HashOrAfterColon, HashOrValue

LEMMA EndRootTree ==
  ASSUME TreeOK, CurOK, TextsOK, NumsOK, EndRoot, UNCHANGED root
  PROVE  /\ TreeOK' /\ pc' \in {"UnknownRoot", "Returned"} /\ pos' = pos + 1
         /\ remainder' \in Seq(STRING) /\ err' = err
<1>1. /\ heap' = heap /\ cur' = cur /\ nodeType' = nodeType /\ err' = err
      /\ chunks' = chunks \/ chunks' = Append(chunks, cur)
      /\ remainder' = remainder \/ remainder' = Rest(pos + 1)
      /\ pc' \in {"UnknownRoot", "Returned"} /\ pos' = pos + 1
  BY DEF EndRoot, tree, Goto, Done
<1>2. TreeOK'
  <2>1. /\ cur \in Nat /\ cur \in 1 .. Len(heap) /\ chunks \in Seq(Nat)
        /\ \A i \in 1 .. Len(chunks) : chunks[i] \in 1 .. Len(heap)
    BY DEF TreeOK, CurOK, HeapOK
  <2>a. /\ Append(chunks, cur) \in Seq(Nat)
        /\ \A i \in 1 .. Len(Append(chunks, cur)) : Append(chunks, cur)[i] \in 1 .. Len(heap)
    BY <2>1
  <2>2. chunks' \in Seq(Nat) /\ \A i \in 1 .. Len(chunks') : chunks'[i] \in 1 .. Len(heap)
    BY <1>1, <2>1, <2>a
  <2> QED
    BY <1>1, <2>2 DEF TreeOK
<1>3. remainder' \in Seq(STRING)
  BY <1>1, RestType DEF TextsOK
<1> QED
  BY <1>1, <1>2, <1>3

LEMMA CloseBracketTree ==
  ASSUME TreeOK, CurOK, TextsOK, NumsOK, CloseBracket, UNCHANGED root
  PROVE  /\ TreeOK' /\ pos' = pos + 1 /\ remainder' \in Seq(STRING) /\ err' = err
         /\ \/ pc' \in HashOrValue /\ CurOK' /\ cur' = heap[cur].parent /\ heap' = heap
            \/ pc' = "Returned"
<1>1. /\ heap' = heap /\ chunks' = chunks /\ err' = err /\ cur' = heap[cur].parent
      /\ pos' = pos + 1
      /\ remainder' = remainder \/ remainder' = Rest(pos + 1)
      /\ \/ /\ cur' # nil /\ nodeType' = heap[cur'].type /\ pc' \in HashOrValue
         \/ cur' = nil /\ nodeType' = "none" /\ pc' = "Returned"
  BY DEF CloseBracket, Goto, Done, HashOrAfterColon, HashOrValue
<1>2. remainder' \in Seq(STRING)
  BY <1>1, RestType DEF TextsOK
<1>3. Len(heap) \in Nat
  BY DEF TreeOK, HeapOK
<1>4. cur' # nil => CurOK'
  BY <1>1, ParentType DEF CurOK, HashOrValue
<1>5. nodeType' \in Containers \cup {"none"} /\ cur' \in 0 .. Len(heap)
  BY <1>1, <1>3, <1>4 DEF CurOK, nil
<1>6. TreeOK'
  BY <1>1, <1>5 DEF TreeOK
<1> QED
  BY <1>1, <1>2, <1>4, <1>6

-----------------------------------------------------------------------------
(* The other actions preserve the invariant.                               *)

LEMMA UnknownRootStep ==
  ASSUME IInv, UnknownRoot
  PROVE  IInv'
<1>1. /\ TextsOK /\ NumsOK /\ FlagsOK /\ TreeOK
      /\ UNCHANGED <<args, keyVars, numVars, strVars, outVars>>
      /\ pos' \in {pos + 0, pos + 1, pos + 2}
  BY DEF IInv, ScanOK, UnknownRoot, At, Goto, Done
<1>2. Let \in STRING
  BY <1>1, ByteType DEF UnknownRoot
<1>3. endc' \in STRING
  BY <1>1, <1>2 DEF UnknownRoot, TextsOK
<1>4. TextsOK'
  BY <1>1, <1>3 DEF TextsOK, args, keyVars, strVars, outVars
<1>5. NumsOK'
  BY <1>1 DEF NumsOK, keyVars, numVars, strVars
<1>6. FlagsOK'
  BY <1>1 DEF FlagsOK, args, numVars, outVars
<1>7. \/ /\ pc' \in {"Returned", "RootHashComment", "RootHashComment2", "UnknownRoot"}
         /\ UNCHANGED <<tree, root>>
      \/ /\ pc' \in {"Hash", "AfterColon", "QKeyName1", "KeyName1"}
         /\ \E node \in {NewJHash(nil), NewJArr(nil)} : NewRoot(node)
  BY DEF UnknownRoot, Done, Goto
<1>8. {"Returned", "RootHashComment", "RootHashComment2", "UnknownRoot"} \subseteq Plain \ InRoot
  BY DEF Plain, RootScan, InRoot, KeyScan, ValScan
<1>9. {"Hash", "AfterColon", "QKeyName1", "KeyName1"} \subseteq Plain \cap InRoot
  BY DEF Plain, InRoot, KeyScan, ValScan
<1>10. pc' \in Plain
  BY <1>7, <1>8, <1>9
<1>11. LabelOK' /\ SliceOK'
  BY <1>10, PlainSlices DEF LabelOK, Plain
<1>12. TreeOK' /\ (pc' \in InRoot => CurOK')
  <2>1. CASE UNCHANGED <<tree, root>> /\ pc' \notin InRoot
    BY <1>1, <2>1, TreeKept DEF outVars
  <2>2. CASE \E node \in {NewJHash(nil), NewJArr(nil)} : NewRoot(node)
    BY <1>1, <2>2, NewRootTree DEF outVars
  <2> QED
    BY <1>7, <1>8, <2>1, <2>2
<1> QED
  BY <1>4, <1>5, <1>6, <1>11, <1>12 DEF IInv, ScanOK

LEMMA HashStep ==
  ASSUME IInv, Hash
  PROVE  IInv'
<1>1. /\ TextsOK /\ NumsOK /\ FlagsOK /\ TreeOK /\ CurOK
      /\ UNCHANGED <<args, keyVars, numVars, strVars, root>>
  BY Labels DEF IInv, ScanOK, Hash, At
<1>2. Let \in STRING
  BY <1>1, ByteType DEF Hash
<1>3. endc' \in STRING
  BY <1>1, <1>2 DEF Hash, TextsOK
<1>4. \/ Ascend \/ EndRoot
      \/ /\ UNCHANGED <<tree, outVars>> /\ pos' \in {pos + 0, pos + 1, pos + 2}
         /\ pc' \in {"QKeyName1", "KeyName1", "HashComment", "HashComment2", "Hash"}
  BY DEF Hash, Goto
<1>5. {"QKeyName1", "KeyName1", "HashComment", "HashComment2", "Hash"} \subseteq Plain \cap InRoot
  BY DEF Plain, InRoot, KeyScan, ValScan
<1>6. {"UnknownRoot", "Returned"} \subseteq Plain \ InRoot
  BY DEF Plain, RootScan, InRoot, KeyScan, ValScan
<1>7. /\ TreeOK' /\ (pc' \in InRoot => CurOK') /\ pc' \in Plain
      /\ pos' \in {pos + 0, pos + 1, pos + 2}
      /\ remainder' \in Seq(STRING) /\ err' = err
  <2>1. CASE Ascend
    <3>1. remainder' = remainder /\ err' = err
      BY <2>1 DEF Ascend, outVars
    <3> QED
      BY <1>1, <2>1, <3>1, AscendTree, HashOrValueLabels DEF TextsOK
  <2>2. CASE EndRoot
    BY <1>1, <1>6, <2>2, EndRootTree
  <2>3. CASE /\ UNCHANGED <<tree, outVars>> /\ pos' \in {pos + 0, pos + 1, pos + 2}
             /\ pc' \in {"QKeyName1", "KeyName1", "HashComment", "HashComment2", "Hash"}
    <3>1. pc \in InRoot
      BY Labels DEF Hash, At
    <3>2. TreeOK' /\ CurOK'
      BY <1>1, <2>3, <3>1, TreeKept DEF outVars
    <3> QED
      BY <1>1, <1>5, <2>3, <3>2 DEF TextsOK, outVars
  <2> QED
    BY <1>4, <2>1, <2>2, <2>3
<1>8. TextsOK'
  BY <1>1, <1>3, <1>7 DEF TextsOK, args, keyVars, strVars
<1>9. NumsOK'
  BY <1>1, <1>7 DEF NumsOK, keyVars, numVars, strVars
<1>10. FlagsOK'
  BY <1>1, <1>7 DEF FlagsOK, args, numVars
<1>11. LabelOK' /\ SliceOK'
  BY <1>7, PlainSlices DEF LabelOK, Plain
<1> QED
  BY <1>7, <1>8, <1>9, <1>10, <1>11 DEF IInv, ScanOK

LEMMA KeyNameStep ==
  ASSUME IInv, QKeyNameX \/ KeyNameX
  PROVE  IInv'
<1>1. /\ TextsOK /\ NumsOK /\ FlagsOK /\ SliceOK
      /\ pos' = pos + 1 /\ pc \in {"QKeyNameX", "KeyNameX"}
      /\ pc' \in {"QKeyNameX", "KeyNameX", "Colon", "AfterColon"}
      /\ UNCHANGED <<args, keyStart, numVars, endc, strVars, tree, root, outVars>>
  BY DEF IInv, ScanOK, QKeyNameX, KeyNameX, At, Goto
<1>2. key' = key \/ key' = Since(keyStart)
  BY DEF QKeyNameX, KeyNameX
<1>3. Since(keyStart) \in Seq(STRING)
  BY <1>1, SinceType DEF QKeyNameX, KeyNameX, NumsOK
<1>4. TextsOK'
  BY <1>1, <1>2, <1>3 DEF TextsOK, args, strVars, outVars
<1>5. NumsOK'
  BY <1>1 DEF NumsOK, numVars, strVars
<1>6. FlagsOK'
  BY <1>1 DEF FlagsOK, args, numVars, outVars
<1>7. LabelOK' /\ pc \in InRoot
  BY <1>1 DEF LabelOK, InRoot, KeyScan, ValScan
<1>8. SliceOK'
  BY <1>1 DEF SliceOK, SlicesInBounds, NumsOK
<1> QED
  BY <1>1, <1>4, <1>5, <1>6, <1>7, <1>8, TreeKept DEF IInv, ScanOK, outVars

(* A value begins.                                                         *)
LEMMA StartValueStep ==
  ASSUME IInv, At("AfterColon"), StartValue,
         UNCHANGED <<strStart, tree, outVars, keyVars, strVars, root>>
  PROVE  IInv'
<1>1. /\ TextsOK /\ NumsOK /\ FlagsOK /\ pc = "AfterColon"
      /\ UNCHANGED <<args, strStart, keyVars, strVars, tree, root, outVars>>
      /\ pos' \in {pos + 1, pos + 2} /\ neg' \in {neg, TRUE, FALSE}
      /\ typeStart' \in {typeStart, pos}
      /\ pc' \in {"String1", "TypeX", "Number1", "AC_Comment", "AC_Comment2", "AfterColon"}
      /\ pc' = "TypeX" => typeStart' = pos
  BY DEF IInv, ScanOK, At, StartValue, Goto
<1>2. Let \in STRING
  BY <1>1, ByteType
<1>3. TextsOK'
  BY <1>1, <1>2 DEF TextsOK, StartValue, args, keyVars, strVars, outVars
<1>4. NumsOK'
  BY <1>1 DEF NumsOK, keyVars, strVars
<1>5. FlagsOK'
  BY <1>1 DEF FlagsOK, args, outVars
<1>6. LabelOK' /\ pc \in InRoot
  BY <1>1 DEF LabelOK, InRoot, KeyScan, ValScan
<1>7. SliceOK'
  BY <1>1 DEF SliceOK, SlicesInBounds, NumsOK
<1> QED
  BY <1>1, <1>3, <1>4, <1>5, <1>6, <1>7, TreeKept DEF IInv, ScanOK, outVars

LEMMA AfterColonStep ==
  ASSUME IInv, AfterColon
  PROVE  IInv'
<1>1. /\ TextsOK /\ NumsOK /\ FlagsOK /\ TreeOK /\ CurOK
      /\ UNCHANGED <<args, keyVars, strVars, root>> /\ At("AfterColon")
  BY Labels DEF IInv, ScanOK, AfterColon, At
<1>2. CASE StartValue /\ UNCHANGED <<strStart, tree, outVars>>
  BY <1>1, <1>2, StartValueStep
<1>3. CASE /\ UNCHANGED <<numVars, endc>>
           /\ \/ Descend(NewJHash(cur), "Hash") /\ UNCHANGED outVars
              \/ Descend(NewJArr(cur), "AfterColon") /\ UNCHANGED outVars
              \/ CloseBracket
  <2>1. "Returned" \in Plain \ InRoot
    BY DEF Plain, InRoot, KeyScan, ValScan
  <2>2. /\ TreeOK' /\ (pc' \in InRoot => CurOK') /\ pc' \in Plain /\ pos' = pos + 1
        /\ remainder' \in Seq(STRING) /\ err' = err
    <3>1. CASE CloseBracket
      BY <1>1, <3>1, <2>1, CloseBracketTree, HashOrValueLabels
    <3>2. CASE /\ UNCHANGED outVars
               /\ \E node \in {NewJHash(cur), NewJArr(cur)}, label \in HashOrValue : Descend(node, label)
      <4>1. key \in Seq(STRING) /\ remainder \in Seq(STRING)
        BY <1>1 DEF TextsOK
      <4> QED
        BY <1>1, <3>2, <4>1, DescendTree, HashOrValueLabels DEF outVars
    <3> QED
      BY <1>3, <3>1, <3>2 DEF HashOrValue
  <2>3. TextsOK'
    BY <1>1, <1>3, <2>2 DEF TextsOK, args, keyVars, strVars
  <2>4. NumsOK'
    BY <1>1, <1>3, <2>2 DEF NumsOK, keyVars, numVars, strVars
  <2>5. FlagsOK'
    BY <1>1, <1>3, <2>2 DEF FlagsOK, args, numVars
  <2>6. LabelOK' /\ SliceOK'
    BY <2>2, PlainSlices DEF LabelOK, Plain
  <2> QED
    BY <2>2, <2>3, <2>4, <2>5, <2>6 DEF IInv, ScanOK
<1> QED
  BY <1>2, <1>3 DEF AfterColon

(* A value ends.                                                           *)
LEMMA StoreStep ==
  ASSUME IInv, pc \in InRoot, NEW t \in NodeTypes, NEW text \in Seq(STRING), NEW n \in {0, 1},
         Store(NewJVal(t, text), n), UNCHANGED <<root, chunks>>, TextsOK', NumsOK', FlagsOK'
  PROVE  IInv'
<1>1. TreeOK /\ CurOK /\ key \in Seq(STRING)
  BY DEF IInv, ScanOK, TextsOK
<1>2. PICK node : node = NewJVal(t, text)
  OBVIOUS
<1>3. Fits(heap, node)
  BY <1>1, <1>2, LeafFits DEF TreeOK
<1>4. TreeOK' /\ CurOK' /\ pc' \in HashOrValue
  BY <1>1, <1>2, <1>3, StoreTree
<1>5. LabelOK' /\ SliceOK'
  BY <1>4, HashOrValueLabels, PlainSlices DEF LabelOK, Plain
<1> QED
  BY <1>4, <1>5 DEF IInv, ScanOK

(* Words. *)
LEMMA TypeXStep ==
  ASSUME IInv, TypeX
  PROVE  IInv'
<1>1. /\ TextsOK /\ NumsOK /\ FlagsOK /\ SliceOK /\ At("TypeX") /\ pc = "TypeX" /\ pc \in InRoot
      /\ UNCHANGED <<args, keyVars, numVars, endc, strVars, root, chunks, remainder>>
  BY Labels DEF IInv, ScanOK, TypeX, At
<1>2. TextsOK'
  BY <1>1 DEF TextsOK, args, keyVars, strVars
<1>3. CASE Goto("TypeX", 1) /\ UNCHANGED <<tree, err>>
  <2>1. NumsOK'
    BY <1>1, <1>3 DEF NumsOK, keyVars, numVars, strVars, Goto
  <2>2. FlagsOK'
    BY <1>1, <1>3 DEF FlagsOK, args, numVars
  <2>3. LabelOK' /\ SliceOK'
    BY <1>1, <1>3 DEF SliceOK, SlicesInBounds, NumsOK, LabelOK, Goto, numVars
  <2> QED
    BY <1>1, <1>2, <1>3, <2>1, <2>2, <2>3, TreeKept DEF IInv, ScanOK
<1>4. CASE err' = "unknown type" /\ Goto("Returned", 0) /\ UNCHANGED tree
  <2>0. pos' = pos + 0
    BY <1>4 DEF Goto
  <2>1. NumsOK'
    BY <1>1, <2>0 DEF NumsOK, keyVars, numVars, strVars
  <2>2. FlagsOK'
    BY <1>1, <1>4 DEF FlagsOK, args, numVars
  <2>3. pc' \in Plain \ InRoot
    BY <1>4 DEF Goto, Plain, InRoot, KeyScan, ValScan
  <2>4. LabelOK' /\ SliceOK'
    BY <2>3, PlainSlices DEF LabelOK, Plain
  <2> QED
    BY <1>1, <1>2, <1>4, <2>1, <2>2, <2>3, <2>4, TreeKept DEF IInv, ScanOK
<1>5. CASE /\ Since(typeStart) \in DOMAIN Handlers
           /\ Store(NewJVal(Handlers[Since(typeStart)], <<>>), 0) /\ UNCHANGED err
  <2>1. PICK t : t = Handlers[Since(typeStart)]
    OBVIOUS
  <2>2. t \in NodeTypes /\ <<>> \in Seq(STRING)
    BY <1>5, <2>1, GoAssumption DEF NodeTypes
  <2>3. NumsOK'
    BY <1>1, <1>5 DEF NumsOK, keyVars, numVars, strVars, Store, Goto
  <2>4. FlagsOK'
    BY <1>1, <1>5 DEF FlagsOK, args, numVars
  <2> QED
    BY <1>1, <1>2, <1>5, <2>1, <2>2, <2>3, <2>4, StoreStep
<1> QED
  BY <1>3, <1>4, <1>5 DEF TypeX

(* Numbers. *)
LEMMA Number1Step ==
  ASSUME IInv, Number1
  PROVE  IInv'
<1>1. /\ TextsOK /\ NumsOK /\ FlagsOK /\ SliceOK /\ pc = "Number1" /\ pc \in InRoot
      /\ strStart' = pos - 1 /\ pos' = pos + 0 /\ pc' = "NumberX"
      /\ UNCHANGED <<args, keyVars, typeStart, neg, endc, strVars, tree, root, outVars>>
  BY Labels DEF IInv, ScanOK, Number1, Goto
<1>2. TextsOK'
  BY <1>1 DEF TextsOK, args, keyVars, strVars, outVars
<1>3. NumsOK'
  BY <1>1 DEF NumsOK, keyVars, strVars
<1>4. FlagsOK'
  BY <1>1 DEF FlagsOK, args, outVars
<1>5. LabelOK'
  BY <1>1, Labels DEF LabelOK
<1>6. SliceOK'
  BY <1>1 DEF SliceOK, SlicesInBounds, NumsOK
<1> QED
  BY <1>1, <1>2, <1>3, <1>4, <1>5, <1>6, TreeKept DEF IInv, ScanOK, outVars

LEMMA NumberStep ==
  ASSUME IInv, NumberX \/ AfterDot
  PROVE  IInv'
<1>1. /\ TextsOK /\ NumsOK /\ FlagsOK /\ SliceOK /\ pc \in {"NumberX", "AfterDot"} /\ pc \in InRoot
      /\ UNCHANGED <<args, keyVars, numVars, endc, strVars, root, outVars>>
  BY Labels DEF IInv, ScanOK, NumberX, AfterDot, At
<1>2. TextsOK'
  BY <1>1 DEF TextsOK, args, keyVars, strVars, outVars
<1>3. FlagsOK'
  BY <1>1 DEF FlagsOK, args, numVars, outVars
<1>4. CASE pc' \in {"NumberX", "AfterDot"} /\ pos' = pos + 1 /\ UNCHANGED tree
  <2>1. NumsOK'
    BY <1>1, <1>4 DEF NumsOK, keyVars, numVars, strVars
  <2>2. LabelOK'
    BY <1>4, Labels DEF LabelOK
  <2>3. SliceOK'
    BY <1>1, <1>4 DEF SliceOK, SlicesInBounds, NumsOK, numVars
  <2> QED
    BY <1>1, <1>2, <1>3, <1>4, <2>1, <2>2, <2>3, TreeKept DEF IInv, ScanOK, outVars
<1>5. CASE \E t \in {"pos", "neg", "float_pos", "float_neg"} : Store(NewJVal(t, Since(strStart)), 0)
  <2>1. strStart \in Nat
    BY <1>1 DEF SliceOK, SlicesInBounds, NumsOK
  <2>2. Since(strStart) \in Seq(STRING)
    BY <1>1, <2>1, SinceType DEF NumberX, AfterDot
  <2>3. NumsOK'
    BY <1>1, <1>5 DEF NumsOK, keyVars, numVars, strVars, Store, Goto
  <2>4. {"pos", "neg", "float_pos", "float_neg"} \subseteq NodeTypes
    BY DEF NodeTypes
  <2> QED
    BY <1>1, <1>2, <1>3, <1>5, <2>2, <2>3, <2>4, StoreStep DEF outVars
<1> QED
  BY <1>4, <1>5 DEF NumberX, AfterDot, Goto

(* Strings. *)
LEMMA String1Step ==
  ASSUME IInv, String1
  PROVE  IInv'
<1>1. /\ TextsOK /\ NumsOK /\ FlagsOK /\ pc = "String1" /\ pc \in InRoot
      /\ str' = <<>> /\ substrStart' = pos /\ strStart' \in {strStart, pos}
      /\ UNCHANGED <<args, keyVars, typeStart, neg, endc, root, outVars>>
  BY Labels DEF IInv, ScanOK, String1, At
<1>2. TextsOK'
  BY <1>1 DEF TextsOK, args, keyVars, outVars
<1>3. FlagsOK'
  BY <1>1 DEF FlagsOK, args, outVars
<1>4. CASE pc' \in {"StringX", "Escape"} /\ pos' = pos + 1 /\ UNCHANGED tree
  <2>1. NumsOK'
    BY <1>1, <1>4 DEF NumsOK, keyVars
  <2>2. LabelOK'
    BY <1>4, Labels DEF LabelOK
  <2>3. SliceOK'
    BY <1>1, <1>4 DEF SliceOK, SlicesInBounds, NumsOK
  <2> QED
    BY <1>1, <1>2, <1>3, <1>4, <2>1, <2>2, <2>3, TreeKept DEF IInv, ScanOK, outVars
<1>5. CASE Store(NewJVal("str", <<>>), 1)
  <2>1. NumsOK'
    BY <1>1, <1>5 DEF NumsOK, keyVars, Store, Goto
  <2>2. "str" \in NodeTypes /\ <<>> \in Seq(STRING)
    BY DEF NodeTypes
  <2> QED
    BY <1>1, <1>2, <1>3, <1>5, <2>1, <2>2, StoreStep DEF outVars
<1> QED
  BY <1>4, <1>5 DEF String1, Goto

LEMMA StringXStep ==
  ASSUME IInv, StringX
  PROVE  IInv'
<1>1. /\ TextsOK /\ NumsOK /\ FlagsOK /\ SliceOK /\ pc = "StringX" /\ pc \in InRoot
      /\ UNCHANGED <<args, keyVars, numVars, endc, substrStart, root, outVars>>
  BY Labels DEF IInv, ScanOK, StringX, At
<1>2. Since(substrStart) \in Seq(STRING)
  BY <1>1, SinceType DEF StringX, NumsOK
<1>3. str' = str \/ str' = str \o Since(substrStart)
  BY DEF StringX
<1>4. TextsOK'
  <2>0. str \in Seq(STRING)
    BY <1>1 DEF TextsOK
  <2>1. str' \in Seq(STRING)
    BY <1>2, <1>3, <2>0, ConcatProperties
  <2> QED
    BY <1>1, <2>1 DEF TextsOK, args, keyVars, outVars
<1>5. FlagsOK'
  BY <1>1 DEF FlagsOK, args, numVars, outVars
<1>6. CASE pc' \in {"StringX", "Escape"} /\ pos' = pos + 1 /\ UNCHANGED tree
  <2>1. NumsOK'
    BY <1>1, <1>6 DEF NumsOK, keyVars, numVars
  <2>2. LabelOK'
    BY <1>6, Labels DEF LabelOK
  <2>3. SliceOK'
    BY <1>1, <1>6 DEF SliceOK, SlicesInBounds, NumsOK
  <2> QED
    BY <1>1, <1>4, <1>5, <1>6, <2>1, <2>2, <2>3, TreeKept DEF IInv, ScanOK, outVars
<1>7. CASE Store(NewJVal("str", str'), 1)
  <2>1. NumsOK'
    BY <1>1, <1>7 DEF NumsOK, keyVars, numVars, Store, Goto
  <2>2. "str" \in NodeTypes /\ str' \in Seq(STRING)
    BY <1>4 DEF NodeTypes, TextsOK
  <2> QED
    BY <1>1, <1>4, <1>5, <1>7, <2>1, <2>2, StoreStep DEF outVars
<1> QED
  BY <1>6, <1>7 DEF StringX, Goto

LEMMA EscapeStep ==
  ASSUME IInv, Escape
  PROVE  IInv'
<1>1. /\ TextsOK /\ NumsOK /\ FlagsOK /\ SliceOK /\ pc = "Escape" /\ pc \in InRoot
      /\ pc' = "StringX" /\ pos' = pos + 1 /\ substrStart' \in {substrStart, pos + 1}
      /\ UNCHANGED <<args, keyVars, numVars, endc, tree, root, outVars>>
  BY Labels DEF IInv, ScanOK, Escape, At, Goto
<1>2. Since(substrStart) \in Seq(STRING)
  BY <1>1, SinceType DEF Escape, NumsOK
<1>3. SubSeq(data, substrStart + 1, pos - 1) \in Seq(STRING)
  <2>1. /\ data \in Seq(STRING) /\ Len(data) \in Nat /\ pos - 1 \in Nat /\ pos - 1 <= Len(data)
        /\ substrStart \in Nat
    BY <1>1 DEF TextsOK, NumsOK, SliceOK, SlicesInBounds, Escape, At, size
  <2> QED
    BY <2>1, SliceType
<1>4. \/ str' = str
      \/ str' = str \o SubSeq(data, substrStart + 1, pos - 1) \o <<endc>>
      \/ str' = str \o Since(substrStart) \o <<"\\">>
  BY DEF Escape
<1>5. str' \in Seq(STRING)
  <2>a. str \in Seq(STRING) /\ endc \in STRING
    BY <1>1 DEF TextsOK
  <2>b. <<endc>> \in Seq(STRING)
    BY <2>a, Single
  <2>c. <<"\\">> \in Seq(STRING)
    BY Literals, Single
  <2>1. str \in Seq(STRING) /\ <<endc>> \in Seq(STRING) /\ <<"\\">> \in Seq(STRING)
    BY <2>a, <2>b, <2>c
  <2>2. /\ str \o SubSeq(data, substrStart + 1, pos - 1) \in Seq(STRING)
        /\ str \o Since(substrStart) \in Seq(STRING)
    BY <1>2, <1>3, <2>1, ConcatProperties
  <2> QED
    BY <1>4, <2>1, <2>2, ConcatProperties
<1>6. TextsOK'
  BY <1>1, <1>5 DEF TextsOK, args, keyVars, outVars
<1>7. NumsOK'
  BY <1>1 DEF NumsOK, keyVars, numVars
<1>8. FlagsOK'
  BY <1>1 DEF FlagsOK, args, numVars, outVars
<1>9. LabelOK'
  BY <1>1, Labels DEF LabelOK
<1>10. SliceOK'
  BY <1>1 DEF SliceOK, SlicesInBounds, NumsOK
<1> QED
  BY <1>1, <1>6, <1>7, <1>8, <1>9, <1>10, TreeKept DEF IInv, ScanOK, outVars

-----------------------------------------------------------------------------
LEMMA InitHolds == Init => IInv
<1> SUFFICES ASSUME Init PROVE IInv
  OBVIOUS
<1>1. TextsOK
  <2>1. data \in Seq(STRING)
    BY GoAssumption DEF Init
  <2>2. key = <<>> /\ str = <<>> /\ remainder = <<>> /\ endc = "\""
    BY DEF Init
  <2>3. <<>> \in Seq(STRING)
    OBVIOUS
  <2>4. "\"" \in STRING
    BY Literals
  <2> QED
    BY <2>1, <2>2, <2>3, <2>4 DEF TextsOK
<1>2. NumsOK
  <2>1. pos = 0 /\ keyStart = 0 /\ typeStart = 0 /\ substrStart = 0 /\ strStart = 0
    BY DEF Init
  <2> QED
    BY <2>1 DEF NumsOK
<1>3. FlagsOK
  BY GoAssumption DEF Init, FlagsOK
<1>4. LabelOK /\ SliceOK /\ pc \notin InRoot
  BY DEF Init, LabelOK, SliceOK, SlicesInBounds, RootScan, InRoot, KeyScan, ValScan
<1>5. TreeOK
  <2>1. cur = 0 /\ root = 0 /\ nodeType = "none" /\ heap = <<>> /\ chunks = <<>>
    BY DEF Init, nil
  <2> QED
    BY <2>1 DEF TreeOK, HeapOK
<1> QED
  BY <1>1, <1>2, <1>3, <1>4, <1>5 DEF IInv, ScanOK

LEMMA StutterHolds ==
  ASSUME IInv, UNCHANGED vars
  PROVE  IInv'
<1>1. /\ UNCHANGED <<pc, pos>> /\ UNCHANGED frame
  BY DEF vars, frame
<1>2. ScanOK'
  BY <1>1 DEF IInv, ScanOK, TextsOK, NumsOK, FlagsOK, LabelOK, frame, args, keyVars, numVars,
              strVars, outVars
<1>3. SliceOK'
  BY <1>1 DEF IInv, SliceOK, SlicesInBounds, frame, keyVars, numVars, strVars
<1> QED
  BY <1>1, <1>2, <1>3, TreeKept DEF IInv, frame, outVars

LEMMA NextHolds == IInv /\ [Next]_vars => IInv'
<1> SUFFICES ASSUME IInv, [Next]_vars PROVE IInv'
  OBVIOUS
<1>1. CASE UNCHANGED vars
  BY <1>1, StutterHolds
<1>2. CASE Step
  BY <1>2, OverrunStep, OverEndStep, UnknownRootStep, HashStep, CommentSteps, FirstOfKeyStep,
     KeyNameStep, ColonStep, AfterColonStep, TypeXStep, Number1Step, NumberStep, String1Step,
     StringXStep, EscapeStep DEF Step
<1> QED
  BY <1>1, <1>2 DEF Next, Stopped

LEMMA Invariance == Spec => []IInv
<1> QED
  BY InitHolds, NextHolds, PTL DEF Spec

LEMMA InvType == IInv => TypeOK
<1> SUFFICES ASSUME IInv PROVE TypeOK
  OBVIOUS
<1>1. TextsOK /\ NumsOK /\ FlagsOK /\ LabelOK /\ TreeOK /\ heap \in Seq(GoNode)
  BY DEF IInv, ScanOK, TreeOK, HeapOK
<1>2. ASSUME NEW n \in Nodes
      PROVE  /\ heap[n].type \in NodeTypes
             /\ heap[n].parent \in 0 .. n - 1
             /\ heap[n].arr \in Seq(Nodes)
             /\ \A k \in DOMAIN heap[n].hash : heap[n].hash[k] \in Nodes
  <2>1. NodeOK(heap, n) /\ heap[n] \in GoNode
    BY <1>1 DEF TreeOK, HeapOK, Nodes
  <2>2. heap[n].type \in NodeTypes /\ heap[n].arr \in Seq(Nat)
    BY <2>1 DEF GoNode
  <2>3. PICK a : a = heap[n].arr
    OBVIOUS
  <2>4. a \in Seq(Nat) /\ \A i \in 1 .. Len(a) : a[i] \in Nodes
    BY <2>1, <2>2, <2>3 DEF NodeOK, Nodes
  <2>5. a \in Seq(Nodes)
    BY <2>4
  <2> QED
    BY <2>1, <2>2, <2>3, <2>5 DEF NodeOK, Nodes
<1>3. cur \in Nodes \cup {nil} /\ root \in Nodes \cup {nil} /\ nodeType \in Containers \cup {"none"}
  BY <1>1 DEF TreeOK, Nodes, nil
<1>4. chunks \in Seq(Nodes)
  BY <1>1 DEF TreeOK, Nodes
<1>5. /\ pos \in Nat /\ keyStart \in Nat /\ typeStart \in Nat /\ strStart \in Int
      /\ substrStart \in Nat
  BY <1>1 DEF NumsOK
<1> QED
  BY <1>1, <1>2, <1>3, <1>4, <1>5 DEF TypeOK, TextsOK, FlagsOK, LabelOK

(* GoParse keeps its types, on every data: every pointer of the tree leads  *)
(* to an allocated node and every parent is older than its child.          *)
THEOREM GoTypeCorrect == Spec => []TypeOK
BY Invariance, InvType, PTL

(* The copy of the container's type that HashOrAfterColon reads is never    *)
(* stale, however hashes and arrays are nested and closed.                 *)
THEOREM CopyIsFresh == Spec => []NodeTypeIsCurs
<1>1. IInv => NodeTypeIsCurs
  BY DEF IInv, CurOK, NodeTypeIsCurs, nil
<1> QED
  BY Invariance, <1>1, PTL

(* No slice begins behind the byte being read: no label panics.            *)
THEOREM GoSlicesCorrect == Spec => []SlicesInBounds
<1>1. IInv => SlicesInBounds
  BY DEF IInv, SliceOK
<1> QED
  BY Invariance, <1>1, PTL

-----------------------------------------------------------------------------
(* The open containers.                                                    *)

(* S holds the containers from r down to c: each is in the one above it.   *)
Chain(h, S, r, c) ==
  /\ r # nil /\ S \subseteq r .. c /\ r \in S /\ c \in S
  /\ h[r].parent = nil
  /\ \A n \in S \ {r} : h[n].parent \in S /\ IsChild(h, n, h[n].parent)

Chained(h, r, c) == \E S : Chain(h, S, r, c)

PathOK == pc \in InRoot => Chained(heap, root, cur)

(* What a step does to the tree.                                           *)
KeepsTree == UNCHANGED <<tree, root>>
StoresLeaf ==
  \E node : Under(heap, cur, node, heap') /\ cur' = cur /\ root' = root
OpensContainer ==
  /\ \E node : Under(heap, cur, node, heap') /\ node.parent = cur
  /\ cur' = Len(heap) + 1 /\ root' = root
LeavesContainer ==
  heap' = heap /\ cur' = heap[cur].parent /\ heap[cur].parent # nil /\ root' = root
OpensRoot == root' = cur' /\ heap'[cur'].parent = nil /\ cur' \in Nat

TreeStep ==
  \/ pc' \notin InRoot
  \/ pc \in InRoot /\ (KeepsTree \/ StoresLeaf \/ OpensContainer \/ LeavesContainer)
  \/ OpensRoot

(* The value stored last leaves the chain as it was.                       *)
LEMMA StoreChain ==
  ASSUME TreeOK, CurOK, Chained(heap, root, cur), StoresLeaf
  PROVE  Chained(heap', root', cur')
<1>1. PICK node : Under(heap, cur, node, heap') /\ cur' = cur /\ root' = root
  BY DEF StoresLeaf
<1>2. PICK S : Chain(heap, S, root, cur)
  BY DEF Chained
<1>3. cur \in 1 .. Len(heap) /\ root \in Nat /\ Len(heap) \in Nat
  BY DEF TreeOK, CurOK, HeapOK
<1>4. /\ \A n \in 1 .. Len(heap) : heap'[n].parent = heap[n].parent
      /\ \A n \in 1 .. Len(heap) : n # cur => heap'[n] = heap[n]
  BY <1>1 DEF Under
<1>5. root # nil
  BY <1>2, <1>3 DEF Chain, nil
<1>5a. \A n \in S : n \in 1 .. Len(heap) /\ n <= cur /\ NodeOK(heap, n)
  <2>1. S \subseteq root .. cur
    BY <1>2 DEF Chain
  <2>2. root >= 1
    BY <1>3, <1>5 DEF nil
  <2>3. \A n \in S : n \in 1 .. Len(heap) /\ n <= cur
    BY <1>3, <2>1, <2>2
  <2> QED
    BY <2>3 DEF TreeOK, HeapOK
<1>6. ASSUME NEW n \in S \ {root}
      PROVE  heap'[n].parent \in S /\ IsChild(heap', n, heap'[n].parent)
  <2> DEFINE p == heap[n].parent
  <2>1. p \in S /\ IsChild(heap, n, p)
    BY <1>2 DEF Chain
  <2>2. p # cur /\ p \in 1 .. Len(heap)
    BY <1>3, <1>5a, <2>1 DEF NodeOK
  <2>3. heap'[n].parent = p /\ heap'[p] = heap[p]
    BY <1>4, <1>5a, <2>2
  <2> QED
    BY <2>1, <2>3 DEF IsChild
<1>7. heap'[root].parent = nil
  BY <1>2, <1>4, <1>5a DEF Chain
<1>8. Chain(heap', S, root', cur')
  BY <1>1, <1>2, <1>6, <1>7 DEF Chain
<1> QED
  BY <1>8 DEF Chained

LEMMA OpenChain ==
  ASSUME TreeOK, CurOK, Chained(heap, root, cur), OpensContainer
  PROVE  Chained(heap', root', cur')
<1>1. PICK node : Under(heap, cur, node, heap') /\ node.parent = cur
  BY DEF OpensContainer
<1>2. PICK S : Chain(heap, S, root, cur)
  BY DEF Chained
<1>3. /\ cur \in 1 .. Len(heap) /\ root \in Nat /\ Len(heap) \in Nat
      /\ cur' = Len(heap) + 1 /\ root' = root
  BY DEF TreeOK, CurOK, HeapOK, OpensContainer
<1>4. /\ \A n \in 1 .. Len(heap) : heap'[n].parent = heap[n].parent
      /\ \A n \in 1 .. Len(heap) : n # cur => heap'[n] = heap[n]
      /\ heap'[cur'].parent = cur /\ IsChild(heap', cur', cur)
  BY <1>1, <1>3 DEF Under
<1>5. \A n \in S : n \in 1 .. Len(heap) /\ n <= cur /\ NodeOK(heap, n)
  <2>1. S \subseteq root .. cur /\ root # nil
    BY <1>2 DEF Chain
  <2>2. root >= 1
    BY <1>3, <2>1 DEF nil
  <2>3. \A n \in S : n \in 1 .. Len(heap) /\ n <= cur
    BY <1>3, <2>1, <2>2
  <2> QED
    BY <2>3 DEF TreeOK, HeapOK
<1>6. ASSUME NEW n \in S \ {root}
      PROVE  heap'[n].parent \in S /\ IsChild(heap', n, heap'[n].parent)
  <2> DEFINE p == heap[n].parent
  <2>1. p \in S /\ IsChild(heap, n, p)
    BY <1>2 DEF Chain
  <2>2. p # cur /\ p \in 1 .. Len(heap)
    BY <1>3, <1>5, <2>1 DEF NodeOK
  <2>3. heap'[n].parent = p /\ heap'[p] = heap[p]
    BY <1>4, <1>5, <2>2
  <2> QED
    BY <2>1, <2>3 DEF IsChild
<1>7. heap'[root].parent = nil
  BY <1>2, <1>4, <1>5 DEF Chain
<1>8. PICK T : T = S \cup {cur'}
  OBVIOUS
<1>9. \A n \in T \ {root} : heap'[n].parent \in T /\ IsChild(heap', n, heap'[n].parent)
  BY <1>2, <1>4, <1>6, <1>8 DEF Chain
<1>10. T \subseteq root' .. cur' /\ root' \in T /\ cur' \in T /\ root' # nil
  <2>1. root # nil /\ root \in S /\ \A n \in S : n \in root .. cur
    BY <1>2 DEF Chain
  <2>2. \A n \in T : n \in root' .. cur'
    BY <1>3, <1>8, <2>1
  <2> QED
    BY <1>3, <1>8, <2>1, <2>2
<1>11. Chain(heap', T, root', cur')
  BY <1>3, <1>7, <1>9, <1>10 DEF Chain
<1> QED
  BY <1>11 DEF Chained

LEMMA LeaveChain ==
  ASSUME TreeOK, CurOK, Chained(heap, root, cur), LeavesContainer
  PROVE  Chained(heap', root', cur')
<1>1. /\ cur' = heap[cur].parent /\ heap[cur].parent # nil /\ root' = root /\ heap' = heap
      /\ cur \in 1 .. Len(heap) /\ root \in Nat /\ Len(heap) \in Nat
  BY DEF LeavesContainer, TreeOK, CurOK, HeapOK
<1>2. PICK S : Chain(heap, S, root, cur)
  BY DEF Chained
<1>3. \A n \in S : n \in 1 .. Len(heap) /\ n <= cur /\ NodeOK(heap, n)
  <2>1. S \subseteq root .. cur /\ root # nil
    BY <1>2 DEF Chain
  <2>2. root >= 1
    BY <1>1, <2>1 DEF nil
  <2>3. \A n \in S : n \in 1 .. Len(heap) /\ n <= cur
    BY <1>1, <2>1, <2>2
  <2> QED
    BY <2>3 DEF TreeOK, HeapOK
<1>4. cur' \in S
  BY <1>1, <1>2 DEF Chain
<1>5. PICK T : T = {n \in S : n <= cur'}
  OBVIOUS
<1>6. ASSUME NEW n \in T \ {root}
      PROVE  heap[n].parent \in T /\ IsChild(heap, n, heap[n].parent)
  <2>1. heap[n].parent \in S /\ IsChild(heap, n, heap[n].parent) /\ n <= cur' /\ n \in S
    BY <1>2, <1>5 DEF Chain
  <2>2. heap[n].parent <= cur'
    BY <1>1, <1>3, <1>4, <2>1 DEF NodeOK
  <2> QED
    BY <1>5, <2>1, <2>2
<1>7. T \subseteq root' .. cur' /\ root' \in T /\ cur' \in T /\ root' # nil
  <2>1. root # nil /\ root \in S /\ \A n \in S : n \in root .. cur
    BY <1>2 DEF Chain
  <2>2. cur' \in Nat /\ root <= cur'
    BY <1>1, <1>3, <1>4, <2>1
  <2>4. root \in T /\ cur' \in T
    BY <1>4, <1>5, <2>1, <2>2
  <2>3. \A n \in T : n \in root' .. cur'
    BY <1>1, <1>5, <2>1, <2>2
  <2> QED
    BY <1>1, <2>1, <2>3, <2>4
<1>8. Chain(heap', T, root', cur')
  BY <1>1, <1>2, <1>6, <1>7 DEF Chain
<1> QED
  BY <1>8 DEF Chained

LEMMA RootChain ==
  ASSUME OpensRoot, cur' # nil
  PROVE  Chained(heap', root', cur')
<1>1. Chain(heap', {cur'}, root', cur')
  BY DEF OpensRoot, Chain
<1> QED
  BY <1>1 DEF Chained

LEMMA ChainStep ==
  ASSUME IInv, PathOK, TreeStep, CurOK' \/ pc' \notin InRoot
  PROVE  PathOK'
<1> SUFFICES ASSUME pc' \in InRoot PROVE Chained(heap', root', cur')
  BY DEF PathOK
<1>1. CASE OpensRoot
  BY <1>1, RootChain DEF CurOK, nil
<1>2. CASE pc \in InRoot
  <2>1. TreeOK /\ CurOK /\ Chained(heap, root, cur)
    BY <1>2 DEF IInv, PathOK
  <2>2. CASE KeepsTree
    BY <2>1, <2>2 DEF KeepsTree, tree, Chained, Chain
  <2> QED
    BY <1>1, <2>1, <2>2, StoreChain, OpenChain, LeaveChain DEF TreeStep
<1> QED
  BY <1>1, <1>2 DEF TreeStep

(* Every action does one of these to the tree.                             *)
LEMMA NextTree == IInv /\ IInv' /\ Next => TreeStep \/ UNCHANGED vars
<1> SUFFICES ASSUME IInv, IInv', Step PROVE TreeStep
  BY DEF Next, Stopped
<1>1. /\ pc \in InRoot => TreeOK /\ CurOK /\ key \in Seq(STRING)
      /\ TreeOK
  BY DEF IInv, ScanOK, TextsOK
<1>2. CASE OverrunAt \/ OverEnd
  <2>1. {"OverEnd", "Returned"} \cap InRoot = {}
    BY Labels
  <2> QED
    BY <1>2, <2>1 DEF TreeStep, OverrunAt, OverEnd, Goto
<1>3. CASE UnknownRoot
  <2>1. \/ pc' \in {"Returned", "RootHashComment", "RootHashComment2", "UnknownRoot"}
        \/ \E node \in {NewJHash(nil), NewJArr(nil)} : NewRoot(node) /\ UNCHANGED chunks
    BY <1>3 DEF UnknownRoot, Done, Goto, outVars
  <2>2. {"Returned", "RootHashComment", "RootHashComment2", "UnknownRoot"} \cap InRoot = {}
    BY DEF RootScan, InRoot, KeyScan, ValScan
  <2>3. CASE \E node \in {NewJHash(nil), NewJArr(nil)} : NewRoot(node) /\ UNCHANGED chunks
    BY <1>1, <2>3, NewRootTree DEF TreeStep, OpensRoot, CurOK
  <2> QED
    BY <2>1, <2>2, <2>3 DEF TreeStep
<1>4. CASE RootHashComment \/ RootHashComment2
  <2>1. pc' \in {"UnknownRoot", "RootHashComment", "RootHashComment2", "OverEnd"}
    BY <1>4 DEF RootHashComment, RootHashComment2, EolComment, StarComment, Goto
  <2>2. {"UnknownRoot", "RootHashComment", "RootHashComment2", "OverEnd"} \cap InRoot = {}
    BY DEF InRoot, KeyScan, ValScan
  <2> QED
    BY <2>1, <2>2 DEF TreeStep
<1>5. CASE Hash
  <2>1. pc = "Hash" /\ UNCHANGED root /\ (Ascend \/ EndRoot \/ UNCHANGED tree)
    BY <1>5 DEF Hash, At
  <2>2. CASE Ascend
    BY <2>1, <2>2, Labels DEF Ascend, TreeStep, LeavesContainer
  <2>3. CASE EndRoot
    <3>1. pc' \in {"UnknownRoot", "Returned"}
      BY <2>3 DEF EndRoot, Goto, Done
    <3> QED
      BY <3>1, Labels DEF TreeStep
  <2> QED
    BY <2>1, <2>2, <2>3, Labels DEF TreeStep, KeepsTree
<1>6. CASE HashComment \/ HashComment2 \/ AC_Comment \/ AC_Comment2
  BY <1>6, Labels DEF HashComment, HashComment2, AC_Comment, AC_Comment2, EolComment,
                      StarComment, At, TreeStep, KeepsTree
<1>7. CASE QKeyName1 \/ QKeyNameX \/ KeyName1 \/ KeyNameX \/ Colon \/ Number1 \/ Escape
  BY <1>7, Labels DEF QKeyName1, QKeyNameX, KeyName1, KeyNameX, Colon, Number1, Escape,
                      FirstOfKey, At, TreeStep, KeepsTree
<1>8. CASE AfterColon
  <2>1. /\ pc = "AfterColon" /\ pc \in InRoot /\ UNCHANGED root
        /\ \/ UNCHANGED tree
           \/ CloseBracket
           \/ /\ UNCHANGED outVars
              /\ \E node \in {NewJHash(cur), NewJArr(cur)}, label \in HashOrValue : Descend(node, label)
    BY <1>8, Labels DEF AfterColon, StartValue, At, HashOrValue
  <2>2. CASE CloseBracket
    <3>1. pc' = "Returned" \/ LeavesContainer
      BY <2>1, <2>2 DEF CloseBracket, LeavesContainer, Done, Goto
    <3> QED
      BY <2>1, <3>1, Labels DEF TreeStep
  <2>3. ASSUME NEW node \in {NewJHash(cur), NewJArr(cur)}, NEW label \in HashOrValue,
               Descend(node, label), UNCHANGED outVars
        PROVE  OpensContainer
    BY <1>1, <2>1, <2>3, DescendTree DEF OpensContainer, outVars
  <2> QED
    BY <2>1, <2>2, <2>3 DEF TreeStep, KeepsTree
<1>9. CASE TypeX \/ NumberX \/ AfterDot \/ String1 \/ StringX
  <2>1. pc \in InRoot /\ UNCHANGED <<root, chunks>>
    BY <1>9, Labels DEF TypeX, NumberX, AfterDot, String1, StringX, At, outVars
  <2>2. \/ UNCHANGED tree
        \/ \E t \in NodeTypes, text \in Seq(STRING), n \in {0, 1} : Store(NewJVal(t, text), n)
    <3>0. {"pos", "neg", "float_pos", "float_neg", "str"} \subseteq NodeTypes /\ <<>> \in Seq(STRING)
      BY DEF NodeTypes
    <3>1. CASE TypeX
      <4>1. \/ UNCHANGED tree
            \/ \E w \in DOMAIN Handlers : Store(NewJVal(Handlers[w], <<>>), 0)
        BY <3>1 DEF TypeX
      <4>2. \A w \in DOMAIN Handlers : Handlers[w] \in NodeTypes
        BY GoAssumption DEF NodeTypes
      <4> QED
        BY <3>0, <4>1, <4>2
    <3>2. CASE NumberX \/ AfterDot
      <4>1. Since(strStart) \in Seq(STRING)
        <5>1. TextsOK /\ NumsOK /\ strStart \in Nat
          BY <3>2 DEF IInv, ScanOK, NumsOK, SliceOK, SlicesInBounds, NumberX, AfterDot, At
        <5> QED
          BY <3>2, <5>1, SinceType DEF NumberX, AfterDot
      <4>2. \/ UNCHANGED tree
            \/ \E t \in {"pos", "neg", "float_pos", "float_neg", "str"} :
                  Store(NewJVal(t, Since(strStart)), 0)
        BY <3>2 DEF NumberX, AfterDot
      <4> QED
        BY <3>0, <4>1, <4>2
    <3>3. CASE String1
      <4>1. UNCHANGED tree \/ Store(NewJVal("str", <<>>), 1)
        BY <3>3 DEF String1
      <4> QED
        BY <3>0, <4>1
    <3>4. CASE StringX
      <4>1. UNCHANGED tree \/ Store(NewJVal("str", str'), 1)
        BY <3>4 DEF StringX
      <4>2. str' \in Seq(STRING)
        BY DEF IInv, ScanOK, TextsOK
      <4> QED
        BY <3>0, <4>1, <4>2
    <3> QED
      BY <1>9, <3>1, <3>2, <3>3, <3>4
  <2>3. ASSUME NEW t \in NodeTypes, NEW text \in Seq(STRING), NEW n \in {0, 1},
               Store(NewJVal(t, text), n)
        PROVE  StoresLeaf
    <3>1. PICK node : node = NewJVal(t, text)
      OBVIOUS
    <3>2. Fits(heap, node)
      BY <1>1, <3>1, LeafFits DEF TreeOK
    <3> QED
      BY <1>1, <2>1, <2>3, <3>1, <3>2, StoreTree DEF StoresLeaf
  <2> QED
    BY <2>1, <2>2, <2>3 DEF TreeStep, KeepsTree
<1> QED
  BY <1>2, <1>3, <1>4, <1>5, <1>6, <1>7, <1>8, <1>9 DEF Step

(* The walk up from cur passes the containers of the chain, down to root.  *)
LEMMA PathIsChain ==
  ASSUME TreeOK, CurOK, NEW S, Chain(heap, S, root, cur)
  PROVE  OpenPath \subseteq S /\ root \in OpenPath
<1>1. cur \in Nodes /\ root \in Nat /\ Len(heap) \in Nat /\ Nodes = 1 .. Len(heap)
  BY DEF TreeOK, CurOK, HeapOK, Nodes
<1> DEFINE N    == Nodes \cup {nil}
           rank == [n \in N |-> n]
           link == [n \in N |-> IF n = nil THEN {} ELSE {heap[n].parent}]
           base == [n \in N |-> IF n = nil THEN {} ELSE {n}]
           D(g) == [n \in N |-> IF n = nil THEN {} ELSE {n} \cup g[heap[n].parent]]
           U    == CHOOSE g : g = D(g)
<1>2. \A n \in Nodes : heap[n].parent \in N /\ heap[n].parent < n
  <2>1. \A n \in Nodes : NodeOK(heap, n)
    BY <1>1 DEF TreeOK, HeapOK
  <2> QED
    BY <1>1, <2>1 DEF NodeOK, nil
<1>3. Descends(N, rank, link)
  <2>1. \A n \in N : n \in Nat
    BY <1>1 DEF nil
  <2>2. link \in [N -> SUBSET N]
    BY <1>2
  <2> QED
    BY <1>2, <2>1, <2>2 DEF Descends
<1>4. \E g : g = D(g)
  <2>1. \A n \in N : rank[n] <= Len(heap)
    BY <1>1 DEF nil
  <2> HIDE DEF rank, link, base
  <2>2. PICK g : Walk(N, link, base, g)
    BY <1>1, <1>3, <2>1, WalkExists
  <2>3. g = [n \in N |-> base[n] \cup UNION {g[c] : c \in link[n]}]
    BY <2>2 DEF Walk
  <2>4. \A n \in N : base[n] \cup UNION {g[c] : c \in link[n]}
                       = IF n = nil THEN {} ELSE {n} \cup g[heap[n].parent]
    BY DEF base, link
  <2> HIDE DEF N
  <2>5. g = D(g)
    BY <2>3, <2>4
  <2> QED
    BY <2>5
<1>5. PICK g : g = D(g) /\ OpenPath = g[cur]
  <2>1. OpenPath = U[cur]
    BY DEF OpenPath
  <2> QED
    BY <1>4, <2>1
<1>6. g[nil] = {} /\ \A n \in Nodes : g[n] = {n} \cup g[heap[n].parent]
  <2>1. g = [n \in N |-> IF n = nil THEN {} ELSE {n} \cup g[heap[n].parent]]
    BY <1>5
  <2> HIDE DEF N
  <2>2. \A n \in N : g[n] = IF n = nil THEN {} ELSE {n} \cup g[heap[n].parent]
    BY <2>1
  <2>3. nil \in N /\ Nodes \subseteq N /\ \A n \in Nodes : n # nil
    BY <1>1 DEF N, nil
  <2> QED
    BY <2>2, <2>3
<1>7. /\ root # nil /\ \A n \in S : n \in Nodes
      /\ heap[root].parent = nil /\ \A n \in S \ {root} : heap[n].parent \in S
      /\ root \in S /\ cur \in S
  <2>1. root # nil /\ \A n \in S : n \in root .. cur
    BY DEF Chain
  <2> QED
    BY <1>1, <2>1 DEF Chain, nil
<1> DEFINE T == {n \in N : n \in S => g[n] \subseteq S /\ root \in g[n]}
<1>8. ASSUME NEW n \in N, \A c \in link[n] : c \in T
      PROVE  n \in T
  <2> SUFFICES ASSUME n \in S PROVE g[n] \subseteq S /\ root \in g[n]
    OBVIOUS
  <2>1. g[n] = {n} \cup g[heap[n].parent]
    BY <1>6, <1>7
  <2>2. CASE n = root
    BY <1>6, <1>7, <2>1, <2>2
  <2>3. CASE n # root
    <3>1. heap[n].parent \in S /\ heap[n].parent \in T
      BY <1>1, <1>7, <1>8, <2>3 DEF nil
    <3> QED
      BY <2>1, <3>1
  <2> QED
    BY <2>2, <2>3
<1>9. N \subseteq T
  <2> HIDE DEF T, rank, link, N
  <2> QED
    BY <1>3, <1>8, WalkInduct
<1> QED
  BY <1>1, <1>5, <1>7, <1>9

LEMMA PathHolds == IInv /\ IInv' /\ PathOK /\ [Next]_vars => PathOK'
<1> SUFFICES ASSUME IInv, IInv', PathOK, [Next]_vars PROVE PathOK'
  OBVIOUS
<1>1. CASE UNCHANGED vars
  BY <1>1 DEF vars, tree, PathOK, Chained, Chain
<1>2. CASE Next
  BY <1>1, <1>2, NextTree, ChainStep DEF IInv
<1> QED
  BY <1>1, <1>2

LEMMA InvOpen == IInv /\ PathOK => OpenAreInTree
<1> SUFFICES ASSUME IInv, PathOK, pc \in InRoot
             PROVE  /\ root \in OpenPath
                    /\ \A n \in OpenPath \ {root} : IsChild(heap, n, heap[n].parent)
  BY DEF OpenAreInTree
<1>1. PICK S : Chain(heap, S, root, cur)
  BY DEF PathOK, Chained
<1>2. OpenPath \subseteq S /\ root \in OpenPath
  BY <1>1, PathIsChain DEF IInv
<1> QED
  BY <1>1, <1>2 DEF Chain

(* What is being filled is always part of the tree that root will return.  *)
THEOREM GoOpenInTree == Spec => []OpenAreInTree
<1>1. Init => PathOK
  BY DEF Init, PathOK, InRoot, KeyScan, ValScan
<1> QED
  BY Invariance, <1>1, PathHolds, InvOpen, PTL DEF Spec

-----------------------------------------------------------------------------
(* Paths.                                                                  *)

LEMMA PathEnds ==
  ASSUME NEW p \in Seq(Strides), p # <<>>
  PROVE  \E q \in Seq(Strides), s \in Strides : p = Append(q, s) /\ Len(q) = Len(p) - 1
<1>1. PICK q \in Seq(Strides), s \in Strides : p = Append(q, s)
  BY SequenceEmptyOrAppend
<1>2. Len(p) = Len(q) + 1 /\ Len(q) \in Nat
  BY <1>1
<1>3. Len(q) = Len(p) - 1
  BY <1>2
<1> QED
  BY <1>1, <1>3

LEMMA PathPart ==
  ASSUME NEW p \in Seq(Strides), NEW i \in 0 .. Len(p)
  PROVE  /\ SubSeq(p, 1, i) \in Seq(Strides) /\ Len(SubSeq(p, 1, i)) = i
         /\ \A j \in 1 .. i : SubSeq(p, 1, i)[j] = p[j]
<1>1. i \in Int /\ 1 \in Int /\ Len(p) \in Nat /\ i - 1 + 1 = i
  OBVIOUS
<1>2. \A j \in 1 .. i : p[j] \in Strides
  BY <1>1
<1>3. /\ SubSeq(p, 1, i) \in Seq(Strides)
      /\ Len(SubSeq(p, 1, i)) = IF 1 <= i THEN i - 1 + 1 ELSE 0
      /\ \A j \in 1 .. i - 1 + 1 : SubSeq(p, 1, i)[j] = p[1 + j - 1]
  BY <1>1, <1>2, SubSeqProperties
<1>4. Len(SubSeq(p, 1, i)) = i
  BY <1>1, <1>3
<1>5. \A j \in 1 .. i : SubSeq(p, 1, i)[j] = p[j]
  BY <1>1, <1>3
<1> QED
  BY <1>3, <1>4, <1>5

LEMMA PathPrefix ==
  ASSUME NEW p \in Seq(Strides), NEW s \in Strides
  PROVE  /\ Append(p, s) \in Seq(Strides) /\ Len(Append(p, s)) = Len(p) + 1 /\ Append(p, s) # <<>>
         /\ \A i \in 0 .. Len(p) : SubSeq(Append(p, s), 1, i) = SubSeq(p, 1, i)
         /\ SubSeq(p, 1, Len(p)) = p
<1>1. /\ Append(p, s) \in Seq(Strides) /\ Len(Append(p, s)) = Len(p) + 1 /\ Len(p) \in Nat
      /\ \A i \in 1 .. Len(p) : Append(p, s)[i] = p[i]
  OBVIOUS
<1>2. Append(p, s) # <<>>
  BY <1>1
<1>3. ASSUME NEW i \in 0 .. Len(p)
      PROVE  SubSeq(Append(p, s), 1, i) = SubSeq(p, 1, i)
  <2>1. i \in 0 .. Len(Append(p, s))
    BY <1>1
  <2>2. PICK a, b : a = SubSeq(Append(p, s), 1, i) /\ b = SubSeq(p, 1, i)
    OBVIOUS
  <2>3. /\ a \in Seq(Strides) /\ b \in Seq(Strides) /\ Len(a) = i /\ Len(b) = i
        /\ \A j \in 1 .. i : a[j] = Append(p, s)[j] /\ b[j] = p[j]
    BY <1>1, <2>1, <2>2, PathPart
  <2>4. \A j \in 1 .. Len(a) : a[j] = b[j]
    BY <1>1, <2>3
  <2>5. a = b
    BY <2>3, <2>4, SeqEqual
  <2> QED
    BY <2>2, <2>5
<1>4. SubSeq(p, 1, Len(p)) = p
  BY SubSeqFull
<1> QED
  BY <1>1, <1>2, <1>3, <1>4

(* Induction along a path: over a set of paths.                            *)
LEMMA PathInduct ==
  ASSUME NEW T, <<>> \in T,
         \A p \in Seq(Strides) : p \in T => \A s \in Strides : Append(p, s) \in T
  PROVE  Seq(Strides) \subseteq T
<1> DEFINE G == {n \in Nat : \A p \in Seq(Strides) : Len(p) = n => p \in T}
<1>1. 0 \in G
  BY EmptySeq
<1>2. ASSUME NEW n \in Nat, n \in G
      PROVE  n + 1 \in G
  <2> SUFFICES ASSUME NEW p \in Seq(Strides), Len(p) = n + 1
               PROVE  p \in T
    OBVIOUS
  <2>1. p # <<>>
    BY EmptySeq
  <2>2. PICK q \in Seq(Strides), s \in Strides : p = Append(q, s) /\ Len(q) = Len(p) - 1
    BY <2>1, PathEnds
  <2>3. q \in T
    BY <1>2, <2>2
  <2> QED
    BY <2>2, <2>3
<1>3. Nat \subseteq G
  <2> HIDE DEF G
  <2> QED
    BY <1>1, <1>2, Induct
<1>4. \A p \in Seq(Strides) : Len(p) \in Nat
  OBVIOUS
<1> QED
  BY <1>3, <1>4
-----------------------------------------------------------------------------
(* Trees.                                                                  *)

(* What a heap leads to is in it.                                          *)
Sound(h) ==
  /\ h \in Seq(GoNode)
  /\ \A n \in 1 .. Len(h) :
       /\ \A i \in 1 .. Len(h[n].arr) : h[n].arr[i] \in 1 .. Len(h)
       /\ \A k \in DOMAIN h[n].hash : h[n].hash[k] \in 1 .. Len(h)

LEMMA HeapSound ==
  ASSUME NEW h, HeapOK(h)
  PROVE  Sound(h)
BY DEF HeapOK, NodeOK, Sound

LEMMA ChildType ==
  ASSUME NEW h, Sound(h), NEW n \in 0 .. Len(h), NEW s
  PROVE  Child(h, n, s) \in 0 .. Len(h) /\ (n = nil => Child(h, n, s) = nil)
<1>0. Len(h) \in Nat /\ nil \in 0 .. Len(h)
  BY DEF Sound, nil
<1>1. CASE n = nil
  BY <1>0, <1>1 DEF Child
<1>2. CASE n # nil
  <2>1. n \in 1 .. Len(h) /\ h[n] \in GoNode
    BY <1>0, <1>2 DEF Sound, nil
  <2>2. PICK a : a = h[n].arr
    OBVIOUS
  <2>3. a \in Seq(Nat) /\ \A i \in 1 .. Len(a) : a[i] \in 1 .. Len(h)
    BY <2>1, <2>2 DEF Sound, GoNode
  <2>4. \A i \in DOMAIN a : a[i] \in 0 .. Len(h)
    BY <2>3
  <2>5. \A k \in DOMAIN h[n].hash : h[n].hash[k] \in 0 .. Len(h)
    BY <2>1 DEF Sound
  <2> QED
    BY <1>0, <1>2, <2>2, <2>4, <2>5 DEF Child
<1> QED
  BY <1>1, <1>2

(* The nodes on the way down a path.                                       *)
Way(h, n, p, g) ==
  /\ g \in [0 .. Len(p) -> 0 .. Len(h)] /\ g[0] = n
  /\ \A i \in 1 .. Len(p) : g[i] = Child(h, g[i - 1], p[i])

LEMMA WayExists ==
  ASSUME NEW h, Sound(h), NEW n \in 0 .. Len(h), NEW p \in Seq(Strides)
  PROVE  \E g : Way(h, n, p, g) /\ g[Len(p)] = Find(h, n, p)
<1> DEFINE S    == 0 .. Len(p)
           V    == 0 .. Len(h)
           D(g) == [i \in S |-> IF i = 0 THEN n ELSE Child(h, g[i - 1], p[i])]
           U    == CHOOSE g : g = D(g)
           rank == [i \in S |-> i]
           F    == [g \in [S -> V] |-> D(g)]
<1>0. Len(p) \in Nat /\ Len(h) \in Nat /\ n \in V
  BY DEF Sound
<1>1. Find(h, n, p) = U[Len(p)]
  BY DEF Find
<1>2. ASSUME NEW g \in [S -> V]
      PROVE  D(g) \in [S -> V]
  <2>1. ASSUME NEW i \in S
        PROVE  (IF i = 0 THEN n ELSE Child(h, g[i - 1], p[i])) \in V
    <3>1. i # 0 => g[i - 1] \in 0 .. Len(h)
      BY <1>0
    <3> QED
      BY <1>0, <3>1, ChildType
  <2> QED
    BY <2>1
<1>3. ASSUME NEW g \in [S -> V], NEW f \in [S -> V], NEW m \in S,
             \A c \in S : rank[c] < rank[m] => g[c] = f[c]
      PROVE  F[g][m] = F[f][m]
  <2>1. m # 0 => g[m - 1] = f[m - 1]
    BY <1>0, <1>3
  <2>2. F[g] = D(g) /\ F[f] = D(f)
    OBVIOUS
  <2> HIDE DEF F
  <2> QED
    BY <2>1, <2>2
<1>4. Recursion(S, V, rank, F)
  <2>1. F \in [[S -> V] -> [S -> V]]
    BY <1>2
  <2> HIDE DEF F, rank, S, V
  <2> QED
    BY <1>3, <2>1 DEF Recursion
<1>5. RankedTo(S, rank, Len(p))
  BY <1>0 DEF RankedTo
<1>6. PICK g \in [S -> V] : g = F[g]
  <2> HIDE DEF F, rank, S, V
  <2> QED
    BY <1>0, <1>4, <1>5, RecursionExists
<1>7. g = D(g)
  BY <1>6
<1>8. U = D(U)
  BY <1>7
<1>9. PICK f : f = U
  OBVIOUS
<1>10. f = D(f)
  <2> HIDE DEF U
  <2> QED
    BY <1>8, <1>9
<1> HIDE DEF U
<1>11. f[0] = n /\ \A i \in 1 .. Len(p) : f[i] = Child(h, f[i - 1], p[i])
  <2>1. \A i \in S : f[i] = IF i = 0 THEN n ELSE Child(h, f[i - 1], p[i])
    BY <1>10
  <2>2. 0 \in S /\ \A i \in 1 .. Len(p) : i \in S /\ i # 0
    BY <1>0
  <2> HIDE DEF S
  <2> QED
    BY <2>1, <2>2
<1> DEFINE G == {i \in Nat : i \in S => f[i] \in V}
<1>12. 0 \in G
  BY <1>0, <1>11
<1>13. ASSUME NEW i \in Nat, i \in G
       PROVE  i + 1 \in G
  <2> SUFFICES ASSUME i + 1 \in S PROVE f[i + 1] \in V
    OBVIOUS
  <2>1. i \in S /\ f[i] \in 0 .. Len(h) /\ i + 1 \in 1 .. Len(p) /\ (i + 1) - 1 = i
    BY <1>0, <1>13
  <2>2. f[i + 1] = Child(h, f[i], p[i + 1])
    BY <1>11, <2>1
  <2> QED
    BY <2>1, <2>2, ChildType
<1>14. \A i \in S : f[i] \in V
  <2>1. Nat \subseteq G
    <3> HIDE DEF G
    <3> QED
      BY <1>12, <1>13, Induct
  <2> QED
    BY <1>0, <2>1
<1>15. f \in [S -> V]
  <2>1. f = [i \in S |-> f[i]]
    BY <1>10
  <2> QED
    BY <1>14, <2>1
<1>16. Way(h, n, p, f)
  BY <1>11, <1>15 DEF Way
<1> QED
  BY <1>1, <1>9, <1>16

Leads(p, q)    == Len(p) <= Len(q) /\ \A i \in 1 .. Len(p) : q[i] = p[i]
Agree(f, g, k) == \A i \in 0 .. k : f[i] = g[i]

LEMMA WaySame ==
  ASSUME NEW h, NEW n, NEW p \in Seq(Strides), NEW q \in Seq(Strides), NEW f, NEW g,
         Way(h, n, p, f), Way(h, n, q, g), Leads(p, q)
  PROVE  Agree(f, g, Len(p))
<1> DEFINE G == {i \in Nat : i \in 0 .. Len(p) => f[i] = g[i]}
<1>0. Len(p) \in Nat /\ Len(q) \in Nat
  OBVIOUS
<1>1. 0 \in G
  BY DEF Way
<1>2. ASSUME NEW i \in Nat, i \in G
      PROVE  i + 1 \in G
  <2> SUFFICES ASSUME i + 1 \in 0 .. Len(p) PROVE f[i + 1] = g[i + 1]
    OBVIOUS
  <2>1. /\ i \in 0 .. Len(p) /\ i + 1 \in 1 .. Len(p) /\ i + 1 \in 1 .. Len(q) /\ (i + 1) - 1 = i
        /\ f[i] = g[i] /\ q[i + 1] = p[i + 1]
    BY <1>0, <1>2 DEF Leads
  <2>2. f[i + 1] = Child(h, f[i], p[i + 1]) /\ g[i + 1] = Child(h, g[i], q[i + 1])
    BY <2>1 DEF Way
  <2> QED
    BY <2>1, <2>2
<1>3. Nat \subseteq G
  <2> HIDE DEF G
  <2> QED
    BY <1>1, <1>2, Induct
<1>4. \A i \in 0 .. Len(p) : i \in Nat
  BY <1>0
<1> QED
  BY <1>3, <1>4 DEF Agree

LEMMA FindType ==
  ASSUME NEW h, Sound(h), NEW n \in 0 .. Len(h), NEW p \in Seq(Strides)
  PROVE  Find(h, n, p) \in 0 .. Len(h)
<1>1. PICK g : Way(h, n, p, g) /\ g[Len(p)] = Find(h, n, p)
  BY WayExists
<1>2. Len(p) \in 0 .. Len(p)
  OBVIOUS
<1> QED
  BY <1>1, <1>2 DEF Way

LEMMA FindHere ==
  ASSUME NEW h, Sound(h), NEW n \in 0 .. Len(h)
  PROVE  Find(h, n, <<>>) = n
<1>1. <<>> \in Seq(Strides) /\ Len(<<>>) = 0
  BY EmptySeq
<1>2. PICK g : Way(h, n, <<>>, g) /\ g[Len(<<>>)] = Find(h, n, <<>>)
  BY <1>1, WayExists
<1>3. g[0] = n
  BY <1>2 DEF Way
<1> QED
  BY <1>1, <1>2, <1>3

LEMMA FindStep ==
  ASSUME NEW h, Sound(h), NEW n \in 0 .. Len(h), NEW p \in Seq(Strides), NEW s \in Strides
  PROVE  Find(h, n, Append(p, s)) = Child(h, Find(h, n, p), s)
<1>1. PICK q : q = Append(p, s)
  OBVIOUS
<1>2. /\ q \in Seq(Strides) /\ Len(q) = Len(p) + 1 /\ Len(p) \in Nat
      /\ \A i \in 1 .. Len(p) : q[i] = p[i]
      /\ q[Len(q)] = s
  BY <1>1
<1>3. PICK f : Way(h, n, p, f) /\ f[Len(p)] = Find(h, n, p)
  BY WayExists
<1>4. PICK g : Way(h, n, q, g) /\ g[Len(q)] = Find(h, n, q)
  BY <1>2, WayExists
<1>5. Len(p) <= Len(q) /\ Len(p) \in 0 .. Len(p) /\ Len(q) \in 1 .. Len(q) /\ Len(q) - 1 = Len(p)
  BY <1>2
<1>6. f[Len(p)] = g[Len(p)]
  <2>1. Leads(p, q)
    BY <1>2, <1>5 DEF Leads
  <2>2. Agree(f, g, Len(p))
    BY <1>2, <1>3, <1>4, <2>1, WaySame, Zenon
  <2> QED
    BY <1>5, <2>2 DEF Agree
<1>7. g[Len(q)] = Child(h, g[Len(q) - 1], q[Len(q)])
  BY <1>4, <1>5 DEF Way
<1>8. g[Len(q)] = Child(h, g[Len(p)], s)
  BY <1>2, <1>5, <1>7
<1> QED
  BY <1>1, <1>3, <1>4, <1>6, <1>8

(* Every node has a place: the path by which it is found.                  *)
Placed(h, pl) ==
  /\ pl \in [1 .. Len(h) -> Seq(Strides)]
  /\ \A n \in 1 .. Len(h), s \in Strides :
       Child(h, n, s) # nil => pl[Child(h, n, s)] = Append(pl[n], s)

LEMMA FindGone ==
  ASSUME NEW h, Sound(h), NEW r \in 0 .. Len(h), NEW p \in Seq(Strides), NEW s \in Strides,
         Find(h, r, Append(p, s)) # nil
  PROVE  Find(h, r, p) \in 1 .. Len(h)
<1>1. Find(h, r, Append(p, s)) = Child(h, Find(h, r, p), s)
  BY FindStep
<1>2. Find(h, r, p) \in 0 .. Len(h) /\ Len(h) \in Nat
  BY FindType DEF Sound
<1>3. Find(h, r, p) # nil
  BY <1>1, <1>2, ChildType
<1> QED
  BY <1>2, <1>3 DEF nil

LEMMA FindPlace ==
  ASSUME NEW h, Sound(h), NEW pl, Placed(h, pl), NEW r \in 1 .. Len(h), pl[r] = <<>>,
         NEW p \in Seq(Strides), Find(h, r, p) # nil
  PROVE  Find(h, r, p) \in 1 .. Len(h) /\ pl[Find(h, r, p)] = p
<1>0. r \in 0 .. Len(h) /\ Len(h) \in Nat /\ <<>> \in Seq(Strides)
  BY DEF Sound
<1> DEFINE T == {q \in Seq(Strides) : Find(h, r, q) # nil => pl[Find(h, r, q)] = q}
<1>1. <<>> \in T
  <2>1. Find(h, r, <<>>) = r
    BY <1>0, FindHere
  <2> QED
    BY <1>0, <2>1
<1>2. ASSUME NEW q \in Seq(Strides), q \in T, NEW s \in Strides
      PROVE  Append(q, s) \in T
  <2>1. Append(q, s) \in Seq(Strides)
    OBVIOUS
  <2> SUFFICES ASSUME Find(h, r, Append(q, s)) # nil
               PROVE  pl[Find(h, r, Append(q, s))] = Append(q, s)
    BY <2>1
  <2>2. Find(h, r, Append(q, s)) = Child(h, Find(h, r, q), s)
    BY <1>0, FindStep
  <2>3. Find(h, r, q) \in 1 .. Len(h)
    BY <1>0, FindGone
  <2>4. pl[Find(h, r, q)] = q
    BY <1>0, <1>2, <2>3 DEF nil
  <2> HIDE DEF T
  <2> QED
    BY <2>2, <2>3, <2>4 DEF Placed
<1>3. p \in T
  <2> HIDE DEF T
  <2> QED
    BY <1>1, <1>2, PathInduct
<1>4. Find(h, r, p) \in 0 .. Len(h)
  BY <1>0, FindType
<1> QED
  BY <1>0, <1>3, <1>4 DEF nil

-----------------------------------------------------------------------------
(* One hash of a heap laid over another.                                   *)

IsAt(h, r, p, ty)       == Find(h, r, p) # nil /\ h[Find(h, r, p)].type = ty
BothAt(h, b, t, p, ty)  == IsAt(h, b, p, ty) /\ IsAt(h, t, p, ty)
JointAt(h, b, t, p)     == \A i \in 0 .. Len(p) : BothAt(h, b, t, SubSeq(p, 1, i), "hash")
LaysAt(h, b, t, q)      ==
  Find(h, t, q) # nil /\ ~ BothAt(h, b, t, q, "hash") /\ ~ BothAt(h, b, t, q, "arr")
CoveredAt(h, b, t, p)   ==
  \E i \in 1 .. Len(p) : JointAt(h, b, t, SubSeq(p, 1, i - 1)) /\ LaysAt(h, b, t, SubSeq(p, 1, i))

LEMMA JointBoth ==
  ASSUME NEW h, NEW b, NEW t, NEW p \in Seq(Strides), JointAt(h, b, t, p)
  PROVE  BothAt(h, b, t, p, "hash")
<1>1. SubSeq(p, 1, Len(p)) = p /\ Len(p) \in 0 .. Len(p)
  BY SubSeqFull
<1> QED
  BY <1>1 DEF JointAt

LEMMA JointStep ==
  ASSUME NEW h, NEW b, NEW t, NEW p \in Seq(Strides), NEW s \in Strides
  PROVE  /\ JointAt(h, b, t, <<>>) <=> BothAt(h, b, t, <<>>, "hash")
         /\ JointAt(h, b, t, Append(p, s)) <=>
              JointAt(h, b, t, p) /\ BothAt(h, b, t, Append(p, s), "hash")
<1> DEFINE q == Append(p, s)
           A(x) == BothAt(h, b, t, x, "hash")
<1>0. <<>> \in Seq(Strides) /\ Len(<<>>) = 0
  BY EmptySeq
<1>1. /\ q \in Seq(Strides) /\ Len(q) = Len(p) + 1
      /\ \A i \in 0 .. Len(p) : SubSeq(q, 1, i) = SubSeq(p, 1, i)
      /\ SubSeq(p, 1, Len(p)) = p
  BY PathPrefix
<1>2. SubSeq(q, 1, Len(q)) = q /\ SubSeq(<<>>, 1, 0) = <<>> /\ Len(p) \in Nat
  <2>1. SubSeq(q, 1, Len(q)) = q
    BY <1>1, SubSeqFull
  <2>2. SubSeq(<<>>, 1, Len(<<>>)) = <<>>
    BY <1>0, SubSeqFull
  <2> QED
    BY <1>0, <2>1, <2>2
<1>3. \A x : JointAt(h, b, t, x) <=> \A i \in 0 .. Len(x) : A(SubSeq(x, 1, i))
  BY DEF JointAt
<1> HIDE DEF A, q
<1>4. 0 .. Len(<<>>) = {0} /\ 0 .. Len(q) = (0 .. Len(p)) \cup {Len(q)} /\ Len(p) \in 0 .. Len(p)
  BY <1>0, <1>1, <1>2
<1>5. JointAt(h, b, t, <<>>) <=> A(<<>>)
  BY <1>2, <1>3, <1>4
<1>6. JointAt(h, b, t, q) <=> (\A i \in 0 .. Len(p) : A(SubSeq(p, 1, i))) /\ A(q)
  BY <1>1, <1>2, <1>3, <1>4
<1> QED
  BY <1>3, <1>5, <1>6 DEF A, q

LEMMA CoveredNone ==
  ASSUME NEW h, NEW b, NEW t
  PROVE  ~ CoveredAt(h, b, t, <<>>)
<1>1. 1 .. Len(<<>>) = {}
  BY EmptySeq
<1> QED
  BY <1>1 DEF CoveredAt

LEMMA CoveredStep ==
  ASSUME NEW h, NEW b, NEW t, NEW p \in Seq(Strides), NEW s \in Strides
  PROVE  CoveredAt(h, b, t, Append(p, s)) <=>
           \/ CoveredAt(h, b, t, p)
           \/ JointAt(h, b, t, p) /\ LaysAt(h, b, t, Append(p, s))
<1> DEFINE q == Append(p, s)
           A(x) == JointAt(h, b, t, x)
           B(x) == LaysAt(h, b, t, x)
<1>1. /\ q \in Seq(Strides) /\ Len(q) = Len(p) + 1 /\ Len(p) \in Nat
      /\ \A i \in 0 .. Len(p) : SubSeq(q, 1, i) = SubSeq(p, 1, i)
      /\ SubSeq(p, 1, Len(p)) = p
  BY PathPrefix
<1>2. SubSeq(q, 1, Len(q)) = q
  BY <1>1, SubSeqFull
<1>3. \A x : CoveredAt(h, b, t, x) <=>
             \E i \in 1 .. Len(x) : A(SubSeq(x, 1, i - 1)) /\ B(SubSeq(x, 1, i))
  BY DEF CoveredAt
<1> HIDE DEF A, B, q
<1>4. /\ 1 .. Len(q) = (1 .. Len(p)) \cup {Len(q)}
      /\ Len(q) - 1 = Len(p) /\ Len(p) \in 0 .. Len(p)
      /\ \A i \in 1 .. Len(p) : i \in 0 .. Len(p) /\ i - 1 \in 0 .. Len(p)
  BY <1>1
<1>6. CoveredAt(h, b, t, q) <=>
        \/ \E i \in 1 .. Len(p) : A(SubSeq(q, 1, i - 1)) /\ B(SubSeq(q, 1, i))
        \/ A(SubSeq(q, 1, Len(q) - 1)) /\ B(SubSeq(q, 1, Len(q)))
  BY <1>3, <1>4
<1>7. \A i \in 1 .. Len(p) : /\ SubSeq(q, 1, i - 1) = SubSeq(p, 1, i - 1)
                             /\ SubSeq(q, 1, i) = SubSeq(p, 1, i)
  BY <1>1, <1>4
<1>8. SubSeq(q, 1, Len(q) - 1) = p
  BY <1>1, <1>4
<1>9. CoveredAt(h, b, t, q) <=> CoveredAt(h, b, t, p) \/ (A(p) /\ B(q))
  BY <1>2, <1>3, <1>6, <1>7, <1>8
<1> QED
  BY <1>9 DEF A, B, q

(* Two roots, and the places of the nodes.                                 *)
Ground(h, pl, b, t) ==
  /\ Sound(h) /\ Placed(h, pl)
  /\ b \in 1 .. Len(h) /\ pl[b] = <<>> /\ t \in 1 .. Len(h) /\ pl[t] = <<>>

(* The entry of n that has been replaced, D being the paths dealt with.    *)
Merged(h, pl, b, t, D, n, s) ==
  /\ JointAt(h, b, t, pl[n]) /\ n = Find(h, b, pl[n])
  /\ Append(pl[n], s) \in D /\ LaysAt(h, b, t, Append(pl[n], s))

SameNodes(h, new) ==
  /\ Sound(new) /\ Len(new) = Len(h)
  /\ \A n \in 1 .. Len(h) : new[n].type = h[n].type /\ new[n].str = h[n].str

(* What becomes of h when the paths of D have been dealt with.             *)
Laid(h, pl, b, t, D, new) ==
  /\ SameNodes(h, new)
  /\ \A n \in 1 .. Len(h), s \in Strides :
       Child(new, n, s) = IF Merged(h, pl, b, t, D, n, s) THEN Find(h, t, Append(pl[n], s))
                          ELSE Child(h, n, s)

LEMMA LaidNone ==
  ASSUME NEW h, Sound(h), NEW pl, NEW b, NEW t
  PROVE  Laid(h, pl, b, t, {}, h)
BY DEF Laid, SameNodes, Merged

(* Nothing changes below what is laid on top.                              *)
LEMMA TopKept ==
  ASSUME NEW h, NEW pl, NEW b, NEW t, Ground(h, pl, b, t), NEW D, NEW new,
         Laid(h, pl, b, t, D, new),
         NEW p \in Seq(Strides), Find(h, t, p) # nil, NEW s \in Strides
  PROVE  Child(new, Find(h, t, p), s) = Find(h, t, Append(p, s))
<1>1. PICK m : m = Find(h, t, p)
  OBVIOUS
<1>2. Sound(h) /\ Placed(h, pl) /\ t \in 1 .. Len(h) /\ pl[t] = <<>> /\ Len(h) \in Nat /\ t \in 0 .. Len(h)
  BY DEF Ground, Sound
<1>3. m \in 1 .. Len(h) /\ pl[m] = p
  BY <1>1, <1>2, FindPlace
<1>4. Find(h, t, Append(p, s)) = Child(h, m, s)
  BY <1>1, <1>2, FindStep
<1>5. Child(new, m, s) = IF Merged(h, pl, b, t, D, m, s) THEN Find(h, t, Append(pl[m], s))
                         ELSE Child(h, m, s)
  BY <1>3 DEF Laid
<1> QED
  BY <1>1, <1>3, <1>4, <1>5

LEMMA FindTop ==
  ASSUME NEW h, NEW pl, NEW b, NEW t, Ground(h, pl, b, t), NEW D, NEW new,
         Laid(h, pl, b, t, D, new), NEW p \in Seq(Strides)
  PROVE  Find(new, t, p) = Find(h, t, p)
<1>1. /\ Sound(h) /\ Sound(new) /\ t \in 0 .. Len(h) /\ t \in 0 .. Len(new) /\ Len(new) = Len(h)
  BY DEF Ground, Laid, SameNodes, Sound
<1> DEFINE T == {q \in Seq(Strides) : Find(new, t, q) = Find(h, t, q)}
<1>2. <<>> \in T
  <2>1. <<>> \in Seq(Strides)
    OBVIOUS
  <2>2. Find(new, t, <<>>) = t /\ Find(h, t, <<>>) = t
    BY <1>1, FindHere
  <2> QED
    BY <2>1, <2>2
<1>3. ASSUME NEW q \in Seq(Strides), q \in T, NEW s \in Strides
      PROVE  Append(q, s) \in T
  <2>1. Append(q, s) \in Seq(Strides) /\ Find(new, t, q) = Find(h, t, q)
    BY <1>3
  <2>2. Find(new, t, Append(q, s)) = Child(new, Find(h, t, q), s)
    BY <1>1, <2>1, FindStep
  <2>3. CASE Find(h, t, q) # nil
    BY <2>1, <2>2, <2>3, TopKept
  <2>4. CASE Find(h, t, q) = nil
    <3>1. nil \in 0 .. Len(h) /\ nil \in 0 .. Len(new)
      BY <1>1 DEF nil, Sound
    <3>2. Find(new, t, Append(q, s)) = nil
      BY <1>1, <2>2, <2>4, <3>1, ChildType
    <3>3. Find(h, t, Append(q, s)) = Child(h, Find(h, t, q), s)
      BY <1>1, FindStep
    <3>4. Find(h, t, Append(q, s)) = nil
      BY <1>1, <2>4, <3>1, <3>3, ChildType
    <3> QED
      BY <2>1, <3>2, <3>4
  <2> QED
    BY <2>3, <2>4
<1>4. Seq(Strides) \subseteq T
  <2> HIDE DEF T
  <2> QED
    BY <1>2, <1>3, PathInduct
<1> QED
  BY <1>4

(* When nothing is left to deal with, the base is the two merged.          *)
Complete(h, b, t, D) ==
  \A p \in Seq(Strides), s \in Strides :
    JointAt(h, b, t, p) /\ LaysAt(h, b, t, Append(p, s)) => Append(p, s) \in D

LEMMA FindBase ==
  ASSUME NEW h, NEW pl, NEW b, NEW t, Ground(h, pl, b, t), NEW D, Complete(h, b, t, D), NEW new,
         Laid(h, pl, b, t, D, new), NEW p \in Seq(Strides)
  PROVE  Find(new, b, p) = IF CoveredAt(h, b, t, p) THEN Find(h, t, p) ELSE Find(h, b, p)
<1>1. /\ Sound(h) /\ Sound(new) /\ b \in 0 .. Len(h) /\ b \in 0 .. Len(new) /\ Len(new) = Len(h)
      /\ t \in 0 .. Len(h) /\ b \in 1 .. Len(h) /\ t \in 1 .. Len(h) /\ Placed(h, pl)
      /\ pl[b] = <<>> /\ nil \in 0 .. Len(h)
  BY DEF Ground, Laid, SameNodes, Sound, nil
<1> DEFINE R(q) == IF CoveredAt(h, b, t, q) THEN Find(h, t, q) ELSE Find(h, b, q)
           T    == {q \in Seq(Strides) : Find(new, b, q) = R(q)}
<1>2. <<>> \in T
  <2>1. <<>> \in Seq(Strides) /\ ~ CoveredAt(h, b, t, <<>>)
    BY CoveredNone
  <2>2. Find(new, b, <<>>) = b /\ Find(h, b, <<>>) = b
    BY <1>1, FindHere
  <2> QED
    BY <2>1, <2>2
<1>3. ASSUME NEW q \in Seq(Strides), q \in T, NEW s \in Strides
      PROVE  Append(q, s) \in T
  <2>1. Append(q, s) \in Seq(Strides) /\ Find(new, b, q) = R(q)
    BY <1>3
  <2>2. Find(new, b, Append(q, s)) = Child(new, R(q), s)
    <3> HIDE DEF R
    <3> QED
      BY <1>1, <2>1, FindStep
  <2>a. Find(h, b, Append(q, s)) = Child(h, Find(h, b, q), s)
    BY <1>1, FindStep
  <2>b. Find(h, t, Append(q, s)) = Child(h, Find(h, t, q), s)
    BY <1>1, FindStep
  <2>c. Child(new, nil, s) = nil /\ Child(h, nil, s) = nil
    BY <1>1, ChildType
  <2>d. CoveredAt(h, b, t, Append(q, s)) <=>
              \/ CoveredAt(h, b, t, q)
              \/ JointAt(h, b, t, q) /\ LaysAt(h, b, t, Append(q, s))
    BY CoveredStep
  <2> SUFFICES Child(new, R(q), s) = R(Append(q, s))
    BY <2>1, <2>2
  <2>3. CASE CoveredAt(h, b, t, q)
    <3>1. R(q) = Find(h, t, q) /\ R(Append(q, s)) = Find(h, t, Append(q, s))
      BY <2>3, <2>d
    <3>2. CASE Find(h, t, q) # nil
      <4>1. Child(new, Find(h, t, q), s) = Find(h, t, Append(q, s))
        BY <3>2, TopKept
      <4> QED
        BY <3>1, <4>1
    <3>3. CASE Find(h, t, q) = nil
      BY <2>b, <2>c, <3>1, <3>3
    <3> QED
      BY <3>2, <3>3
  <2>4. CASE ~ CoveredAt(h, b, t, q)
    <3>1. R(q) = Find(h, b, q)
      BY <2>4
    <3>2. CASE Find(h, b, q) = nil
      <4>1. ~ JointAt(h, b, t, q)
        BY <3>2, JointBoth DEF BothAt, IsAt
      <4>2. R(Append(q, s)) = Find(h, b, Append(q, s))
        BY <2>4, <2>d, <4>1
      <4> QED
        BY <2>a, <2>c, <3>1, <3>2, <4>2
    <3>3. CASE Find(h, b, q) # nil
      <4>1. PICK n : n = Find(h, b, q)
        OBVIOUS
      <4>2. n \in 1 .. Len(h) /\ pl[n] = q
        BY <1>1, <3>3, <4>1, FindPlace
      <4>3. Child(new, n, s) = IF Merged(h, pl, b, t, D, n, s) THEN Find(h, t, Append(pl[n], s))
                               ELSE Child(h, n, s)
        BY <4>2 DEF Laid
      <4>4. Merged(h, pl, b, t, D, n, s) <=> JointAt(h, b, t, q) /\ LaysAt(h, b, t, Append(q, s))
        BY <4>1, <4>2 DEF Merged, Complete
      <4>5. Merged(h, pl, b, t, D, n, s) <=> CoveredAt(h, b, t, Append(q, s))
        BY <2>4, <2>d, <4>4
      <4>6. Child(new, n, s) = R(Append(q, s))
        BY <2>a, <4>1, <4>2, <4>3, <4>5
      <4> QED
        BY <3>1, <4>1, <4>6
    <3> QED
      BY <3>2, <3>3
  <2> QED
    BY <2>3, <2>4
<1>4. Seq(Strides) \subseteq T
  <2> HIDE DEF T
  <2> QED
    BY <1>2, <1>3, PathInduct
<1> QED
  BY <1>4

LEMMA LaidPlaced ==
  ASSUME NEW h, NEW pl, NEW b, NEW t, Ground(h, pl, b, t), NEW D, NEW new,
         Laid(h, pl, b, t, D, new)
  PROVE  Placed(new, pl)
<1>1. /\ Sound(h) /\ Placed(h, pl) /\ t \in 1 .. Len(h) /\ pl[t] = <<>> /\ Len(new) = Len(h)
  BY DEF Ground, Laid, SameNodes
<1>2. ASSUME NEW n \in 1 .. Len(h), NEW s \in Strides, Child(new, n, s) # nil
      PROVE  pl[Child(new, n, s)] = Append(pl[n], s)
  <2>1. Child(new, n, s) = IF Merged(h, pl, b, t, D, n, s) THEN Find(h, t, Append(pl[n], s))
                           ELSE Child(h, n, s)
    BY DEF Laid
  <2>2. CASE Merged(h, pl, b, t, D, n, s)
    <3>1. pl[n] \in Seq(Strides)
      BY <1>1 DEF Placed
    <3>2. PICK q : q = Append(pl[n], s)
      OBVIOUS
    <3>3. q \in Seq(Strides) /\ Find(h, t, q) # nil /\ Child(new, n, s) = Find(h, t, q)
      BY <1>2, <2>1, <2>2, <3>1, <3>2
    <3>4. pl[Find(h, t, q)] = q
      BY <1>1, <3>3, FindPlace
    <3> QED
      BY <3>2, <3>3, <3>4
  <2>3. CASE ~ Merged(h, pl, b, t, D, n, s)
    BY <1>1, <1>2, <2>1, <2>3 DEF Placed
  <2> QED
    BY <2>2, <2>3
<1> QED
  BY <1>1, <1>2 DEF Placed

-----------------------------------------------------------------------------
(* Values.                                                                 *)

LEMMA ProbeParts ==
  ASSUME NEW p \in Probes, NEW i \in 0 .. Len(p)
  PROVE  /\ p \in Seq(Strides) /\ SubSeq(p, 1, i) \in Probes /\ SubSeq(p, 1, i) \in Seq(Strides)
         /\ Len(SubSeq(p, 1, i)) = i
<1>1. p \in Seq(Strides) /\ SubSeq(p, 1, i) \in Probes
  BY NodesAssumption
<1> QED
  BY <1>1, PathPart

LEMMA PartOfPart ==
  ASSUME NEW p \in Seq(Strides), NEW i \in 1 .. Len(p)
  PROVE  SubSeq(SubSeq(p, 1, i), 1, Len(SubSeq(p, 1, i)) - 1) = SubSeq(p, 1, i - 1)
<1>1. PICK q : q = SubSeq(p, 1, i)
  OBVIOUS
<1>2. i \in 0 .. Len(p) /\ i - 1 \in 0 .. Len(p) /\ i - 1 \in 0 .. i /\ Len(p) \in Nat
  OBVIOUS
<1>3. q \in Seq(Strides) /\ Len(q) = i /\ \A j \in 1 .. i : q[j] = p[j]
  BY <1>1, <1>2, PathPart
<1>4. PICK c, d : c = SubSeq(q, 1, i - 1) /\ d = SubSeq(p, 1, i - 1)
  OBVIOUS
<1>5. i - 1 \in 0 .. Len(q)
  BY <1>2, <1>3
<1>6. c \in Seq(Strides) /\ Len(c) = i - 1 /\ \A j \in 1 .. i - 1 : c[j] = q[j]
  BY <1>3, <1>4, <1>5, PathPart
<1>7. d \in Seq(Strides) /\ Len(d) = i - 1 /\ \A j \in 1 .. i - 1 : d[j] = p[j]
  BY <1>2, <1>4, PathPart
<1>8. \A j \in 1 .. Len(c) : c[j] = d[j]
  <2> SUFFICES ASSUME NEW j \in 1 .. Len(c) PROVE c[j] = d[j]
    OBVIOUS
  <2>1. j \in 1 .. i - 1
    BY <1>6
  <2>2. j \in 1 .. i
    BY <1>2, <2>1
  <2> QED
    BY <1>3, <1>6, <1>7, <2>1, <2>2
<1>9. c = d
  BY <1>6, <1>7, <1>8, SeqEqual
<1> QED
  BY <1>1, <1>3, <1>4, <1>9

(* What a value has at a path.                                             *)
Shown(h, m) == IF m = nil THEN [type |-> "none", str |-> <<>>]
               ELSE [type |-> h[m].type, str |-> h[m].str]

LEMMA ValueAt ==
  ASSUME NEW h, NEW n
  PROVE  Value(h, n) = [p \in Probes |-> Shown(h, Find(h, n, p))]
BY DEF Value, Shown

LEMMA HasIs ==
  ASSUME NEW h, Sound(h), NEW n \in 0 .. Len(h), NEW p \in Probes
  PROVE  /\ Path!Has(Value(h, n), p, "hash") <=> IsAt(h, n, p, "hash")
         /\ Path!Has(Value(h, n), p, "arr") <=> IsAt(h, n, p, "arr")
         /\ Path!Has(Value(h, n), p, "none") <=> Find(h, n, p) = nil
<1>1. PICK m : m = Find(h, n, p)
  OBVIOUS
<1>2. p \in Seq(Strides)
  BY NodesAssumption
<1>3. m \in 0 .. Len(h)
  BY <1>1, <1>2, FindType
<1>4. m # nil => h[m].type \in NodeTypes
  <2>1. Len(h) \in Nat /\ h \in Seq(GoNode)
    BY DEF Sound
  <2>2. m # nil => m \in 1 .. Len(h)
    BY <1>3, <2>1 DEF nil
  <2>3. m # nil => h[m] \in GoNode
    BY <2>1, <2>2
  <2> QED
    BY <2>3 DEF GoNode
<1>5. "none" \notin NodeTypes
  BY DEF NodeTypes, Containers
<1>6. Value(h, n)[p] = Shown(h, m)
  BY <1>1, ValueAt
<1>7. Value(h, n)[p].type = IF m = nil THEN "none" ELSE h[m].type
  BY <1>6 DEF Shown
<1> QED
  BY <1>1, <1>4, <1>5, <1>7 DEF Path!Has, IsAt

LEMMA BothIs ==
  ASSUME NEW h, Sound(h), NEW b \in 0 .. Len(h), NEW t \in 0 .. Len(h), NEW p \in Probes,
         NEW ty \in {"hash", "arr"}
  PROVE  Path!Both(Value(h, b), Value(h, t), p, ty) <=> BothAt(h, b, t, p, ty)
BY HasIs DEF Path!Both, BothAt

LEMMA JointIs ==
  ASSUME NEW h, Sound(h), NEW b \in 0 .. Len(h), NEW t \in 0 .. Len(h), NEW p \in Probes
  PROVE  Path!Joint(Value(h, b), Value(h, t), p) <=> JointAt(h, b, t, p)
<1>1. \A i \in 0 .. Len(p) : SubSeq(p, 1, i) \in Probes
  BY NodesAssumption
<1>2. \A i \in 0 .. Len(p) : Path!Both(Value(h, b), Value(h, t), SubSeq(p, 1, i), "hash")
                               <=> BothAt(h, b, t, SubSeq(p, 1, i), "hash")
  BY <1>1, BothIs
<1> QED
  BY <1>2 DEF Path!Joint, Path!To, JointAt

LEMMA ReplacesIs ==
  ASSUME NEW h, Sound(h), NEW b \in 0 .. Len(h), NEW t \in 0 .. Len(h), NEW p \in Probes,
         NEW i \in 1 .. Len(p)
  PROVE  Path!Replaces(Value(h, b), Value(h, t), SubSeq(p, 1, i))
           <=> JointAt(h, b, t, SubSeq(p, 1, i - 1)) /\ LaysAt(h, b, t, SubSeq(p, 1, i))
<1>1. PICK q : q = SubSeq(p, 1, i)
  OBVIOUS
<1>2. p \in Seq(Strides) /\ Len(p) \in Nat /\ i \in 0 .. Len(p) /\ i - 1 \in 0 .. Len(p)
  BY NodesAssumption
<1>3. q \in Probes /\ Len(q) = i /\ SubSeq(p, 1, i - 1) \in Probes
  BY <1>1, <1>2, ProbeParts
<1>4. q # <<>>
  BY <1>3, EmptySeq
<1>5. SubSeq(q, 1, Len(q) - 1) = SubSeq(p, 1, i - 1)
  BY <1>1, <1>2, PartOfPart
<1>6. Path!Joint(Value(h, b), Value(h, t), SubSeq(p, 1, i - 1)) <=> JointAt(h, b, t, SubSeq(p, 1, i - 1))
  BY <1>3, JointIs
<1>7. Path!Has(Value(h, t), q, "none") <=> Find(h, t, q) = nil
  BY <1>3, HasIs
<1>8. /\ Path!Both(Value(h, b), Value(h, t), q, "hash") <=> BothAt(h, b, t, q, "hash")
      /\ Path!Both(Value(h, b), Value(h, t), q, "arr") <=> BothAt(h, b, t, q, "arr")
  BY <1>3, BothIs
<1>9. Path!Replaces(Value(h, b), Value(h, t), q)
        <=> JointAt(h, b, t, SubSeq(p, 1, i - 1)) /\ LaysAt(h, b, t, q)
  BY <1>4, <1>5, <1>6, <1>7, <1>8 DEF Path!Replaces, Path!To, LaysAt
<1> QED
  BY <1>1, <1>9

LEMMA CoveredIs ==
  ASSUME NEW h, Sound(h), NEW b \in 0 .. Len(h), NEW t \in 0 .. Len(h), NEW p \in Probes
  PROVE  Path!Covered(Value(h, b), Value(h, t), p) <=> CoveredAt(h, b, t, p)
BY ReplacesIs DEF Path!Covered, Path!To, CoveredAt

LEMMA ShownSame ==
  ASSUME NEW h, NEW new, SameNodes(h, new), NEW m \in 0 .. Len(h)
  PROVE  Shown(new, m) = Shown(h, m)
<1>1. m # nil => m \in 1 .. Len(h)
  BY DEF nil, SameNodes, Sound
<1>2. m # nil => new[m].type = h[m].type /\ new[m].str = h[m].str
  BY <1>1 DEF SameNodes
<1> QED
  BY <1>2 DEF Shown

(* Overlay comes to a merge.                                               *)
LEMMA MergeIs ==
  ASSUME NEW h, NEW pl, NEW b, NEW t, Ground(h, pl, b, t), NEW D, Complete(h, b, t, D), NEW new,
         Laid(h, pl, b, t, D, new)
  PROVE  /\ Value(new, b) = Path!Merge(Value(h, b), Value(h, t))
         /\ Value(new, t) = Value(h, t)
<1>1. /\ Sound(h) /\ b \in 0 .. Len(h) /\ t \in 0 .. Len(h) /\ SameNodes(h, new)
  BY DEF Ground, Laid, Sound
<1>2. ASSUME NEW p \in Probes
      PROVE  /\ Shown(new, Find(new, t, p)) = Shown(h, Find(h, t, p))
             /\ Shown(new, Find(new, b, p)) =
                  IF Path!Covered(Value(h, b), Value(h, t), p) THEN Value(h, t)[p] ELSE Value(h, b)[p]
  <2>1. p \in Seq(Strides)
    BY NodesAssumption
  <2>2. Find(new, t, p) = Find(h, t, p)
    BY <2>1, FindTop
  <2>3. Find(new, b, p) = IF CoveredAt(h, b, t, p) THEN Find(h, t, p) ELSE Find(h, b, p)
    BY <2>1, FindBase
  <2>4. Find(h, b, p) \in 0 .. Len(h) /\ Find(h, t, p) \in 0 .. Len(h)
    BY <1>1, <2>1, FindType
  <2>5. /\ Shown(new, Find(h, t, p)) = Shown(h, Find(h, t, p))
        /\ Shown(new, Find(h, b, p)) = Shown(h, Find(h, b, p))
    BY <1>1, <2>4, ShownSame
  <2>6. Path!Covered(Value(h, b), Value(h, t), p) <=> CoveredAt(h, b, t, p)
    BY <1>1, CoveredIs
  <2>7. Value(h, t)[p] = Shown(h, Find(h, t, p)) /\ Value(h, b)[p] = Shown(h, Find(h, b, p))
    BY ValueAt
  <2> QED
    BY <2>2, <2>3, <2>5, <2>6, <2>7
<1>3. Value(new, t) = Value(h, t)
  <2>1. /\ Value(new, t) = [p \in Probes |-> Shown(new, Find(new, t, p))]
        /\ Value(h, t) = [p \in Probes |-> Shown(h, Find(h, t, p))]
    BY ValueAt
  <2> QED
    BY <1>2, <2>1
<1>4. Value(new, b) = Path!Merge(Value(h, b), Value(h, t))
  <2>1. Value(new, b) = [p \in Probes |-> Shown(new, Find(new, b, p))]
    BY ValueAt
  <2>2. Path!Merge(Value(h, b), Value(h, t))
          = [p \in Probes |-> IF Path!Covered(Value(h, b), Value(h, t), p) THEN Value(h, t)[p]
                              ELSE Value(h, b)[p]]
    BY DEF Path!Merge
  <2> QED
    BY <1>2, <2>1, <2>2
<1> QED
  BY <1>3, <1>4

-----------------------------------------------------------------------------
(* An entry of Overlay.                                                    *)

ByKey(k) == <<"key", k>>

LEMMA StrideKinds ==
  ASSUME NEW s \in Strides
  PROVE  \/ s[1] = "key" /\ s[2] \in Seq(STRING) /\ s = ByKey(s[2])
         \/ s[1] = "item" /\ \A k : s # ByKey(k)
BY DEF Strides, ByKey

LEMMA KeyStride ==
  ASSUME NEW k \in Seq(STRING)
  PROVE  ByKey(k) \in Strides /\ ByKey(k)[1] = "key" /\ ByKey(k)[2] = k
BY DEF Strides, ByKey

LEMMA AddedChild ==
  ASSUME NEW hp \in Seq(GoNode), NEW c \in 1 .. Len(hp), hp[c].type = "hash",
         NEW k \in Seq(STRING), NEW el \in 1 .. Len(hp), NEW new, Added(hp, c, k, el, new),
         NEW n \in 1 .. Len(hp), NEW s \in Strides
  PROVE  Child(new, n, s) = IF n = c /\ s = ByKey(k) THEN el ELSE Child(hp, n, s)
<1>1. CASE n # c
  BY <1>1 DEF Added, Child
<1>2. CASE n = c
  <2>1. /\ new[c].type = "hash" /\ c # nil /\ DOMAIN new[c].hash = DOMAIN hp[c].hash \cup {k}
        /\ new[c].hash[k] = el /\ \A x \in DOMAIN hp[c].hash : x # k => new[c].hash[x] = hp[c].hash[x]
    BY DEF Added, Keyed, nil
  <2>2. CASE s[1] = "item"
    BY <1>2, <2>1, <2>2, StrideKinds DEF Child
  <2>3. CASE s[1] = "key" /\ s = ByKey(s[2])
    <3>1. s = ByKey(k) <=> s[2] = k
      BY <2>3, KeyStride
    <3>2. Child(new, c, s) = IF s[2] \in DOMAIN new[c].hash THEN new[c].hash[s[2]] ELSE nil
      BY <2>1, <2>3 DEF Child
    <3>3. Child(hp, c, s) = IF s[2] \in DOMAIN hp[c].hash THEN hp[c].hash[s[2]] ELSE nil
      BY <2>1, <2>3 DEF Child
    <3> QED
      BY <1>2, <2>1, <3>1, <3>2, <3>3
  <2> QED
    BY <2>2, <2>3, StrideKinds
<1> QED
  BY <1>1, <1>2

LEMMA AddedSound ==
  ASSUME NEW hp, Sound(hp), NEW c \in 1 .. Len(hp), hp[c].type = "hash",
         NEW k, NEW el \in 1 .. Len(hp), NEW new, Added(hp, c, k, el, new)
  PROVE  SameNodes(hp, new)
<1>1. /\ new \in Seq(GoNode) /\ Len(new) = Len(hp)
      /\ \A n \in 1 .. Len(hp) : n # c => new[n] = hp[n]
      /\ new[c].type = hp[c].type /\ new[c].str = hp[c].str /\ new[c].arr = hp[c].arr
      /\ \A x \in DOMAIN new[c].hash : x \in DOMAIN hp[c].hash \cup {k}
      /\ new[c].hash[k] = el
      /\ \A x \in DOMAIN hp[c].hash : x # k => new[c].hash[x] = hp[c].hash[x]
  BY DEF Added, Keyed
<1>2. \A x \in DOMAIN new[c].hash : new[c].hash[x] \in 1 .. Len(hp)
  BY <1>1 DEF Sound
<1>3. ASSUME NEW n \in 1 .. Len(new)
      PROVE  /\ \A i \in 1 .. Len(new[n].arr) : new[n].arr[i] \in 1 .. Len(new)
             /\ \A x \in DOMAIN new[n].hash : new[n].hash[x] \in 1 .. Len(new)
  BY <1>1, <1>2 DEF Sound
<1> QED
  BY <1>1, <1>3 DEF SameNodes, Sound

LEMMA LaidSkip ==
  ASSUME NEW h, NEW pl, NEW b, NEW t, NEW D, NEW mid, Laid(h, pl, b, t, D, mid),
         NEW q, ~ LaysAt(h, b, t, q)
  PROVE  Laid(h, pl, b, t, D \cup {q}, mid)
<1>1. \A n, s : Merged(h, pl, b, t, D \cup {q}, n, s) <=> Merged(h, pl, b, t, D, n, s)
  BY DEF Merged
<1> QED
  BY <1>1 DEF Laid

LEMMA LaidGrow ==
  ASSUME NEW h, NEW pl, NEW b, NEW t, Ground(h, pl, b, t), NEW D, NEW mid,
         Laid(h, pl, b, t, D, mid),
         NEW p \in Seq(Strides), JointAt(h, b, t, p), NEW k \in Seq(STRING),
         NEW q, q = Append(p, ByKey(k)), LaysAt(h, b, t, q),
         NEW new, new = Add(mid, Find(h, b, p), k, Find(h, t, q))
  PROVE  Laid(h, pl, b, t, D \cup {q}, new)
<1>1. PICK c : c = Find(h, b, p)
  OBVIOUS
<1>2. PICK el : el = Find(h, t, q)
  OBVIOUS
<1>3. /\ Sound(h) /\ Placed(h, pl) /\ b \in 1 .. Len(h) /\ pl[b] = <<>> /\ t \in 1 .. Len(h)
      /\ Sound(mid) /\ SameNodes(h, mid) /\ Len(mid) = Len(h) /\ Len(h) \in Nat /\ mid \in Seq(GoNode)
      /\ b \in 0 .. Len(h) /\ t \in 0 .. Len(h)
  BY DEF Ground, Laid, SameNodes, Sound
<1>4. ByKey(k) \in Strides /\ q \in Seq(Strides)
  BY KeyStride
<1>5. BothAt(h, b, t, p, "hash")
  BY JointBoth
<1>6. c # nil /\ h[c].type = "hash"
  BY <1>1, <1>5 DEF BothAt, IsAt
<1>7. c \in 1 .. Len(h) /\ pl[c] = p
  BY <1>1, <1>3, <1>6, FindPlace
<1>8. el \in 1 .. Len(h)
  <2>1. el \in 0 .. Len(h) /\ el # nil
    BY <1>2, <1>3, <1>4, FindType DEF LaysAt
  <2> QED
    BY <1>3, <2>1 DEF nil
<1>9. mid[c].type = "hash"
  BY <1>3, <1>6, <1>7 DEF SameNodes
<1>10. Added(mid, c, k, el, new)
  <2>1. c \in 1 .. Len(mid) /\ el \in Nat /\ new = Add(mid, c, k, el)
    BY <1>1, <1>2, <1>3, <1>7, <1>8
  <2> QED
    BY <1>3, <2>1, AddFrame
<1>11. SameNodes(mid, new)
  BY <1>3, <1>7, <1>8, <1>9, <1>10, AddedSound
<1>12. SameNodes(h, new)
  BY <1>3, <1>11 DEF SameNodes
<1>13. ASSUME NEW n \in 1 .. Len(h), NEW s \in Strides
       PROVE  Child(new, n, s) = IF Merged(h, pl, b, t, D \cup {q}, n, s)
                                 THEN Find(h, t, Append(pl[n], s)) ELSE Child(h, n, s)
  <2>1. Child(new, n, s) = IF n = c /\ s = ByKey(k) THEN el ELSE Child(mid, n, s)
    BY <1>3, <1>7, <1>8, <1>9, <1>10, AddedChild
  <2>2. Child(mid, n, s) = IF Merged(h, pl, b, t, D, n, s)
                           THEN Find(h, t, Append(pl[n], s)) ELSE Child(h, n, s)
    BY DEF Laid
  <2>3. CASE n = c /\ s = ByKey(k)
    <3>1. Append(pl[n], s) = q
      BY <1>7, <2>3
    <3>2. Merged(h, pl, b, t, D \cup {q}, n, s)
      BY <1>1, <1>7, <2>3, <3>1 DEF Merged
    <3> QED
      BY <1>2, <2>1, <2>3, <3>1, <3>2
  <2>4. CASE ~ (n = c /\ s = ByKey(k))
    <3>1. Merged(h, pl, b, t, D \cup {q}, n, s) <=> Merged(h, pl, b, t, D, n, s)
      <4>1. pl[n] \in Seq(Strides)
        BY <1>3 DEF Placed
      <4>2. ASSUME n = Find(h, b, pl[n]), Append(pl[n], s) = q
            PROVE  FALSE
        <5>0. PICK x, y : x = pl[n] /\ y = ByKey(k)
          OBVIOUS
        <5>a. x \in Seq(Strides) /\ y \in Strides /\ Append(x, s) = Append(p, y)
          BY <1>4, <4>1, <4>2, <5>0
        <5>b. x = p /\ s = y
          BY <5>a, AppendInjective
        <5>1. pl[n] = p /\ s = ByKey(k)
          BY <5>0, <5>b
        <5> QED
          BY <1>1, <2>4, <4>2, <5>1
      <4> QED
        BY <4>2 DEF Merged
    <3> QED
      BY <2>1, <2>2, <2>4, <3>1
  <2> QED
    BY <2>3, <2>4
<1> QED
  BY <1>12, <1>13 DEF Laid

-----------------------------------------------------------------------------
(* The running calls of Overlay.                                           *)

FrameSet == [self : Nat, top : Nat, todo : SUBSET Seq(STRING)]

(* The entries under p that no call has come to.                           *)
Todo(h, t, D, p) ==
  {k \in Seq(STRING) : Find(h, t, Append(p, ByKey(k))) # nil /\ Append(p, ByKey(k)) \notin D}

FrameFor(h, b, t, D, p) ==
  [self |-> Find(h, b, p), top |-> Find(h, t, p), todo |-> Todo(h, t, D, p)]

FrameAt(h, b, t, D, p, f) ==
  /\ p \in Seq(Strides) /\ JointAt(h, b, t, p) /\ (p = <<>> \/ p \in D)
  /\ f = FrameFor(h, b, t, D, p) /\ Todo(h, t, D, p) # {}

Tops(fs) == {fs[i].top : i \in 1 .. Len(fs)}

(* The calls are of different hashes.                                      *)
Stack(h, pl, b, t, D, fs) ==
  /\ fs \in Seq(FrameSet)
  /\ \A i \in 1 .. Len(fs) : FrameAt(h, b, t, D, pl[fs[i].top], fs[i])
  /\ \A i, j \in 1 .. Len(fs) : i # j => fs[i].top # fs[j].top

(* Where something is left to do there is a call.                          *)
Tracked(h, b, t, D, tops) ==
  \A p \in Seq(Strides) :
    JointAt(h, b, t, p) /\ (p = <<>> \/ p \in D) => Todo(h, t, D, p) = {} \/ Find(h, t, p) \in tops

Rooted(D) == \A p \in Seq(Strides), s \in Strides : Append(p, s) \in D => p = <<>> \/ p \in D

LEMMA FrameType ==
  ASSUME NEW h, Sound(h), NEW b \in 0 .. Len(h), NEW t \in 0 .. Len(h), NEW D,
         NEW p \in Seq(Strides)
  PROVE  FrameFor(h, b, t, D, p) \in FrameSet
<1>1. Find(h, b, p) \in Nat /\ Find(h, t, p) \in Nat
  <2>1. Find(h, b, p) \in 0 .. Len(h) /\ Find(h, t, p) \in 0 .. Len(h)
    BY FindType
  <2> QED
    BY <2>1 DEF Sound
<1>2. Todo(h, t, D, p) \in SUBSET Seq(STRING)
  BY DEF Todo
<1> QED
  BY <1>1, <1>2 DEF FrameFor, FrameSet

(* The paths dealt with, and one more.                                     *)
Dealt(D, p, k) == D \cup {Append(p, ByKey(k))}

LEMMA TodoElsewhere ==
  ASSUME NEW h, NEW t, NEW D, NEW p \in Seq(Strides), NEW k \in Seq(STRING),
         NEW r \in Seq(Strides), r # p
  PROVE  Todo(h, t, Dealt(D, p, k), r) = Todo(h, t, D, r)
<1>1. ASSUME NEW x \in Seq(STRING)
      PROVE  Append(r, ByKey(x)) # Append(p, ByKey(k))
  BY KeyStride, AppendInjective
<1> QED
  BY <1>1 DEF Todo, Dealt

LEMMA TodoHere ==
  ASSUME NEW h, NEW t, NEW D, NEW p \in Seq(Strides), NEW k \in Seq(STRING)
  PROVE  Todo(h, t, Dealt(D, p, k), p) = Todo(h, t, D, p) \ {k}
<1>1. ASSUME NEW x \in Seq(STRING)
      PROVE  Append(p, ByKey(x)) = Append(p, ByKey(k)) <=> x = k
  <2>1. ByKey(x) \in Strides /\ ByKey(k) \in Strides /\ (ByKey(x) = ByKey(k) <=> x = k)
    BY KeyStride
  <2> QED
    BY <2>1, AppendInjective
<1> QED
  BY <1>1 DEF Todo, Dealt

Innermost(fs) == fs[Len(fs)]
Outer(fs)     == SubSeq(fs, 1, Len(fs) - 1)
NewTop(fs, f) == f.top \notin Tops(fs)

(* The calls but the innermost, once it has dealt with an entry.           *)
PopIs(h, pl, b, t, D, fs, k) ==
  \E p : /\ p = pl[Innermost(fs).top]
         /\ FrameAt(h, b, t, D, p, Innermost(fs))
         /\ Stack(h, pl, b, t, Dealt(D, p, k), Outer(fs))
         /\ Tops(fs) = Tops(Outer(fs)) \cup {Innermost(fs).top} /\ NewTop(Outer(fs), Innermost(fs))

LEMMA StackPop ==
  ASSUME NEW h, NEW pl, NEW b, NEW t, NEW D, NEW fs, Stack(h, pl, b, t, D, fs), fs # <<>>,
         NEW k \in Seq(STRING)
  PROVE  PopIs(h, pl, b, t, D, fs, k)
<1>0. PICK p, others : p = pl[fs[Len(fs)].top] /\ others = Outer(fs)
  OBVIOUS
<1>a. PICK n : n = Len(fs)
  OBVIOUS
<1>1. fs \in Seq(FrameSet) /\ n \in Nat /\ n >= 1 /\ Len(fs) = n
  BY <1>a, EmptySeq DEF Stack
<1>2. others \in Seq(FrameSet) /\ Len(others) = n - 1 /\ \A i \in 1 .. n - 1 : others[i] = fs[i]
  <2>1. n - 1 \in Int /\ 1 \in Int /\ (n - 1) - 1 + 1 = n - 1 /\ \A i \in 1 .. n - 1 : fs[i] \in FrameSet
    BY <1>1
  <2>2. /\ others \in Seq(FrameSet)
        /\ Len(others) = IF 1 <= n - 1 THEN (n - 1) - 1 + 1 ELSE 0
        /\ \A i \in 1 .. (n - 1) - 1 + 1 : others[i] = fs[1 + i - 1]
    BY <1>0, <1>a, <2>1, SubSeqProperties DEF Outer
  <2> QED
    BY <1>1, <2>1, <2>2
<1>3. n \in 1 .. n /\ 1 .. n = (1 .. n - 1) \cup {n} /\ \A i \in 1 .. n - 1 : i \in 1 .. n /\ i # n
  BY <1>1
<1>b. \A i \in 1 .. n : FrameAt(h, b, t, D, pl[fs[i].top], fs[i])
  BY <1>1 DEF Stack
<1>c. \A i, j \in 1 .. n : i # j => fs[i].top # fs[j].top
  BY <1>1 DEF Stack
<1>d. p = pl[fs[n].top]
  BY <1>0, <1>1
<1>4. FrameAt(h, b, t, D, p, fs[n])
  BY <1>b, <1>d, <1>3
<1>5. Tops(fs) = Tops(others) \cup {fs[n].top}
  <2>1. Tops(fs) = {fs[i].top : i \in 1 .. n} /\ Tops(others) = {others[i].top : i \in 1 .. n - 1}
    BY <1>1, <1>2 DEF Tops
  <2>2. {others[i].top : i \in 1 .. n - 1} = {fs[i].top : i \in 1 .. n - 1}
    BY <1>2
  <2>3. {fs[i].top : i \in 1 .. n} = {fs[i].top : i \in 1 .. n - 1} \cup {fs[n].top}
    BY <1>3
  <2> QED
    BY <2>1, <2>2, <2>3
<1>6. fs[n].top \notin Tops(others)
  <2>1. Tops(others) = {others[i].top : i \in 1 .. n - 1}
    BY <1>2 DEF Tops
  <2>2. \A i \in 1 .. n - 1 : others[i].top # fs[n].top
    BY <1>2, <1>3, <1>c
  <2> QED
    BY <2>1, <2>2
<1>7. ASSUME NEW i \in 1 .. n - 1
      PROVE  FrameAt(h, b, t, Dealt(D, p, k), pl[fs[i].top], fs[i])
  <2>1. PICK r : r = pl[fs[i].top]
    OBVIOUS
  <2>2. FrameAt(h, b, t, D, r, fs[i]) /\ fs[i].top # fs[n].top
    BY <1>3, <1>b, <1>c, <2>1
  <2>3. r # p
    <3>1. fs[i].top = Find(h, t, r) /\ fs[n].top = Find(h, t, p)
      BY <1>4, <2>2 DEF FrameAt, FrameFor
    <3> QED
      BY <2>2, <3>1
  <2>4. Todo(h, t, Dealt(D, p, k), r) = Todo(h, t, D, r)
    <3>1. PICK x : x = p
      OBVIOUS
    <3>2. x \in Seq(Strides) /\ r \in Seq(Strides) /\ r # x
      BY <1>4, <2>2, <2>3, <3>1 DEF FrameAt
    <3>3. Todo(h, t, Dealt(D, x, k), r) = Todo(h, t, D, r)
      BY <3>2, TodoElsewhere
    <3> QED
      BY <3>1, <3>3
  <2> QED
    BY <2>1, <2>2, <2>4 DEF FrameAt, FrameFor, Dealt
<1>8. Stack(h, pl, b, t, Dealt(D, p, k), others)
  <2>1. ASSUME NEW i \in 1 .. Len(others)
        PROVE  FrameAt(h, b, t, Dealt(D, p, k), pl[others[i].top], others[i])
    <3>1. i \in 1 .. n - 1 /\ others[i] = fs[i]
      BY <1>2
    <3> QED
      BY <1>7, <3>1
  <2>2. ASSUME NEW i \in 1 .. Len(others), NEW j \in 1 .. Len(others), i # j
        PROVE  others[i].top # others[j].top
    <3>1. i \in 1 .. n /\ j \in 1 .. n /\ others[i] = fs[i] /\ others[j] = fs[j]
      BY <1>2, <1>3
    <3> QED
      BY <1>c, <2>2, <3>1
  <2> QED
    BY <1>2, <2>1, <2>2 DEF Stack
<1> QED
  BY <1>0, <1>a, <1>4, <1>5, <1>6, <1>8 DEF PopIs, NewTop, Innermost

PushIs(h, pl, b, t, D, fs, f) ==
  Stack(h, pl, b, t, D, Append(fs, f)) /\ Tops(Append(fs, f)) = Tops(fs) \cup {f.top}

LEMMA StackPush ==
  ASSUME NEW h, NEW pl, NEW b, NEW t, Ground(h, pl, b, t), NEW D, NEW fs,
         Stack(h, pl, b, t, D, fs),
         NEW p, NEW f, FrameAt(h, b, t, D, p, f), NewTop(fs, f)
  PROVE  PushIs(h, pl, b, t, D, fs, f)
<1>0. PICK new : new = Append(fs, f)
  OBVIOUS
<1>1. /\ p \in Seq(Strides) /\ f = FrameFor(h, b, t, D, p) /\ f.top = Find(h, t, p)
      /\ BothAt(h, b, t, p, "hash")
  BY JointBoth DEF FrameAt, FrameFor
<1>2. f \in FrameSet
  <2>1. Sound(h) /\ b \in 0 .. Len(h) /\ t \in 0 .. Len(h)
    BY DEF Ground, Sound
  <2> QED
    BY <1>1, <2>1, FrameType
<1>3. pl[f.top] = p
  BY <1>1, FindPlace DEF Ground, BothAt, IsAt
<1>4. /\ new \in Seq(FrameSet) /\ Len(new) = Len(fs) + 1 /\ Len(fs) \in Nat
      /\ \A i \in 1 .. Len(fs) : new[i] = fs[i]
      /\ new[Len(fs) + 1] = f
  BY <1>0, <1>2 DEF Stack
<1>5. 1 .. Len(new) = (1 .. Len(fs)) \cup {Len(fs) + 1} /\ Len(fs) + 1 \notin 1 .. Len(fs)
  BY <1>4
<1>6. Tops(new) = Tops(fs) \cup {f.top}
  BY <1>4, <1>5 DEF Tops
<1>7. \A i \in 1 .. Len(fs) : fs[i].top # f.top
  BY DEF Tops, NewTop
<1>8. \A i, j \in 1 .. Len(new) : i # j => new[i].top # new[j].top
  BY <1>4, <1>5, <1>7 DEF Stack
<1>9. \A i \in 1 .. Len(new) : FrameAt(h, b, t, D, pl[new[i].top], new[i])
  BY <1>3, <1>4, <1>5 DEF Stack
<1> QED
  BY <1>0, <1>4, <1>6, <1>8, <1>9 DEF Stack, PushIs

(* The keys of a hash.                                                     *)
LEMMA KidsAre ==
  ASSUME NEW g, Sound(g), NEW m \in 1 .. Len(g), g[m].type = "hash"
  PROVE  /\ DOMAIN g[m].hash = {k \in Seq(STRING) : Child(g, m, ByKey(k)) # nil}
         /\ \A k \in DOMAIN g[m].hash : Child(g, m, ByKey(k)) = g[m].hash[k]
<1>1. PICK f : f = g[m].hash
  OBVIOUS
<1>2. g[m] \in GoNode
  BY DEF Sound
<1>3. f \in Tables
  BY <1>1, <1>2 DEF GoNode
<1>4. DOMAIN f \subseteq Seq(STRING)
  BY <1>3 DEF Tables
<1>5. \A k \in DOMAIN f : f[k] # nil
  <2>1. \A k \in DOMAIN f : f[k] \in 1 .. Len(g)
    BY <1>1 DEF Sound
  <2> QED
    BY <2>1 DEF nil
<1>6. m # nil
  BY DEF nil
<1>7. \A k \in Seq(STRING) : Child(g, m, ByKey(k)) = IF k \in DOMAIN f THEN f[k] ELSE nil
  BY <1>1, <1>6, KeyStride DEF Child
<1>8. DOMAIN f = {k \in Seq(STRING) : Child(g, m, ByKey(k)) # nil}
  BY <1>4, <1>5, <1>7
<1>9. \A k \in DOMAIN f : Child(g, m, ByKey(k)) = f[k]
  BY <1>4, <1>7
<1> QED
  BY <1>1, <1>8, <1>9

(* The two hashes at a path where hash lies on hash.                       *)
LEMMA JointNodes ==
  ASSUME NEW h, NEW pl, NEW b, NEW t, Ground(h, pl, b, t), NEW D, NEW new,
         Laid(h, pl, b, t, D, new), NEW p \in Seq(Strides), JointAt(h, b, t, p)
  PROVE  /\ Find(h, b, p) \in 1 .. Len(h) /\ pl[Find(h, b, p)] = p
         /\ Find(h, t, p) \in 1 .. Len(h) /\ pl[Find(h, t, p)] = p
         /\ new[Find(h, b, p)].type = "hash" /\ new[Find(h, t, p)].type = "hash"
         /\ DOMAIN new[Find(h, t, p)].hash
              = {k \in Seq(STRING) : Find(h, t, Append(p, ByKey(k))) # nil}
         /\ \A k \in DOMAIN new[Find(h, t, p)].hash :
              new[Find(h, t, p)].hash[k] = Find(h, t, Append(p, ByKey(k)))
<1>1. PICK c, m : c = Find(h, b, p) /\ m = Find(h, t, p)
  OBVIOUS
<1>2. /\ Sound(h) /\ Placed(h, pl) /\ Len(new) = Len(h) /\ Sound(new)
      /\ b \in 1 .. Len(h) /\ pl[b] = <<>> /\ t \in 1 .. Len(h) /\ pl[t] = <<>>
  BY DEF Ground, Laid, SameNodes
<1>3. BothAt(h, b, t, p, "hash")
  BY JointBoth
<1>4. c # nil /\ m # nil /\ h[c].type = "hash" /\ h[m].type = "hash"
  BY <1>1, <1>3 DEF BothAt, IsAt
<1>5. c \in 1 .. Len(h) /\ pl[c] = p /\ m \in 1 .. Len(h) /\ pl[m] = p
  BY <1>1, <1>2, <1>4, FindPlace
<1>6. new[c].type = "hash" /\ new[m].type = "hash"
  BY <1>4, <1>5 DEF Laid, SameNodes
<1>7. \A k \in Seq(STRING) : Child(new, m, ByKey(k)) = Find(h, t, Append(p, ByKey(k)))
  <2>1. \A s \in Strides : Child(new, m, s) = Find(h, t, Append(p, s))
    BY <1>1, <1>4, TopKept
  <2> QED
    BY <2>1, KeyStride
<1>8. /\ DOMAIN new[m].hash = {k \in Seq(STRING) : Child(new, m, ByKey(k)) # nil}
      /\ \A k \in DOMAIN new[m].hash : Child(new, m, ByKey(k)) = new[m].hash[k]
  BY <1>2, <1>5, <1>6, KidsAre
<1>9. /\ DOMAIN new[m].hash = {k \in Seq(STRING) : Find(h, t, Append(p, ByKey(k))) # nil}
      /\ \A k \in DOMAIN new[m].hash : new[m].hash[k] = Find(h, t, Append(p, ByKey(k)))
  BY <1>7, <1>8
<1> QED
  BY <1>1, <1>5, <1>6, <1>9

LEMMA FrameIs ==
  ASSUME NEW h, NEW pl, NEW b, NEW t, Ground(h, pl, b, t), NEW D, Laid(h, pl, b, t, D, heap),
         NEW p \in Seq(Strides), JointAt(h, b, t, p),
         \A k \in Seq(STRING) : Append(p, ByKey(k)) \notin D
  PROVE  Frame(Find(h, b, p), Find(h, t, p))
           = IF Todo(h, t, D, p) = {} THEN <<>> ELSE <<FrameFor(h, b, t, D, p)>>
<1>1. PICK c, m : c = Find(h, b, p) /\ m = Find(h, t, p)
  OBVIOUS
<1>2. /\ heap[c].type = "hash" /\ heap[m].type = "hash"
      /\ DOMAIN heap[m].hash = {k \in Seq(STRING) : Find(h, t, Append(p, ByKey(k))) # nil}
  BY <1>1, JointNodes
<1>3. DOMAIN heap[m].hash = Todo(h, t, D, p)
  BY <1>2 DEF Todo
<1>4. Frame(c, m) = IF Todo(h, t, D, p) = {} THEN <<>>
                    ELSE <<[self |-> c, top |-> m, todo |-> Todo(h, t, D, p)]>>
  BY <1>2, <1>3 DEF Frame
<1> QED
  BY <1>1, <1>4 DEF FrameFor

KeyPlain(k) == Split(k) = <<k>>

LEMMA GetOne ==
  ASSUME Sound(heap), NEW n \in 1 .. Len(heap), NEW k \in Seq(STRING), KeyPlain(k)
  PROVE  Get(n, k) = Child(heap, n, ByKey(k))
<1>1. PICK s \in Strides : s = ByKey(k)
  BY KeyStride
<1>2. ByKeys(Split(k)) = <<s>>
  BY <1>1 DEF KeyPlain, ByKeys, ByKey
<1>3. <<s>> = Append(<<>>, s) /\ <<>> \in Seq(Strides)
  OBVIOUS
<1>4. n \in 0 .. Len(heap)
  BY DEF Sound
<1>5. Find(heap, n, Append(<<>>, s)) = Child(heap, Find(heap, n, <<>>), s)
  BY <1>1, <1>3, <1>4, FindStep
<1>6. Find(heap, n, <<>>) = n
  BY <1>4, FindHere
<1> QED
  BY <1>1, <1>2, <1>3, <1>5, <1>6 DEF Get

(* Where Overlay has got to.                                               *)
Running(h, pl, b, t, D, new, fs) ==
  /\ Ground(h, pl, b, t) /\ Laid(h, pl, b, t, D, new)
  /\ Stack(h, pl, b, t, D, fs) /\ Tracked(h, b, t, D, Tops(fs)) /\ Rooted(D)

LEMMA RootedGrows ==
  ASSUME NEW D, Rooted(D), NEW p \in Seq(Strides), p = <<>> \/ p \in D, NEW k \in Seq(STRING)
  PROVE  Rooted(Dealt(D, p, k))
<1> SUFFICES ASSUME NEW r \in Seq(Strides), NEW s \in Strides, Append(r, s) \in Dealt(D, p, k)
             PROVE  r = <<>> \/ r \in Dealt(D, p, k)
  BY DEF Rooted
<1>1. CASE Append(r, s) \in D
  BY <1>1 DEF Rooted, Dealt
<1>2. CASE Append(r, s) = Append(p, ByKey(k))
  <2>1. r = p
    BY <1>2, KeyStride, AppendInjective
  <2> QED
    BY <2>1 DEF Dealt
<1> QED
  BY <1>1, <1>2 DEF Dealt

(* The innermost call has dealt with an entry, and goes on or returns.     *)
Left(fs, k) ==
  LET f      == fs[Len(fs)]
      others == SubSeq(fs, 1, Len(fs) - 1)
  IN  IF f.todo = {k} THEN others ELSE Append(others, [f EXCEPT !.todo = @ \ {k}])

TrackedBut(h, b, t, D, tops, q) ==
  \A r \in Seq(Strides) :
    r # q /\ JointAt(h, b, t, r) /\ (r = <<>> \/ r \in D) =>
      Todo(h, t, D, r) = {} \/ Find(h, t, r) \in tops

LEMMA LeftStack ==
  ASSUME NEW h, NEW pl, NEW b, NEW t, NEW D, NEW new, NEW fs, Running(h, pl, b, t, D, new, fs),
         fs # <<>>, NEW p, p = pl[fs[Len(fs)].top], NEW k \in fs[Len(fs)].todo
  PROVE  /\ k \in Seq(STRING) /\ FrameAt(h, b, t, D, p, fs[Len(fs)])
         /\ Stack(h, pl, b, t, Dealt(D, p, k), Left(fs, k))
         /\ Tops(Left(fs, k)) \subseteq Tops(fs)
         /\ TrackedBut(h, b, t, Dealt(D, p, k), Tops(Left(fs, k)), Append(p, ByKey(k)))
<1>1. PICK f, others : f = fs[Len(fs)] /\ others = SubSeq(fs, 1, Len(fs) - 1)
  OBVIOUS
<1>2. Ground(h, pl, b, t) /\ Stack(h, pl, b, t, D, fs) /\ Tracked(h, b, t, D, Tops(fs))
  BY DEF Running
<1>3. FrameAt(h, b, t, D, p, f)
  <2>1. Len(fs) \in 1 .. Len(fs)
    BY <1>2, EmptySeq DEF Stack
  <2> QED
    BY <1>1, <1>2, <2>1 DEF Stack
<1>4. /\ p \in Seq(Strides) /\ JointAt(h, b, t, p) /\ f = FrameFor(h, b, t, D, p)
      /\ f.self = Find(h, b, p) /\ f.top = Find(h, t, p) /\ f.todo = Todo(h, t, D, p)
      /\ p = <<>> \/ p \in D
  BY <1>3 DEF FrameAt, FrameFor
<1>5. k \in Seq(STRING) /\ k \in f.todo
  BY <1>1, <1>4 DEF Todo
<1>6. PICK E : E = Dealt(D, p, k)
  OBVIOUS
<1>7. /\ Stack(h, pl, b, t, E, others) /\ Tops(fs) = Tops(others) \cup {f.top}
      /\ f.top \notin Tops(others)
  <2>1. PopIs(h, pl, b, t, D, fs, k)
    BY <1>2, <1>5, StackPop
  <2> QED
    BY <1>1, <1>6, <2>1 DEF PopIs, NewTop, Innermost, Outer
<1>8. Todo(h, t, E, p) = f.todo \ {k}
  BY <1>4, <1>5, <1>6, TodoHere
<1>9. /\ Stack(h, pl, b, t, E, Left(fs, k)) /\ Tops(Left(fs, k)) \subseteq Tops(fs)
      /\ Tops(others) \subseteq Tops(Left(fs, k))
      /\ Todo(h, t, E, p) = {} \/ f.top \in Tops(Left(fs, k))
  <2>1. CASE f.todo = {k}
    BY <1>1, <1>7, <1>8, <2>1 DEF Left
  <2>2. CASE f.todo # {k}
    <3>1. PICK g : g = [f EXCEPT !.todo = @ \ {k}]
      OBVIOUS
    <3>2. g = FrameFor(h, b, t, E, p) /\ g.top = f.top
      BY <1>4, <1>8, <3>1 DEF FrameFor
    <3>3. Todo(h, t, E, p) # {}
      BY <1>5, <1>8, <2>2
    <3>4. FrameAt(h, b, t, E, p, g)
      <4>1. p = <<>> \/ p \in E
        BY <1>4, <1>6 DEF Dealt
      <4> QED
        BY <1>4, <3>2, <3>3, <4>1 DEF FrameAt
    <3>5. PICK left : left = Append(others, g)
      OBVIOUS
    <3>6. Stack(h, pl, b, t, E, left) /\ Tops(left) = Tops(others) \cup {g.top}
      <4>1. NewTop(others, g)
        BY <1>7, <3>2 DEF NewTop
      <4>2. PushIs(h, pl, b, t, E, others, g)
        BY <1>2, <1>7, <3>4, <4>1, StackPush
      <4> QED
        BY <3>5, <4>2 DEF PushIs
    <3>7. Left(fs, k) = left
      BY <1>1, <2>2, <3>1, <3>5 DEF Left
    <3> QED
      BY <1>7, <3>2, <3>6, <3>7
  <2> QED
    BY <2>1, <2>2
<1>10. ASSUME NEW r \in Seq(Strides), r # Append(p, ByKey(k)), JointAt(h, b, t, r), r = <<>> \/ r \in E
       PROVE  Todo(h, t, E, r) = {} \/ Find(h, t, r) \in Tops(Left(fs, k))
  <2>1. r = <<>> \/ r \in D
    BY <1>6, <1>10 DEF Dealt
  <2>2. Todo(h, t, D, r) = {} \/ Find(h, t, r) \in Tops(fs)
    BY <1>2, <1>10, <2>1 DEF Tracked
  <2>3. CASE r = p
    BY <1>4, <1>9, <2>3
  <2>4. CASE r # p
    <3>1. Todo(h, t, E, r) = Todo(h, t, D, r)
      <4>1. PICK x : x = p
        OBVIOUS
      <4>2. x \in Seq(Strides) /\ r # x
        BY <1>4, <2>4, <4>1
      <4>3. Todo(h, t, Dealt(D, x, k), r) = Todo(h, t, D, r)
        BY <1>5, <4>2, TodoElsewhere
      <4> QED
        BY <1>6, <4>1, <4>3
    <3>2. Find(h, t, r) # f.top
      <4>1. pl[Find(h, t, r)] = r /\ pl[f.top] = p
        <5>1. Find(h, t, r) # nil /\ Find(h, t, p) # nil
          BY <1>4, <1>10, JointBoth DEF BothAt, IsAt
        <5> QED
          BY <1>2, <1>4, <5>1, FindPlace DEF Ground
      <4> QED
        BY <2>4, <4>1
    <3> QED
      BY <1>7, <1>9, <2>2, <3>1, <3>2
  <2> QED
    BY <2>3, <2>4
<1>11. TrackedBut(h, b, t, E, Tops(Left(fs, k)), Append(p, ByKey(k)))
  BY <1>10 DEF TrackedBut
<1> QED
  BY <1>1, <1>3, <1>5, <1>6, <1>9, <1>11

KeysPlain == \A n \in Nodes : \A k \in DOMAIN heap[n].hash : KeyPlain(k)

Fresher(D, q) == q # <<>> /\ q \notin D

(* What an entry finds: nobody has been there before.                      *)
EntryAt(h, pl, b, t, D, p, k, f) ==
  /\ k \in Seq(STRING) /\ p \in Seq(Strides) /\ JointAt(h, b, t, p) /\ (p = <<>> \/ p \in D)
  /\ f.self = Find(h, b, p) /\ f.top = Find(h, t, p)
  /\ Append(p, ByKey(k)) \in Seq(Strides) /\ Fresher(D, Append(p, ByKey(k)))
  /\ heap[f.top].hash[k] = Find(h, t, Append(p, ByKey(k)))
  /\ Get(f.self, k) = Find(h, b, Append(p, ByKey(k)))
  /\ Find(h, t, Append(p, ByKey(k))) # nil

LEMMA EntryFinds ==
  ASSUME NEW h, NEW pl, NEW b, NEW t, NEW D, NEW fs, Running(h, pl, b, t, D, heap, fs),
         fs # <<>>, KeysPlain, NEW f, f = fs[Len(fs)], NEW k \in f.todo
  PROVE  EntryAt(h, pl, b, t, D, pl[f.top], k, f)
<1>1. PICK p : p = pl[f.top]
  OBVIOUS
<1>2. k \in Seq(STRING) /\ FrameAt(h, b, t, D, p, f)
  BY <1>1, LeftStack
<1>3. /\ p \in Seq(Strides) /\ JointAt(h, b, t, p) /\ (p = <<>> \/ p \in D)
      /\ f.self = Find(h, b, p) /\ f.top = Find(h, t, p) /\ f.todo = Todo(h, t, D, p)
  BY <1>2 DEF FrameAt, FrameFor
<1>4. PICK q, s : q = Append(p, s) /\ s = ByKey(k)
  OBVIOUS
<1>5. s \in Strides
  BY <1>2, <1>4, KeyStride
<1>6. q \in Seq(Strides) /\ q # <<>>
  BY <1>3, <1>4, <1>5, PathPrefix
<1>7. Find(h, t, q) # nil /\ q \notin D
  BY <1>3, <1>4 DEF Todo
<1>8. Ground(h, pl, b, t) /\ Laid(h, pl, b, t, D, heap) /\ Sound(h) /\ b \in 0 .. Len(h)
  BY DEF Running, Ground, Sound
<1>9. PICK c, m : c = f.self /\ m = f.top
  OBVIOUS
<1>10. /\ c \in 1 .. Len(h) /\ pl[c] = p /\ m \in 1 .. Len(h)
       /\ DOMAIN heap[m].hash = {x \in Seq(STRING) : Find(h, t, Append(p, ByKey(x))) # nil}
       /\ \A x \in DOMAIN heap[m].hash : heap[m].hash[x] = Find(h, t, Append(p, ByKey(x)))
  BY <1>3, <1>8, <1>9, JointNodes
<1>11. k \in DOMAIN heap[m].hash /\ heap[m].hash[k] = Find(h, t, q)
  BY <1>2, <1>4, <1>7, <1>10
<1>12. Len(heap) = Len(h) /\ Sound(heap)
  BY <1>8 DEF Laid, SameNodes
<1>13. KeyPlain(k)
  BY <1>10, <1>11, <1>12 DEF KeysPlain, Nodes
<1>14. Get(c, k) = Child(heap, c, s)
  BY <1>2, <1>4, <1>10, <1>12, <1>13, GetOne
<1>15. Child(heap, c, s) = Child(h, c, s)
  <2>1. ~ Merged(h, pl, b, t, D, c, s)
    BY <1>4, <1>7, <1>10 DEF Merged
  <2> QED
    BY <1>5, <1>8, <1>10, <2>1 DEF Laid
<1>16. Find(h, b, q) = Child(h, c, s)
  BY <1>3, <1>4, <1>5, <1>8, <1>9, FindStep
<1> QED
  BY <1>1, <1>2, <1>3, <1>4, <1>6, <1>7, <1>9, <1>11, <1>14, <1>15, <1>16 DEF EntryAt, Fresher

(* Hash on hash and array on array can be told in the heap as it is.       *)
LEMMA BothSame ==
  ASSUME NEW h, Sound(h), NEW new, SameNodes(h, new), NEW b \in 0 .. Len(h), NEW t \in 0 .. Len(h),
         NEW q \in Seq(Strides), Find(h, t, q) # nil, NEW ty
  PROVE  BothAt(h, b, t, q, ty) <=> /\ Find(h, b, q) # nil
                                    /\ new[Find(h, b, q)].type = ty /\ new[Find(h, t, q)].type = ty
<1>1. PICK c, m : c = Find(h, b, q) /\ m = Find(h, t, q)
  OBVIOUS
<1>2. c \in 0 .. Len(h) /\ m \in 0 .. Len(h) /\ Len(h) \in Nat
  BY <1>1, FindType DEF Sound
<1>3. (c # nil => c \in 1 .. Len(h)) /\ m \in 1 .. Len(h)
  BY <1>1, <1>2 DEF nil
<1>4. (c # nil => new[c].type = h[c].type) /\ new[m].type = h[m].type
  BY <1>3 DEF SameNodes
<1> QED
  BY <1>1, <1>4 DEF BothAt, IsAt

LEMMA TrackedWhole ==
  ASSUME NEW h, NEW b, NEW t, NEW D, NEW tops, NEW q, TrackedBut(h, b, t, D, tops, q),
         ~ JointAt(h, b, t, q)
  PROVE  Tracked(h, b, t, D, tops)
BY DEF TrackedBut, Tracked

(* A hash is merged into a hash by a call of its own.                      *)
LEMMA EntryPush ==
  ASSUME NEW h, NEW pl, NEW b, NEW t, NEW D, NEW fs, Running(h, pl, b, t, D, heap, fs),
         NEW E, NEW q \in Seq(Strides), Fresher(D, q), q \in E, JointAt(h, b, t, q),
         Todo(h, t, E, q) = Todo(h, t, D, q),
         NEW left, Stack(h, pl, b, t, E, left), Tops(left) \subseteq Tops(fs),
         TrackedBut(h, b, t, E, Tops(left), q),
         NEW new, new = left \o Frame(Find(h, b, q), Find(h, t, q))
  PROVE  Stack(h, pl, b, t, E, new) /\ Tracked(h, b, t, E, Tops(new))
<1>1. /\ Ground(h, pl, b, t) /\ Laid(h, pl, b, t, D, heap) /\ Rooted(D)
      /\ Stack(h, pl, b, t, D, fs) /\ q # <<>> /\ q \notin D
  BY DEF Running, Fresher
<1>2. \A k \in Seq(STRING) : Append(q, ByKey(k)) \notin D
  BY <1>1, KeyStride DEF Rooted
<1>3. PICK f : f = FrameFor(h, b, t, E, q)
  OBVIOUS
<1>4. Frame(Find(h, b, q), Find(h, t, q)) = IF Todo(h, t, E, q) = {} THEN <<>> ELSE <<f>>
  <2>1. FrameFor(h, b, t, D, q) = f
    BY <1>3 DEF FrameFor
  <2>2. Frame(Find(h, b, q), Find(h, t, q))
          = IF Todo(h, t, D, q) = {} THEN <<>> ELSE <<FrameFor(h, b, t, D, q)>>
    BY <1>1, <1>2, FrameIs
  <2> QED
    BY <2>1, <2>2
<1>5. left \in Seq(FrameSet)
  BY DEF Stack
<1>6. CASE Todo(h, t, E, q) = {}
  <2>1. new = left
    BY <1>4, <1>5, <1>6
  <2> QED
    BY <1>6, <2>1 DEF TrackedBut, Tracked
<1>7. CASE Todo(h, t, E, q) # {}
  <2>1. FrameAt(h, b, t, E, q, f) /\ f.top = Find(h, t, q)
    BY <1>3, <1>7 DEF FrameAt, FrameFor
  <2>2. f \in FrameSet
    <3>1. Sound(h) /\ b \in 0 .. Len(h) /\ t \in 0 .. Len(h)
      BY <1>1 DEF Ground, Sound
    <3> QED
      BY <1>3, <3>1, FrameType
  <2>3. new = Append(left, f)
    BY <1>4, <1>5, <1>7, <2>2
  <2>4. NewTop(left, f)
    <3> SUFFICES ASSUME f.top \in Tops(fs) PROVE FALSE
      BY DEF NewTop
    <3>1. PICK i \in 1 .. Len(fs) : fs[i].top = f.top
      BY DEF Tops
    <3>2. PICK r : r = pl[f.top]
      OBVIOUS
    <3>3. FrameAt(h, b, t, D, r, fs[i])
      BY <1>1, <3>1, <3>2 DEF Stack
    <3>4. r = q
      BY <1>1, <2>1, <3>2, JointNodes
    <3> QED
      BY <1>1, <3>3, <3>4 DEF FrameAt
  <2>5. PushIs(h, pl, b, t, E, left, f)
    BY <1>1, <2>1, <2>4, StackPush
  <2>6. Stack(h, pl, b, t, E, new) /\ Tops(new) = Tops(left) \cup {f.top}
    BY <2>3, <2>5 DEF PushIs
  <2>7. Tracked(h, b, t, E, Tops(new))
    BY <2>1, <2>6 DEF TrackedBut, Tracked
  <2> QED
    BY <2>6, <2>7
<1> QED
  BY <1>6, <1>7

EntryGoal(h, pl, b, t) == \E E : Running(h, pl, b, t, E, heap', frames')

(* What OverlayEntry does with the entry k of top, m, over c of self.       *)
EntryPuts(self, k, c, m, left) ==
  \/ /\ c # nil /\ heap[c].type = "hash" /\ heap[m].type = "hash"
     /\ frames' = left \o Frame(c, m) /\ heap' = heap
  \/ /\ c # nil /\ heap[c].type = "arr" /\ heap[m].type = "arr"
     /\ frames' = left /\ heap' = heap
  \/ /\ ~ (c # nil /\ heap[c].type = "hash" /\ heap[m].type = "hash")
     /\ ~ (c # nil /\ heap[c].type = "arr" /\ heap[m].type = "arr")
     /\ frames' = left /\ heap' = Add(heap, self, k, m)

LEMMA EntryTakes ==
  ASSUME OverlayEntry, NEW f, f = frames[Len(frames)]
  PROVE  /\ frames # <<>>
         /\ \E k \in f.todo : EntryPuts(f.self, k, Get(f.self, k), heap[f.top].hash[k], Left(frames, k))
<1>0. PICK g \in {frames[Len(frames)]} : \E k \in g.todo :
             LET ontopVal == heap[g.top].hash[k]
                 curVal   == Get(g.self, k)
                 both(ty) == curVal # nil /\ heap[curVal].type = ty /\ heap[ontopVal].type = ty
                 others   == SubSeq(frames, 1, Len(frames) - 1)
                 left     == IF g.todo = {k} THEN others
                             ELSE Append(others, [g EXCEPT !.todo = @ \ {k}])
             IN  \/ both("hash") /\ frames' = left \o Frame(curVal, ontopVal) /\ UNCHANGED heap
                 \/ both("arr")  /\ frames' = left /\ UNCHANGED heap
                 \/ /\ ~ both("hash") /\ ~ both("arr")
                    /\ frames' = left
                    /\ heap' = Add(heap, g.self, k, ontopVal)
  BY DEF OverlayEntry
<1>1. g = f /\ frames # <<>>
  BY <1>0 DEF OverlayEntry
<1>a. PICK k \in f.todo :
             LET ontopVal == heap[f.top].hash[k]
                 curVal   == Get(f.self, k)
                 both(ty) == curVal # nil /\ heap[curVal].type = ty /\ heap[ontopVal].type = ty
                 others   == SubSeq(frames, 1, Len(frames) - 1)
                 left     == IF f.todo = {k} THEN others
                             ELSE Append(others, [f EXCEPT !.todo = @ \ {k}])
             IN  \/ both("hash") /\ frames' = left \o Frame(curVal, ontopVal) /\ UNCHANGED heap
                 \/ both("arr")  /\ frames' = left /\ UNCHANGED heap
                 \/ /\ ~ both("hash") /\ ~ both("arr")
                    /\ frames' = left
                    /\ heap' = Add(heap, f.self, k, ontopVal)
  BY <1>0, <1>1
<1>2. /\ k \in f.todo
      /\ LET ontopVal == heap[f.top].hash[k]
             curVal   == Get(f.self, k)
             both(ty) == curVal # nil /\ heap[curVal].type = ty /\ heap[ontopVal].type = ty
         IN  \/ both("hash") /\ frames' = Left(frames, k) \o Frame(curVal, ontopVal) /\ UNCHANGED heap
             \/ both("arr")  /\ frames' = Left(frames, k) /\ UNCHANGED heap
             \/ /\ ~ both("hash") /\ ~ both("arr")
                /\ frames' = Left(frames, k)
                /\ heap' = Add(heap, f.self, k, ontopVal)
  BY <1>1, <1>a DEF Left
<1>3. EntryPuts(f.self, k, Get(f.self, k), heap[f.top].hash[k], Left(frames, k))
  BY <1>2 DEF EntryPuts
<1> QED
  BY <1>1, <1>2, <1>3

LEMMA EntryStep ==
  ASSUME NEW h, NEW pl, NEW b, NEW t, NEW D, Running(h, pl, b, t, D, heap, frames),
         KeysPlain, OverlayEntry
  PROVE  EntryGoal(h, pl, b, t)
<1>1. PICK f : f = frames[Len(frames)] /\ frames # <<>>
  BY DEF OverlayEntry
<1>2. PICK k \in f.todo : EntryPuts(f.self, k, Get(f.self, k), heap[f.top].hash[k], Left(frames, k))
  BY <1>1, EntryTakes
<1>3. PICK p, q, E : p = pl[f.top] /\ q = Append(p, ByKey(k)) /\ E = Dealt(D, p, k)
  OBVIOUS
<1>4. EntryAt(h, pl, b, t, D, p, k, f)
  <2>1. EntryAt(h, pl, b, t, D, pl[f.top], k, f)
    BY <1>1, EntryFinds
  <2> QED
    BY <1>3, <2>1
<1>5. /\ k \in Seq(STRING) /\ p \in Seq(Strides) /\ JointAt(h, b, t, p) /\ (p = <<>> \/ p \in D)
      /\ f.self = Find(h, b, p) /\ f.top = Find(h, t, p)
      /\ q \in Seq(Strides) /\ Fresher(D, q) /\ Find(h, t, q) # nil
      /\ heap[f.top].hash[k] = Find(h, t, q) /\ Get(f.self, k) = Find(h, b, q)
  BY <1>3, <1>4 DEF EntryAt
<1>6. PICK c, m, left : c = Find(h, b, q) /\ m = Find(h, t, q) /\ left = Left(frames, k)
  OBVIOUS
<1>7. \/ /\ c # nil /\ heap[c].type = "hash" /\ heap[m].type = "hash"
         /\ frames' = left \o Frame(c, m) /\ heap' = heap
      \/ /\ c # nil /\ heap[c].type = "arr" /\ heap[m].type = "arr"
         /\ frames' = left /\ heap' = heap
      \/ /\ ~ (c # nil /\ heap[c].type = "hash" /\ heap[m].type = "hash")
         /\ ~ (c # nil /\ heap[c].type = "arr" /\ heap[m].type = "arr")
         /\ frames' = left /\ heap' = Add(heap, f.self, k, m)
  BY <1>2, <1>5, <1>6 DEF EntryPuts
<1>8. /\ Ground(h, pl, b, t) /\ Laid(h, pl, b, t, D, heap) /\ Rooted(D)
      /\ Sound(h) /\ SameNodes(h, heap) /\ b \in 0 .. Len(h) /\ t \in 0 .. Len(h)
  BY DEF Running, Laid, Ground, Sound
<1>9. \A ty : BothAt(h, b, t, q, ty) <=> c # nil /\ heap[c].type = ty /\ heap[m].type = ty
  BY <1>5, <1>6, <1>8, BothSame
<1>10. /\ Stack(h, pl, b, t, E, left) /\ Tops(left) \subseteq Tops(frames)
       /\ TrackedBut(h, b, t, E, Tops(left), q)
  <2>1. p = pl[frames[Len(frames)].top] /\ k \in frames[Len(frames)].todo
    BY <1>1, <1>2, <1>3
  <2>2. /\ Stack(h, pl, b, t, Dealt(D, p, k), Left(frames, k))
        /\ Tops(Left(frames, k)) \subseteq Tops(frames)
        /\ TrackedBut(h, b, t, Dealt(D, p, k), Tops(Left(frames, k)), Append(p, ByKey(k)))
    BY <1>1, <2>1, LeftStack
  <2> QED
    BY <1>3, <1>6, <2>2
<1>11. Rooted(E) /\ q \in E /\ E = D \cup {q}
  BY <1>3, <1>5, <1>8, RootedGrows DEF Dealt
<1>12. JointAt(h, b, t, q) => c # nil /\ heap[c].type = "hash" /\ heap[m].type = "hash"
  BY <1>5, <1>9, JointBoth
<1>13. CASE /\ c # nil /\ heap[c].type = "hash" /\ heap[m].type = "hash"
            /\ frames' = left \o Frame(c, m) /\ heap' = heap
  <2>1. BothAt(h, b, t, q, "hash")
    BY <1>9, <1>13
  <2>2. JointAt(h, b, t, q)
    BY <1>3, <1>5, <2>1, KeyStride, JointStep
  <2>3. Laid(h, pl, b, t, E, heap')
    <3>1. ~ LaysAt(h, b, t, q)
      BY <2>1 DEF LaysAt
    <3>2. Laid(h, pl, b, t, D \cup {q}, heap)
      BY <1>8, <3>1, LaidSkip
    <3> QED
      BY <1>11, <1>13, <3>2
  <2>4. Todo(h, t, E, q) = Todo(h, t, D, q)
    <3>1. p # q
      <4>1. Len(q) = Len(p) + 1 /\ Len(p) \in Nat
        BY <1>3, <1>5, KeyStride, PathPrefix
      <4> QED
        BY <4>1
    <3>2. Todo(h, t, Dealt(D, p, k), q) = Todo(h, t, D, q)
      BY <1>5, <3>1, TodoElsewhere
    <3> QED
      BY <1>3, <3>2
  <2>5. Stack(h, pl, b, t, E, frames') /\ Tracked(h, b, t, E, Tops(frames'))
    <3>1. PICK new : new = left \o Frame(Find(h, b, q), Find(h, t, q))
      OBVIOUS
    <3>2. Stack(h, pl, b, t, E, new) /\ Tracked(h, b, t, E, Tops(new))
      BY <1>5, <1>10, <1>11, <2>2, <2>4, <3>1, EntryPush
    <3> QED
      BY <1>6, <1>13, <3>1, <3>2
  <2> QED
    BY <1>8, <1>11, <2>3, <2>5 DEF Running, EntryGoal
<1>14. CASE ~ (c # nil /\ heap[c].type = "hash" /\ heap[m].type = "hash") /\ frames' = left
  <2>1. Tracked(h, b, t, E, Tops(left))
    BY <1>10, <1>12, <1>14, TrackedWhole
  <2>2. ~ BothAt(h, b, t, q, "hash")
    BY <1>9, <1>14
  <2>3. CASE c # nil /\ heap[c].type = "arr" /\ heap[m].type = "arr" /\ heap' = heap
    <3>1. ~ LaysAt(h, b, t, q)
      BY <1>9, <2>3 DEF LaysAt
    <3>2. Laid(h, pl, b, t, D \cup {q}, heap)
      BY <1>8, <3>1, LaidSkip
    <3> QED
      BY <1>8, <1>10, <1>11, <1>14, <2>1, <2>3, <3>2 DEF Running, EntryGoal
  <2>4. CASE /\ ~ (c # nil /\ heap[c].type = "arr" /\ heap[m].type = "arr")
             /\ heap' = Add(heap, f.self, k, m)
    <3>1. LaysAt(h, b, t, q)
      <4>1. ~ BothAt(h, b, t, q, "arr")
        BY <1>9, <2>4
      <4> QED
        BY <1>5, <2>2, <4>1 DEF LaysAt
    <3>2. PICK new : new = Add(heap, Find(h, b, p), k, Find(h, t, q))
      OBVIOUS
    <3>3. Laid(h, pl, b, t, D \cup {q}, new)
      BY <1>3, <1>5, <1>8, <3>1, <3>2, LaidGrow
    <3>4. heap' = new
      BY <1>5, <1>6, <2>4, <3>2
    <3> QED
      BY <1>8, <1>10, <1>11, <1>14, <2>1, <3>3, <3>4 DEF Running, EntryGoal
  <2> QED
    BY <1>7, <1>14, <2>3, <2>4
<1> QED
  BY <1>7, <1>13, <1>14

LEMMA KeyOnly ==
  ASSUME NEW h, NEW n, h[n].type = "hash", NEW s \in Strides, Child(h, n, s) # nil
  PROVE  \E k \in Seq(STRING) : s = ByKey(k)
<1>1. s[1] = "key"
  BY DEF Child
<1> QED
  BY <1>1, StrideKinds

(* With no call left, everything has been dealt with.                      *)
LEMMA Finished ==
  ASSUME NEW h, NEW pl, NEW b, NEW t, Ground(h, pl, b, t), NEW D, Tracked(h, b, t, D, {})
  PROVE  Complete(h, b, t, D)
<1>1. Sound(h) /\ t \in 0 .. Len(h)
  BY DEF Ground, Sound
<1>2. ASSUME NEW p \in Seq(Strides), JointAt(h, b, t, p), p = <<>> \/ p \in D, NEW s \in Strides,
             Find(h, t, Append(p, s)) # nil
      PROVE  Append(p, s) \in D
  <2>1. Todo(h, t, D, p) = {}
    BY <1>2 DEF Tracked
  <2>2. Find(h, t, Append(p, s)) = Child(h, Find(h, t, p), s)
    BY <1>1, FindStep
  <2>3. h[Find(h, t, p)].type = "hash"
    BY <1>2, JointBoth DEF BothAt, IsAt
  <2>4. PICK k \in Seq(STRING) : s = ByKey(k)
    BY <1>2, <2>2, <2>3, KeyOnly
  <2> QED
    BY <1>2, <2>1, <2>4 DEF Todo
<1> DEFINE T == {p \in Seq(Strides) : JointAt(h, b, t, p) => p = <<>> \/ p \in D}
<1>3. <<>> \in T
  OBVIOUS
<1>4. ASSUME NEW p \in Seq(Strides), p \in T, NEW s \in Strides
      PROVE  Append(p, s) \in T
  <2>1. Append(p, s) \in Seq(Strides)
    OBVIOUS
  <2> SUFFICES ASSUME JointAt(h, b, t, Append(p, s)) PROVE Append(p, s) \in D
    BY <2>1
  <2>2. JointAt(h, b, t, p) /\ BothAt(h, b, t, Append(p, s), "hash")
    BY JointStep
  <2>3. p = <<>> \/ p \in D
    BY <1>4, <2>2
  <2>4. Find(h, t, Append(p, s)) # nil
    BY <2>2 DEF BothAt, IsAt
  <2> QED
    BY <1>2, <2>2, <2>3, <2>4
<1>5. Seq(Strides) \subseteq T
  <2> HIDE DEF T
  <2> QED
    BY <1>3, <1>4, PathInduct
<1>6. ASSUME NEW p \in Seq(Strides), NEW s \in Strides, JointAt(h, b, t, p),
             LaysAt(h, b, t, Append(p, s))
      PROVE  Append(p, s) \in D
  <2>1. p = <<>> \/ p \in D
    BY <1>5, <1>6
  <2>2. Find(h, t, Append(p, s)) # nil
    BY <1>6 DEF LaysAt
  <2> QED
    BY <1>2, <1>6, <2>1, <2>2
<1> QED
  BY <1>6 DEF Complete

(* What Overlay has done when its last call returns.                       *)
LEMMA OverlayDone ==
  ASSUME NEW h, NEW pl, NEW b, NEW t, NEW D, NEW new, Running(h, pl, b, t, D, new, <<>>)
  PROVE  /\ Value(new, b) = Path!Merge(Value(h, b), Value(h, t))
         /\ Value(new, t) = Value(h, t)
         /\ Sound(new) /\ Placed(new, pl) /\ Len(new) = Len(h)
<1>1. /\ Ground(h, pl, b, t) /\ Laid(h, pl, b, t, D, new) /\ Tracked(h, b, t, D, Tops(<<>>))
  BY DEF Running
<1>2. Tops(<<>>) = {}
  <2>1. 1 .. Len(<<>>) = {}
    BY EmptySeq
  <2> QED
    BY <2>1 DEF Tops
<1>3. Complete(h, b, t, D)
  BY <1>1, <1>2, Finished
<1>4. Sound(new) /\ Len(new) = Len(h)
  BY <1>1 DEF Laid, SameNodes
<1> QED
  BY <1>1, <1>3, <1>4, MergeIs, LaidPlaced

(* The call of Overlay: what the first frame is.                           *)
LEMMA OverlayStarts ==
  ASSUME Sound(heap), NEW pl, Placed(heap, pl), NEW b \in 1 .. Len(heap), pl[b] = <<>>,
         NEW t \in 1 .. Len(heap), pl[t] = <<>>
  PROVE  \E D : Running(heap, pl, b, t, D, heap, Frame(b, t))
<1>0. PICK D : D = {}
  OBVIOUS
<1>a. \A k \in Seq(STRING) : Append(<<>>, ByKey(k)) \notin D
  BY <1>0
<1>1. Ground(heap, pl, b, t) /\ Laid(heap, pl, b, t, D, heap) /\ Rooted(D)
  BY <1>0, LaidNone DEF Ground, Rooted
<1>2. /\ Find(heap, b, <<>>) = b /\ Find(heap, t, <<>>) = t /\ <<>> \in Seq(Strides)
      /\ b \in 0 .. Len(heap) /\ t \in 0 .. Len(heap)
  <2>1. b \in 0 .. Len(heap) /\ t \in 0 .. Len(heap)
    BY DEF Sound
  <2> QED
    BY <2>1, FindHere
<1>3. JointAt(heap, b, t, <<>>) <=> heap[b].type = "hash" /\ heap[t].type = "hash"
  <2>1. b # nil /\ t # nil
    BY DEF nil
  <2>2. PICK s : s \in Strides
    <3>1. <<>> \in Seq(STRING)
      OBVIOUS
    <3> QED
      BY <3>1, KeyStride
  <2>3. JointAt(heap, b, t, <<>>) <=> BothAt(heap, b, t, <<>>, "hash")
    BY <1>2, <2>2, JointStep
  <2> QED
    BY <1>2, <2>1, <2>3 DEF BothAt, IsAt
<1>4. /\ Stack(heap, pl, b, t, D, <<>>)
      /\ Tops(<<>>) = {}
  <2>1. <<>> \in Seq(FrameSet) /\ 1 .. Len(<<>>) = {}
    BY EmptySeq
  <2> QED
    BY <2>1 DEF Stack, Tops
<1>b. Frame(b, t) = IF JointAt(heap, b, t, <<>>) /\ Todo(heap, t, D, <<>>) # {}
                    THEN <<FrameFor(heap, b, t, D, <<>>)>> ELSE <<>>
  <2>1. PICK p : p = <<>>
    OBVIOUS
  <2>2. /\ p \in Seq(Strides) /\ \A k \in Seq(STRING) : Append(p, ByKey(k)) \notin D
        /\ Find(heap, b, p) = b /\ Find(heap, t, p) = t
    BY <1>2, <1>a, <2>1
  <2>3. JointAt(heap, b, t, p) =>
          Frame(b, t) = IF Todo(heap, t, D, p) = {} THEN <<>> ELSE <<FrameFor(heap, b, t, D, p)>>
    <3> SUFFICES ASSUME JointAt(heap, b, t, p)
                 PROVE  Frame(b, t) = IF Todo(heap, t, D, p) = {} THEN <<>>
                                      ELSE <<FrameFor(heap, b, t, D, p)>>
      OBVIOUS
    <3>1. Frame(Find(heap, b, p), Find(heap, t, p))
            = IF Todo(heap, t, D, p) = {} THEN <<>> ELSE <<FrameFor(heap, b, t, D, p)>>
      BY <1>1, <2>2, FrameIs
    <3> QED
      BY <2>2, <3>1
  <2>4. ~ JointAt(heap, b, t, p) => Frame(b, t) = <<>>
    BY <1>3, <2>1 DEF Frame
  <2> QED
    BY <2>1, <2>3, <2>4
<1>5. CASE JointAt(heap, b, t, <<>>) /\ Todo(heap, t, D, <<>>) # {}
  <2>1. PICK f : f = FrameFor(heap, b, t, D, <<>>)
    OBVIOUS
  <2>2. Frame(b, t) = <<f>>
    BY <1>b, <1>5, <2>1
  <2>3. FrameAt(heap, b, t, D, <<>>, f) /\ f.top = t
    BY <1>2, <1>5, <2>1 DEF FrameAt, FrameFor
  <2>4. NewTop(<<>>, f)
    BY <1>4 DEF NewTop
  <2>5. PushIs(heap, pl, b, t, D, <<>>, f)
    BY <1>1, <1>4, <2>3, <2>4, StackPush
  <2>6. PICK fs : fs = <<f>>
    OBVIOUS
  <2>7. Append(<<>>, f) = fs
    BY <2>6
  <2>8. Stack(heap, pl, b, t, D, fs) /\ Tops(fs) = {} \cup {t}
    BY <1>4, <2>3, <2>5, <2>7 DEF PushIs
  <2>9. Find(heap, t, <<>>) \in Tops(fs)
    BY <1>2, <2>8
  <2>10. Tracked(heap, b, t, D, Tops(fs))
    <3>1. \A p : p = <<>> \/ p \in D => p = <<>>
      BY <1>0
    <3> QED
      BY <2>9, <3>1 DEF Tracked
  <2> QED
    BY <1>1, <2>2, <2>6, <2>8, <2>10 DEF Running
<1>6. CASE ~ (JointAt(heap, b, t, <<>>) /\ Todo(heap, t, D, <<>>) # {})
  <2>1. PICK fs : fs = <<>>
    OBVIOUS
  <2>2. Frame(b, t) = fs
    BY <1>b, <1>6, <2>1
  <2>3. Stack(heap, pl, b, t, D, fs)
    BY <1>4, <2>1
  <2>4. Tracked(heap, b, t, D, Tops(fs))
    <3>1. \A p : p = <<>> \/ p \in D => p = <<>>
      BY <1>0
    <3> QED
      BY <1>6, <3>1 DEF Tracked
  <2> QED
    BY <1>1, <2>2, <2>3, <2>4 DEF Running
<1> QED
  BY <1>5, <1>6

-----------------------------------------------------------------------------
(* The parts of a key.                                                     *)

Parted(k, n, v) == v \in Seq(Seq(STRING)) /\ Len(v) >= 1 /\ (Len(v) = 1 => v = <<SubSeq(k, 1, n)>>)

NextPart(v, c) ==
  IF c = "." THEN Append(v, <<>>) ELSE [v EXCEPT ![Len(v)] = Append(@, c)]

LEMMA NextPartIs ==
  ASSUME NEW v \in Seq(Seq(STRING)), Len(v) >= 1, NEW c \in STRING, NEW w, w = NextPart(v, c)
  PROVE  /\ w \in Seq(Seq(STRING)) /\ Len(w) >= 1
         /\ Len(w) = 1 => Len(v) = 1 /\ w = <<Append(v[1], c)>>
<1>1. PICK X : X = Seq(STRING)
  OBVIOUS
<1>a. v \in Seq(X) /\ Len(v) \in Nat /\ Len(v) \in 1 .. Len(v)
  BY <1>1
<1>b. PICK last, e : last = v[Len(v)] /\ e = <<>>
  OBVIOUS
<1>c. e \in X /\ last \in X
  BY <1>1, <1>a, <1>b
<1>2. CASE c = "."
  <2>1. w = Append(v, e)
    BY <1>2, <1>b DEF NextPart
  <2>2. w \in Seq(X) /\ Len(w) = Len(v) + 1
    BY <1>a, <1>c, <2>1
  <2>3. w \in Seq(Seq(STRING))
    BY <1>1, <2>2
  <2>4. Len(w) >= 1 /\ Len(w) # 1
    BY <1>a, <2>2
  <2> QED
    BY <2>3, <2>4
<1>3. CASE c # "."
  <2>1. PICK x : x = Append(last, c)
    OBVIOUS
  <2>2. w = [v EXCEPT ![Len(v)] = x]
    <3>1. w = [v EXCEPT ![Len(v)] = Append(v[Len(v)], c)]
      BY <1>3, Zenon DEF NextPart
    <3> QED
      BY <1>b, <2>1, <3>1
  <2>3. x \in X
    <3>1. last \in Seq(STRING)
      BY <1>1, <1>c
    <3>2. Append(last, c) \in Seq(STRING)
      BY <3>1, AppendProperties
    <3> QED
      BY <1>1, <2>1, <3>2
  <2>4. /\ w \in Seq(X) /\ Len(w) = Len(v)
        /\ \A j \in 1 .. Len(v) : w[j] = IF j = Len(v) THEN x ELSE v[j]
    BY <1>a, <2>2, <2>3, ExceptSeq
  <2>5. ASSUME Len(w) = 1
        PROVE  Len(v) = 1 /\ w = <<Append(v[1], c)>>
    <3>1. Len(v) = 1 /\ w[1] = x /\ last = v[1]
      BY <1>a, <1>b, <2>4, <2>5
    <3>2. PICK u : u = <<x>>
      OBVIOUS
    <3>3. u \in Seq(X) /\ Len(u) = 1 /\ u[1] = x
      BY <2>3, <3>2
    <3>4. ASSUME NEW i \in 1 .. Len(w)
          PROVE  w[i] = u[i]
      <4>1. i = 1
        BY <2>5
      <4> QED
        BY <3>1, <3>3, <4>1
    <3>5. w \in Seq(X) /\ Len(w) = Len(u)
      BY <2>4, <2>5, <3>3
    <3>6. w = u
      BY <3>3, <3>4, <3>5, SeqEqual
    <3>7. x = Append(v[1], c)
      BY <2>1, <3>1
    <3> QED
      BY <3>1, <3>2, <3>6, <3>7
  <2>6. w \in Seq(Seq(STRING))
    BY <1>1, <2>4
  <2>7. Len(w) >= 1
    BY <1>a, <2>4
  <2> QED
    BY <2>5, <2>6, <2>7
<1> QED
  BY <1>2, <1>3

LEMMA SplitIs ==
  ASSUME NEW k \in Seq(STRING)
  PROVE  Parted(k, Len(k), Split(k))
<1> DEFINE S    == 0 .. Len(k)
           V    == {v \in Seq(Seq(STRING)) : Len(v) >= 1}
           D(g) == [n \in S |-> IF n = 0 THEN << <<>> >>
                                ELSE IF k[n] = "." THEN Append(g[n - 1], <<>>)
                                ELSE [g[n - 1] EXCEPT ![Len(g[n - 1])] = Append(@, k[n])]]
           U    == CHOOSE g : g = D(g)
           rank == [n \in S |-> n]
           F    == [g \in [S -> V] |-> D(g)]
<1>0. Len(k) \in Nat /\ Len(k) \in S
  OBVIOUS
<1>1. Split(k) = U[Len(k)]
  BY DEF Split
<1>a. \A g : D(g) = [n \in S |-> IF n = 0 THEN << <<>> >> ELSE NextPart(g[n - 1], k[n])]
  BY DEF NextPart
<1>b. << <<>> >> \in V
  OBVIOUS
<1>2. ASSUME NEW g \in [S -> V]
      PROVE  D(g) \in [S -> V]
  <2>1. ASSUME NEW n \in S
        PROVE  (IF n = 0 THEN << <<>> >> ELSE NextPart(g[n - 1], k[n])) \in V
    <3>1. n # 0 => g[n - 1] \in V /\ k[n] \in STRING
      <4>1. n # 0 => n - 1 \in S /\ n \in 1 .. Len(k)
        BY <1>0
      <4> HIDE DEF S, V
      <4> QED
        BY <4>1
    <3>2. n # 0 => NextPart(g[n - 1], k[n]) \in V
      BY <3>1, NextPartIs
    <3> HIDE DEF V
    <3> QED
      BY <1>b, <3>2
  <2>2. D(g) = [n \in S |-> IF n = 0 THEN << <<>> >> ELSE NextPart(g[n - 1], k[n])]
    BY <1>a
  <2> HIDE DEF D, S, V
  <2> QED
    BY <2>1, <2>2
<1>3. ASSUME NEW g \in [S -> V], NEW f \in [S -> V], NEW m \in S,
             \A c \in S : rank[c] < rank[m] => g[c] = f[c]
      PROVE  F[g][m] = F[f][m]
  <2>1. m # 0 => g[m - 1] = f[m - 1]
    BY <1>0, <1>3
  <2>2. F[g] = D(g) /\ F[f] = D(f)
    OBVIOUS
  <2>3. /\ D(g) = [n \in S |-> IF n = 0 THEN << <<>> >> ELSE NextPart(g[n - 1], k[n])]
        /\ D(f) = [n \in S |-> IF n = 0 THEN << <<>> >> ELSE NextPart(f[n - 1], k[n])]
    BY <1>a
  <2> HIDE DEF F, D, S
  <2> QED
    BY <2>1, <2>2, <2>3
<1>4. Recursion(S, V, rank, F)
  <2>1. F \in [[S -> V] -> [S -> V]]
    BY <1>2
  <2> HIDE DEF F, rank, S, V
  <2> QED
    BY <1>3, <2>1 DEF Recursion
<1>5. RankedTo(S, rank, Len(k))
  BY <1>0 DEF RankedTo
<1>6. PICK g \in [S -> V] : g = F[g]
  <2> HIDE DEF F, rank, S, V
  <2> QED
    BY <1>b, <1>4, <1>5, RecursionExists
<1>7. g = D(g)
  BY <1>6
<1>8. U = D(U)
  BY <1>7
<1>9. PICK f : f = U
  OBVIOUS
<1>10. f = [n \in S |-> IF n = 0 THEN << <<>> >> ELSE NextPart(f[n - 1], k[n])]
  <2>1. f = D(f)
    <3> HIDE DEF U
    <3> QED
      BY <1>8, <1>9
  <2> HIDE DEF D
  <2> QED
    BY <1>a, <2>1
<1> HIDE DEF U, D
<1> DEFINE G == {n \in Nat : n \in S => Parted(k, n, f[n])}
<1>12. 0 \in G
  <2>1. SubSeq(k, 1, 0) = <<>>
    OBVIOUS
  <2>2. f[0] = << <<>> >>
    BY <1>0, <1>10
  <2> QED
    BY <1>b, <2>1, <2>2 DEF Parted
<1>13. ASSUME NEW n \in Nat, n \in G
       PROVE  n + 1 \in G
  <2> SUFFICES ASSUME n + 1 \in S PROVE Parted(k, n + 1, f[n + 1])
    OBVIOUS
  <2>1. n \in S /\ n + 1 \in 1 .. Len(k) /\ (n + 1) - 1 = n /\ n + 1 # 0
    BY <1>0
  <2>2. Parted(k, n, f[n])
    BY <1>13, <2>1
  <2>3. f[n + 1] = NextPart(f[n], k[n + 1])
    BY <1>10, <2>1
  <2>4. PICK v, w, c : v = f[n] /\ w = f[n + 1] /\ c = k[n + 1]
    OBVIOUS
  <2>5. v \in Seq(Seq(STRING)) /\ Len(v) >= 1 /\ c \in STRING /\ w = NextPart(v, c)
    BY <2>1, <2>2, <2>3, <2>4 DEF Parted
  <2>6. w \in Seq(Seq(STRING)) /\ Len(w) >= 1 /\ (Len(w) = 1 => Len(v) = 1 /\ w = <<Append(v[1], c)>>)
    BY <2>5, NextPartIs
  <2>7. Len(v) = 1 => v[1] = SubSeq(k, 1, n)
    BY <2>2, <2>4 DEF Parted
  <2>8. Append(SubSeq(k, 1, n), c) = SubSeq(k, 1, n + 1)
    BY <2>1, <2>4
  <2> QED
    BY <2>4, <2>6, <2>7, <2>8 DEF Parted
<1>14. Len(k) \in G
  <2>1. Nat \subseteq G
    <3> HIDE DEF G
    <3> QED
      BY <1>12, <1>13, Induct
  <2> QED
    BY <1>0, <2>1
<1>15. Parted(k, Len(k), f[Len(k)])
  BY <1>0, <1>14
<1> QED
  BY <1>1, <1>9, <1>15

LEMMA SplitOne ==
  ASSUME NEW k \in Seq(STRING)
  PROVE  /\ Split(k) \in Seq(Seq(STRING)) /\ Len(Split(k)) \in Nat /\ Len(Split(k)) >= 1
         /\ Len(Split(k)) = 1 => Split(k) = <<k>>
<1>1. Parted(k, Len(k), Split(k))
  BY SplitIs
<1>2. SubSeq(k, 1, Len(k)) = k
  BY SubSeqFull
<1> QED
  BY <1>1, <1>2 DEF Parted

-----------------------------------------------------------------------------
(* Del.                                                                    *)

(* A node of h loses the entry of s, if it has one.                        *)
Lost(h, c, s, new) ==
  /\ SameNodes(h, new)
  /\ \A n \in 1 .. Len(h), x \in Strides :
       Child(new, n, x) = IF n = c /\ x = s THEN nil ELSE Child(h, n, x)

LEMMA TableLoses ==
  ASSUME NEW f \in Tables, NEW k, NEW g, g = [x \in DOMAIN f \ {k} |-> f[x]]
  PROVE  g \in Tables /\ DOMAIN g = DOMAIN f \ {k} /\ \A x \in DOMAIN g : g[x] = f[x]
<1>1. PICK K \in SUBSET Seq(STRING) : f \in [K -> Nat]
  BY DEF Tables
<1>2. DOMAIN f = K /\ \A x \in K : f[x] \in Nat
  BY <1>1
<1>3. K \ {k} \in SUBSET Seq(STRING)
  BY <1>1
<1>4. g \in [K \ {k} -> Nat]
  BY <1>2
<1>5. g \in Tables
  BY <1>3, <1>4 DEF Tables
<1> QED
  BY <1>2, <1>5

LEMMA RemoveLoses ==
  ASSUME NEW h, Sound(h), NEW c \in 1 .. Len(h), NEW k \in Seq(STRING), NEW new, new = Remove(h, c, k)
  PROVE  Lost(h, c, ByKey(k), new)
<1>1. c # nil /\ h[c] \in GoNode /\ h \in Seq(GoNode)
  BY DEF Sound, nil
<1>2. CASE h[c].type # "hash"
  <2>1. new = h
    BY <1>2 DEF Remove
  <2>2. Child(h, c, ByKey(k)) = nil
    BY <1>2, KeyStride DEF Child
  <2>3. SameNodes(h, h)
    BY DEF SameNodes
  <2> QED
    BY <2>1, <2>2, <2>3 DEF Lost
<1>3. CASE h[c].type = "hash"
  <2>1. PICK r, f, g : r = h[c] /\ f = r.hash /\ g = [x \in DOMAIN f \ {k} |-> f[x]]
    OBVIOUS
  <2>2. /\ r \in GoNode /\ r.type = "hash" /\ r.type \in NodeTypes /\ r.parent \in Nat
        /\ f \in Tables /\ r.arr \in Seq(Nat) /\ r.str \in Seq(STRING)
    BY <1>1, <1>3, <2>1 DEF GoNode
  <2>3. g \in Tables /\ DOMAIN g = DOMAIN f \ {k} /\ \A x \in DOMAIN g : g[x] = f[x]
    BY <2>1, <2>2, TableLoses
  <2>4. PICK s : s = [r EXCEPT !.hash = g]
    OBVIOUS
  <2>5. /\ s \in GoNode /\ s.type = r.type /\ s.parent = r.parent
        /\ s.hash = g /\ s.arr = r.arr /\ s.str = r.str
    BY <2>2, <2>3, <2>4 DEF GoNode
  <2>6. new = [h EXCEPT ![c] = s]
    <3>1. new = [h EXCEPT ![c].hash = [x \in DOMAIN h[c].hash \ {k} |-> h[c].hash[x]]]
      BY <1>3, Zenon DEF Remove
    <3>2. new = [h EXCEPT ![c].hash = g]
      BY <2>1, <3>1
    <3> QED
      BY <2>1, <2>4, <3>2
  <2>7. /\ new \in Seq(GoNode) /\ Len(new) = Len(h) /\ new[c] = s
        /\ \A n \in 1 .. Len(h) : n # c => new[n] = h[n]
    BY <1>1, <2>5, <2>6
  <2>8. SameNodes(h, new)
    <3>1. ASSUME NEW n \in 1 .. Len(new)
          PROVE  /\ \A i \in 1 .. Len(new[n].arr) : new[n].arr[i] \in 1 .. Len(new)
                 /\ \A x \in DOMAIN new[n].hash : new[n].hash[x] \in 1 .. Len(new)
      <4>1. new[n].arr = h[n].arr
        BY <2>1, <2>5, <2>7
      <4>2. \A x \in DOMAIN new[n].hash : x \in DOMAIN h[n].hash /\ new[n].hash[x] = h[n].hash[x]
        BY <2>1, <2>3, <2>5, <2>7
      <4> QED
        BY <2>7, <4>1, <4>2 DEF Sound
    <3>2. Sound(new)
      BY <2>7, <3>1 DEF Sound
    <3>3. \A n \in 1 .. Len(h) : new[n].type = h[n].type /\ new[n].str = h[n].str
      BY <2>1, <2>5, <2>7
    <3> QED
      BY <2>7, <3>2, <3>3 DEF SameNodes
  <2>9. ASSUME NEW x \in Strides
        PROVE  Child(new, c, x) = IF x = ByKey(k) THEN nil ELSE Child(h, c, x)
    <3>1. /\ Child(new, c, x) = IF x[1] = "key" /\ x[2] \in DOMAIN g THEN g[x[2]] ELSE nil
          /\ Child(h, c, x) = IF x[1] = "key" /\ x[2] \in DOMAIN f THEN f[x[2]] ELSE nil
      BY <1>1, <1>3, <2>1, <2>2, <2>5, <2>7 DEF Child
    <3>2. x[1] = "key" => (x = ByKey(k) <=> x[2] = k)
      BY StrideKinds, KeyStride
    <3>3. x = ByKey(k) => x[1] = "key"
      BY KeyStride
    <3> QED
      BY <2>3, <3>1, <3>2, <3>3
  <2>10. \A n \in 1 .. Len(h), x \in Strides : n # c => Child(new, n, x) = Child(h, n, x)
    BY <2>7 DEF Child
  <2> QED
    BY <2>8, <2>9, <2>10 DEF Lost
<1> QED
  BY <1>2, <1>3

LEMMA LostPlaced ==
  ASSUME NEW h, NEW pl, Placed(h, pl), NEW c, NEW s, NEW new, Lost(h, c, s, new)
  PROVE  Placed(new, pl)
<1>1. Len(new) = Len(h)
  BY DEF Lost, SameNodes
<1>2. ASSUME NEW n \in 1 .. Len(h), NEW x \in Strides, Child(new, n, x) # nil
      PROVE  pl[Child(new, n, x)] = Append(pl[n], x)
  <2>1. Child(new, n, x) = Child(h, n, x)
    BY <1>2 DEF Lost
  <2> QED
    BY <1>2, <2>1 DEF Placed
<1> QED
  BY <1>1, <1>2 DEF Placed

LEMMA LostTwice ==
  ASSUME NEW h, NEW c, NEW s, NEW mid, Lost(h, c, s, mid), NEW d \in 1 .. Len(h), NEW x \in Strides,
         Child(h, d, x) = nil, NEW new, Lost(mid, d, x, new)
  PROVE  Lost(h, c, s, new)
<1>1. SameNodes(h, new)
  BY DEF Lost, SameNodes
<1>2. ASSUME NEW n \in 1 .. Len(h), NEW y \in Strides
      PROVE  Child(new, n, y) = IF n = c /\ y = s THEN nil ELSE Child(h, n, y)
  <2>1. Len(mid) = Len(h)
    BY DEF Lost, SameNodes
  <2>2. Child(new, n, y) = IF n = d /\ y = x THEN nil ELSE Child(mid, n, y)
    BY <2>1 DEF Lost
  <2>3. Child(mid, n, y) = IF n = c /\ y = s THEN nil ELSE Child(h, n, y)
    BY DEF Lost
  <2> QED
    BY <2>2, <2>3
<1> QED
  BY <1>1, <1>2 DEF Lost

(* A path that begins with another one.                                    *)
LEMMA BeginsStep ==
  ASSUME NEW q \in Seq(Strides), NEW p \in Seq(Strides), NEW s \in Strides
  PROVE  Path!Begins(q, Append(p, s)) <=> Path!Begins(q, p) \/ q = Append(p, s)
<1>1. PICK r : r = Append(p, s)
  OBVIOUS
<1>2. /\ r \in Seq(Strides) /\ Len(r) = Len(p) + 1 /\ Len(p) \in Nat /\ Len(q) \in Nat
      /\ \A i \in 0 .. Len(p) : SubSeq(r, 1, i) = SubSeq(p, 1, i)
  BY <1>1, PathPrefix
<1>3. SubSeq(r, 1, Len(r)) = r
  BY <1>2, SubSeqFull
<1>4. CASE Len(q) <= Len(p)
  <2>1. Len(q) <= Len(r) /\ SubSeq(r, 1, Len(q)) = SubSeq(p, 1, Len(q)) /\ q # r
    BY <1>2, <1>4
  <2>2. Path!Begins(q, r) <=> Path!Begins(q, p) \/ q = r
    BY <1>4, <2>1 DEF Path!Begins, Path!To
  <2> QED
    BY <1>1, <2>2
<1>5. CASE Len(q) > Len(p)
  <2>1. ~ Path!Begins(q, p)
    BY <1>2, <1>5 DEF Path!Begins
  <2>2. Path!Begins(q, r) <=> q = r
    <3>1. Len(q) <= Len(r) <=> Len(q) = Len(r)
      BY <1>2, <1>5
    <3> QED
      BY <1>3, <3>1 DEF Path!Begins, Path!To
  <2> QED
    BY <1>1, <2>1, <2>2
<1> QED
  BY <1>2, <1>4, <1>5

LEMMA BeginsNone ==
  ASSUME NEW q \in Seq(Strides)
  PROVE  Path!Begins(q, <<>>) <=> q = <<>>
<1>1. Len(<<>>) = 0 /\ SubSeq(<<>>, 1, 0) = <<>> /\ <<>> \in Seq(Strides)
  BY EmptySeq, SubSeqFull
<1>2. Len(q) \in Nat /\ (q = <<>> <=> Len(q) = 0)
  BY EmptySeq
<1> QED
  BY <1>1, <1>2 DEF Path!Begins, Path!To

(***************************************************************************)
(* A root whose tree lost an entry finds nothing at it or below it, and    *)
(* everything else as before.                                              *)
(***************************************************************************)
Cut(h, r, q, new) ==
  \A p \in Seq(Strides) : Find(new, r, p) = IF Path!Begins(q, p) THEN nil ELSE Find(h, r, p)

LEMMA CutStep ==
  ASSUME NEW h, Sound(h), NEW pl, Placed(h, pl), NEW r \in 1 .. Len(h), pl[r] = <<>>,
         NEW path \in Seq(Strides), NEW s \in Strides, Find(h, r, path) # nil,
         NEW new, Lost(h, Find(h, r, path), s, new),
         NEW p \in Seq(Strides), NEW x \in Strides,
         Find(new, r, p) = IF Path!Begins(Append(path, s), p) THEN nil ELSE Find(h, r, p)
  PROVE  Find(new, r, Append(p, x))
           = IF Path!Begins(Append(path, s), Append(p, x)) THEN nil ELSE Find(h, r, Append(p, x))
<1>1. Sound(new) /\ Len(new) = Len(h) BY DEF Lost, SameNodes
<1>2. Len(h) \in Nat BY DEF Sound
<1>3. r \in 0 .. Len(h) /\ r \in 0 .. Len(new) BY <1>1, <1>2
<1>4. PICK q \in Seq(Strides) : q = Append(path, s) BY PathPrefix
<1>5. Path!Begins(q, Append(p, x)) <=> Path!Begins(q, p) \/ q = Append(p, x) BY BeginsStep
<1>6. Find(new, r, Append(p, x)) = Child(new, Find(new, r, p), x) BY <1>1, <1>3, FindStep
<1>7. Find(h, r, Append(p, x)) = Child(h, Find(h, r, p), x) BY <1>3, FindStep
<1>8. Find(h, r, p) \in 0 .. Len(h) BY <1>3, FindType
<1>9. Find(new, r, p) = IF Path!Begins(q, p) THEN nil ELSE Find(h, r, p) BY <1>4
<1>10. q = Append(p, x) <=> path = p /\ s = x BY <1>4, AppendInjective
<1> SUFFICES Find(new, r, Append(p, x))
               = IF Path!Begins(q, Append(p, x)) THEN nil ELSE Find(h, r, Append(p, x)) BY <1>4
<1>11. nil \in 0 .. Len(new) BY <1>1, <1>2 DEF nil
<1>12. Child(new, nil, x) = nil BY <1>1, <1>11, ChildType
<1>13. nil \in 0 .. Len(h) BY <1>2 DEF nil
<1>14. Child(h, nil, x) = nil BY <1>13, ChildType
<1>15. CASE Path!Begins(q, p) BY <1>15, <1>5, <1>6, <1>9, <1>12
<1>16. CASE ~ Path!Begins(q, p) /\ Find(h, r, p) = nil
  BY <1>16, <1>6, <1>7, <1>9, <1>12, <1>14
<1>17. CASE ~ Path!Begins(q, p) /\ Find(h, r, p) # nil
  <2>1. Find(h, r, p) \in 1 .. Len(h) /\ pl[Find(h, r, p)] = p BY <1>17, FindPlace
  <2>2. pl[Find(h, r, path)] = path BY FindPlace
  <2>3. Find(h, r, p) = Find(h, r, path) <=> p = path BY <2>1, <2>2
  <2>4. Child(new, Find(h, r, p), x)
          = IF Find(h, r, p) = Find(h, r, path) /\ x = s THEN nil ELSE Child(h, Find(h, r, p), x)
    BY <2>1 DEF Lost
  <2> QED BY <1>17, <1>5, <1>6, <1>7, <1>9, <1>10, <2>3, <2>4
<1> QED BY <1>15, <1>16, <1>17

LEMMA CutIs ==
  ASSUME NEW h, Sound(h), NEW pl, Placed(h, pl), NEW r \in 1 .. Len(h), pl[r] = <<>>,
         NEW path \in Seq(Strides), NEW s \in Strides, Find(h, r, path) # nil,
         NEW new, Lost(h, Find(h, r, path), s, new)
  PROVE  Cut(h, r, Append(path, s), new)
<1> DEFINE T == {p \in Seq(Strides) : Find(new, r, p) =
                   IF Path!Begins(Append(path, s), p) THEN nil ELSE Find(h, r, p)}
<1>1. Sound(new) /\ Len(new) = Len(h) BY DEF Lost, SameNodes
<1>2. Len(h) \in Nat BY DEF Sound
<1>3. r \in 0 .. Len(h) /\ r \in 0 .. Len(new) BY <1>1, <1>2
<1>4. <<>> \in T
  <2>1. Find(new, r, <<>>) = r /\ Find(h, r, <<>>) = r BY <1>1, <1>3, FindHere
  <2>2. Append(path, s) \in Seq(Strides) /\ Append(path, s) # <<>> BY PathPrefix
  <2>3. ~ Path!Begins(Append(path, s), <<>>) BY <2>2, BeginsNone
  <2>4. <<>> \in Seq(Strides) OBVIOUS
  <2> QED BY <2>1, <2>3, <2>4, Zenon
<1>5. \A p \in Seq(Strides) : p \in T => \A x \in Strides : Append(p, x) \in T
  <2> SUFFICES ASSUME NEW p \in Seq(Strides), p \in T, NEW x \in Strides
               PROVE  Append(p, x) \in T OBVIOUS
  <2>1. Find(new, r, p) = IF Path!Begins(Append(path, s), p) THEN nil ELSE Find(h, r, p) BY Zenon
  <2>2. Append(p, x) \in Seq(Strides) BY PathPrefix
  <2>3. Find(new, r, Append(p, x))
           = IF Path!Begins(Append(path, s), Append(p, x)) THEN nil ELSE Find(h, r, Append(p, x))
    BY <2>1, CutStep
  <2> QED BY <2>2, <2>3, Zenon
<1> HIDE DEF T
<1>6. Seq(Strides) \subseteq T BY <1>4, <1>5, PathInduct
<1> QED BY <1>6 DEF Cut, T

LEMMA CutNothing ==
  ASSUME NEW h, Sound(h), NEW r \in 1 .. Len(h), NEW q \in Seq(Strides), Find(h, r, q) = nil
  PROVE  Cut(h, r, q, h)
<1> DEFINE T == {p \in Seq(Strides) : Path!Begins(q, p) => Find(h, r, p) = nil}
<1>1. Len(h) \in Nat BY DEF Sound
<1>2. r \in 0 .. Len(h) /\ nil \in 0 .. Len(h) BY <1>1 DEF nil
<1>3. <<>> \in T
  <2>1. Path!Begins(q, <<>>) => q = <<>> BY BeginsNone
  <2>2. <<>> \in Seq(Strides) OBVIOUS
  <2> QED BY <2>1, <2>2, Zenon
<1>4. \A p \in Seq(Strides) : p \in T => \A x \in Strides : Append(p, x) \in T
  <2> SUFFICES ASSUME NEW p \in Seq(Strides), p \in T, NEW x \in Strides
               PROVE  Append(p, x) \in T OBVIOUS
  <2>1. Path!Begins(q, p) => Find(h, r, p) = nil BY Zenon
  <2>2. Append(p, x) \in Seq(Strides) BY PathPrefix
  <2>3. Path!Begins(q, Append(p, x)) <=> Path!Begins(q, p) \/ q = Append(p, x) BY BeginsStep
  <2>4. Find(h, r, Append(p, x)) = Child(h, Find(h, r, p), x) BY <1>2, FindStep
  <2>5. Child(h, nil, x) = nil BY <1>2, ChildType
  <2>6. Path!Begins(q, Append(p, x)) => Find(h, r, Append(p, x)) = nil BY <2>1, <2>3, <2>4, <2>5
  <2> QED BY <2>2, <2>6, Zenon
<1> HIDE DEF T
<1>5. Seq(Strides) \subseteq T BY <1>3, <1>4, PathInduct
<1>6. ASSUME NEW p \in Seq(Strides)
      PROVE  Find(h, r, p) = IF Path!Begins(q, p) THEN nil ELSE Find(h, r, p)
  BY <1>5 DEF T
<1> QED BY <1>6 DEF Cut

(* What was cut from is the value without the entry.                       *)
LEMMA CutValue ==
  ASSUME NEW h, Sound(h), NEW new, SameNodes(h, new), NEW r \in 1 .. Len(h), NEW q, Cut(h, r, q, new)
  PROVE  Value(new, r) = Path!Without(Value(h, r), q)
<1>1. Len(h) \in Nat BY DEF Sound
<1>2. r \in 0 .. Len(h) BY <1>1
<1>3. ASSUME NEW p \in Probes
      PROVE  Shown(new, Find(new, r, p)) =
               IF Path!Begins(q, p) THEN Path!Nothing ELSE Shown(h, Find(h, r, p))
  <2>1. p \in Seq(Strides) BY NodesAssumption
  <2>2. Find(new, r, p) = IF Path!Begins(q, p) THEN nil ELSE Find(h, r, p) BY <2>1 DEF Cut
  <2>3. Find(h, r, p) \in 0 .. Len(h) BY <1>2, <2>1, FindType
  <2>4. Shown(new, Find(h, r, p)) = Shown(h, Find(h, r, p)) BY <2>3, ShownSame
  <2>5. Shown(new, nil) = Path!Nothing BY DEF Shown, Path!Nothing
  <2> QED BY <2>2, <2>4, <2>5
<1>4. Value(new, r) = [p \in Probes |-> Shown(new, Find(new, r, p))] BY ValueAt
<1>5. Value(h, r) = [p \in Probes |-> Shown(h, Find(h, r, p))] BY ValueAt
<1>6. ASSUME NEW p \in Probes PROVE Value(h, r)[p] = Shown(h, Find(h, r, p)) BY <1>5
<1>7. Path!Without(Value(h, r), q)
        = [p \in Probes |-> IF Path!Begins(q, p) THEN Path!Nothing ELSE Value(h, r)[p]]
  BY DEF Path!Without
<1> QED BY <1>3, <1>4, <1>6, <1>7

(***************************************************************************)
(* Del of one root.                                                        *)
(***************************************************************************)
CutEnd(path) == IF Len(path) = 1 THEN path ELSE Append(path, path[Len(path)])

Deletes(h, pl, r, path, new, panics) ==
  /\ SameNodes(h, new) /\ Placed(new, pl) /\ Cut(h, r, CutEnd(path), new)
  /\ panics = (Len(path) > 1 /\ h[r].type = "hash" /\ Find(h, r, path) = nil)

LEMMA KeysAre ==
  ASSUME NEW k \in Paths
  PROVE  /\ k \in Seq(STRING) /\ ByKeys(Split(k)) \in Probes /\ ByKeys(Split(k)) \in Seq(Strides)
         /\ Len(ByKeys(Split(k))) = Len(Split(k)) /\ Len(Split(k)) \in Nat /\ Len(Split(k)) >= 1
         /\ Split(k)[Len(Split(k))] \in Seq(STRING)
         /\ ByKeys(Split(k))[Len(Split(k))] = ByKey(Split(k)[Len(Split(k))])
         /\ \A i \in 1 .. Len(Split(k)) : ByKeys(Split(k))[i] = <<"key", Split(k)[i]>>
<1>1. k \in Seq(STRING) /\ ByKeys(Split(k)) \in Probes /\ ByKeys(Split(k)) \in Seq(Strides)
  BY NodesAssumption
<1>2. Split(k) \in Seq(Seq(STRING)) /\ Len(Split(k)) \in Nat /\ Len(Split(k)) >= 1 BY <1>1, SplitOne
<1>3. PICK X : X = Seq(STRING) OBVIOUS
<1>4. PICK v : v = Split(k) OBVIOUS
<1>5. v \in Seq(X) /\ Len(v) \in Nat /\ Len(v) >= 1 BY <1>2, <1>3, <1>4
<1>6. v[Len(v)] \in X BY <1>5
<1>7. ByKeys(v) = [i \in 1 .. Len(v) |-> <<"key", v[i]>>] BY DEF ByKeys
<1>8. Len(ByKeys(v)) = Len(v) BY <1>5, <1>7
<1>9. Len(v) \in 1 .. Len(v) BY <1>5
<1>10. ByKeys(v)[Len(v)] = ByKey(v[Len(v)]) BY <1>7, <1>9 DEF ByKey
<1>11. \A i \in 1 .. Len(v) : ByKeys(v)[i] = <<"key", v[i]>> BY <1>7
<1> QED BY <1>1, <1>2, <1>3, <1>4, <1>6, <1>8, <1>10, <1>11

LEMMA CutEndIs ==
  ASSUME NEW path \in Seq(Strides), Len(path) > 1
  PROVE  path[Len(path)] \in Strides /\ CutEnd(path) = Append(path, path[Len(path)])
<1>1. PICK n \in Nat : n = Len(path) OBVIOUS
<1>2. Len(path) \in 1 .. Len(path) /\ Len(path) # 1
  <2>1. n > 1 BY <1>1
  <2>2. n \in 1 .. n /\ n # 1 BY <2>1
  <2> QED BY <1>1, <2>2
<1>3. path[Len(path)] \in Strides BY <1>2
<1> QED BY <1>2, <1>3 DEF CutEnd

LEMMA DelOne ==
  ASSUME NEW h, Sound(h), NEW pl, Placed(h, pl), NEW r \in 1 .. Len(h), pl[r] = <<>>,
         NEW k \in Paths, Len(Split(k)) = 1
  PROVE  Deletes(h, pl, r, ByKeys(Split(k)), Remove(h, r, k), FALSE)
<1>1. k \in Seq(STRING) /\ Split(k) = <<k>> /\ Len(ByKeys(Split(k))) = 1 BY KeysAre, SplitOne
<1>2. PICK new : new = Remove(h, r, k) OBVIOUS
<1>3. Lost(h, r, ByKey(k), new) BY <1>1, <1>2, RemoveLoses
<1>4. PICK none \in Seq(Strides) : none = <<>>
  <2>1. <<>> \in Seq(Strides) OBVIOUS
  <2> QED BY <2>1
<1>5. Len(h) \in Nat BY DEF Sound
<1>6. r \in 0 .. Len(h) BY <1>5
<1>7. Find(h, r, none) = r BY <1>4, <1>6, FindHere
<1>8. r # nil BY <1>5 DEF nil
<1>9. ByKey(k) \in Strides BY <1>1, KeyStride
<1>10. Find(h, r, none) # nil /\ Lost(h, Find(h, r, none), ByKey(k), new) BY <1>3, <1>7, <1>8
<1>11. Cut(h, r, Append(none, ByKey(k)), new) BY <1>9, <1>10, CutIs
<1>12. ByKeys(Split(k)) = <<ByKey(k)>> BY <1>1 DEF ByKeys, ByKey
<1>13. Append(none, ByKey(k)) = ByKeys(Split(k)) BY <1>4, <1>12
<1>14. CutEnd(ByKeys(Split(k))) = ByKeys(Split(k)) BY <1>1 DEF CutEnd
<1>15. Placed(new, pl) BY <1>3, LostPlaced
<1>16. SameNodes(h, new) BY <1>3 DEF Lost
<1>17. ~ (Len(ByKeys(Split(k))) > 1)
  <2>1. PICK n \in Nat : n = 1 OBVIOUS
  <2>2. ~ (n > 1) BY <2>1
  <2> QED BY <1>1, <2>1, <2>2, Zenon
<1> QED BY <1>2, <1>11, <1>13, <1>14, <1>15, <1>16, <1>17 DEF Deletes

LEMMA DelNowhere ==
  ASSUME NEW h, Sound(h), NEW pl, Placed(h, pl), NEW r \in 1 .. Len(h),
         NEW path \in Seq(Strides), Len(path) > 1, h[r].type = "hash", Find(h, r, path) = nil
  PROVE  Deletes(h, pl, r, path, h, TRUE)
<1>1. path[Len(path)] \in Strides /\ CutEnd(path) = Append(path, path[Len(path)]) BY CutEndIs
<1>2. Len(h) \in Nat BY DEF Sound
<1>3. r \in 0 .. Len(h) /\ nil \in 0 .. Len(h) BY <1>2 DEF nil
<1>4. Find(h, r, Append(path, path[Len(path)])) = Child(h, nil, path[Len(path)])
  BY <1>1, <1>3, FindStep
<1>5. Child(h, nil, path[Len(path)]) = nil BY <1>3, ChildType
<1>6. CutEnd(path) \in Seq(Strides) BY <1>1, PathPrefix
<1>7. Cut(h, r, CutEnd(path), h) BY <1>1, <1>4, <1>5, <1>6, CutNothing
<1>8. SameNodes(h, h) BY DEF SameNodes
<1> QED BY <1>7, <1>8 DEF Deletes

LEMMA DelPlain ==
  ASSUME NEW h, Sound(h), NEW pl, Placed(h, pl), NEW r \in 1 .. Len(h),
         NEW path \in Seq(Strides), Len(path) > 1, path[1][1] = "key", h[r].type # "hash"
  PROVE  Deletes(h, pl, r, path, h, FALSE)
<1>1. path[Len(path)] \in Strides /\ CutEnd(path) = Append(path, path[Len(path)]) BY CutEndIs
<1>2. PICK q \in Seq(Strides) : q = CutEnd(path) BY <1>1, PathPrefix
<1>3. Len(q) = Len(path) + 1 /\ q[1] = path[1] BY <1>1, <1>2
<1>4. PICK s \in Strides : s = path[1] OBVIOUS
<1>5. PICK one \in Seq(Strides) : one = <<s>>
  <2>1. <<s>> \in Seq(Strides) OBVIOUS
  <2> QED BY <2>1
<1>6. Path!Begins(one, q)
  <2>1. Len(one) = 1 /\ Len(one) <= Len(q) BY <1>3, <1>5
  <2>2. SubSeq(q, 1, 1) = <<s>>
    <3>1. Len(q) \in Nat /\ 1 \in 1 .. Len(q) + 1 /\ 1 \in 0 .. Len(q) BY <2>1
    <3>2. SubSeq(q, 1, 1) \in Seq(Strides) /\ Len(SubSeq(q, 1, 1)) = 1
      BY <3>1, PathPart
    <3>3. SubSeq(q, 1, 1)[1] = q[1] BY <3>1, PathPart
    <3>4. PICK u \in Seq(Strides) : u = SubSeq(q, 1, 1) BY <3>2
    <3>5. Len(u) = 1 /\ u[1] = s BY <3>2, <3>3, <3>4, <1>3, <1>4
    <3>6. u = <<s>> BY <3>5
    <3> QED BY <3>4, <3>6
  <2> QED BY <1>5, <2>1, <2>2 DEF Path!Begins, Path!To
<1>7. Len(h) \in Nat BY DEF Sound
<1>8. r \in 0 .. Len(h) BY <1>7
<1>9. PICK none \in Seq(Strides) : none = <<>>
  <2>1. <<>> \in Seq(Strides) OBVIOUS
  <2> QED BY <2>1
<1>10. Find(h, r, none) = r BY <1>8, <1>9, FindHere
<1>11. Find(h, r, Append(none, s)) = Child(h, Find(h, r, none), s) BY <1>8, FindStep
<1>12. Append(none, s) = one BY <1>5, <1>9
<1>13. Child(h, r, s) = nil BY <1>4 DEF Child
<1>14. Find(h, r, one) = nil BY <1>10, <1>11, <1>12, <1>13
<1>15. Cut(h, r, one, h) BY <1>14, CutNothing
<1>16. Find(h, r, q) = nil BY <1>6, <1>15 DEF Cut
<1>17. Cut(h, r, q, h) BY <1>16, CutNothing
<1>18. SameNodes(h, h) BY DEF SameNodes
<1> QED BY <1>2, <1>17, <1>18 DEF Deletes

LEMMA DelFound ==
  ASSUME NEW h, Sound(h), NEW pl, Placed(h, pl), NEW r \in 1 .. Len(h), pl[r] = <<>>,
         NEW path \in Seq(Strides), Len(path) > 1, Find(h, r, path) # nil,
         NEW z \in Seq(STRING), path[Len(path)] = ByKey(z),
         NEW k \in Seq(STRING), h[r].type = "hash", k \notin DOMAIN h[r].hash
  PROVE  Deletes(h, pl, r, path, Remove(Remove(h, Find(h, r, path), z), r, k), FALSE)
<1>1. ByKey(z) \in Strides /\ ByKey(k) \in Strides BY KeyStride
<1>2. Len(h) \in Nat BY DEF Sound
<1>3. r \in 0 .. Len(h) BY <1>2
<1>4. Find(h, r, path) \in 1 .. Len(h)
  <2>1. Find(h, r, path) \in 0 .. Len(h) BY <1>3, FindType
  <2> QED BY <1>2, <2>1 DEF nil
<1>5. PICK c \in 1 .. Len(h) : c = Find(h, r, path) BY <1>4
<1>6. PICK mid : mid = Remove(h, c, z) OBVIOUS
<1>7. PICK new : new = Remove(mid, r, k) OBVIOUS
<1>8. Lost(h, c, ByKey(z), mid) BY <1>6, RemoveLoses
<1>9. Sound(mid) /\ Len(mid) = Len(h) BY <1>8 DEF Lost, SameNodes
<1>10. r \in 1 .. Len(mid) BY <1>9
<1>11. Lost(mid, r, ByKey(k), new) BY <1>7, <1>9, <1>10, RemoveLoses
<1>12. Child(h, r, ByKey(k)) = nil
  <2>1. ByKey(k)[1] = "key" /\ ByKey(k)[2] = k BY KeyStride
  <2> QED BY <2>1 DEF Child
<1>13. Lost(h, c, ByKey(z), new) BY <1>1, <1>8, <1>11, <1>12, LostTwice
<1>14. Cut(h, r, Append(path, ByKey(z)), new) BY <1>1, <1>5, <1>13, CutIs
<1>15. CutEnd(path) = Append(path, ByKey(z)) BY DEF CutEnd
<1>16. Placed(new, pl) BY <1>13, LostPlaced
<1>17. SameNodes(h, new) BY <1>13 DEF Lost
<1>18. new = Remove(Remove(h, Find(h, r, path), z), r, k) BY <1>5, <1>6, <1>7
<1>19. Deletes(h, pl, r, path, new, FALSE) BY <1>14, <1>15, <1>16, <1>17 DEF Deletes
<1> QED BY <1>18, <1>19

LEMMA DelStep ==
  ASSUME Sound(heap), NEW pl, Placed(heap, pl), NEW r \in Roots,
         Root(r) \in 1 .. Len(heap), pl[Root(r)] = <<>>, NEW k \in Paths, KeysPlain, Del(r, k)
  PROVE  Deletes(heap, pl, Root(r), ByKeys(Split(k)), heap', fault')
<1>1. PICK c \in 1 .. Len(heap) : c = Root(r) OBVIOUS
<1>2. PICK parts : parts = Split(k) OBVIOUS
<1>3. PICK path \in Seq(Strides) : path = ByKeys(parts) BY <1>2, KeysAre
<1>4. PICK z \in Seq(STRING) : z = parts[Len(parts)] BY <1>2, KeysAre
<1>5. /\ k \in Seq(STRING) /\ Len(path) = Len(parts) /\ Len(parts) \in Nat /\ Len(parts) >= 1
      /\ path[Len(path)] = ByKey(z) /\ \A i \in 1 .. Len(parts) : path[i] = <<"key", parts[i]>>
  BY <1>2, <1>3, <1>4, KeysAre
<1>6. path[1][1] = "key" BY <1>5
<1>7. PICK n \in Nat : n = Len(parts) BY <1>5
<1>8. n = 1 \/ n > 1 BY <1>5, <1>7
<1>9. IF n > 1 /\ heap[c].type = "hash"
      THEN IF Find(heap, c, path) = nil THEN fault' = TRUE /\ heap' = heap
           ELSE fault' = FALSE /\ heap' = Remove(Remove(heap, Find(heap, c, path), z), c, k)
      ELSE fault' = FALSE /\ heap' = Remove(heap, c, k)
  BY <1>1, <1>2, <1>3, <1>4, <1>7, Zenon DEF Del
<1> SUFFICES Deletes(heap, pl, c, path, heap', fault') BY <1>1, <1>2, <1>3
<1>10. CASE n = 1
  <2>1. ~ (n > 1) BY <1>10
  <2>2. fault' = FALSE /\ heap' = Remove(heap, c, k) BY <1>9, <2>1
  <2>3. Len(Split(k)) = 1 BY <1>2, <1>7, <1>10
  <2>4. pl[c] = <<>> BY <1>1
  <2>5. Deletes(heap, pl, c, ByKeys(Split(k)), Remove(heap, c, k), FALSE) BY <2>3, <2>4, DelOne
  <2> QED BY <2>2, <2>5, <1>2, <1>3
<1>11. CASE n > 1
  <2>1. Len(path) > 1 BY <1>5, <1>7, <1>11
  <2>2. CASE heap[c].type # "hash"
    <3>1. fault' = FALSE /\ heap' = heap BY <1>9, <2>2 DEF Remove
    <3>2. Deletes(heap, pl, c, path, heap, FALSE) BY <1>6, <2>1, <2>2, DelPlain
    <3> QED BY <3>1, <3>2
  <2>3. CASE heap[c].type = "hash" /\ Find(heap, c, path) = nil
    <3>1. fault' = TRUE /\ heap' = heap BY <1>9, <1>11, <2>3
    <3>2. Deletes(heap, pl, c, path, heap, TRUE) BY <2>1, <2>3, DelNowhere
    <3> QED BY <3>1, <3>2
  <2>4. CASE heap[c].type = "hash" /\ Find(heap, c, path) # nil
    <3>1. fault' = FALSE /\ heap' = Remove(Remove(heap, Find(heap, c, path), z), c, k)
      BY <1>9, <1>11, <2>4
    <3>2. k \notin DOMAIN heap[c].hash
      <4>1. SUFFICES ASSUME k \in DOMAIN heap[c].hash PROVE FALSE OBVIOUS
      <4>2. Split(k) = <<k>> BY <4>1 DEF KeysPlain, KeyPlain, Nodes
      <4>3. Len(<<k>>) = 1 OBVIOUS
      <4>4. n = 1 BY <4>2, <4>3, <1>2, <1>7
      <4> QED BY <4>4, <1>11
    <3>3. pl[c] = <<>> BY <1>1
    <3>4. Deletes(heap, pl, c, path, Remove(Remove(heap, Find(heap, c, path), z), c, k), FALSE)
      BY <1>5, <2>1, <2>4, <3>2, <3>3, DelFound
    <3> QED BY <3>1, <3>4
  <2> QED BY <2>2, <2>3, <2>4
<1> QED BY <1>8, <1>10, <1>11

LEMMA DelValue ==
  ASSUME NEW h, Sound(h), NEW pl, NEW r \in 1 .. Len(h), NEW path \in Probes, NEW new, NEW panics,
         Deletes(h, pl, r, path, new, panics)
  PROVE  /\ Value(new, r) = Path!Without(Value(h, r), CutEnd(path))
         /\ panics = (Len(path) > 1 /\ Path!Has(Value(h, r), <<>>, "hash")
                        /\ Path!Has(Value(h, r), path, "none"))
<1>1. SameNodes(h, new) /\ Cut(h, r, CutEnd(path), new) BY DEF Deletes
<1>2. Value(new, r) = Path!Without(Value(h, r), CutEnd(path)) BY <1>1, CutValue
<1>3. Len(h) \in Nat BY DEF Sound
<1>4. r \in 0 .. Len(h) /\ r # nil BY <1>3 DEF nil
<1>5. Path!Has(Value(h, r), path, "none") <=> Find(h, r, path) = nil BY <1>4, HasIs
<1>6. PICK none \in Probes : none = <<>> BY NodesAssumption
<1>7. Path!Has(Value(h, r), none, "hash") <=> IsAt(h, r, none, "hash") BY <1>4, HasIs
<1>8. Find(h, r, none) = r BY <1>4, <1>6, FindHere
<1>9. IsAt(h, r, none, "hash") <=> h[r].type = "hash" BY <1>4, <1>8 DEF IsAt
<1>10. panics = (Len(path) > 1 /\ h[r].type = "hash" /\ Find(h, r, path) = nil) BY DEF Deletes
<1> QED BY <1>2, <1>5, <1>6, <1>7, <1>9, <1>10, Zenon

-----------------------------------------------------------------------------
(***************************************************************************)
(* The parser gives every node one place: a node goes into the container   *)
(* that is open when it is made, and a root into none.                     *)
(***************************************************************************)
Homed(hp, pl, cs) ==
  /\ Placed(hp, pl)
  /\ \A i \in 1 .. Len(cs) : cs[i] \in 1 .. Len(hp) /\ pl[cs[i]] = <<>>
  /\ \A n \in 1 .. Len(hp) : hp[n].type \in Containers /\ hp[n].parent = nil => pl[n] = <<>>

NextItem(hp, c) == <<"item", Len(hp[c].arr) + 1>>

StrideInto(hp, c, k) == IF hp[c].type = "hash" THEN ByKey(k) ELSE NextItem(hp, c)

PutAt(hp, c, k, new) ==
  /\ Sound(new) /\ Len(new) = Len(hp) + 1
  /\ StrideInto(hp, c, k) \in Strides
  /\ \A n \in 1 .. Len(new), s \in Strides :
       Child(new, n, s) = IF n = c /\ s = StrideInto(hp, c, k) THEN Len(hp) + 1
                          ELSE IF n = Len(hp) + 1 THEN nil ELSE Child(hp, n, s)

LEMMA NewChildless ==
  ASSUME NEW hp, NEW node, Fits(hp, node), NEW mid, Appended(hp, node, mid), NEW s
  PROVE  Child(mid, Len(hp) + 1, s) = nil
<1>1. node.hash = <<>> /\ node.arr = <<>> /\ mid[Len(hp) + 1] = node BY DEF Fits, Fresh, Appended
<1>2. DOMAIN mid[Len(hp) + 1].hash = {} /\ DOMAIN mid[Len(hp) + 1].arr = {} BY <1>1, EmptyTable
<1> QED BY <1>2 DEF Child

LEMMA OldChild ==
  ASSUME NEW hp, HeapOK(hp), NEW node, NEW mid, Appended(hp, node, mid), NEW n \in 1 .. Len(hp), NEW s
  PROVE  Child(mid, n, s) = Child(hp, n, s)
<1>1. mid[n] = hp[n] BY DEF Appended
<1> QED BY <1>1 DEF Child

LEMMA AddedItem ==
  ASSUME NEW hp \in Seq(GoNode), NEW c \in 1 .. Len(hp), hp[c].type = "arr",
         NEW k, NEW el \in 1 .. Len(hp), NEW new, Added(hp, c, k, el, new),
         NEW n \in 1 .. Len(hp), NEW s \in Strides
  PROVE  Child(new, n, s) = IF n = c /\ s = NextItem(hp, c) THEN el ELSE Child(hp, n, s)
<1>1. CASE n # c
  BY <1>1 DEF Added, Child
<1>2. CASE n = c
  <2>1. new[c].type = "arr" /\ new[c].arr = Append(hp[c].arr, el) /\ c # nil BY DEF Added, nil
  <2>2. hp[c] \in GoNode OBVIOUS
  <2>3. PICK a \in Seq(Nat) : a = hp[c].arr BY <2>2 DEF GoNode
  <2>a. Len(hp) \in Nat OBVIOUS
  <2>b. el \in Nat BY <2>a
  <2>c. Append(a, el) \in Seq(Nat) BY <2>b
  <2>4. PICK b \in Seq(Nat) : b = Append(a, el) BY <2>c
  <2>5. /\ DOMAIN a = 1 .. Len(a) /\ DOMAIN b = 1 .. Len(a) + 1 /\ Len(a) \in Nat
        /\ b[Len(a) + 1] = el /\ \A i \in 1 .. Len(a) : b[i] = a[i]
    BY <2>4
  <2>6. Child(new, c, s) = IF s[1] = "item" /\ s[2] \in DOMAIN b THEN b[s[2]] ELSE nil
    BY <2>1, <2>3, <2>4 DEF Child
  <2>7. Child(hp, c, s) = IF s[1] = "item" /\ s[2] \in DOMAIN a THEN a[s[2]] ELSE nil
    BY <2>1, <2>3 DEF Child
  <2>8. s = <<"item", Len(a) + 1>> <=> s[1] = "item" /\ s[2] = Len(a) + 1
    BY DEF Strides
  <2>9. s[2] \in 1 .. Len(a) + 1 <=> s[2] \in 1 .. Len(a) \/ s[2] = Len(a) + 1
    BY <2>5
  <2>10. Len(a) + 1 \notin 1 .. Len(a) BY <2>5
  <2>11. NextItem(hp, c) = <<"item", Len(a) + 1>> BY <2>3 DEF NextItem
  <2>12. s = NextItem(hp, c) <=> s[1] = "item" /\ s[2] = Len(a) + 1 BY <2>8, <2>11
  <2> QED BY <1>2, <2>5, <2>6, <2>7, <2>9, <2>10, <2>12
<1> QED BY <1>1, <1>2

LEMMA PutIs ==
  ASSUME NEW hp, HeapOK(hp), NEW node, Fits(hp, node),
         NEW c \in 1 .. Len(hp), hp[c].type \in Containers, NEW k \in Seq(STRING),
         NEW new, new = Add(Append(hp, node), c, k, Len(hp) + 1)
  PROVE  PutAt(hp, c, k, new)
<1>1. PICK mid : mid = Append(hp, node) OBVIOUS
<1>2. PICK el : el = Len(hp) + 1 OBVIOUS
<1>3. Appended(hp, node, mid) BY <1>1, HeapGrows
<1>4. /\ HeapOK(mid) /\ Len(mid) = Len(hp) + 1 /\ \A n \in 1 .. Len(hp) : mid[n] = hp[n]
  BY <1>3 DEF Appended
<1>5. Len(hp) \in Nat /\ mid \in Seq(GoNode) BY <1>4 DEF HeapOK
<1>6. el \in Nat /\ el \in 1 .. Len(mid) /\ c \in 1 .. Len(mid) /\ mid[c].type = hp[c].type
      /\ mid[c].arr = hp[c].arr
  BY <1>2, <1>4, <1>5
<1>7. new = Add(mid, c, k, el) BY <1>1, <1>2
<1>8. Added(mid, c, k, el, new) BY <1>5, <1>6, <1>7, AddFrame
<1>9. Under(hp, c, node, new) BY AddedUnder
<1>10. Sound(new) /\ Len(new) = Len(hp) + 1 BY <1>9, HeapSound DEF Under
<1>11. ASSUME NEW n \in 1 .. Len(new), NEW s \in Strides
       PROVE  Child(mid, n, s) = IF n = el THEN nil ELSE Child(hp, n, s)
  <2>1. CASE n = el BY <1>2, <1>3, <2>1, NewChildless
  <2>2. CASE n # el
    <3>1. n \in 1 .. Len(hp) BY <1>2, <1>5, <1>10, <2>2
    <3> QED BY <1>3, <2>2, <3>1, OldChild
  <2> QED BY <2>1, <2>2
<1>12. c # el BY <1>2, <1>5
<1>13. CASE hp[c].type = "hash"
  <2>1. StrideInto(hp, c, k) = ByKey(k) BY <1>13 DEF StrideInto
  <2>2. ByKey(k) \in Strides BY KeyStride
  <2>3. ASSUME NEW n \in 1 .. Len(new), NEW s \in Strides
        PROVE  Child(new, n, s) = IF n = c /\ s = ByKey(k) THEN el ELSE Child(mid, n, s)
    <3>1. n \in 1 .. Len(mid) BY <1>4, <1>10
    <3> QED BY <1>5, <1>6, <1>8, <1>13, <3>1, AddedChild
  <2> QED BY <1>2, <1>10, <1>11, <1>12, <2>1, <2>2, <2>3 DEF PutAt
<1>14. CASE hp[c].type # "hash"
  <2>1. StrideInto(hp, c, k) = NextItem(hp, c) BY <1>14 DEF StrideInto
  <2>2. mid[c].type = "arr" BY <1>6, <1>14 DEF Containers
  <2>3. hp[c] \in GoNode BY DEF HeapOK
  <2>4. Len(hp[c].arr) + 1 \in Nat BY <2>3 DEF GoNode
  <2>5. NextItem(hp, c) \in Strides BY <2>4 DEF Strides, NextItem
  <2>6. ASSUME NEW n \in 1 .. Len(new), NEW s \in Strides
        PROVE  Child(new, n, s) = IF n = c /\ s = NextItem(mid, c) THEN el ELSE Child(mid, n, s)
    <3>1. n \in 1 .. Len(mid) BY <1>4, <1>10
    <3> QED BY <1>5, <1>6, <1>8, <2>2, <3>1, AddedItem
  <2>a. PICK x : x = StrideInto(hp, c, k) OBVIOUS
  <2>b. x = NextItem(mid, c) BY <1>6, <2>1, <2>a DEF NextItem
  <2>7. ASSUME NEW n \in 1 .. Len(new), NEW s \in Strides
        PROVE  Child(new, n, s) = IF n = c /\ s = x THEN el
                                  ELSE IF n = el THEN nil ELSE Child(hp, n, s)
    <3>1. Child(new, n, s) = IF n = c /\ s = x THEN el ELSE Child(mid, n, s)
      BY <2>6, <2>b, Zenon
    <3> QED BY <3>1, <1>11
  <2> QED BY <1>2, <1>10, <2>1, <2>5, <2>7, <2>a DEF PutAt
<1> QED BY <1>13, <1>14

(* What a step of the parser does to the nodes and to the roots it has     *)
(* handed out.                                                             *)
HandsOut ==
  /\ CurOK /\ heap[cur].parent = nil
  /\ UNCHANGED heap /\ chunks' = Append(chunks, cur)

MakesRoot ==
  \E node \in {NewJHash(nil), NewJArr(nil)} : heap' = Append(heap, node) /\ UNCHANGED chunks

PutsNode ==
  /\ CurOK /\ key \in Seq(STRING) /\ UNCHANGED chunks
  /\ \E node : /\ Fits(heap, node) /\ (node.type \notin Containers \/ node.parent # nil)
               /\ heap' = Add(Append(heap, node), cur, key, Len(heap) + 1)

NodeStep == UNCHANGED <<heap, chunks>> \/ HandsOut \/ MakesRoot \/ PutsNode

LEMMA NextNodes ==
  ASSUME IInv, Step
  PROVE  NodeStep
<1>1. /\ pc \in InRoot => CurOK /\ key \in Seq(STRING) /\ HeapOK(heap)
      /\ TreeOK /\ Len(heap) \in Nat
  BY DEF IInv, ScanOK, TextsOK, TreeOK, HeapOK
<1>2. CASE OverrunAt \/ OverEnd \/ RootHashComment \/ RootHashComment2
        \/ HashComment \/ HashComment2 \/ AC_Comment \/ AC_Comment2
        \/ QKeyName1 \/ QKeyNameX \/ KeyName1 \/ KeyNameX \/ Colon \/ Number1 \/ Escape
  BY <1>2 DEF NodeStep, OverrunAt, OverEnd, RootHashComment, RootHashComment2, HashComment,
              HashComment2, AC_Comment, AC_Comment2, EolComment, StarComment, QKeyName1, QKeyNameX,
              KeyName1, KeyNameX, Colon, Number1, Escape, FirstOfKey, tree, outVars
<1>3. CASE UnknownRoot
  <2>1. UNCHANGED chunks BY <1>3 DEF UnknownRoot, outVars
  <2>2. UNCHANGED heap \/ \E node \in {NewJHash(nil), NewJArr(nil)} : NewRoot(node)
    BY <1>3 DEF UnknownRoot, tree
  <2> QED BY <2>1, <2>2 DEF NodeStep, MakesRoot, NewRoot
<1>4. CASE Hash
  <2>1. pc \in InRoot BY <1>4, Labels DEF Hash, At
  <2>2. \/ UNCHANGED <<heap, chunks>>
        \/ heap[cur].parent = nil /\ UNCHANGED heap /\ chunks' = Append(chunks, cur)
    BY <1>4 DEF Hash, Ascend, EndRoot, tree, outVars
  <2> QED BY <1>1, <2>1, <2>2 DEF NodeStep, HandsOut
<1>5. CASE AfterColon
  <2>1. pc \in InRoot BY <1>5, Labels DEF AfterColon, At
  <2>2. \/ UNCHANGED <<heap, chunks>>
        \/ /\ UNCHANGED chunks
           /\ \E node \in {NewJHash(cur), NewJArr(cur)}, label \in HashOrValue : Descend(node, label)
    BY <1>5 DEF AfterColon, CloseBracket, tree, outVars, HashOrValue
  <2>3. ASSUME NEW node \in {NewJHash(cur), NewJArr(cur)}, NEW label, Descend(node, label),
               UNCHANGED chunks
        PROVE  PutsNode
    <3>1. cur \in 1 .. Len(heap) /\ heap[cur].type \in Containers BY <1>1, <2>1 DEF CurOK
    <3>2. cur \in 0 .. Len(heap) /\ cur # nil BY <1>1, <3>1 DEF nil
    <3>3. Fits(heap, node) /\ node.parent = cur BY <1>1, <2>1, <3>1, <3>2, ContainerFits
    <3>4. heap' = Add(Append(heap, node), cur, key, Len(heap) + 1) BY <2>3 DEF Descend
    <3> QED BY <1>1, <2>1, <2>3, <3>2, <3>3, <3>4 DEF PutsNode
  <2> QED BY <2>2, <2>3 DEF NodeStep
<1>6. CASE TypeX \/ NumberX \/ AfterDot \/ String1 \/ StringX
  <2>1. pc \in InRoot /\ UNCHANGED chunks
    BY <1>6, Labels DEF TypeX, NumberX, AfterDot, String1, StringX, At, outVars
  <2> DEFINE Leaves == {"str", "pos", "neg", "float_pos", "float_neg", "true", "false", "null"}
  <2>2. Leaves \subseteq NodeTypes /\ Leaves \cap Containers = {} BY DEF NodeTypes, Containers
  <2>3. \/ UNCHANGED heap
        \/ \E t \in Leaves, text \in Seq(STRING), n \in {0, 1} : Store(NewJVal(t, text), n)
    <3>1. CASE TypeX
      <4>1. UNCHANGED tree \/ \E w \in DOMAIN Handlers : Store(NewJVal(Handlers[w], <<>>), 0)
        BY <3>1 DEF TypeX
      <4>2. \A w \in DOMAIN Handlers : Handlers[w] \in Leaves BY GoAssumption
      <4>3. <<>> \in Seq(STRING) OBVIOUS
      <4> QED BY <4>1, <4>2, <4>3 DEF tree
    <3>2. CASE NumberX \/ AfterDot
      <4>1. Since(strStart) \in Seq(STRING)
        <5>1. TextsOK /\ NumsOK /\ strStart \in Nat
          BY <3>2 DEF IInv, ScanOK, NumsOK, SliceOK, SlicesInBounds, NumberX, AfterDot, At
        <5> QED BY <3>2, <5>1, SinceType DEF NumberX, AfterDot
      <4>2. \/ UNCHANGED tree
            \/ \E t \in {"pos", "neg", "float_pos", "float_neg"} : Store(NewJVal(t, Since(strStart)), 0)
        BY <3>2 DEF NumberX, AfterDot
      <4> QED BY <4>1, <4>2 DEF tree
    <3>3. CASE String1
      <4>1. UNCHANGED tree \/ Store(NewJVal("str", <<>>), 1) BY <3>3 DEF String1
      <4>2. <<>> \in Seq(STRING) OBVIOUS
      <4> QED BY <4>1, <4>2 DEF tree
    <3>4. CASE StringX
      <4>1. UNCHANGED tree \/ Store(NewJVal("str", str \o Since(substrStart)), 1) BY <3>4 DEF StringX
      <4>2. str \o Since(substrStart) \in Seq(STRING)
        <5>1. TextsOK /\ NumsOK /\ substrStart \in Nat /\ str \in Seq(STRING)
          BY DEF IInv, ScanOK, NumsOK, TextsOK
        <5>2. Since(substrStart) \in Seq(STRING)
          BY <3>4, <5>1, SinceType DEF StringX
        <5> QED BY <5>1, <5>2
      <4> QED BY <4>1, <4>2 DEF tree
    <3> QED BY <1>6, <3>1, <3>2, <3>3, <3>4
  <2>4. ASSUME NEW t \in Leaves, NEW text \in Seq(STRING), NEW n \in {0, 1}, Store(NewJVal(t, text), n)
        PROVE  PutsNode
    <3>1. PICK node : node = NewJVal(t, text) OBVIOUS
    <3>2. t \in NodeTypes /\ t \notin Containers BY <2>2
    <3> HIDE DEF Leaves
    <3>3. Fits(heap, node) /\ node.type = t BY <1>1, <2>1, <3>1, <3>2, LeafFits
    <3>4. heap' = Add(Append(heap, node), cur, key, Len(heap) + 1) BY <2>4, <3>1 DEF Store
    <3> QED BY <1>1, <2>1, <3>2, <3>3, <3>4 DEF PutsNode
  <2> QED BY <2>1, <2>3, <2>4 DEF NodeStep
<1> QED BY <1>2, <1>3, <1>4, <1>5, <1>6 DEF Step

Housed(hp, cs) == \E pl : Homed(hp, pl, cs)

(* A map of the nodes with one more.                                       *)
Lengthens(S, n, pl, x, new) ==
  new \in [1 .. n + 1 -> S] /\ new[n + 1] = x /\ \A i \in 1 .. n : new[i] = pl[i]

LEMMA MoreHomes ==
  ASSUME NEW S, NEW n \in Nat, NEW pl \in [1 .. n -> S], NEW x \in S
  PROVE  \E new : Lengthens(S, n, pl, x, new)
<1> DEFINE new == [i \in 1 .. n + 1 |-> IF i = n + 1 THEN x ELSE pl[i]]
<1>1. new \in [1 .. n + 1 -> S] OBVIOUS
<1>2. new[n + 1] = x /\ \A i \in 1 .. n : new[i] = pl[i] OBVIOUS
<1> QED BY <1>1, <1>2 DEF Lengthens

LEMMA RootHoused ==
  ASSUME HeapOK(heap), chunks \in Seq(Nat), Housed(heap, chunks), MakesRoot
  PROVE  Housed(heap', chunks')
<1>1. PICK pl : Homed(heap, pl, chunks) BY DEF Housed
<1>2. PICK node \in {NewJHash(nil), NewJArr(nil)} : heap' = Append(heap, node) /\ chunks' = chunks
  BY DEF MakesRoot
<1>3. PICK n \in Nat : n = Len(heap) BY DEF HeapOK
<1>4. Fits(heap, node)
  <2>1. nil \in 0 .. Len(heap) BY <1>3 DEF nil
  <2> QED BY <2>1, ContainerFits
<1>5. Appended(heap, node, heap') BY <1>2, <1>4, HeapGrows
<1>6. PICK S : S = Seq(Strides) OBVIOUS
<1>7. pl \in [1 .. n -> S] /\ <<>> \in S BY <1>1, <1>3, <1>6 DEF Homed, Placed
<1>a. PICK x \in S : x = <<>> BY <1>7
<1>b. PICK ql : Lengthens(S, n, pl, x, ql) BY <1>7, MoreHomes
<1>8. ql \in [1 .. n + 1 -> S] /\ ql[n + 1] = <<>> /\ \A i \in 1 .. n : ql[i] = pl[i]
  BY <1>a, <1>b DEF Lengthens
<1>9. Len(heap') = n + 1 /\ HeapOK(heap') /\ \A i \in 1 .. n : heap'[i] = heap[i]
  BY <1>3, <1>5 DEF Appended
<1>10. ASSUME NEW i \in 1 .. n + 1, NEW s \in Strides, Child(heap', i, s) # nil
       PROVE  ql[Child(heap', i, s)] = Append(ql[i], s)
  <2>1. i \in 1 .. n
    <3>1. Child(heap', n + 1, s) = nil BY <1>3, <1>4, <1>5, NewChildless
    <3>2. i # n + 1 BY <1>10, <3>1
    <3> QED BY <3>2
  <2>2. Child(heap', i, s) = Child(heap, i, s) BY <1>3, <1>5, <2>1, OldChild
  <2>3. Child(heap, i, s) \in 0 .. n
    <3>1. Sound(heap) BY HeapSound
    <3>2. i \in 0 .. Len(heap) BY <1>3, <2>1
    <3> QED BY <1>3, <3>1, <3>2, ChildType
  <2>4. Child(heap, i, s) \in 1 .. n BY <1>10, <2>2, <2>3 DEF nil
  <2>5. pl[Child(heap, i, s)] = Append(pl[i], s) BY <1>1, <1>3, <1>10, <2>1, <2>2 DEF Homed, Placed
  <2> QED BY <1>8, <2>1, <2>2, <2>4, <2>5
<1>11. Placed(heap', ql) BY <1>6, <1>8, <1>9, <1>10 DEF Placed
<1>12. \A i \in 1 .. Len(chunks') : chunks'[i] \in 1 .. Len(heap') /\ ql[chunks'[i]] = <<>>
  <2>1. \A i \in 1 .. Len(chunks) : chunks[i] \in 1 .. n /\ pl[chunks[i]] = <<>>
    BY <1>1, <1>3 DEF Homed
  <2> QED BY <1>2, <1>8, <1>9, <2>1
<1>13. ASSUME NEW i \in 1 .. Len(heap'), heap'[i].type \in Containers, heap'[i].parent = nil
       PROVE  ql[i] = <<>>
  <2>1. CASE i = n + 1 BY <1>8, <2>1
  <2>2. CASE i # n + 1
    <3>1. i \in 1 .. n BY <1>9, <2>2
    <3> QED BY <1>1, <1>3, <1>8, <1>9, <1>13, <3>1 DEF Homed
  <2> QED BY <2>1, <2>2
<1> QED BY <1>11, <1>12, <1>13 DEF Homed, Housed

LEMMA NodeHoused ==
  ASSUME HeapOK(heap), chunks \in Seq(Nat), Housed(heap, chunks), PutsNode
  PROVE  Housed(heap', chunks')
<1>1. PICK pl : Homed(heap, pl, chunks) BY DEF Housed
<1>2. PICK node : /\ Fits(heap, node) /\ (node.type \notin Containers \/ node.parent # nil)
                  /\ heap' = Add(Append(heap, node), cur, key, Len(heap) + 1)
  BY DEF PutsNode
<1>3. /\ cur \in 1 .. Len(heap) /\ heap[cur].type \in Containers /\ key \in Seq(STRING)
      /\ chunks' = chunks
  BY DEF PutsNode, CurOK
<1>4. PICK n \in Nat : n = Len(heap) BY DEF HeapOK
<1>5. PutAt(heap, cur, key, heap') BY <1>2, <1>3, PutIs
<1>6. Under(heap, cur, node, heap') BY <1>2, <1>3, AddedUnder
<1>7. PICK S : S = Seq(Strides) OBVIOUS
<1>8. PICK z \in Strides : z = StrideInto(heap, cur, key) BY <1>5 DEF PutAt
<1>9. pl \in [1 .. n -> S] BY <1>1, <1>4, <1>7 DEF Homed, Placed
<1>10. PICK x \in S : x = Append(pl[cur], z)
  <2>1. pl[cur] \in Seq(Strides) BY <1>3, <1>4, <1>7, <1>9
  <2>2. Append(pl[cur], z) \in S BY <1>7, <2>1, PathPrefix
  <2> QED BY <2>2
<1>a. PICK ql : Lengthens(S, n, pl, x, ql) BY <1>9, MoreHomes
<1>11. ql \in [1 .. n + 1 -> S] /\ ql[n + 1] = x /\ \A i \in 1 .. n : ql[i] = pl[i]
  BY <1>a DEF Lengthens
<1>12. Len(heap') = n + 1 /\ Len(heap) = n BY <1>4, <1>5 DEF PutAt
<1>13. ASSUME NEW i \in 1 .. n + 1, NEW s \in Strides, Child(heap', i, s) # nil
       PROVE  ql[Child(heap', i, s)] = Append(ql[i], s)
  <2>1. Child(heap', i, s) = IF i = cur /\ s = z THEN n + 1
                             ELSE IF i = n + 1 THEN nil ELSE Child(heap, i, s)
    BY <1>4, <1>5, <1>8, <1>12 DEF PutAt
  <2>2. cur \in 1 .. n BY <1>3, <1>4
  <2>3. CASE i = cur /\ s = z BY <1>10, <1>11, <2>1, <2>2, <2>3
  <2>4. CASE ~ (i = cur /\ s = z)
    <3>1. i \in 1 .. n BY <1>13, <2>1, <2>4
    <3>2. Child(heap', i, s) = Child(heap, i, s) BY <2>1, <2>4, <3>1
    <3>3. Child(heap, i, s) \in 0 .. n
      <4>1. Sound(heap) BY HeapSound
      <4>2. i \in 0 .. Len(heap) BY <1>4, <3>1
      <4> QED BY <1>4, <4>1, <4>2, ChildType
    <3>4. Child(heap, i, s) \in 1 .. n BY <1>13, <3>2, <3>3 DEF nil
    <3>5. pl[Child(heap, i, s)] = Append(pl[i], s) BY <1>1, <1>4, <1>13, <3>1, <3>2 DEF Homed, Placed
    <3> QED BY <1>11, <3>1, <3>2, <3>4, <3>5
  <2> QED BY <2>3, <2>4
<1>14. Placed(heap', ql) BY <1>7, <1>11, <1>12, <1>13 DEF Placed
<1>15. \A i \in 1 .. Len(chunks') : chunks'[i] \in 1 .. Len(heap') /\ ql[chunks'[i]] = <<>>
  <2>1. \A i \in 1 .. Len(chunks) : chunks[i] \in 1 .. n /\ pl[chunks[i]] = <<>>
    BY <1>1, <1>4 DEF Homed
  <2> QED BY <1>3, <1>11, <1>12, <2>1
<1>16. ASSUME NEW i \in 1 .. Len(heap'), heap'[i].type \in Containers, heap'[i].parent = nil
       PROVE  ql[i] = <<>>
  <2>1. i # n + 1 BY <1>2, <1>4, <1>6, <1>16 DEF Under
  <2>2. i \in 1 .. n BY <1>12, <2>1
  <2>3. heap[i].type \in Containers /\ heap[i].parent = nil BY <1>4, <1>6, <1>16, <2>2 DEF Under
  <2> QED BY <1>1, <1>4, <1>11, <2>2, <2>3 DEF Homed
<1> QED BY <1>14, <1>15, <1>16 DEF Homed, Housed

LEMMA HandedHoused ==
  ASSUME HeapOK(heap), chunks \in Seq(Nat), Housed(heap, chunks), HandsOut
  PROVE  Housed(heap', chunks')
<1>1. PICK pl : Homed(heap, pl, chunks) BY DEF Housed
<1>2. /\ cur \in 1 .. Len(heap) /\ heap[cur].type \in Containers /\ heap[cur].parent = nil
      /\ heap' = heap /\ chunks' = Append(chunks, cur)
  BY DEF HandsOut, CurOK
<1>3. pl[cur] = <<>> BY <1>1, <1>2 DEF Homed
<1>4. Len(heap) \in Nat BY DEF HeapOK
<1>5. cur \in Nat BY <1>2, <1>4
<1>6. \A i \in 1 .. Len(chunks') : (i \in 1 .. Len(chunks) /\ chunks'[i] = chunks[i]) \/ chunks'[i] = cur
  BY <1>2, <1>5
<1>7. \A i \in 1 .. Len(chunks') : chunks'[i] \in 1 .. Len(heap) /\ pl[chunks'[i]] = <<>>
  BY <1>1, <1>2, <1>3, <1>6 DEF Homed
<1> QED BY <1>1, <1>2, <1>7 DEF Homed, Housed

LEMMA StepHoused ==
  ASSUME IInv, Step, Housed(heap, chunks)
  PROVE  Housed(heap', chunks')
<1>1. HeapOK(heap) /\ chunks \in Seq(Nat) BY DEF IInv, TreeOK
<1>2. NodeStep BY NextNodes
<1> QED BY <1>1, <1>2, RootHoused, NodeHoused, HandedHoused DEF NodeStep

LEMMA FirstHoused == Init => Housed(heap, chunks)
<1> SUFFICES ASSUME Init PROVE Housed(heap, chunks) OBVIOUS
<1>1. heap = <<>> /\ chunks = <<>> BY DEF Init
<1>2. PICK pl : pl = [n \in 1 .. 0 |-> <<>>] OBVIOUS
<1>3. pl \in [1 .. Len(heap) -> Seq(Strides)] BY <1>1, <1>2
<1>4. 1 .. Len(heap) = {} /\ 1 .. Len(chunks) = {} BY <1>1
<1>5. Placed(heap, pl) BY <1>3, <1>4 DEF Placed
<1> QED BY <1>4, <1>5 DEF Homed, Housed

-----------------------------------------------------------------------------
(***************************************************************************)
(* What is known of the nodes when the caller has the roots.               *)
(***************************************************************************)
Standing(hp, pl, cs) ==
  Placed(hp, pl) /\ \A i \in 1 .. Len(cs) : cs[i] \in 1 .. Len(hp) /\ pl[cs[i]] = <<>>

Ongoing ==
  /\ call.op = "overlay" /\ call.root \in Roots /\ call.arg \in Roots
  /\ \E pl, D : /\ Standing(before, pl, chunks)
                /\ Running(before, pl, Root(call.root), Root(call.arg), D, heap, frames)

Parsing == IInv /\ Housed(heap, chunks) /\ fault = FALSE /\ frames = <<>>
Resting == \E pl : Standing(heap, pl, chunks)

NodesInv ==
  /\ chunks \in Seq(Nat) /\ calls \in Nat /\ fault \in BOOLEAN /\ Sound(heap)
  /\ pc # "Returned" => Parsing
  /\ pc = "Returned" /\ frames = <<>> => Resting
  /\ pc = "Returned" /\ frames # <<>> => fault = FALSE /\ Ongoing

LEMMA StepRuns == Step => pc # "Returned"
BY DEF Step, OverrunAt, OverEnd, UnknownRoot, RootHashComment, RootHashComment2, Hash, HashComment,
       HashComment2, QKeyName1, QKeyNameX, KeyName1, KeyNameX, Colon, AfterColon, TypeX, AC_Comment,
       AC_Comment2, Number1, NumberX, AfterDot, String1, StringX, Escape, EolComment, StarComment,
       FirstOfKey, At, Checked, RootScan, InRoot, KeyScan, ValScan

LEMMA NodesStart == Init /\ NodesInit => NodesInv
<1> SUFFICES ASSUME Init, NodesInit PROVE NodesInv OBVIOUS
<1>1. IInv BY InitHolds
<1>2. Housed(heap, chunks) BY FirstHoused
<1>3. chunks \in Seq(Nat) /\ HeapOK(heap) BY <1>1 DEF IInv, TreeOK
<1>4. Sound(heap) BY <1>3, HeapSound
<1>5. pc # "Returned" BY DEF Init
<1>6. calls \in Nat /\ fault = FALSE /\ frames = <<>> BY DEF NodesInit
<1> QED BY <1>1, <1>2, <1>3, <1>4, <1>5, <1>6 DEF NodesInv, Parsing

LEMMA ParsePart ==
  ASSUME NodesInv, Step, UNCHANGED nodeVars
  PROVE  NodesInv'
<1>1. pc # "Returned" BY StepRuns
<1>2. Parsing BY <1>1 DEF NodesInv
<1>3. IInv' BY <1>2, NextHolds DEF Next, Parsing
<1>4. Housed(heap', chunks') BY <1>2, StepHoused DEF Parsing
<1>5. chunks' \in Seq(Nat) /\ HeapOK(heap') BY <1>3 DEF IInv, TreeOK
<1>6. Sound(heap') BY <1>5, HeapSound
<1>7. calls' = calls /\ fault' = fault /\ frames' = frames BY DEF nodeVars
<1>8. calls' \in Nat /\ fault' = FALSE /\ frames' = <<>> BY <1>2, <1>7 DEF NodesInv, Parsing
<1>9. \E pl : Standing(heap', pl, chunks') BY <1>4 DEF Housed, Homed, Standing
<1> QED BY <1>3, <1>4, <1>5, <1>6, <1>8, <1>9 DEF NodesInv, Parsing, Resting

LEMMA NothingDone ==
  ASSUME NodesInv, UNCHANGED <<vars, nodeVars>>
  PROVE  NodesInv'
<1>1. /\ heap' = heap /\ chunks' = chunks /\ pc' = pc /\ frames' = frames /\ call' = call
      /\ calls' = calls /\ fault' = fault /\ before' = before
  BY DEF vars, nodeVars, tree, outVars
<1>2. Parsing => Parsing'
  <2> SUFFICES ASSUME Parsing PROVE Parsing' OBVIOUS
  <2>1. IInv' BY NextHolds DEF Parsing
  <2>2. Housed(heap', chunks') BY <1>1 DEF Parsing
  <2> QED BY <1>1, <2>1, <2>2 DEF Parsing
<1>3. Resting => Resting' BY <1>1 DEF Resting
<1>4. Ongoing => Ongoing' BY <1>1 DEF Ongoing, Roots, Root
<1> QED BY <1>1, <1>2, <1>3, <1>4 DEF NodesInv

(* What Path is shown.                                                     *)
Seen == IF pc # "Returned" THEN <<>> ELSE IF frames # <<>> THEN Values(before) ELSE Values(heap)
Made == IF frames # <<>> THEN calls - 1 ELSE calls

PathMove == Seen = <<>> \/ Path!Next \/ UNCHANGED <<Seen, Made, fault>>

LEMMA OverlaidNow ==
  ASSUME NEW V, V = Seen, NEW W, W = Seen', Made' = Made + 1, DOMAIN W = DOMAIN V,
         call'.op = "overlay", W[call'.root] = Path!Merge(V[call'.root], V[call'.arg]),
         W[call'.arg] = V[call'.arg], fault' = FALSE
  PROVE  Path!Next
BY DEF Path!Next, Path!Overlaid, Seen, Made

LEMMA DeletedNow ==
  ASSUME NEW V, V = Seen, NEW W, W = Seen', Made' = Made + 1, DOMAIN W = DOMAIN V,
         call'.op = "del", NEW r, call'.root = r, NEW path, call'.arg = path,
         W[r] = Path!Without(V[r], CutEnd(path)),
         fault' = (Len(path) > 1 /\ Path!Has(V[r], <<>>, "hash") /\ Path!Has(V[r], path, "none"))
  PROVE  Path!Next
BY DEF Path!Next, Path!Deleted, Seen, Made, CutEnd

LEMMA SeenResting ==
  ASSUME pc = "Returned", frames = <<>>
  PROVE  Seen = [i \in 1 .. Len(chunks) |-> Value(heap, chunks[i])] /\ Made = calls
BY DEF Seen, Made, Values, Roots, Root

LEMMA SeenNext ==
  ASSUME pc' = "Returned", frames' = <<>>
  PROVE  Seen' = [i \in 1 .. Len(chunks') |-> Value(heap', chunks'[i])] /\ Made' = calls'
BY DEF Seen, Made, Values, Roots, Root

LEMMA SeenOngoing ==
  ASSUME pc = "Returned", frames # <<>>
  PROVE  Seen = [i \in 1 .. Len(chunks) |-> Value(before, chunks[i])] /\ Made = calls - 1
BY DEF Seen, Made, Values, Roots, Root

LEMMA SeenThen ==
  ASSUME pc' = "Returned", frames' # <<>>
  PROVE  Seen' = [i \in 1 .. Len(chunks') |-> Value(before', chunks'[i])] /\ Made' = calls' - 1
BY DEF Seen, Made, Values, Roots, Root

LEMMA OverlayPart ==
  ASSUME NodesInv, NEW r \in Roots, NEW q \in Roots, Overlay(r, q)
  PROVE  NodesInv' /\ PathMove
<1>1. /\ pc = "Returned" /\ frames = <<>> /\ fault = FALSE /\ pc' = pc /\ heap' = heap /\ fault' = fault
      /\ chunks' = chunks /\ calls' = calls + 1 /\ frames' = Frame(Root(r), Root(q))
      /\ before' = IF frames' = <<>> THEN <<>> ELSE heap
      /\ call' = [op |-> "overlay", root |-> r, arg |-> q]
  <2>2. Idle BY DEF Overlay
  <2>3. pc = "Returned" /\ frames = <<>> /\ ~ fault BY <2>2 DEF Idle
  <2>4. pc' = pc /\ heap' = heap /\ fault' = fault /\ chunks' = chunks BY DEF Overlay, Same, outVars
  <2>5. /\ calls' = calls + 1 /\ frames' = Frame(Root(r), Root(q))
        /\ before' = IF frames' = <<>> THEN <<>> ELSE heap
        /\ call' = [op |-> "overlay", root |-> r, arg |-> q]
    BY DEF Overlay, Called
  <2> QED BY <2>3, <2>4, <2>5 DEF NodesInv
<1>2. PICK pl : Standing(heap, pl, chunks) BY <1>1 DEF NodesInv, Resting
<1>3. PICK b : b = Root(r) OBVIOUS
<1>4. PICK t : t = Root(q) OBVIOUS
<1>5. /\ Sound(heap) /\ Placed(heap, pl) /\ b \in 1 .. Len(heap) /\ pl[b] = <<>>
      /\ t \in 1 .. Len(heap) /\ pl[t] = <<>>
  BY <1>2, <1>3, <1>4 DEF Standing, NodesInv, Root, Roots
<1>6. PICK D : Running(heap, pl, b, t, D, heap, Frame(b, t)) BY <1>5, OverlayStarts
<1>7. frames' = Frame(b, t) BY <1>1, <1>3, <1>4
<1>8. calls \in Nat /\ chunks \in Seq(Nat) BY DEF NodesInv
<1>9. call'.op = "overlay" /\ call'.root = r /\ call'.arg = q BY <1>1
<1>10. Seen = [i \in 1 .. Len(chunks) |-> Value(heap, chunks[i])] /\ Made = calls
  BY <1>1, SeenResting
<1>11. CASE frames' # <<>>
  <2>1. before' = heap BY <1>1, <1>11
  <2>2. Seen' = [i \in 1 .. Len(chunks') |-> Value(before', chunks'[i])] /\ Made' = calls' - 1
    BY <1>1, <1>11, SeenThen
  <2>3. UNCHANGED <<Seen, Made, fault>> BY <1>1, <1>8, <1>10, <2>1, <2>2
  <2>4. Running(before', pl, b, t, D, heap', frames') BY <1>1, <1>6, <1>7, <2>1
  <2>5. Standing(before', pl, chunks') BY <1>1, <1>2, <2>1
  <2>6. b = Root(call.root)' /\ t = Root(call.arg)' BY <1>1, <1>3, <1>4, <1>9 DEF Root
  <2>7. Ongoing' BY <1>1, <1>9, <2>4, <2>5, <2>6 DEF Ongoing, Roots
  <2>8. NodesInv' BY <1>1, <1>8, <1>11, <2>7 DEF NodesInv
  <2> QED BY <2>3, <2>8 DEF PathMove
<1>12. CASE frames' = <<>>
  <2>1. PICK fs : fs = Frame(b, t) OBVIOUS
  <2>2. fs = <<>> BY <1>7, <1>12, <2>1
  <2>3. Running(heap, pl, b, t, D, heap, <<>>) BY <1>6, <2>1, <2>2
  <2>4. Value(heap, b) = Path!Merge(Value(heap, b), Value(heap, t)) BY <2>3, OverlayDone
  <2>5. Seen' = [i \in 1 .. Len(chunks') |-> Value(heap', chunks'[i])] /\ Made' = calls'
    BY <1>1, <1>12, SeenNext
  <2>6. Seen' = Seen /\ Made' = Made + 1 BY <1>1, <1>10, <2>5
  <2>7. PICK V : V = Seen OBVIOUS
  <2>8. V[r] = Value(heap, b) /\ V[q] = Value(heap, t)
    BY <1>3, <1>4, <1>10, <2>7 DEF Root, Roots
  <2>9. V[call'.root] = Path!Merge(V[call'.root], V[call'.arg]) BY <1>9, <2>4, <2>8
  <2>10. Path!Next BY <1>1, <1>9, <2>6, <2>7, <2>9, OverlaidNow
  <2>11. Resting' BY <1>1, <1>2 DEF Resting
  <2>12. NodesInv' BY <1>1, <1>8, <1>12, <2>11 DEF NodesInv
  <2> QED BY <2>10, <2>12 DEF PathMove
<1> QED BY <1>11, <1>12

LEMMA EntryPart ==
  ASSUME NodesInv, KeysPlain, OverlayEntry
  PROVE  NodesInv' /\ PathMove
<1>1. /\ frames # <<>> /\ pc' = pc /\ fault' = fault /\ chunks' = chunks /\ calls' = calls
      /\ call' = call /\ before' = IF frames' = <<>> THEN <<>> ELSE before
  BY DEF OverlayEntry, Same, outVars
<1>2. pc = "Returned" BY <1>1 DEF NodesInv, Parsing
<1>3. fault = FALSE /\ Ongoing BY <1>1, <1>2 DEF NodesInv
<1>4. call.op = "overlay" /\ call.root \in Roots /\ call.arg \in Roots BY <1>3 DEF Ongoing
<1>5. PICK b : b = Root(call.root) OBVIOUS
<1>6. PICK t : t = Root(call.arg) OBVIOUS
<1>7. PICK pl, D : Standing(before, pl, chunks) /\ Running(before, pl, b, t, D, heap, frames)
  BY <1>3, <1>5, <1>6 DEF Ongoing
<1>8. EntryGoal(before, pl, b, t) BY <1>7, EntryStep
<1>9. PICK E : Running(before, pl, b, t, E, heap', frames') BY <1>8 DEF EntryGoal
<1>10. Sound(heap') /\ Len(heap') = Len(before) BY <1>9 DEF Running, Laid, SameNodes
<1>11. calls \in Nat /\ chunks \in Seq(Nat) BY DEF NodesInv
<1>12. Seen = [i \in 1 .. Len(chunks) |-> Value(before, chunks[i])] /\ Made = calls - 1
  BY <1>1, <1>2, SeenOngoing
<1>13. CASE frames' # <<>>
  <2>1. before' = before BY <1>1, <1>13
  <2>2. Seen' = [i \in 1 .. Len(chunks') |-> Value(before', chunks'[i])] /\ Made' = calls' - 1
    BY <1>1, <1>2, <1>13, SeenThen
  <2>3. UNCHANGED <<Seen, Made, fault>> BY <1>1, <1>12, <2>1, <2>2
  <2>4. b = Root(call.root)' /\ t = Root(call.arg)' BY <1>1, <1>5, <1>6 DEF Root
  <2>5. Ongoing' BY <1>1, <1>4, <1>7, <1>9, <2>1, <2>4 DEF Ongoing, Roots
  <2>6. NodesInv' BY <1>1, <1>2, <1>3, <1>10, <1>11, <1>13, <2>5 DEF NodesInv
  <2> QED BY <2>3, <2>6 DEF PathMove
<1>14. CASE frames' = <<>>
  <2>1. PICK new : new = heap' OBVIOUS
  <2>2. Running(before, pl, b, t, E, new, <<>>) BY <1>9, <1>14, <2>1
  <2>3. /\ Value(new, b) = Path!Merge(Value(before, b), Value(before, t))
        /\ Value(new, t) = Value(before, t) /\ Placed(new, pl) /\ Len(new) = Len(before)
    BY <2>2, OverlayDone
  <2>4. Seen' = [i \in 1 .. Len(chunks') |-> Value(heap', chunks'[i])] /\ Made' = calls'
    BY <1>1, <1>2, <1>14, SeenNext
  <2>5. PICK V : V = Seen OBVIOUS
  <2>6. PICK W : W = Seen' OBVIOUS
  <2>7. /\ V = [i \in 1 .. Len(chunks) |-> Value(before, chunks[i])]
        /\ W = [i \in 1 .. Len(chunks) |-> Value(new, chunks[i])]
    BY <1>1, <1>12, <2>1, <2>4, <2>5, <2>6
  <2>8. DOMAIN W = DOMAIN V BY <2>7
  <2>9. /\ V[call.root] = Value(before, b) /\ V[call.arg] = Value(before, t)
        /\ W[call.root] = Value(new, b) /\ W[call.arg] = Value(new, t)
    BY <1>4, <1>5, <1>6, <2>7 DEF Root, Roots
  <2>10. /\ W[call'.root] = Path!Merge(V[call'.root], V[call'.arg])
         /\ W[call'.arg] = V[call'.arg] /\ call'.op = "overlay"
    BY <1>1, <1>4, <2>3, <2>9
  <2>11. Made' = Made + 1 /\ fault' = FALSE BY <1>1, <1>3, <1>11, <1>12, <2>4
  <2>12. Path!Next BY <2>5, <2>6, <2>8, <2>10, <2>11, OverlaidNow
  <2>13. Standing(new, pl, chunks) BY <1>7, <2>3 DEF Standing
  <2>14. Standing(heap', pl, chunks') BY <1>1, <2>1, <2>13
  <2>15. Resting' BY <2>14 DEF Resting
  <2>16. NodesInv' BY <1>1, <1>2, <1>10, <1>11, <1>14, <2>15 DEF NodesInv
  <2> QED BY <2>12, <2>16 DEF PathMove
<1> QED BY <1>13, <1>14

LEMMA DelPart ==
  ASSUME NodesInv, KeysPlain, NEW r \in Roots, NEW k \in Paths, Del(r, k)
  PROVE  NodesInv' /\ PathMove
<1>1. pc = "Returned" /\ frames = <<>> BY DEF Del, Idle
<1>2. /\ pc' = pc /\ chunks' = chunks /\ frames' = frames /\ before' = before
      /\ calls' = calls + 1 /\ call' = [op |-> "del", root |-> r, arg |-> ByKeys(Split(k))]
  BY DEF Del, Same, Called, outVars
<1>3. PICK pl : Standing(heap, pl, chunks) BY <1>1 DEF NodesInv, Resting
<1>4. PICK c : c = Root(r) OBVIOUS
<1>5. Sound(heap) /\ Placed(heap, pl) /\ c \in 1 .. Len(heap) /\ pl[c] = <<>>
  BY <1>3, <1>4 DEF Standing, NodesInv, Root, Roots
<1>6. Deletes(heap, pl, Root(r), ByKeys(Split(k)), heap', fault') BY <1>4, <1>5, DelStep
<1>7. PICK path \in Probes : path = ByKeys(Split(k)) BY KeysAre
<1>8. PICK new : new = heap' OBVIOUS
<1>9. PICK panics : panics = fault' OBVIOUS
<1>10. Deletes(heap, pl, c, path, new, panics) BY <1>4, <1>6, <1>7, <1>8, <1>9
<1>11. /\ Value(new, c) = Path!Without(Value(heap, c), CutEnd(path))
       /\ panics = (Len(path) > 1 /\ Path!Has(Value(heap, c), <<>>, "hash")
                      /\ Path!Has(Value(heap, c), path, "none"))
  BY <1>5, <1>10, DelValue
<1>12. Sound(new) /\ Len(new) = Len(heap) /\ Placed(new, pl) BY <1>10 DEF Deletes, SameNodes
<1>13. calls \in Nat /\ chunks \in Seq(Nat) BY DEF NodesInv
<1>14. Seen = [i \in 1 .. Len(chunks) |-> Value(heap, chunks[i])] /\ Made = calls
  BY <1>1, SeenResting
<1>15. Seen' = [i \in 1 .. Len(chunks') |-> Value(heap', chunks'[i])] /\ Made' = calls'
  BY <1>1, <1>2, SeenNext
<1>16. PICK V : V = Seen OBVIOUS
<1>17. PICK W : W = Seen' OBVIOUS
<1>18. /\ V = [i \in 1 .. Len(chunks) |-> Value(heap, chunks[i])]
       /\ W = [i \in 1 .. Len(chunks) |-> Value(new, chunks[i])]
  BY <1>2, <1>8, <1>14, <1>15, <1>16, <1>17
<1>19. DOMAIN W = DOMAIN V BY <1>18
<1>20. V[r] = Value(heap, c) /\ W[r] = Value(new, c) BY <1>4, <1>18 DEF Root, Roots
<1>21. /\ W[r] = Path!Without(V[r], CutEnd(path))
       /\ fault' = (Len(path) > 1 /\ Path!Has(V[r], <<>>, "hash") /\ Path!Has(V[r], path, "none"))
  BY <1>9, <1>11, <1>20
<1>22. call'.op = "del" /\ call'.root = r /\ call'.arg = path BY <1>2, <1>7
<1>23. Made' = Made + 1 BY <1>2, <1>13, <1>14, <1>15
<1>24. Path!Next BY <1>16, <1>17, <1>19, <1>21, <1>22, <1>23, DeletedNow
<1>25. Standing(new, pl, chunks) BY <1>3, <1>12 DEF Standing
<1>26. Resting' BY <1>2, <1>8, <1>25 DEF Resting
<1>a. fault' \in BOOLEAN BY DEF Del
<1>27. NodesInv' BY <1>1, <1>2, <1>8, <1>12, <1>13, <1>26, <1>a DEF NodesInv
<1> QED BY <1>24, <1>27 DEF PathMove

(***************************************************************************)
(* GoNodes implements PathTree for every data, every Del and Overlay and    *)
(* every order in which range gives the keys of a hash, as long as no key   *)
(* holds a dot: Overlay asks Get for the key, and Get takes a key with dots *)
(* for a path.  What Overlay has merged when some of its entries are done,  *)
(* and which calls of it are still to do the others, is in Running; that    *)
(* nothing is reached in two places of a tree, in Standing.                 *)
(***************************************************************************)
THEOREM GoNodesArePaths == NodesSpec /\ []KeysPlain => ImplementsPaths
<1>1. Init /\ NodesInit => NodesInv /\ Path!Init
  BY NodesStart DEF NodesInit, Path!Init
<1>2. NodesInv /\ KeysPlain /\ [AllNext]_<<vars, nodeVars>>
        => NodesInv' /\ [Seen = <<>> \/ Path!Next]_<<Seen, Made, fault>>
  <2> SUFFICES ASSUME NodesInv, KeysPlain, [AllNext]_<<vars, nodeVars>>
               PROVE  NodesInv' /\ PathMove
    BY DEF PathMove
  <2>1. CASE Step /\ UNCHANGED nodeVars
    <3>1. Seen = <<>> BY <2>1, StepRuns DEF Seen
    <3> QED BY <2>1, <3>1, ParsePart DEF PathMove
  <2>2. CASE UNCHANGED <<vars, nodeVars>>
    <3>1. /\ heap' = heap /\ chunks' = chunks /\ pc' = pc /\ frames' = frames
          /\ calls' = calls /\ fault' = fault /\ before' = before
      BY <2>2 DEF vars, nodeVars, tree, outVars
    <3>2. UNCHANGED <<Seen, Made, fault>> BY <3>1 DEF Seen, Made, Values, Roots, Root
    <3> QED BY <2>2, <3>2, NothingDone DEF PathMove
  <2>3. CASE NodesNext
    <3>1. \/ \E r, q \in Roots : Overlay(r, q)
          \/ \E r \in Roots, k \in Paths : Del(r, k)
          \/ OverlayEntry
      BY <2>3 DEF NodesNext
    <3> QED BY <3>1, OverlayPart, DelPart, EntryPart
  <2> QED BY <2>1, <2>2, <2>3 DEF AllNext, Next, Stopped
<1> QED BY <1>1, <1>2, PTL DEF NodesSpec, AllInit, ImplementsPaths, Path!Spec, Seen, Made

-----------------------------------------------------------------------------
(***************************************************************************)
(* The calls keep what the parser has established, dots in keys or not.    *)
(***************************************************************************)

(* Nodes stay what they are and where they were read.                      *)
SameKin(h, new) == SameNodes(h, new) /\ \A n \in 1 .. Len(h) : new[n].parent = h[n].parent

LEMMA KinOK ==
  ASSUME NEW h, HeapOK(h), NEW new, SameKin(h, new)
  PROVE  HeapOK(new)
<1>1. /\ new \in Seq(GoNode) /\ Len(new) = Len(h) /\ Len(h) \in Nat
      /\ \A n \in 1 .. Len(h) : new[n].type = h[n].type /\ new[n].parent = h[n].parent
  BY DEF SameKin, SameNodes, Sound, HeapOK
<1>2. ASSUME NEW n \in 1 .. Len(h)
      PROVE  NodeOK(new, n)
  <2>1. NodeOK(h, n) BY DEF HeapOK
  <2>2. h[n].parent # nil => h[n].parent \in 1 .. Len(h) BY <1>1, <2>1 DEF NodeOK, nil
  <2>3. /\ new[n].parent \in 0 .. n - 1
        /\ new[n].parent # nil => new[new[n].parent].type \in Containers
    BY <1>1, <2>1, <2>2 DEF NodeOK
  <2>4. /\ \A i \in 1 .. Len(new[n].arr) : new[n].arr[i] \in 1 .. Len(new)
        /\ \A k \in DOMAIN new[n].hash : new[n].hash[k] \in 1 .. Len(new)
    BY <1>1 DEF SameKin, SameNodes, Sound
  <2> QED BY <2>3, <2>4 DEF NodeOK
<1> QED BY <1>1, <1>2 DEF HeapOK

LEMMA AddKin ==
  ASSUME NEW h, HeapOK(h), NEW c \in 1 .. Len(h), h[c].type = "hash", NEW k \in Seq(STRING),
         NEW el \in 1 .. Len(h), NEW new, new = Add(h, c, k, el)
  PROVE  /\ SameKin(h, new)
         /\ \A n \in 1 .. Len(h) : DOMAIN h[n].hash \subseteq DOMAIN new[n].hash
<1>1. Sound(h) /\ h \in Seq(GoNode) /\ el \in Nat BY HeapSound DEF HeapOK
<1>2. Added(h, c, k, el, new) BY <1>1, AddFrame
<1>3. SameNodes(h, new) BY <1>1, <1>2, AddedSound
<1>4. \A n \in 1 .. Len(h) : new[n].parent = h[n].parent BY <1>2 DEF Added
<1>5. \A n \in 1 .. Len(h) : DOMAIN h[n].hash \subseteq DOMAIN new[n].hash
  BY <1>2 DEF Added, Keyed
<1> QED BY <1>3, <1>4, <1>5 DEF SameKin

LEMMA RemoveKin ==
  ASSUME NEW h, HeapOK(h), NEW c \in 1 .. Len(h), NEW k \in Seq(STRING), NEW new, new = Remove(h, c, k)
  PROVE  SameKin(h, new)
<1>1. Sound(h) /\ h \in Seq(GoNode) BY HeapSound DEF HeapOK
<1>2. SameNodes(h, new) BY <1>1, RemoveLoses DEF Lost
<1>3. ASSUME NEW n \in 1 .. Len(h)
      PROVE  new[n].parent = h[n].parent
  <2>1. CASE h[c].type # "hash" BY <2>1 DEF Remove
  <2>2. CASE h[c].type = "hash"
    <3>1. PICK g : g = [x \in DOMAIN h[c].hash \ {k} |-> h[c].hash[x]] OBVIOUS
    <3>2. new = [h EXCEPT ![c].hash = g] BY <2>2, <3>1, Zenon DEF Remove
    <3>3. h[c] \in GoNode BY <1>1
    <3> QED BY <1>1, <3>2, <3>3 DEF GoNode
  <2> QED BY <2>1, <2>2
<1> QED BY <1>2, <1>3 DEF SameKin

-----------------------------------------------------------------------------
(* A running call of Overlay goes over the keys of a hash that is there.   *)
FrameOK(h, f) ==
  /\ f \in FrameSet
  /\ f.self \in 1 .. Len(h) /\ h[f.self].type = "hash"
  /\ f.top \in 1 .. Len(h) /\ h[f.top].type = "hash" /\ f.todo \subseteq DOMAIN h[f.top].hash

FramesOK(h, fs) == fs \in Seq(FrameSet) /\ \A i \in 1 .. Len(fs) : FrameOK(h, fs[i])

LEMMA FrameStarts ==
  ASSUME HeapOK(heap), NEW c \in 1 .. Len(heap), NEW m \in 1 .. Len(heap)
  PROVE  FramesOK(heap, Frame(c, m))
<1>1. CASE heap[c].type = "hash" /\ heap[m].type = "hash" /\ DOMAIN heap[m].hash # {}
  <2>1. PICK f : f = [self |-> c, top |-> m, todo |-> DOMAIN heap[m].hash] OBVIOUS
  <2>2. heap[m] \in GoNode /\ Len(heap) \in Nat BY DEF HeapOK
  <2>3. DOMAIN heap[m].hash \in SUBSET Seq(STRING) BY <2>2 DEF GoNode, Tables
  <2>4. FrameOK(heap, f) BY <1>1, <2>1, <2>2, <2>3 DEF FrameOK, FrameSet
  <2>5. Frame(c, m) = <<f>> BY <1>1, <2>1 DEF Frame
  <2>6. <<f>> \in Seq(FrameSet) BY <2>4 DEF FrameOK
  <2> QED BY <2>4, <2>5, <2>6 DEF FramesOK
<1>2. CASE ~ (heap[c].type = "hash" /\ heap[m].type = "hash" /\ DOMAIN heap[m].hash # {})
  <2>1. Frame(c, m) = <<>> BY <1>2 DEF Frame
  <2> QED BY <2>1 DEF FramesOK
<1> QED BY <1>1, <1>2

LEMMA FramesStay ==
  ASSUME NEW h, NEW fs, FramesOK(h, fs), NEW new, SameKin(h, new),
         \A n \in 1 .. Len(h) : DOMAIN h[n].hash \subseteq DOMAIN new[n].hash
  PROVE  FramesOK(new, fs)
BY DEF FramesOK, FrameOK, SameKin, SameNodes

LEMMA FramesJoin ==
  ASSUME NEW h, NEW fs, FramesOK(h, fs), NEW gs, FramesOK(h, gs)
  PROVE  FramesOK(h, fs \o gs)
<1>1. PICK S : S = FrameSet OBVIOUS
<1>2. fs \in Seq(S) /\ gs \in Seq(S) BY <1>1 DEF FramesOK
<1>3. fs \o gs \in Seq(S) BY <1>2
<1>4. ASSUME NEW i \in 1 .. Len(fs \o gs) PROVE FrameOK(h, (fs \o gs)[i])
  <2>1. CASE i <= Len(fs)
    <3>1. i \in 1 .. Len(fs) /\ (fs \o gs)[i] = fs[i] BY <1>2, <2>1
    <3> QED BY <3>1 DEF FramesOK
  <2>2. CASE i > Len(fs)
    <3>1. i - Len(fs) \in 1 .. Len(gs) /\ (fs \o gs)[i] = gs[i - Len(fs)] BY <1>2, <2>2
    <3> QED BY <3>1 DEF FramesOK
  <2> QED BY <1>2, <2>1, <2>2
<1> QED BY <1>1, <1>3, <1>4 DEF FramesOK

LEMMA FramesLeft ==
  ASSUME NEW h, NEW fs, FramesOK(h, fs), fs # <<>>, NEW k
  PROVE  /\ FrameOK(h, fs[Len(fs)])
         /\ FramesOK(h, Left(fs, k))
<1>1. PICK S : S = FrameSet OBVIOUS
<1>2. fs \in Seq(S) /\ Len(fs) \in 1 .. Len(fs) BY <1>1, EmptySeq DEF FramesOK
<1>3. PICK f : f = fs[Len(fs)] OBVIOUS
<1>4. PICK others : others = SubSeq(fs, 1, Len(fs) - 1) OBVIOUS
<1>5. FrameOK(h, f) BY <1>2, <1>3 DEF FramesOK
<1>6. /\ others \in Seq(S) /\ Len(others) = Len(fs) - 1
      /\ \A i \in 1 .. Len(others) : others[i] = fs[i] /\ i \in 1 .. Len(fs)
  <2>1. PICK n \in Nat : n = Len(fs) - 1 BY <1>2
  <2>2. n + 1 = Len(fs) BY <1>2, <2>1
  <2>3. /\ SubSeq(fs, 1, n) \in Seq(S) /\ Len(SubSeq(fs, 1, n)) = n
        /\ \A i \in 1 .. n : SubSeq(fs, 1, n)[i] = fs[i]
    BY <1>2, <2>1, <2>2
  <2>4. others = SubSeq(fs, 1, n) BY <1>4, <2>1
  <2> QED BY <2>1, <2>2, <2>3, <2>4
<1>7. FramesOK(h, others) BY <1>1, <1>6 DEF FramesOK
<1>8. CASE f.todo = {k} BY <1>3, <1>4, <1>5, <1>7, <1>8 DEF Left
<1>9. CASE f.todo # {k}
  <2>1. PICK g : g = [f EXCEPT !.todo = @ \ {k}] OBVIOUS
  <2>2. FrameOK(h, g)
    <3>1. f \in FrameSet BY <1>5 DEF FrameOK
    <3>2. g \in FrameSet /\ g.self = f.self /\ g.top = f.top /\ g.todo \subseteq f.todo
      BY <2>1, <3>1 DEF FrameSet
    <3> QED BY <1>5, <3>2 DEF FrameOK
  <2>3. <<g>> \in Seq(FrameSet) BY <2>2 DEF FrameOK
  <2>4. FramesOK(h, <<g>>) BY <2>2, <2>3 DEF FramesOK
  <2>5. Append(others, g) = others \o <<g>> BY <1>6
  <2>6. FramesOK(h, Append(others, g)) BY <1>7, <2>4, <2>5, FramesJoin
  <2> QED BY <1>3, <1>4, <1>5, <1>9, <2>1, <2>6 DEF Left
<1> QED BY <1>8, <1>9

LEMMA GetType ==
  ASSUME HeapOK(heap), NEW n \in 1 .. Len(heap), NEW k \in Seq(STRING)
  PROVE  Get(n, k) \in 0 .. Len(heap)
<1>1. Split(k) \in Seq(Seq(STRING)) BY SplitIs DEF Parted
<1>2. PICK v : v = Split(k) OBVIOUS
<1>3. PICK X : X = Seq(STRING) OBVIOUS
<1>4. v \in Seq(X) BY <1>1, <1>2, <1>3
<1>5. \A i \in 1 .. Len(v) : ByKey(v[i]) \in Strides BY <1>3, <1>4, KeyStride
<1>6. ByKeys(v) \in Seq(Strides) BY <1>4, <1>5 DEF ByKeys, ByKey
<1>7. Sound(heap) /\ n \in 0 .. Len(heap) BY HeapSound
<1> QED BY <1>2, <1>6, <1>7, FindType DEF Get

-----------------------------------------------------------------------------
CallsInv == IInv /\ PathOK /\ FramesOK(heap, frames) /\ (frames # <<>> => pc = "Returned")

LEMMA CallKeeps ==
  ASSUME IInv, pc = "Returned", Same, SameKin(heap, heap')
  PROVE  IInv' /\ PathOK' /\ pc' = pc
<1>1. UNCHANGED <<args, pc, pos, keyVars, numVars, endc, strVars, cur, nodeType, root, outVars>> BY DEF Same
<1>2. ScanOK'
  BY <1>1 DEF IInv, ScanOK, TextsOK, NumsOK, FlagsOK, LabelOK, args, keyVars, numVars, strVars, outVars
<1>3. SliceOK' BY <1>1 DEF IInv, SliceOK, SlicesInBounds, keyVars, numVars, strVars
<1>4. HeapOK(heap) BY DEF IInv, TreeOK
<1>5. HeapOK(heap') /\ Len(heap') = Len(heap) BY <1>4, KinOK DEF SameKin, SameNodes
<1>6. TreeOK' BY <1>1, <1>5 DEF IInv, TreeOK, outVars
<1>7. pc' \notin InRoot BY <1>1 DEF InRoot, KeyScan, ValScan
<1> QED BY <1>1, <1>2, <1>3, <1>6, <1>7 DEF IInv, PathOK

LEMMA KinSelf == ASSUME HeapOK(heap) PROVE SameKin(heap, heap)
BY HeapSound DEF SameKin, SameNodes

LEMMA OverlayKeeps ==
  ASSUME CallsInv, NEW r \in Roots, NEW q \in Roots, Overlay(r, q)
  PROVE  CallsInv'
<1>1. pc = "Returned" /\ heap' = heap /\ Same /\ frames' = Frame(Root(r), Root(q)) BY DEF Overlay, Idle
<1>2. IInv /\ HeapOK(heap) BY DEF CallsInv, IInv, TreeOK
<1>3. SameKin(heap, heap') BY <1>1, <1>2, KinSelf
<1>4. IInv' /\ PathOK' /\ pc' = pc BY <1>1, <1>2, <1>3, CallKeeps
<1>5. Root(r) \in 1 .. Len(heap) /\ Root(q) \in 1 .. Len(heap) BY <1>2 DEF IInv, TreeOK, Root, Roots
<1>6. FramesOK(heap, Frame(Root(r), Root(q))) BY <1>2, <1>5, FrameStarts
<1> QED BY <1>1, <1>4, <1>6 DEF CallsInv

LEMMA DelKeeps ==
  ASSUME CallsInv, NEW r \in Roots, NEW k \in Paths, Del(r, k)
  PROVE  CallsInv'
<1>1. pc = "Returned" /\ frames = <<>> /\ frames' = <<>> /\ Same BY DEF Del, Idle
<1>2. IInv /\ HeapOK(heap) /\ Sound(heap) BY HeapSound DEF CallsInv, IInv, TreeOK
<1>3. PICK c \in 1 .. Len(heap) : c = Root(r) BY <1>2 DEF IInv, TreeOK, Root, Roots
<1>4. k \in Seq(STRING) /\ Split(k)[Len(Split(k))] \in Seq(STRING) /\ ByKeys(Split(k)) \in Seq(Strides)
  BY KeysAre
<1>5. PICK last \in Seq(STRING) : last = Split(k)[Len(Split(k))] BY <1>4
<1>6. PICK found : found = Find(heap, c, ByKeys(Split(k))) OBVIOUS
<1>7. c \in 0 .. Len(heap) /\ Len(heap) \in Nat BY <1>2 DEF HeapOK
<1>8. found \in 0 .. Len(heap) BY <1>2, <1>4, <1>6, <1>7, FindType
<1>9. \/ heap' = heap \/ heap' = Remove(heap, c, k)
      \/ found # nil /\ heap' = Remove(Remove(heap, found, last), c, k)
  BY <1>3, <1>5, <1>6 DEF Del
<1>10. SameKin(heap, heap')
  <2>1. CASE heap' = heap BY <1>2, <2>1, KinSelf
  <2>2. CASE heap' = Remove(heap, c, k) BY <1>2, <1>4, <2>2, RemoveKin
  <2>3. CASE found # nil /\ heap' = Remove(Remove(heap, found, last), c, k)
    <3>1. found \in 1 .. Len(heap) BY <1>7, <1>8, <2>3 DEF nil
    <3>2. PICK mid : mid = Remove(heap, found, last) OBVIOUS
    <3>3. SameKin(heap, mid) BY <1>2, <3>1, <3>2, RemoveKin
    <3>4. HeapOK(mid) /\ Len(mid) = Len(heap) BY <1>2, <3>3, KinOK DEF SameKin, SameNodes
    <3>5. PICK new : new = heap' OBVIOUS
    <3>6. SameKin(mid, new) BY <1>4, <2>3, <3>2, <3>4, <3>5, RemoveKin
    <3>7. SameKin(heap, new) BY <3>3, <3>4, <3>6 DEF SameKin, SameNodes
    <3> QED BY <3>5, <3>7
  <2> QED BY <1>9, <2>1, <2>2, <2>3
<1>11. IInv' /\ PathOK' /\ pc' = pc BY <1>1, <1>2, <1>10, CallKeeps
<1>12. FramesOK(heap', <<>>) BY DEF FramesOK
<1> QED BY <1>1, <1>11, <1>12 DEF CallsInv

LEMMA EntryKeeps ==
  ASSUME CallsInv, OverlayEntry
  PROVE  CallsInv'
<1>1. frames # <<>> /\ Same BY DEF OverlayEntry
<1>2. pc = "Returned" /\ IInv /\ HeapOK(heap) /\ FramesOK(heap, frames)
  BY <1>1 DEF CallsInv, IInv, TreeOK
<1>3. PICK f : f = frames[Len(frames)] OBVIOUS
<1>4. PICK k \in f.todo : EntryPuts(f.self, k, Get(f.self, k), heap[f.top].hash[k], Left(frames, k))
  BY <1>3, EntryTakes
<1>5. PICK el : el = heap[f.top].hash[k] OBVIOUS
<1>6. PICK c : c = Get(f.self, k) OBVIOUS
<1>7. \/ c # nil /\ frames' = Left(frames, k) \o Frame(c, el) /\ UNCHANGED heap
      \/ frames' = Left(frames, k) /\ UNCHANGED heap
      \/ frames' = Left(frames, k) /\ heap' = Add(heap, f.self, k, el)
  BY <1>4, <1>5, <1>6 DEF EntryPuts
<1>8. FrameOK(heap, f) /\ FramesOK(heap, Left(frames, k)) BY <1>1, <1>2, <1>3, FramesLeft
<1>9. /\ f.self \in 1 .. Len(heap) /\ heap[f.self].type = "hash" /\ k \in Seq(STRING)
      /\ f.top \in 1 .. Len(heap) /\ k \in DOMAIN heap[f.top].hash
  BY <1>8 DEF FrameOK, FrameSet
<1>10. el \in 1 .. Len(heap) BY <1>2, <1>5, <1>9 DEF HeapOK, NodeOK
<1>11. c \in 0 .. Len(heap) BY <1>2, <1>6, <1>9, GetType
<1>12. CASE c # nil /\ frames' = Left(frames, k) \o Frame(c, el) /\ UNCHANGED heap
  <2>1. c \in 1 .. Len(heap) BY <1>2, <1>11, <1>12 DEF HeapOK, nil
  <2>2. FramesOK(heap, Frame(c, el)) BY <1>2, <1>10, <2>1, FrameStarts
  <2>3. FramesOK(heap, Left(frames, k) \o Frame(c, el)) BY <1>8, <2>2, FramesJoin
  <2>4. SameKin(heap, heap') BY <1>2, <1>12, KinSelf
  <2>5. IInv' /\ PathOK' /\ pc' = pc BY <1>1, <1>2, <2>4, CallKeeps
  <2> QED BY <1>2, <1>12, <2>3, <2>5 DEF CallsInv
<1>13. CASE frames' = Left(frames, k) /\ UNCHANGED heap
  <2>1. SameKin(heap, heap') BY <1>2, <1>13, KinSelf
  <2>2. IInv' /\ PathOK' /\ pc' = pc BY <1>1, <1>2, <2>1, CallKeeps
  <2> QED BY <1>2, <1>8, <1>13, <2>2 DEF CallsInv
<1>14. CASE frames' = Left(frames, k) /\ heap' = Add(heap, f.self, k, el)
  <2>1. PICK new : new = heap' OBVIOUS
  <2>2. /\ SameKin(heap, new)
        /\ \A n \in 1 .. Len(heap) : DOMAIN heap[n].hash \subseteq DOMAIN new[n].hash
    BY <1>2, <1>9, <1>10, <1>14, <2>1, AddKin
  <2>3. PICK fs : fs = Left(frames, k) OBVIOUS
  <2>4. FramesOK(new, fs) BY <1>8, <2>2, <2>3, FramesStay
  <2>5. IInv' /\ PathOK' /\ pc' = pc BY <1>1, <1>2, <2>1, <2>2, CallKeeps
  <2> QED BY <1>2, <1>14, <2>1, <2>3, <2>4, <2>5 DEF CallsInv
<1> QED BY <1>7, <1>12, <1>13, <1>14

LEMMA CallsInvariance == NodesSpec => []CallsInv
<1>1. Init /\ NodesInit => CallsInv
  <2>1. FramesOK(heap, <<>>) BY DEF FramesOK
  <2>2. Init => PathOK BY DEF Init, PathOK, InRoot, KeyScan, ValScan
  <2> QED BY <2>1, <2>2, InitHolds DEF NodesInit, CallsInv
<1>2. CallsInv /\ [AllNext]_<<vars, nodeVars>> => CallsInv'
  <2> SUFFICES ASSUME CallsInv, [AllNext]_<<vars, nodeVars>> PROVE CallsInv' OBVIOUS
  <2>1. CASE Step /\ UNCHANGED nodeVars
    <3>1. frames = <<>> /\ frames' = <<>> BY <2>1, StepRuns DEF CallsInv, nodeVars
    <3>2. IInv' /\ PathOK' BY <2>1, NextHolds, PathHolds DEF CallsInv, Next
    <3>3. FramesOK(heap', <<>>) BY DEF FramesOK
    <3> QED BY <3>1, <3>2, <3>3 DEF CallsInv
  <2>2. CASE UNCHANGED <<vars, nodeVars>>
    <3>1. IInv' /\ PathOK' BY <2>2, NextHolds, PathHolds DEF CallsInv
    <3>2. heap' = heap /\ frames' = frames /\ pc' = pc BY <2>2 DEF vars, nodeVars, tree
    <3> QED BY <3>1, <3>2 DEF CallsInv
  <2>3. CASE NodesNext BY <2>3, OverlayKeeps, DelKeeps, EntryKeeps DEF NodesNext
  <2> QED BY <2>1, <2>2, <2>3 DEF AllNext, Next, Stopped
<1> QED BY <1>1, <1>2, PTL DEF NodesSpec, AllInit

(* Whatever is laid on what, and whatever deleted, while nodes are shared   *)
(* and keys may hold dots: every pointer of a tree leads to an allocated    *)
(* node and every parent is an older container, and what the parser has     *)
(* shown of its own locals still holds.                                    *)
THEOREM CallsKeepInvariants ==
  NodesSpec => [](TypeOK /\ NodeTypeIsCurs /\ SlicesInBounds /\ OpenAreInTree)
<1>1. IInv => NodeTypeIsCurs /\ SlicesInBounds
  BY DEF IInv, CurOK, NodeTypeIsCurs, nil, SliceOK
<1> QED BY CallsInvariance, InvType, InvOpen, <1>1, PTL DEF CallsInv
=============================================================================
