---------------------------- MODULE RBTreeProofs ----------------------------
(***************************************************************************)
(* Proofs about RBTree, for all nodes and keys: its inductive invariant,   *)
(* one lemma per action, and the theorems.  RBShapes has what the walks,   *)
(* rotations and repaints do to one tree.                                  *)
(***************************************************************************)
EXTENDS RBShapes

-----------------------------------------------------------------------------
(* The inductive invariant: what holds of the tree of nodes T at each pc.   *)

(* Every node has its own key, and none has been taken out; then y has, and *)
(* the order is also kept if z has the key of y, whose place it will be.   *)
Plain == [keys |-> {KeyOf}, out |-> Nil]
Spliced(w, v) == [keys |-> {KeyOf} \cup {k \in {[KeyOf EXCEPT ![v] = KeyOf[w]]} : w # v}, out |-> w]

Whole(T) == Grown(t, T, Plain) /\ Balanced(t, T, Top, "left", {}, {})

AtRest(T) == Whole(T) /\ live = T

Descending(T) ==
  /\ Whole(T) /\ z \in Nodes /\ z \notin T /\ live = T \cup {z}
  /\ \E sub : \E d \in Sides :
       /\ Tree(t, T, sub) /\ Sorted(t, T, sub, KeyOf)
       /\ y \in T \cup {Top} /\ x = Child(t, y, d) /\ (d = "left" <=> y = Top \/ Greater(y, z))
       /\ Ends(t, T, sub, KeyOf, y, d, z)

Inserting(T) ==
  /\ Grown(t, T, Plain) /\ Balanced(t, T, Top, "left", {x}, {}) /\ x \in T /\ x \in Red(t)
  /\ live = T

Succeeding(T) ==
  /\ AtRest(T) /\ z \in T
  /\ \E sub : /\ Tree(t, T, sub) /\ Sorted(t, T, sub, KeyOf) /\ y \in T /\ sub[y] \subseteq sub[Child(t, z, "right")]
              /\ \A m \in sub[Child(t, z, "right")] \ sub[y] : KeyOf[y] <= KeyOf[m]

Splicing(T) ==
  /\ AtRest(T) /\ z \in T /\ y \in T /\ (t[y].left = Nil \/ t[y].right = Nil)
  /\ y = z \/ \E sub : Tree(t, T, sub) /\ Sorted(t, T, sub, KeyOf) /\ Succeeds(t, T, sub, KeyOf, y, z)

(* y is out of the tree, and will be freed, or z will be.                   *)
Out(T) ==
  /\ Grown(t, T, Spliced(y, z)) /\ y \in Nodes /\ y \notin T /\ live = T \cup {y}
  /\ z \in Nodes /\ (z # y => z \in T)

(* x counts as one black node more; unless the loop is at its end.          *)
Short(s, T, e, p, l, r) ==
  /\ Balanced(s, T, p, l, {e}, {e}) /\ p \in T \cup {Top} /\ Child(s, p, l) = e /\ s[e].parent = p
  /\ e \notin Red(s) => p \in T /\ r = s[Top].left /\ r \in T /\ r \notin Red(s)

Deleting(T) ==
  /\ Out(T)
  /\ IF x # root \/ x \in Red(t) THEN Short(t, T, x, t[x].parent, SideOf(t, x), root)
     ELSE Balanced(t, T, Top, "left", {}, {})

Freeing(T) == Out(T) /\ Balanced(t, T, Top, "left", {}, {})

Querying(T) ==
  /\ AtRest(T) /\ x \in T \cup {Nil}
  /\ \E sub : Tree(t, T, sub) /\ Sorted(t, T, sub, KeyOf) /\ \A m \in T : KeyOf[m] = q => m \in sub[x]

Stage(T) ==
  /\ pc = "Idle"       => AtRest(T)
  /\ pc = "Descend"    => Descending(T)
  /\ pc = "InsertFix"  => Inserting(T)
  /\ pc = "Successor"  => Succeeding(T)
  /\ pc = "Splice"     => Splicing(T)
  /\ pc = "DeleteFix"  => Deleting(T)
  /\ pc = "Free"       => Freeing(T)
  /\ pc = "Query"      => Querying(T)
  /\ pc = "Visited"    => AtRest(T) /\ visited = InOrder(t)
  /\ pc = "Destroyed"  => Whole(T) /\ live = {}

IInv == TypeOK /\ \E T : Stage(T)

LEMMA KeyFacts == KeyOf \in Keys /\ Plain.keys = {KeyOf} /\ Plain.out = Nil
BY RBAssumption DEF Plain, Keys

LEMMA SplicedFacts ==
  ASSUME NEW w \in Nodes, NEW v \in Nodes
  PROVE  /\ Spliced(w, v).out = w /\ Spliced(w, v).keys \subseteq Keys
         /\ KeyOf \in Spliced(w, v).keys
         /\ w # v => [KeyOf EXCEPT ![v] = KeyOf[w]] \in Spliced(w, v).keys
         /\ \A k \in Spliced(w, v).keys : k = KeyOf \/ (w # v /\ k = [KeyOf EXCEPT ![v] = KeyOf[w]])
<1>1. KeyOf \in Keys /\ [KeyOf EXCEPT ![v] = KeyOf[w]] \in Keys
  BY KeyFacts DEF Keys
<1> QED
  BY <1>1 DEF Spliced

(* Leaving one tree and its order for a search.                            *)
LEMMA PlainTree ==
  ASSUME NEW s, NEW T
  PROVE  /\ Grown(s, T, Plain) => /\ \E sub : Tree(s, T, sub) /\ Sorted(s, T, sub, KeyOf)
                                  /\ Loose(s, T, Nil)
         /\ (\E sub : Tree(s, T, sub) /\ Sorted(s, T, sub, KeyOf)) /\ Loose(s, T, Nil) => Grown(s, T, Plain)
BY KeyFacts DEF Grown

LEMMA StageInit == Init => IInv
<1> SUFFICES ASSUME Init PROVE IInv
  OBVIOUS
<1>1. PICK s : s = [n \in All |-> Blank]
  OBVIOUS
<1>2. Nil \in All /\ Top \in All /\ Nodes \subseteq All /\ Nil # Top
  BY Alls
<1>3. Blank \in Rec /\ Blank.left = Nil /\ Blank.right = Nil /\ Blank.parent = Nil /\ Blank.red = FALSE
  BY <1>2 DEF Blank, Rec
<1>4. s \in Heap /\ \A n \in All : s[n].left = Nil /\ s[n].right = Nil /\ s[n].red = FALSE
  BY <1>1, <1>3 DEF Heap
<1>5. \A n \in All : \A d : Child(s, n, d) = Nil
  BY <1>4 DEF Child
<1>6. Joined(s, {})
  BY <1>2, <1>4, <1>5 DEF Joined
<1>7. PICK sub : sub = [n \in All |-> {}]
  OBVIOUS
<1>8. IsFiniteSet({})
  BY FS_EmptySet
<1>9. Tree(s, {}, sub)
  BY <1>2, <1>4, <1>6, <1>7, <1>8 DEF Tree, Nest
<1>10. Sorted(s, {}, sub, KeyOf)
  BY DEF Sorted
<1>11. Loose(s, {}, Nil)
  BY <1>2, <1>5 DEF Loose
<1>12. Grown(s, {}, Plain)
  BY <1>9, <1>10, <1>11, PlainTree
<1>13. Balanced(s, {}, Top, "left", {}, {})
  <2>1. PICK bh : bh = [n \in All |-> 0]
    OBVIOUS
  <2>2. bh \in [All -> Nat] /\ bh[Nil] = 0
    BY <1>2, <2>1
  <2>3. Even(s, {}, bh, Top, "left")
    BY <2>2 DEF Even
  <2>4. Red(s) = {}
    BY <1>4 DEF Red
  <2>5. Reds(s, {}, {}, {})
    BY <2>4 DEF Reds
  <2> QED
    BY <2>3, <2>5 DEF Balanced
<1>14. t = s /\ pc = "Idle" /\ live = {}
  BY <1>1 DEF Init
<1>15. Stage({})
  BY <1>12, <1>13, <1>14 DEF Stage, AtRest, Whole
<1>16. TypeOK
  <2>1. t \in [All -> [left : All, right : All, parent : All, red : BOOLEAN]]
    BY <1>4, <1>14 DEF Heap, Rec
  <2>2. visited = <<>> /\ visited \in Seq(All)
    BY DEF Init
  <2> QED
    BY <1>2, <1>14, <2>1, <2>2 DEF TypeOK, Init
<1> QED
  BY <1>15, <1>16 DEF IInv

-----------------------------------------------------------------------------
(* The steps of an insertion.                                              *)

LEMMA StageAt ==
  ASSUME IInv
  PROVE  \E T : /\ Stage(T) /\ t \in Heap /\ T \subseteq Nodes /\ live \subseteq Nodes
                /\ {x, y, z, root} \subseteq All /\ q \in Queries \cup {0} /\ visited \in Seq(All)
                /\ (pc \in {"Idle", "Descend", "Successor", "Splice", "Query", "Visited", "Destroyed"} => Whole(T))
<1>1. PICK T : Stage(T)
  BY DEF IInv
<1>2. pc \in {"Idle", "Descend", "InsertFix", "Successor", "Splice", "DeleteFix", "Free",
             "Query", "Visited", "Destroyed"}
  BY DEF IInv, TypeOK
<1>3. pc \in {"Idle", "Descend", "Successor", "Splice", "Query", "Visited", "Destroyed"} => Whole(T)
  BY <1>1 DEF Stage, AtRest, Descending, Succeeding, Splicing, Querying
<1>4. Grown(t, T, Plain) \/ Grown(t, T, Spliced(y, z))
  BY <1>1, <1>2, <1>3 DEF Stage, Whole, Inserting, Deleting, Freeing, Out
<1>5. T \subseteq Nodes
  BY <1>4, GrownFacts
<1>6. t \in Heap
  BY <1>4, GrownFacts
<1> QED
  BY <1>1, <1>3, <1>5, <1>6 DEF IInv, TypeOK

LEMMA StageType ==
  ASSUME t' \in Heap,
         pc' \in {"Idle", "Descend", "InsertFix", "Successor", "Splice", "DeleteFix", "Free",
                  "Query", "Visited", "Destroyed"},
         {x', y', z', root'} \subseteq All, q' \in Queries \cup {0}, live' \subseteq Nodes, visited' \in Seq(All)
  PROVE  TypeOK'
BY DEF TypeOK, Heap, Rec

LEMMA InsertStep == ASSUME IInv, NEW n \in Nodes, RBTreeInsert(n) PROVE IInv'
<1>1. PICK T : /\ Stage(T) /\ t \in Heap /\ T \subseteq Nodes /\ live \subseteq Nodes
               /\ {x, y, z, root} \subseteq All /\ q \in Queries \cup {0} /\ visited \in Seq(All)
  BY StageAt
<1>2. /\ pc = "Idle" /\ n \notin live /\ live' = live \cup {n} /\ t' = [t EXCEPT ![n] = Blank]
      /\ z' = n /\ y' = Top /\ x' = t[Top].left /\ pc' = "Descend" /\ UNCHANGED <<root, q, visited>>
  BY DEF RBTreeInsert
<1>3. Whole(T) /\ live = T
  BY <1>1, <1>2 DEF Stage, AtRest
<1>4. PICK s1 : s1 = t'
  OBVIOUS
<1>5. PICK sub : Tree(t, T, sub) /\ Sorted(t, T, sub, KeyOf)
  BY <1>3, PlainTree DEF Whole
<1>6. Loose(t, T, Nil) /\ n \in Nodes \ T /\ s1 = Wiped(t, n)
  BY <1>2, <1>3, <1>4, PlainTree DEF Whole, Wiped
<1>7. /\ Tree(s1, T, sub) /\ Sorted(s1, T, sub, KeyOf) /\ Loose(s1, T, Nil)
      /\ \A m \in T \cup {Top} : \A d : Child(s1, m, d) = Child(t, m, d)
  <2>1. Blanked(t, s1, T, sub, n)
    BY <1>5, <1>6, Blanks
  <2> QED
    BY <1>5, <2>1 DEF Blanked
<1>8. Balanced(s1, T, Top, "left", {}, {})
  BY <1>3, <1>5, <1>6, BlankBalanced DEF Whole
<1>9. Grown(s1, T, Plain)
  BY <1>7, PlainTree
<1>10. Ends(s1, T, sub, KeyOf, Top, "left", n)
  <2>1. Top \notin T
    BY <1>1, Alls
  <2>2. \A m \in T : \A e \in Sides : sub[Child(s1, m, e)] \subseteq T
    BY <1>7, TreeLinks DEF Tree, Nest
  <2> QED
    BY <2>1, <2>2 DEF Ends
<1>11. x' = Child(s1, Top, "left")
  BY <1>2, <1>7, ChildSides
<1>12. Descending(T)'
  <2>1. Whole(T)'
    BY <1>4, <1>8, <1>9 DEF Whole
  <2>2. "left" \in Sides /\ y' \in T \cup {Top} /\ y' = Top
    BY <1>2, ChildSides
  <2>3. /\ Tree(t', T, sub) /\ Sorted(t', T, sub, KeyOf)
        /\ x' = Child(t', y', "left") /\ Ends(t', T, sub, KeyOf, y', "left", z')
    BY <1>2, <1>4, <1>7, <1>10, <1>11
  <2> QED
    BY <1>2, <1>3, <1>6, <2>1, <2>2, <2>3 DEF Descending
<1>13. Stage(T)'
  BY <1>2, <1>12 DEF Stage
<1>14. TypeOK'
  <2>1. t' \in Heap /\ x' \in All /\ Top \in All /\ n \in All
    <3>1. s1 \in Heap
      BY <1>9, GrownFacts
    <3> QED
      BY <1>1, <1>2, <1>4, <3>1, Alls, RecFields
  <2> QED
    BY <1>1, <1>2, <2>1, StageType
<1> QED
  BY <1>13, <1>14 DEF IInv

(* One step down in the search for the place of v.                         *)
LEMMA EndsStep ==
  ASSUME NEW s, NEW T, NEW sub, Tree(s, T, sub), NEW key \in Keys, NEW w \in T \cup {Top}, NEW d \in Sides, NEW v \in Nodes,
         Ends(s, T, sub, key, w, d, v), NEW c \in T, c = Child(s, w, d),
         NEW e, e = IF key[c] > key[v] THEN "left" ELSE "right"
  PROVE  Ends(s, T, sub, key, c, e, v)
<1>1. Joined(s, T) /\ T \subseteq Nodes /\ Nil \notin T
  BY Alls DEF Tree, Joined
<1>2. s[c].parent = w
  BY <1>1, JoinedChild
<1>3. c \in sub[c]
  BY TreeLinks
<1>4. ASSUME NEW n \in T, NEW f \in Sides, c \in sub[Child(s, n, f)]
      PROVE  Before(key, f, v, n)
  <2>1. CASE n = w
    <3>1. sub[Child(s, n, d)] \cap sub[Child(s, n, Other(d))] = {}
      BY DEF Tree, Nest
    <3>2. f = d
      BY <1>3, <1>4, <2>1, <3>1, TurnSides
    <3> QED
      BY <2>1, <3>2 DEF Ends
  <2>2. CASE n # w
    <3>1. PICK m : m = Child(s, n, f)
      OBVIOUS
    <3>2. m \in T /\ s[m].parent = n
      <4>1. sub[Nil] = {}
        BY TreeLinks
      <4> QED
        BY <1>1, <1>4, <3>1, <4>1, JoinedChild
    <3>3. c # m
      BY <1>2, <2>2, <3>2
    <3>4. w \in sub[m]
      BY <1>2, <1>4, <3>1, <3>2, <3>3, Upward
    <3> QED
      BY <3>1, <3>4 DEF Ends
  <2> QED
    BY <2>1, <2>2
<1>5. Before(key, e, v, c)
  <2>1. key[c] \in Int /\ key[v] \in Int
    BY <1>1 DEF Keys
  <2> QED
    BY <2>1, ChildSides DEF Before
<1> QED
  BY <1>4, <1>5 DEF Ends

LEMMA DescendStep == ASSUME IInv, Descend PROVE IInv'
<1>1. PICK T : /\ Stage(T) /\ t \in Heap /\ T \subseteq Nodes /\ live \subseteq Nodes
               /\ {x, y, z, root} \subseteq All /\ q \in Queries \cup {0} /\ visited \in Seq(All)
  BY StageAt
<1>2. /\ pc = "Descend" /\ x # Nil /\ y' = x /\ x' = (IF Greater(x, z) THEN t[x].left ELSE t[x].right)
      /\ UNCHANGED <<t, pc, z, root, q, live, visited>>
  BY DEF Descend
<1>3. Descending(T)
  BY <1>1, <1>2 DEF Stage
<1>4. PICK sub : \E d \in Sides :
       /\ Tree(t, T, sub) /\ Sorted(t, T, sub, KeyOf)
       /\ y \in T \cup {Top} /\ x = Child(t, y, d) /\ (d = "left" <=> y = Top \/ Greater(y, z))
       /\ Ends(t, T, sub, KeyOf, y, d, z)
  BY <1>3 DEF Descending
<1>5. PICK d \in Sides :
       /\ Tree(t, T, sub) /\ Sorted(t, T, sub, KeyOf)
       /\ y \in T \cup {Top} /\ x = Child(t, y, d) /\ (d = "left" <=> y = Top \/ Greater(y, z))
       /\ Ends(t, T, sub, KeyOf, y, d, z)
  BY <1>4
<1>6. x \in T /\ z \in Nodes /\ Top \notin T
  BY <1>1, <1>2, <1>3, <1>5, JoinedChild, Alls DEF Tree, Descending
<1>7. PICK e : e = IF KeyOf[x] > KeyOf[z] THEN "left" ELSE "right"
  OBVIOUS
<1>8. Ends(t, T, sub, KeyOf, x, e, z)
  BY <1>5, <1>6, <1>7, KeyFacts, EndsStep
<1>9. e \in Sides /\ (e = "left" <=> x = Top \/ Greater(x, z)) /\ x' = Child(t, x, e)
  BY <1>2, <1>6, <1>7, ChildSides DEF Greater
<1>10. Whole(T)'
  BY <1>2, <1>3 DEF Descending, Whole
<1>11. Descending(T)'
  <2>1. z' \in Nodes /\ z' \notin T /\ live' = T \cup {z'}
    BY <1>2, <1>3 DEF Descending
  <2>2. /\ Tree(t', T, sub) /\ Sorted(t', T, sub, KeyOf) /\ y' \in T \cup {Top} /\ x' = Child(t', y', e)
        /\ Ends(t', T, sub, KeyOf, y', e, z')
    BY <1>2, <1>5, <1>6, <1>8, <1>9
  <2>3. e = "left" <=> y' = Top \/ Greater(y', z')
    BY <1>2, <1>9 DEF Greater
  <2> QED
    BY <1>9, <1>10, <2>1, <2>2, <2>3 DEF Descending
<1>12. Stage(T)'
  BY <1>2, <1>11 DEF Stage
<1>13. TypeOK'
  <2>1. x' \in All
    BY <1>1, <1>2, RecFields
  <2> QED
    BY <1>1, <1>2, <2>1, StageType
<1> QED
  BY <1>12, <1>13 DEF IInv

(* One child pointer, or one parent pointer, is written.                   *)
Hook(s, w, d, v) == IF d = "left" THEN [s EXCEPT ![w].left = v] ELSE [s EXCEPT ![w].right = v]
Hooked(s, s1, w, d, v) ==
  /\ s1 \in Heap /\ Red(s1) = Red(s)
  /\ \A n \in All : /\ s1[n].parent = s[n].parent
                    /\ \A e \in Sides : Child(s1, n, e) = IF n = w /\ e = d THEN v ELSE Child(s, n, e)
Adopted(s, s1, c, p) ==
  /\ s1 \in Heap /\ Red(s1) = Red(s)
  /\ \A n \in All : /\ s1[n].parent = IF n = c THEN p ELSE s[n].parent
                    /\ \A e \in Sides : Child(s1, n, e) = Child(s, n, e)

LEMMA Hooks ==
  ASSUME NEW s \in Heap, NEW w \in All, NEW d \in Sides, NEW v \in All, NEW s1, s1 = Hook(s, w, d, v)
  PROVE  Hooked(s, s1, w, d, v)
<1>1. CASE d = "left"
  <2>1. s1 = [s EXCEPT ![w].left = v]
    BY <1>1 DEF Hook
  <2>2. Writes(s, s1, w, v, s[w].right, s[w].parent)
    BY <2>1, WritesLeft
  <2>3. s1 \in Heap /\ Red(s1) = Red(s)
    BY <2>2 DEF Writes, Red
  <2>4. s1[w].left = v /\ s1[w].right = s[w].right /\ s1[w].parent = s[w].parent /\ \A n \in All \ {w} : s1[n] = s[n]
    BY <2>2 DEF Writes
  <2>5. ASSUME NEW n \in All
        PROVE  /\ s1[n].parent = s[n].parent
               /\ \A e \in Sides : Child(s1, n, e) = IF n = w /\ e = d THEN v ELSE Child(s, n, e)
    <3>1. CASE n = w
      BY <1>1, <2>4, <3>1 DEF Sides, Child
    <3>2. CASE n # w
      BY <2>4, <3>2 DEF Child
    <3> QED
      BY <3>1, <3>2
  <2> QED
    BY <2>3, <2>5 DEF Hooked
<1>2. CASE d = "right"
  <2>1. s1 = [s EXCEPT ![w].right = v]
    BY <1>2 DEF Hook
  <2>2. Writes(s, s1, w, s[w].left, v, s[w].parent)
    BY <2>1, WritesRight
  <2>3. s1 \in Heap /\ Red(s1) = Red(s)
    BY <2>2 DEF Writes, Red
  <2>4. s1[w].left = s[w].left /\ s1[w].right = v /\ s1[w].parent = s[w].parent /\ \A n \in All \ {w} : s1[n] = s[n]
    BY <2>2 DEF Writes
  <2>5. ASSUME NEW n \in All
        PROVE  /\ s1[n].parent = s[n].parent
               /\ \A e \in Sides : Child(s1, n, e) = IF n = w /\ e = d THEN v ELSE Child(s, n, e)
    <3>1. CASE n = w
      BY <1>2, <2>4, <3>1 DEF Sides, Child
    <3>2. CASE n # w
      BY <2>4, <3>2 DEF Child
    <3> QED
      BY <3>1, <3>2
  <2> QED
    BY <2>3, <2>5 DEF Hooked
<1> QED
  BY <1>1, <1>2 DEF Sides

LEMMA Adopts ==
  ASSUME NEW s \in Heap, NEW c \in All, NEW p \in All, NEW s1, s1 = SetParent(s, c, p)
  PROVE  Adopted(s, s1, c, p)
<1>1. Writes(s, s1, c, s[c].left, s[c].right, p)
  BY WritesParent
<1>2. s1 \in Heap /\ Red(s1) = Red(s)
  BY <1>1 DEF Writes, Red
<1>3. s1[c].left = s[c].left /\ s1[c].right = s[c].right /\ s1[c].parent = p /\ \A n \in All \ {c} : s1[n] = s[n]
  BY <1>1 DEF Writes
<1>4. ASSUME NEW n \in All
      PROVE  /\ s1[n].parent = IF n = c THEN p ELSE s[n].parent
             /\ \A e \in Sides : Child(s1, n, e) = Child(s, n, e)
  <2>1. CASE n = c
    BY <1>3, <2>1 DEF Child
  <2>2. CASE n # c
    BY <1>3, <2>2 DEF Child
  <2> QED
    BY <2>1, <2>2
<1> QED
  BY <1>2, <1>4 DEF Adopted

LEMMA Hangs ==
  ASSUME NEW s, NEW T, Joined(s, T), NEW w, NEW d, NEW v, Leaf(s, T, w, d, v), Loose(s, T, Nil),
         NEW s1, s1 = Hook(SetParent(Redden(s, v), v, w), w, d, v)
  PROVE  Hung(s, s1, w, d, v)
<1>1. /\ s \in Heap /\ v \in All /\ w \in All /\ v # w /\ v \in Nodes \ T /\ d \in Sides
  BY Alls DEF Joined, Leaf
<1>2. \A e \in Sides : Child(s, v, e) = Nil
  BY <1>1, Alls DEF Loose
<1>3. PICK s2 : s2 = Redden(s, v)
  OBVIOUS
<1>4. Painted(s, Paint(s, v, TRUE), v, TRUE)
  BY <1>1, Paints
<1>5. s2 \in Heap /\ SameLinks(s, s2, All) /\ s2[v].red /\ \A n \in All \ {v} : s2[n].red = s[n].red
  BY <1>3, <1>4 DEF Painted, Redden
<1>6. PICK s3 : s3 = SetParent(s2, v, w)
  OBVIOUS
<1>7. Adopted(s2, s3, v, w)
  BY <1>1, <1>5, <1>6, Adopts
<1>8. s3 \in Heap /\ Red(s3) = Red(s2)
  BY <1>7 DEF Adopted
<1>9. Red(s2) = Red(s) \cup {v}
  BY <1>1, <1>5 DEF Red
<1>10. \A n \in All : s2[n].parent = s[n].parent /\ \A e : Child(s2, n, e) = Child(s, n, e)
  BY <1>5, SameChild DEF SameLinks
<1>11. Hooked(s3, s1, w, d, v)
  BY <1>1, <1>3, <1>6, <1>8, Hooks
<1>12. \A n \in All : \A e \in Sides : Child(s1, n, e) = IF n = w /\ e = d THEN v ELSE Child(s, n, e)
  BY <1>7, <1>10, <1>11 DEF Adopted, Hooked
<1>13. \A n \in All : s1[n].parent = IF n = v THEN w ELSE s[n].parent
  BY <1>7, <1>10, <1>11 DEF Adopted, Hooked
<1>14. s1 \in Heap /\ Red(s1) = Red(s) \cup {v}
  BY <1>8, <1>9, <1>11 DEF Hooked
<1> QED
  BY <1>1, <1>2, <1>12, <1>13, <1>14 DEF Hung

LEMMA HangStep == ASSUME IInv, Hang PROVE IInv'
<1>1. PICK T : /\ Stage(T) /\ t \in Heap /\ T \subseteq Nodes /\ live \subseteq Nodes
               /\ {x, y, z, root} \subseteq All /\ q \in Queries \cup {0} /\ visited \in Seq(All)
  BY StageAt
<1>2. /\ pc = "Descend" /\ x = Nil /\ x' = z /\ pc' = "InsertFix"
      /\ t' = IF y = Top \/ Greater(y, z)
              THEN [SetParent(Redden(t, z), z, y) EXCEPT ![y].left = z]
              ELSE [SetParent(Redden(t, z), z, y) EXCEPT ![y].right = z]
      /\ UNCHANGED <<y, z, root, q, live, visited>>
  BY DEF Hang, Redden
<1>3. Descending(T)
  BY <1>1, <1>2 DEF Stage
<1>4. PICK sub : \E d \in Sides :
       /\ Tree(t, T, sub) /\ Sorted(t, T, sub, KeyOf)
       /\ y \in T \cup {Top} /\ x = Child(t, y, d) /\ (d = "left" <=> y = Top \/ Greater(y, z))
       /\ Ends(t, T, sub, KeyOf, y, d, z)
  BY <1>3 DEF Descending
<1>5. PICK d \in Sides :
       /\ Tree(t, T, sub) /\ Sorted(t, T, sub, KeyOf)
       /\ y \in T \cup {Top} /\ x = Child(t, y, d) /\ (d = "left" <=> y = Top \/ Greater(y, z))
       /\ Ends(t, T, sub, KeyOf, y, d, z)
  BY <1>4
<1>6. PICK s1 : s1 = t'
  OBVIOUS
<1>7. PICK U : U = T \cup {z}
  OBVIOUS
<1>8. z \in Nodes /\ z \notin T /\ live = U /\ Whole(T) /\ U \subseteq Nodes
  BY <1>1, <1>3, <1>7 DEF Descending
<1>9. Leaf(t, T, y, d, z)
  BY <1>2, <1>5, <1>8 DEF Leaf
<1>10. Loose(t, T, Nil) /\ Balanced(t, T, Top, "left", {}, {}) /\ Joined(t, T)
  BY <1>5, <1>8, PlainTree DEF Whole, Tree
<1>11. s1 = Hook(SetParent(Redden(t, z), z, y), y, d, z)
  BY <1>2, <1>5, <1>6 DEF Hook
<1>12. Hung(t, s1, y, d, z)
  BY <1>9, <1>10, <1>11, Hangs
<1>13. Balanced(s1, U, Top, "left", {z}, {}) /\ z \in Red(s1)
  BY <1>7, <1>9, <1>10, <1>12, HangBalanced
<1>14. Grown(s1, U, Plain)
  <2>1. /\ Plain.keys \subseteq Keys /\ Plain.out = Nil
        /\ \A key \in Plain.keys : Sorted(t, T, sub, key) /\ Ends(t, T, sub, key, y, d, z)
    BY <1>5, KeyFacts
  <2> QED
    BY <1>5, <1>7, <1>9, <1>10, <1>12, <2>1, HangGrown
<1>15. Inserting(U)'
  BY <1>2, <1>6, <1>7, <1>8, <1>13, <1>14 DEF Inserting
<1>16. Stage(U)'
  BY <1>2, <1>15 DEF Stage
<1>17. TypeOK'
  <2>1. t' \in Heap
    BY <1>6, <1>14, GrownFacts
  <2> QED
    BY <1>1, <1>2, <2>1, StageType
<1> QED
  BY <1>16, <1>17 DEF IInv

(* The parent is red and its sibling is not: e is the outer grandchild, or *)
(* the inner one.                                                          *)
LEMMA Uncles ==
  ASSUME NEW s, NEW T, NEW K, Grown(s, T, K), NEW e \in T, Balanced(s, T, Top, "left", {e}, {}), e \in Red(s),
         NEW p, p = s[e].parent, p \in Red(s), NEW g, g = s[p].parent, NEW l, l = SideOf(s, p),
         Child(s, g, Other(l)) \notin Red(s)
  PROVE  IF e = Child(s, p, Other(l)) THEN Bent(s, T, K, e, p, g, l) ELSE Straight(s, T, K, e, p, g, l)
<1>1. Reds(s, T, {e}, {})
  BY DEF Balanced
<1>2. /\ p \in T /\ g \in T /\ l \in Sides /\ Child(s, g, l) = p /\ g \notin Red(s)
      /\ e = Child(s, p, l) \/ e = Child(s, p, Other(l))
  BY <1>1, InsertKin
<1>3. CASE e = Child(s, p, Other(l))
  BY <1>2, <1>3 DEF Bent
<1>4. CASE e # Child(s, p, Other(l))
  BY <1>2, <1>4 DEF Straight
<1> QED
  BY <1>3, <1>4

Climbs(s, T, K, a) == Grown(s, T, K) /\ Balanced(s, T, Top, "left", {a}, {}) /\ a \in T /\ a \in Red(s)

LEMMA StraightTurn ==
  ASSUME NEW s, NEW T, NEW K, NEW a, NEW b, NEW g, NEW l, Straight(s, T, K, a, b, g, l),
         NEW b1, b1 = s[a].parent, NEW g1, g1 = s[b1].parent,
         NEW s1, s1 = Rotate(Redden(Blacken(s, b1), g1), g1, Other(l))
  PROVE  Climbs(s1, T, K, a)
<1>1. b1 = b /\ g1 = g
  BY DEF Straight
<1> QED
  BY <1>1, InsertTurn DEF Climbs

LEMMA InsertFixStep == ASSUME IInv, InsertFix PROVE IInv'
<1>1. PICK T : /\ Stage(T) /\ t \in Heap /\ T \subseteq Nodes /\ live \subseteq Nodes
               /\ {x, y, z, root} \subseteq All /\ q \in Queries \cup {0} /\ visited \in Seq(All)
  BY StageAt
<1>2. PICK p : p = t[x].parent
  OBVIOUS
<1>3. PICK g : g = t[p].parent
  OBVIOUS
<1>4. PICK l : l = SideOf(t, p)
  OBVIOUS
<1>5. PICK u : u = Child(t, g, Other(l))
  OBVIOUS
<1>6. PICK inner \in BOOLEAN : inner <=> x = Child(t, p, Other(l))
  OBVIOUS
<1>7. PICK a : a = IF inner THEN p ELSE x
  OBVIOUS
<1>8. PICK s0 : s0 = IF inner THEN Rotate(t, p, l) ELSE t
  OBVIOUS
<1>9. PICK b : b = s0[a].parent
  OBVIOUS
<1>10. PICK c : c = s0[b].parent
  OBVIOUS
<1>11. /\ pc = "InsertFix" /\ t[p].red
       /\ IF t[u].red
          THEN /\ t' = Redden(Blacken(Blacken(t, p), u), g)
               /\ x' = g
          ELSE /\ t' = Rotate(Redden(Blacken(s0, b), c), c, Other(l))
               /\ x' = a
       /\ UNCHANGED <<pc, y, z, root, q, live, visited>>
  BY <1>2, <1>3, <1>4, <1>5, <1>6, <1>7, <1>8, <1>9, <1>10 DEF InsertFix, Redden, Blacken
<1>12. Grown(t, T, Plain) /\ Balanced(t, T, Top, "left", {x}, {}) /\ x \in T /\ x \in Red(t) /\ live = T
  BY <1>1, <1>11 DEF Stage, Inserting
<1>13. PICK s1 : s1 = t'
  OBVIOUS
<1>14. p \in Red(t) /\ (u \in Red(t) <=> t[u].red)
  <2>1. p \in All
    BY <1>1, <1>2, <1>12, Alls, RecFields
  <2>2. g \in All
    BY <1>1, <1>3, <2>1, RecFields
  <2>3. u \in All
    BY <1>1, <1>5, <2>2, RecFields DEF Child
  <2> QED
    BY <1>11, <2>1, <2>3 DEF Red
<1>15. PICK e : e = x'
  OBVIOUS
<1>16. Grown(s1, T, Plain) /\ Balanced(s1, T, Top, "left", {e}, {}) /\ e \in T /\ e \in Red(s1)
  <2>1. CASE t[u].red
    <3>1. s1 = Redden(Blacken(Blacken(t, p), u), g) /\ e = g
      BY <1>11, <1>13, <1>15, <2>1
    <3> QED
      BY <1>2, <1>3, <1>4, <1>5, <1>12, <1>14, <2>1, <3>1, InsertClimb
  <2>2. CASE ~ t[u].red
    <3>1. s1 = Rotate(Redden(Blacken(s0, b), c), c, Other(l)) /\ e = a
      BY <1>11, <1>13, <1>15, <2>2
    <3>2. Child(t, g, Other(l)) \notin Red(t)
      BY <1>5, <1>14, <2>2
    <3>3. IF inner THEN Bent(t, T, Plain, x, p, g, l) ELSE Straight(t, T, Plain, x, p, g, l)
      BY <1>2, <1>3, <1>4, <1>6, <1>12, <1>14, <3>2, Uncles
    <3>4. CASE inner
      <4>1. a = p /\ s0 = Rotate(t, p, l)
        BY <1>7, <1>8, <3>4
      <4>2. Straight(s0, T, Plain, a, x, g, l)
        BY <3>3, <3>4, <4>1, InsertInner
      <4> QED
        BY <1>9, <1>10, <3>1, <4>2, StraightTurn DEF Climbs
    <3>5. CASE ~ inner
      <4>1. a = x /\ s0 = t
        BY <1>7, <1>8, <3>5
      <4>2. Straight(s0, T, Plain, a, p, g, l)
        BY <3>3, <3>5, <4>1
      <4> QED
        BY <1>9, <1>10, <3>1, <4>2, StraightTurn DEF Climbs
    <3> QED
      BY <3>4, <3>5
  <2> QED
    BY <2>1, <2>2
<1>17. Inserting(T)'
  BY <1>11, <1>12, <1>13, <1>15, <1>16 DEF Inserting
<1>18. Stage(T)'
  BY <1>11, <1>17 DEF Stage
<1>19. TypeOK'
  <2>1. t' \in Heap /\ x' \in All
    BY <1>13, <1>15, <1>16, GrownFacts
  <2> QED
    BY <1>1, <1>11, <2>1, StageType
<1> QED
  BY <1>18, <1>19 DEF IInv

LEMMA InsertDoneStep == ASSUME IInv, InsertDone PROVE IInv'
<1>1. PICK T : /\ Stage(T) /\ t \in Heap /\ T \subseteq Nodes /\ live \subseteq Nodes
               /\ {x, y, z, root} \subseteq All /\ q \in Queries \cup {0} /\ visited \in Seq(All)
  BY StageAt
<1>2. /\ pc = "InsertFix" /\ ~ t[t[x].parent].red /\ t' = Blacken(t, t[Top].left)
      /\ pc' = "Idle" /\ x' = Nil /\ y' = Nil /\ z' = Nil /\ root' = Nil /\ q' = 0
      /\ UNCHANGED <<live, visited>>
  BY DEF InsertDone, Blacken, Return
<1>3. Grown(t, T, Plain) /\ Balanced(t, T, Top, "left", {x}, {}) /\ x \in T /\ live = T
  BY <1>1, <1>2 DEF Stage, Inserting
<1>4. t[x].parent \notin Red(t)
  BY <1>2 DEF Red
<1>5. PICK s1 : s1 = t'
  OBVIOUS
<1>6. Grown(s1, T, Plain) /\ Balanced(s1, T, Top, "left", {}, {})
  BY <1>2, <1>3, <1>4, <1>5, InsertBlacken
<1>7. AtRest(T)'
  BY <1>2, <1>3, <1>5, <1>6 DEF AtRest, Whole
<1>8. Stage(T)'
  BY <1>2, <1>7 DEF Stage
<1>9. TypeOK'
  <2>1. t' \in Heap /\ Nil \in All
    BY <1>5, <1>6, GrownFacts
  <2> QED
    BY <1>1, <1>2, <2>1, StageType
<1> QED
  BY <1>8, <1>9 DEF IInv

-----------------------------------------------------------------------------
(* The steps of a deletion.                                                *)

LEMMA DeleteStep == ASSUME IInv, NEW n \in Nodes, RBDelete(n) PROVE IInv'
<1>1. PICK T : /\ Stage(T) /\ t \in Heap /\ T \subseteq Nodes /\ live \subseteq Nodes
               /\ {x, y, z, root} \subseteq All /\ q \in Queries \cup {0} /\ visited \in Seq(All)
  BY StageAt
<1>2. /\ pc = "Idle" /\ n \in live /\ z' = n
      /\ IF t[n].left = Nil \/ t[n].right = Nil
         THEN y' = n /\ pc' = "Splice"
         ELSE y' = t[n].right /\ pc' = "Successor"
      /\ UNCHANGED <<t, x, root, q, live, visited>>
  BY DEF RBDelete
<1>3. AtRest(T)
  BY <1>1, <1>2 DEF Stage
<1>4. n \in T /\ Whole(T) /\ live = T
  BY <1>2, <1>3 DEF AtRest
<1>5. AtRest(T)'
  BY <1>2, <1>3 DEF AtRest, Whole
<1>6. PICK sub : Tree(t, T, sub) /\ Sorted(t, T, sub, KeyOf)
  BY <1>4, PlainTree DEF Whole
<1>7. y' \in All /\ Stage(T)'
  <2>1. CASE t[n].left = Nil \/ t[n].right = Nil
    <3>1. y' = n /\ pc' = "Splice"
      BY <1>2, <2>1
    <3>2. Splicing(T)'
      BY <1>2, <1>4, <1>5, <2>1, <3>1 DEF Splicing
    <3> QED
      BY <3>1, <3>2, Alls DEF Stage
  <2>2. CASE ~ (t[n].left = Nil \/ t[n].right = Nil)
    <3>1. y' = t[n].right /\ pc' = "Successor"
      BY <1>2, <2>2
    <3>2. PICK r : r = Child(t, n, "right")
      OBVIOUS
    <3>3. r \in T /\ y' = r
      BY <1>4, <1>6, <2>2, <3>1, <3>2, JoinedLinks, ChildSides DEF Tree
    <3>4. \A m \in sub[r] \ sub[r] : KeyOf[r] <= KeyOf[m]
      OBVIOUS
    <3>5. Succeeding(T)'
      <4>1. /\ Tree(t', T, sub) /\ Sorted(t', T, sub, KeyOf) /\ y' \in T /\ sub[y'] \subseteq sub[Child(t', z', "right")]
            /\ \A m \in sub[Child(t', z', "right")] \ sub[y'] : KeyOf[y'] <= KeyOf[m]
        BY <1>2, <1>6, <3>2, <3>3, <3>4
      <4>2. z' \in T
        BY <1>2, <1>4
      <4> QED
        BY <1>5, <4>1, <4>2 DEF Succeeding
    <3> QED
      BY <3>1, <3>3, <3>5, Alls, <1>1 DEF Stage
  <2> QED
    BY <2>1, <2>2
<1>8. TypeOK'
  <2>1. n \in All /\ pc' \in {"Splice", "Successor"}
    BY <1>2, Alls
  <2> QED
    BY <1>1, <1>2, <1>7, <2>1, StageType
<1> QED
  BY <1>7, <1>8 DEF IInv

LEMMA SuccessorStep == ASSUME IInv, Successor PROVE IInv'
<1>1. PICK T : /\ Stage(T) /\ t \in Heap /\ T \subseteq Nodes /\ live \subseteq Nodes
               /\ {x, y, z, root} \subseteq All /\ q \in Queries \cup {0} /\ visited \in Seq(All)
  BY StageAt
<1>2. /\ pc = "Successor"
      /\ IF t[y].left # Nil THEN y' = t[y].left /\ pc' = pc ELSE pc' = "Splice" /\ y' = y
      /\ UNCHANGED <<t, x, z, root, q, live, visited>>
  BY DEF Successor
<1>3. Succeeding(T)
  BY <1>1, <1>2 DEF Stage
<1>4. AtRest(T) /\ z \in T
  BY <1>3 DEF Succeeding
<1>5. PICK sub : /\ Tree(t, T, sub) /\ Sorted(t, T, sub, KeyOf) /\ y \in T /\ sub[y] \subseteq sub[Child(t, z, "right")]
                 /\ \A m \in sub[Child(t, z, "right")] \ sub[y] : KeyOf[y] <= KeyOf[m]
  BY <1>3 DEF Succeeding
<1>6. PICK A : A = sub[Child(t, z, "right")]
  OBVIOUS
<1>7. AtRest(T)'
  BY <1>2, <1>4 DEF AtRest, Whole
<1>8. /\ y \in sub[y] /\ sub[y] = {y} \cup sub[Child(t, y, "left")] \cup sub[Child(t, y, "right")]
      /\ sub[Nil] = {} /\ y \in T
      /\ \A m \in sub[Child(t, y, "left")] : KeyOf[m] <= KeyOf[y]
      /\ \A m \in sub[Child(t, y, "right")] : KeyOf[y] <= KeyOf[m]
  <2>1. y \in sub[y] /\ sub[y] = {y} \cup sub[Child(t, y, "left")] \cup sub[Child(t, y, "right")] /\ sub[Nil] = {}
    BY <1>5, TreeLinks, ChildSides
  <2>2. /\ \A m \in sub[Child(t, y, "left")] : Before(KeyOf, "left", m, y)
        /\ \A m \in sub[Child(t, y, "right")] : Before(KeyOf, "right", m, y)
    BY <1>5, ChildSides DEF Sorted
  <2> QED
    BY <1>5, <2>1, <2>2, ChildSides DEF Before
<1>9. \A m \in A : m \in T
  <2>1. A \subseteq sub[z] /\ sub[z] \subseteq T
    BY <1>4, <1>5, <1>6, TreeLinks, ChildSides
  <2> QED
    BY <2>1
<1>10. \A m \in T : KeyOf[m] \in Int
  BY <1>1, KeyFacts DEF Keys
<1>11. y' \in All /\ Stage(T)'
  <2>1. CASE t[y].left # Nil
    <3>1. PICK c : c = Child(t, y, "left")
      OBVIOUS
    <3>2. c \in T /\ y' = c /\ pc' = "Successor"
      BY <1>2, <1>5, <2>1, <3>1, JoinedLinks, ChildSides DEF Tree
    <3>3. sub[c] \subseteq sub[y] /\ sub[c] \subseteq A /\ c \in sub[c]
      BY <1>5, <1>6, <1>8, <3>1, <3>2, TreeLinks
    <3>4. KeyOf[c] <= KeyOf[y]
      BY <1>8, <3>1, <3>3
    <3>5. ASSUME NEW m \in A \ sub[c]
          PROVE  KeyOf[c] <= KeyOf[m]
      <4>1. KeyOf[m] \in Int /\ KeyOf[c] \in Int /\ KeyOf[y] \in Int
        BY <1>8, <1>9, <1>10, <3>2
      <4>2. KeyOf[y] <= KeyOf[m]
        <5>1. CASE m \notin sub[y]
          BY <1>5, <1>6, <5>1
        <5>2. CASE m \in sub[y]
          <6>1. m = y \/ m \in sub[Child(t, y, "right")]
            BY <1>8, <3>1, <3>5, <5>2
          <6> QED
            BY <1>8, <4>1, <6>1
        <5> QED
          BY <5>1, <5>2
      <4> QED
        BY <3>4, <4>1, <4>2
    <3>6. Succeeding(T)'
      <4>1. /\ Tree(t', T, sub) /\ Sorted(t', T, sub, KeyOf) /\ y' \in T /\ sub[y'] \subseteq sub[Child(t', z', "right")]
            /\ \A m \in sub[Child(t', z', "right")] \ sub[y'] : KeyOf[y'] <= KeyOf[m]
        BY <1>2, <1>5, <1>6, <3>2, <3>3, <3>5
      <4>2. z' \in T
        BY <1>2, <1>4
      <4> QED
        BY <1>7, <4>1, <4>2 DEF Succeeding
    <3> QED
      BY <1>1, <3>2, <3>6, Alls DEF Stage
  <2>2. CASE t[y].left = Nil
    <3>1. y' = y /\ pc' = "Splice" /\ Child(t, y, "left") = Nil
      BY <1>2, <2>2, ChildSides
    <3>2. \A m \in A : KeyOf[y] <= KeyOf[m]
      <4>1. ASSUME NEW m \in A
            PROVE  KeyOf[y] <= KeyOf[m]
        <5>1. CASE m \notin sub[y]
          BY <1>5, <1>6, <5>1
        <5>2. CASE m \in sub[y]
          <6>1. m = y \/ m \in sub[Child(t, y, "right")]
            BY <1>8, <3>1, <5>2
          <6>2. KeyOf[y] \in Int
            BY <1>8, <1>10
          <6> QED
            BY <1>8, <6>1, <6>2
        <5> QED
          BY <5>1, <5>2
      <4> QED
        BY <4>1
    <3>3. Succeeds(t, T, sub, KeyOf, y, z)
      BY <1>4, <1>5, <1>6, <1>8, <3>2 DEF Succeeds
    <3>4. Splicing(T)'
      BY <1>2, <1>4, <1>5, <1>7, <2>2, <3>1, <3>3 DEF Splicing
    <3> QED
      BY <1>1, <3>1, <3>4 DEF Stage
  <2> QED
    BY <2>1, <2>2
<1>12. TypeOK'
  <2>1. pc' \in {"Splice", "Successor"}
    BY <1>2
  <2> QED
    BY <1>1, <1>2, <1>11, <2>1, StageType
<1> QED
  BY <1>11, <1>12 DEF IInv

(* The code of Splice takes w out.                                         *)
Only(s, w) == IF s[w].left = Nil THEN s[w].right ELSE s[w].left
Cut(s, w, p, c) ==
  LET s0 == SetParent(s, c, p)
  IN  IF p = Top THEN [s0 EXCEPT ![Top].left = c] ELSE Replace(s0, p, w, c)

LEMMA Takes ==
  ASSUME NEW s, NEW T, NEW sub, Tree(s, T, sub), NEW w \in T, s[w].left = Nil \/ s[w].right = Nil,
         NEW p, p = s[w].parent, NEW c, c = Only(s, w), NEW d, d = SideOf(s, w), NEW s1, s1 = Cut(s, w, p, c)
  PROVE  Stem(s, T, w, p, d, c) /\ Taken(s, s1, p, d, c) /\ c \in All
<1>1. Joined(s, T) /\ s \in Heap /\ T \subseteq All /\ Top \in All /\ Nil \in All /\ Nil \notin T /\ Top \notin T /\ Top # Nil
  BY Alls DEF Tree, Joined
<1>2. p \in T \cup {Top} /\ (w = s[p].left \/ w = s[p].right)
  BY <1>1, JoinedParent
<1>3. d = (IF w = s[p].left THEN "left" ELSE "right") /\ d \in Sides /\ Child(s, p, d) = w
  BY <1>2, ChildSides DEF SideOf
<1>4. \E e \in Sides : Child(s, w, e) = Nil /\ Child(s, w, Other(e)) = c
  <2>1. CASE s[w].left = Nil
    BY <2>1, ChildSides DEF Only
  <2>2. CASE s[w].left # Nil
    BY <2>2, ChildSides DEF Only
  <2> QED
    BY <2>1, <2>2
<1>5. Stem(s, T, w, p, d, c)
  BY <1>2, <1>3, <1>4 DEF Stem
<1>6. p \in All /\ c \in All /\ w \in All
  BY <1>1, <1>2, RecFields DEF Only
<1>7. PICK s0 : s0 = SetParent(s, c, p)
  OBVIOUS
<1>8. Adopted(s, s0, c, p)
  BY <1>1, <1>6, <1>7, Adopts
<1>9. s0 \in Heap /\ Child(s0, p, "left") = Child(s, p, "left")
  BY <1>6, <1>8, ChildSides DEF Adopted
<1>10. s0[p].left = s[p].left
  BY <1>9, ChildSides
<1>11. s1 = Hook(s0, p, d, c)
  <2>1. CASE p = Top
    <3>1. s[Top].right = Nil
      BY <1>1 DEF Joined
    <3>2. d = "left"
      BY <1>1, <1>2, <1>3, <2>1, <3>1
    <3> QED
      BY <1>7, <2>1, <3>2 DEF Cut, Hook
  <2>2. CASE p # Top
    <3>1. s1 = Replace(s0, p, w, c)
      BY <1>7, <2>2 DEF Cut
    <3> QED
      BY <1>3, <1>10, <3>1, ChildSides DEF Replace, Hook
  <2> QED
    BY <2>1, <2>2
<1>12. Hooked(s0, s1, p, d, c)
  BY <1>3, <1>6, <1>9, <1>11, Hooks
<1>13. Taken(s, s1, p, d, c)
  BY <1>8, <1>12 DEF Adopted, Hooked, Taken
<1> QED
  BY <1>5, <1>6, <1>13

(* What is left to repair, or nothing when e is the top.                    *)
LEMMA ShortOr ==
  ASSUME NEW s, NEW T, NEW K, Grown(s, T, K), NEW e, NEW p \in T \cup {Top}, NEW l \in Sides,
         Balanced(s, T, p, l, {e}, {e}), s[e].parent = p, Child(s, p, l) = e,
         p = Top => l = "left", NEW r, e \notin Red(s) => r = s[Top].left
  PROVE  IF e # r \/ e \in Red(s) THEN Short(s, T, e, p, l, r) ELSE Balanced(s, T, Top, "left", {}, {})
<1>1. /\ T \subseteq All /\ Nil \notin T /\ Top \notin T /\ Nil \in All /\ Top \in All /\ T \subseteq Nodes
      /\ Joined(s, T) /\ Top # Nil /\ (s[Top].left = Nil <=> T = {})
  BY GrownFacts
<1>2. e \in T \cup {Nil} /\ e # Top
  BY <1>1, GrownChild
<1>3. PICK R : R = Red(s)
  OBVIOUS
<1>4. /\ Nil \notin R /\ Top \notin R
      /\ \A n \in T \cup {Top} : \A d \in Sides :
           Child(s, n, d) \in R /\ (n = Top \/ n \in R) => Child(s, n, d) = e \/ n = e
  BY <1>3 DEF Balanced, Reds
<1>5. CASE e \in R
  BY <1>3, <1>5 DEF Short
<1>6. CASE e \notin R
  <2>1. r = s[Top].left /\ Child(s, Top, "left") = r /\ "left" \in Sides
    BY <1>3, <1>6, ChildSides
  <2>2. r \in T \cup {Nil} /\ (r # Nil => s[r].parent = Top)
    BY <1>1, <2>1, GrownChild
  <2>3. p = Top => e = r
    BY <2>1
  <2>4. CASE e = r
    <3>1. p = Top
      BY <1>1, <2>1, <2>2, <2>4
    <3>2. PICK bh : Even(s, T, bh, Top, l)
      BY <3>1 DEF Balanced
    <3>3. Even(s, T, bh, Top, "left")
      BY <1>1, <3>2, LackNone
    <3>4. Reds(s, T, {}, {})
      BY <1>1, <1>2, <1>3, <1>4, <1>6 DEF Reds
    <3> QED
      BY <1>3, <1>6, <2>4, <3>3, <3>4 DEF Balanced
  <2>5. CASE e # r
    <3>1. p \in T
      BY <2>3, <2>5
    <3>2. r \in T
      BY <1>1, <2>1, <2>2, <3>1
    <3>3. r \notin R
      BY <1>2, <1>4, <2>1, <2>5
    <3> QED
      BY <1>3, <2>1, <2>5, <3>1, <3>2, <3>3 DEF Short
  <2> QED
    BY <2>4, <2>5
<1> QED
  BY <1>5, <1>6

LEMMA SpliceStep == ASSUME IInv, Splice PROVE IInv'
<1>1. PICK T : /\ Stage(T) /\ t \in Heap /\ T \subseteq Nodes /\ live \subseteq Nodes
               /\ {x, y, z, root} \subseteq All /\ q \in Queries \cup {0} /\ visited \in Seq(All)
  BY StageAt
<1>2. PICK p : p = t[y].parent
  OBVIOUS
<1>3. PICK c : c = Only(t, y)
  OBVIOUS
<1>4. PICK d : d = SideOf(t, y)
  OBVIOUS
<1>5. PICK s1 : s1 = t'
  OBVIOUS
<1>6. PICK r : r = s1[Top].left
  OBVIOUS
<1>7. /\ pc = "Splice" /\ x' = c /\ s1 = Cut(t, y, p, c) /\ root' = r
      /\ pc' = IF t[y].red THEN "Free" ELSE "DeleteFix"
      /\ UNCHANGED <<y, z, q, live, visited>>
  BY <1>2, <1>3, <1>5, <1>6 DEF Splice, Cut, Only
<1>8. Splicing(T)
  BY <1>1, <1>7 DEF Stage
<1>9. Whole(T) /\ live = T /\ z \in T /\ y \in T /\ (t[y].left = Nil \/ t[y].right = Nil)
  BY <1>8 DEF Splicing, AtRest
<1>10. PICK sub : Tree(t, T, sub) /\ Sorted(t, T, sub, KeyOf) /\ (y # z => Succeeds(t, T, sub, KeyOf, y, z))
  <2>1. CASE y = z
    BY <1>9, <2>1, PlainTree DEF Whole
  <2>2. CASE y # z
    BY <1>8, <2>2 DEF Splicing
  <2> QED
    BY <2>1, <2>2
<1>11. Stem(t, T, y, p, d, c) /\ Taken(t, s1, p, d, c) /\ c \in All
  BY <1>2, <1>3, <1>4, <1>7, <1>9, <1>10, Takes
<1>12. PICK U : U = T \ {y}
  OBVIOUS
<1>13. PICK K : K = Spliced(y, z)
  OBVIOUS
<1>14. y \in Nodes /\ z \in Nodes
  BY <1>1, <1>9
<1>15. K.out = y /\ K.keys \subseteq Keys /\ \A k \in K.keys : k = KeyOf \/ (y # z /\ k = [KeyOf EXCEPT ![z] = KeyOf[y]])
  BY <1>13, <1>14, SplicedFacts
<1>16. Grown(s1, U, K)
  <2>1. ASSUME NEW k \in K.keys
        PROVE  \A n \in T \ {y} : \A e \in Sides : \A m \in sub[Child(t, n, e)] \ {y} : Before(k, e, m, n)
    <3>1. CASE k = KeyOf
      BY <1>10, <3>1 DEF Sorted
    <3>2. CASE k # KeyOf
      BY <1>10, <1>15, <2>1, <3>2, KeyFacts, KeyMoved
    <3> QED
      BY <3>1, <3>2
  <2>2. Loose(t, T, Nil)
    BY <1>9, PlainTree DEF Whole
  <2> QED
    BY <1>10, <1>11, <1>12, <1>15, <2>1, <2>2, TakeGrown
<1>17. /\ s1[c].parent = p /\ Child(s1, p, d) = c
       /\ y \in Red(t) => Balanced(s1, U, Top, "left", {}, {})
       /\ y \notin Red(t) => Balanced(s1, U, p, d, {c}, {c}) /\ SideOf(s1, c) = d
  <2>1. Balanced(t, T, Top, "left", {}, {})
    BY <1>9 DEF Whole
  <2>2. /\ s1[c].parent = p /\ Child(s1, p, d) = c
        /\ y \in Red(t) => Balanced(s1, T \ {y}, Top, "left", {}, {})
        /\ y \notin Red(t) => Balanced(s1, T \ {y}, p, d, {c}, {c}) /\ SideOf(s1, c) = d
    BY <1>10, <1>11, <2>1, TakeBalanced
  <2> QED
    BY <1>12, <2>2
<1>18. y \in Red(t) <=> t[y].red
  BY <1>14, Alls DEF Red
<1>19. Out(U)'
  <2>1. z' # y' => z' \in U
    BY <1>7, <1>9, <1>12
  <2>2. Grown(t', U, Spliced(y', z'))
    BY <1>5, <1>7, <1>13, <1>16
  <2>3. live' = U \cup {y'} /\ y' \notin U
    BY <1>7, <1>9, <1>12
  <2> QED
    BY <1>7, <1>14, <2>1, <2>2, <2>3 DEF Out
<1>20. Stage(U)'
  <2>1. CASE y \in Red(t)
    <3>1. Freeing(U)'
      BY <1>5, <1>17, <1>19, <2>1 DEF Freeing
    <3> QED
      BY <1>7, <1>18, <2>1, <3>1 DEF Stage
  <2>2. CASE y \notin Red(t)
    <3>1. p \in U \cup {Top} /\ d \in Sides
      BY <1>10, <1>11, <1>12, StemLinks
    <3>2. p = Top => d = "left"
      <4>1. Child(t, Top, "right") = Nil /\ y # Nil /\ Child(t, p, d) = y
        BY <1>9, <1>10, <1>11, <1>14, Alls, ChildSides DEF Tree, Joined, Stem
      <4> QED
        BY <3>1, <4>1, ChildSides
    <3>3. IF c # r \/ c \in Red(s1) THEN Short(s1, U, c, p, d, r) ELSE Balanced(s1, U, Top, "left", {}, {})
      BY <1>6, <1>16, <1>17, <2>2, <3>1, <3>2, ShortOr
    <3>4. Deleting(U)'
      <4>1. /\ x' = c /\ root' = r /\ t' = s1 /\ t'[x'].parent = p /\ SideOf(t', x') = d
        BY <1>5, <1>7, <1>17, <2>2
      <4>2. CASE c # r \/ c \in Red(s1)
        <5>1. Short(t', U, x', t'[x'].parent, SideOf(t', x'), root')
          BY <3>3, <4>1, <4>2
        <5>2. x' # root' \/ x' \in Red(t')
          BY <4>1, <4>2
        <5> QED
          BY <1>19, <5>1, <5>2 DEF Deleting
      <4>3. CASE ~ (c # r \/ c \in Red(s1))
        <5>1. Balanced(t', U, Top, "left", {}, {})
          BY <3>3, <4>1, <4>3
        <5>2. ~ (x' # root' \/ x' \in Red(t'))
          BY <4>1, <4>3
        <5> QED
          BY <1>19, <5>1, <5>2 DEF Deleting
      <4> QED
        BY <4>2, <4>3
    <3> QED
      BY <1>7, <1>18, <2>2, <3>4 DEF Stage
  <2> QED
    BY <2>1, <2>2
<1>21. TypeOK'
  <2>1. t' \in Heap /\ root' \in All
    BY <1>5, <1>6, <1>7, <1>16, GrownFacts, Alls, RecFields
  <2>2. pc' \in {"Free", "DeleteFix"}
    BY <1>7
  <2> QED
    BY <1>1, <1>7, <1>11, <2>1, <2>2, StageType
<1> QED
  BY <1>20, <1>21 DEF IInv

(* A node that is short of one black node, and black.                      *)
LEMMA Deficits ==
  ASSUME NEW s, NEW T, NEW K, Grown(s, T, K), NEW e, NEW p, NEW l \in Sides, NEW r, Short(s, T, e, p, l, r), e \notin Red(s)
  PROVE  /\ Deficient(s, T, K, e, p, l)
         /\ r = s[Top].left /\ r \in T /\ r \notin Red(s)
<1>1. /\ Balanced(s, T, p, l, {e}, {e}) /\ p \in T /\ Child(s, p, l) = e /\ s[e].parent = p
      /\ r = s[Top].left /\ r \in T /\ r \notin Red(s)
  BY DEF Short
<1>2. e # Top
  BY <1>1, GrownChild, GrownFacts
<1>3. PICK bh : Even(s, T, bh, p, l)
  BY <1>1 DEF Balanced
<1>4. Reds(s, T, {e}, {e})
  BY <1>1 DEF Balanced
<1>5. Reds(s, T, {}, {})
  BY <1>2, <1>4 DEF Reds
<1>6. Balanced(s, T, p, l, {}, {})
  BY <1>3, <1>5 DEF Balanced
<1> QED
  BY <1>1, <1>6 DEF Deficient

(* A red node above: the next one to repair, unless it is the root.        *)
LEMMA Climbed ==
  ASSUME NEW s, NEW T, NEW K, Grown(s, T, K), NEW e \in T,
         Balanced(s, T, s[e].parent, SideOf(s, e), {e}, {e}), NEW r, e \notin Red(s) => r = s[Top].left
  PROVE  IF e # r \/ e \in Red(s) THEN Short(s, T, e, s[e].parent, SideOf(s, e), r)
         ELSE Balanced(s, T, Top, "left", {}, {})
<1>1. PICK p : p = s[e].parent
  OBVIOUS
<1>2. PICK l : l = SideOf(s, e)
  OBVIOUS
<1>3. p \in T \cup {Top} /\ l \in Sides /\ Child(s, p, l) = e
  BY <1>1, <1>2, GrownParent
<1>4. Child(s, Top, "right") = Nil /\ Nil \notin T
  BY GrownFacts, ChildSides DEF Joined
<1>5. p = Top => l = "left"
  BY <1>3, <1>4, ChildSides
<1>6. Balanced(s, T, p, l, {e}, {e}) /\ s[e].parent = p
  BY <1>1, <1>2
<1>7. IF e # r \/ e \in Red(s) THEN Short(s, T, e, p, l, r) ELSE Balanced(s, T, Top, "left", {}, {})
  BY <1>3, <1>5, <1>6, ShortOr
<1> QED
  BY <1>1, <1>2, <1>7

LEMMA DeleteFixStep == ASSUME IInv, DeleteFix PROVE IInv'
<1>1. PICK T : /\ Stage(T) /\ t \in Heap /\ T \subseteq Nodes /\ live \subseteq Nodes
               /\ {x, y, z, root} \subseteq All /\ q \in Queries \cup {0} /\ visited \in Seq(All)
  BY StageAt
<1>2. PICK p : p = t[x].parent
  OBVIOUS
<1>3. PICK l : l = SideOf(t, x)
  OBVIOUS
<1>4. PICK s : s = BlackSibling(t, p, l)
  OBVIOUS
<1>5. PICK w : w = Child(s, p, Other(l))
  OBVIOUS
<1>6. PICK s1 : s1 = t'
  OBVIOUS
<1>7. PICK s2 : s2 = RedFarNephew(s, p, l)
  OBVIOUS
<1>8. /\ pc = "DeleteFix" /\ ~ t[x].red /\ x # root
      /\ IF ~ s[s[w].left].red /\ ~ s[s[w].right].red
         THEN s1 = Redden(s, w) /\ x' = p
         ELSE s1 = Level(s2, p, l) /\ x' = root
      /\ UNCHANGED <<pc, y, z, root, q, live, visited>>
  BY <1>2, <1>3, <1>4, <1>5, <1>6, <1>7 DEF DeleteFix, Sibling, Redden
<1>9. Deleting(T)
  BY <1>1, <1>8 DEF Stage
<1>10. PICK K : K = Spliced(y, z)
  OBVIOUS
<1>11. Out(T) /\ Grown(t, T, K) /\ Short(t, T, x, p, l, root)
  BY <1>2, <1>3, <1>8, <1>9, <1>10 DEF Deleting, Out
<1>12. x \notin Red(t) /\ l \in Sides
  BY <1>3, <1>8 DEF Red, SideOf, Sides
<1>13. Deficient(t, T, K, x, p, l) /\ root = t[Top].left /\ root \in T /\ root \notin Red(t)
  BY <1>11, <1>12, Deficits
<1>14. Deficient(s, T, K, x, p, l) /\ w \notin Red(s) /\ RootIs(s, T, p, root)
  BY <1>4, <1>5, <1>13, DeleteFirst
<1>15. PICK bh : Even(s, T, bh, p, l)
  BY <1>14 DEF Deficient, Balanced
<1>16. w \in T
  BY <1>5, <1>14, <1>15, Siblings
<1>17. Grown(s, T, K) /\ p \in T
  BY <1>14 DEF Deficient
<1>18. s[w].left \in All /\ s[w].right \in All
  BY <1>16, <1>17, GrownFacts, RecFields
<1>19. (\A d \in Sides : Child(s, w, d) \notin Red(s)) <=> ~ s[s[w].left].red /\ ~ s[s[w].right].red
  <2>1. s[w].left \in Red(s) <=> s[s[w].left].red
    BY <1>18 DEF Red
  <2>2. s[w].right \in Red(s) <=> s[s[w].right].red
    BY <1>18 DEF Red
  <2> QED
    BY <2>1, <2>2, ChildSides
<1>20. Grown(s1, T, K) /\ x' \in T /\ IF x' # root \/ x' \in Red(s1)
                                      THEN Short(s1, T, x', s1[x'].parent, SideOf(s1, x'), root)
                                      ELSE Balanced(s1, T, Top, "left", {}, {})
  <2>1. CASE \A d \in Sides : Child(s, w, d) \notin Red(s)
    <3>1. s1 = Redden(s, w) /\ x' = p
      BY <1>8, <1>19, <2>1
    <3>2. /\ Grown(s1, T, K) /\ Balanced(s1, T, s1[p].parent, SideOf(s1, p), {p}, {p})
          /\ (p \in Red(s1) <=> p \in Red(s)) /\ s1[Top].left = s[Top].left
      <4>1. Raised(s, s1, T, K, p, root)
        BY <1>5, <1>14, <2>1, <3>1, DeleteClimb
      <4> QED
        BY <4>1 DEF Raised
    <3>3. p \notin Red(s1) => root = s1[Top].left
      BY <1>14, <3>2 DEF RootIs
    <3>4. IF p # root \/ p \in Red(s1) THEN Short(s1, T, p, s1[p].parent, SideOf(s1, p), root)
          ELSE Balanced(s1, T, Top, "left", {}, {})
      BY <1>17, <3>2, <3>3, Climbed
    <3> QED
      BY <1>17, <3>1, <3>2, <3>4
  <2>2. CASE ~ \A d \in Sides : Child(s, w, d) \notin Red(s)
    <3>1. s1 = Level(s2, p, l) /\ x' = root
      BY <1>8, <1>19, <2>2
    <3>2. Grown(s1, T, K) /\ Balanced(s1, T, Top, "left", {}, {}) /\ root \notin Red(s1)
      BY <1>5, <1>7, <1>14, <2>2, <3>1, DeleteEnds
    <3> QED
      BY <1>13, <3>1, <3>2
  <2> QED
    BY <2>1, <2>2
<1>21. Deleting(T)'
  <2>1. Out(T)'
    BY <1>6, <1>8, <1>10, <1>11, <1>20 DEF Out
  <2> QED
    BY <1>6, <1>8, <1>20, <2>1 DEF Deleting
<1>22. Stage(T)'
  BY <1>8, <1>21 DEF Stage
<1>23. TypeOK'
  <2>1. t' \in Heap /\ x' \in All
    BY <1>6, <1>20, GrownFacts
  <2> QED
    BY <1>1, <1>8, <2>1, StageType
<1> QED
  BY <1>22, <1>23 DEF IInv

LEMMA DeleteFixDoneStep == ASSUME IInv, DeleteFixDone PROVE IInv'
<1>1. PICK T : /\ Stage(T) /\ t \in Heap /\ T \subseteq Nodes /\ live \subseteq Nodes
               /\ {x, y, z, root} \subseteq All /\ q \in Queries \cup {0} /\ visited \in Seq(All)
  BY StageAt
<1>2. PICK s1 : s1 = t'
  OBVIOUS
<1>3. /\ pc = "DeleteFix" /\ (t[x].red \/ x = root) /\ s1 = Blacken(t, x) /\ pc' = "Free"
      /\ UNCHANGED <<x, y, z, root, q, live, visited>>
  BY <1>2 DEF DeleteFixDone, Blacken, locals
<1>4. Deleting(T)
  BY <1>1, <1>3 DEF Stage
<1>5. PICK K : K = Spliced(y, z)
  OBVIOUS
<1>6. Out(T) /\ Grown(t, T, K)
  BY <1>4, <1>5 DEF Deleting, Out
<1>7. Grown(s1, T, K) /\ Balanced(s1, T, Top, "left", {}, {})
  <2>1. CASE x \in Red(t)
    <3>1. Short(t, T, x, t[x].parent, SideOf(t, x), root)
      BY <1>4, <2>1 DEF Deleting
    <3>2. PICK p : p = t[x].parent
      OBVIOUS
    <3>3. PICK l : l = SideOf(t, x)
      OBVIOUS
    <3>4. Balanced(t, T, p, l, {x}, {x}) /\ p \in T \cup {Top} /\ Child(t, p, l) = x /\ l \in Sides
      BY <3>1, <3>2, <3>3 DEF Short, SideOf, Sides
    <3>5. x \in T \cup {Nil}
      BY <1>6, <3>4, GrownChild
    <3>6. x \in T
      BY <2>1, <3>4, <3>5 DEF Balanced, Reds
    <3> QED
      BY <1>3, <1>6, <2>1, <3>2, <3>3, <3>4, <3>6, BlackenLack
  <2>2. CASE x \notin Red(t)
    <3>1. ~ t[x].red /\ x \in All
      BY <1>1, <2>2 DEF Red
    <3>2. x = root
      BY <1>3, <3>1
    <3>3. Balanced(t, T, Top, "left", {}, {})
      BY <1>4, <2>2, <3>2 DEF Deleting
    <3>4. Grown(s1, T, K) /\ Red(s1) = Red(t) \ {x} /\ SameLinks(t, s1, All)
      BY <1>3, <1>6, <3>1, PaintsBlack
    <3>5. \A n \in All : n \in Red(s1) <=> n \in Red(t)
      BY <2>2, <3>4
    <3>6. \A n \in All : \A d : Child(s1, n, d) = Child(t, n, d)
      BY <3>4, SameChild
    <3>7. Joined(t, T) /\ T \subseteq All /\ Top \in All /\ Nil \in All
      BY <1>6, GrownFacts
    <3>8. Balanced(s1, T, Top, "left", {}, {})
      BY <3>3, <3>5, <3>6, <3>7, KeepBalanced
    <3> QED
      BY <3>4, <3>8
  <2> QED
    BY <2>1, <2>2
<1>8. Freeing(T)'
  <2>1. Out(T)'
    BY <1>2, <1>3, <1>5, <1>6, <1>7 DEF Out
  <2> QED
    BY <1>2, <1>7, <2>1 DEF Freeing
<1>9. Stage(T)'
  BY <1>3, <1>8 DEF Stage
<1>10. TypeOK'
  <2>1. t' \in Heap
    BY <1>2, <1>7, GrownFacts
  <2> QED
    BY <1>1, <1>3, <2>1, StageType
<1> QED
  BY <1>9, <1>10 DEF IInv

LEMMA FreeStep == ASSUME IInv, Free PROVE IInv'
<1>1. PICK T : /\ Stage(T) /\ t \in Heap /\ T \subseteq Nodes /\ live \subseteq Nodes
               /\ {x, y, z, root} \subseteq All /\ q \in Queries \cup {0} /\ visited \in Seq(All)
  BY StageAt
<1>2. PICK s1 : s1 = t'
  OBVIOUS
<1>3. /\ pc = "Free" /\ s1 = (IF y = z THEN Wiped(t, z) ELSE Transplant(t, y, z)) /\ live' = live \ {z}
      /\ pc' = "Idle" /\ x' = Nil /\ y' = Nil /\ z' = Nil /\ root' = Nil /\ q' = 0 /\ UNCHANGED visited
  BY <1>2 DEF Free, Return, Wiped, Transplant
<1>4. PICK K : K = Spliced(y, z)
  OBVIOUS
<1>5. /\ Grown(t, T, K) /\ y \in Nodes /\ y \notin T /\ live = T \cup {y} /\ z \in Nodes /\ (z # y => z \in T)
      /\ Balanced(t, T, Top, "left", {}, {})
  BY <1>1, <1>3, <1>4 DEF Stage, Freeing, Out
<1>6. /\ K.out = y /\ KeyOf \in K.keys /\ (y # z => [KeyOf EXCEPT ![z] = KeyOf[y]] \in K.keys)
  BY <1>4, <1>5, SplicedFacts
<1>7. PICK sub : Tree(t, T, sub) /\ \A key \in K.keys : Sorted(t, T, sub, key)
  BY <1>5 DEF Grown
<1>8. Loose(t, T, y)
  BY <1>5, <1>6 DEF Grown
<1>9. PICK U : U = live \ {z}
  OBVIOUS
<1>10. Grown(s1, U, Plain) /\ Balanced(s1, U, Top, "left", {}, {})
  <2>1. CASE y = z
    <3>1. U = T /\ s1 = Wiped(t, y) /\ y \in Nodes \ T
      BY <1>3, <1>5, <1>9, <2>1
    <3>2. Blanked(t, s1, T, sub, y)
      BY <1>7, <1>8, <3>1, Blanks
    <3>3. Grown(s1, T, Plain)
      BY <1>6, <1>7, <3>2, PlainTree DEF Blanked
    <3>4. Balanced(s1, T, Top, "left", {}, {})
      BY <1>5, <1>7, <1>8, <3>1, BlankBalanced
    <3> QED
      BY <3>1, <3>3, <3>4
  <2>2. CASE y # z
    <3>1. U = (T \ {z}) \cup {y} /\ s1 = Transplant(t, y, z) /\ y \in Nodes \ T /\ z \in T
      BY <1>3, <1>5, <1>9, <2>2
    <3>2. Moved(t, s1, T, y, z)
      BY <1>7, <3>1, Transplants
    <3>3. PICK k2 : k2 = [KeyOf EXCEPT ![z] = KeyOf[y]]
      OBVIOUS
    <3>4. Sorted(t, T, sub, k2)
      BY <1>6, <1>7, <2>2, <3>3
    <3>5. \A n \in T : KeyOf[Put(n, y, z)] = k2[n]
      BY <1>1, <3>3, KeyFacts DEF Put, Keys
    <3>6. Plain.keys \subseteq Keys /\ \A key \in Plain.keys : Sorted(t, T, sub, k2) /\ \A n \in T : key[Put(n, y, z)] = k2[n]
      BY <3>4, <3>5, KeyFacts
    <3>7. Grown(s1, U, Plain)
      BY <1>7, <1>8, <3>1, <3>2, <3>6, MovedGrown
    <3>8. Balanced(s1, U, Top, "left", {}, {})
      BY <1>5, <1>7, <3>1, <3>2, MovedBalanced DEF Tree
    <3> QED
      BY <3>7, <3>8
  <2> QED
    BY <2>1, <2>2
<1>11. AtRest(U)'
  BY <1>2, <1>3, <1>9, <1>10 DEF AtRest, Whole
<1>12. Stage(U)'
  BY <1>3, <1>11 DEF Stage
<1>13. TypeOK'
  <2>1. t' \in Heap /\ Nil \in All
    BY <1>2, <1>10, GrownFacts
  <2>2. live' \subseteq Nodes
    BY <1>1, <1>3
  <2> QED
    BY <1>1, <1>3, <2>1, <2>2, StageType
<1> QED
  BY <1>12, <1>13 DEF IInv

-----------------------------------------------------------------------------
(* The recursive walks of the tree.                                        *)

(* How far down a node goes: every child of an address is further down.    *)
Depth(T, sub) == [n \in All |-> IF n \in T THEN Cardinality(sub[n]) ELSE IF n = Nil THEN 0 ELSE Cardinality(T) + 1]

LEMMA Depths ==
  ASSUME NEW s, NEW T, NEW sub, Tree(s, T, sub), NEW o, Loose(s, T, o), NEW D, D = Depth(T, sub)
  PROVE  /\ Cardinality(T) + 1 \in Nat
         /\ \A n \in All : D[n] \in Nat /\ D[n] <= Cardinality(T) + 1
         /\ \A n \in All \ {Nil} : \A d \in Sides : Child(s, n, d) \in All /\ D[Child(s, n, d)] < D[n]
<1>1. /\ T \subseteq All /\ Nil \notin T /\ Top \notin T /\ Nil \in All /\ Top \in All /\ T \subseteq Nodes
      /\ Joined(s, T) /\ Top # Nil
  BY Alls DEF Tree, Joined
<1>2. PICK k : k = Cardinality(T)
  OBVIOUS
<1>3. IsFiniteSet(T) /\ k \in Nat
  BY <1>2, TreeLinks, FS_CardinalityType
<1>4. \A n \in T : n \in sub[n] /\ sub[n] \subseteq T
  BY TreeLinks
<1>5. ASSUME NEW n \in T
      PROVE  Cardinality(sub[n]) \in Nat /\ Cardinality(sub[n]) <= k /\ Cardinality(sub[n]) # 0
  <2>1. IsFiniteSet(sub[n]) /\ Cardinality(sub[n]) <= k
    BY <1>2, <1>3, <1>4, FS_Subset
  <2>2. Cardinality(sub[n]) # 0
    BY <1>4, <2>1, FS_EmptySet
  <2> QED
    BY <2>1, <2>2, FS_CardinalityType
<1>6. /\ \A n \in T : D[n] = Cardinality(sub[n])
      /\ D[Nil] = 0 /\ \A n \in All : n \notin T /\ n # Nil => D[n] = k + 1
  BY <1>1, <1>2 DEF Depth
<1>7. ASSUME NEW n \in All
      PROVE  D[n] \in Nat /\ D[n] <= k + 1
  <2>1. CASE n \in T
    BY <1>3, <1>5, <1>6, <2>1
  <2>2. CASE n \notin T
    BY <1>3, <1>6, <2>2
  <2> QED
    BY <2>1, <2>2
<1>8. ASSUME NEW n \in All, n # Nil, NEW d \in Sides
      PROVE  Child(s, n, d) \in All /\ D[Child(s, n, d)] < D[n]
  <2>1. PICK c : c = Child(s, n, d)
    OBVIOUS
  <2>2. c \in T \cup {Nil}
    <3>1. CASE n \in T \cup {Top}
      BY <1>1, <2>1, <3>1 DEF Joined
    <3>2. CASE n \notin T \cup {Top}
      BY <1>8, <2>1, <3>2 DEF Loose, All
    <3> QED
      BY <3>1, <3>2
  <2>3. CASE c = Nil
    <3>1. D[n] # 0 /\ D[n] \in Nat
      BY <1>3, <1>5, <1>6, <1>7, <1>8
    <3> QED
      BY <1>1, <1>6, <2>1, <2>3, <3>1
  <2>4. CASE c # Nil /\ n \in T
    <3>1. PICK rank : rank = [m \in T |-> Cardinality(sub[m])]
      OBVIOUS
    <3>2. PICK link : link = [m \in T |-> Links(s, m)]
      OBVIOUS
    <3>3. Descends(T, rank, link)
      BY <3>1, <3>2, TreeDescends
    <3>4. c \in link[n]
      BY <2>1, <2>4, <3>2 DEF Links
    <3>5. rank[c] < rank[n]
      BY <2>4, <3>3, <3>4 DEF Descends
    <3> QED
      BY <1>1, <1>6, <2>1, <2>2, <2>4, <3>1, <3>5
  <2>5. CASE c # Nil /\ n \notin T
    <3>1. c \in T /\ D[n] = k + 1 /\ D[c] = Cardinality(sub[c])
      BY <1>6, <1>8, <2>2, <2>5
    <3>2. D[c] \in Nat /\ D[c] <= k
      BY <1>5, <3>1
    <3> QED
      BY <1>1, <1>3, <2>1, <3>1, <3>2
  <2> QED
    BY <2>3, <2>4, <2>5
<1> QED
  BY <1>2, <1>3, <1>7, <1>8

(* What Reached walks: all that is below a node.                           *)
ReachBody(s, g) == [n \in All |-> IF n = Nil THEN {} ELSE {n} \cup g[s[n].left] \cup g[s[n].right]]

LEMMA ReachExists ==
  ASSUME NEW s, NEW T, NEW sub, Tree(s, T, sub), NEW o, Loose(s, T, o)
  PROVE  \E g : g = ReachBody(s, g)
<1>1. PICK D : D = Depth(T, sub)
  OBVIOUS
<1>2. PICK k : k = Cardinality(T) + 1
  OBVIOUS
<1>3. /\ k \in Nat /\ \A n \in All : D[n] \in Nat /\ D[n] <= k
      /\ \A n \in All \ {Nil} : \A d \in Sides : Child(s, n, d) \in All /\ D[Child(s, n, d)] < D[n]
  BY <1>1, <1>2, Depths
<1>4. \A n \in All \ {Nil} : s[n].left \in All /\ s[n].right \in All /\ D[s[n].left] < D[n] /\ D[s[n].right] < D[n]
  BY <1>3, ChildSides
<1>5. PICK V : V = SUBSET All
  OBVIOUS
<1>6. PICK F : F = [g \in [All -> V] |-> ReachBody(s, g)]
  OBVIOUS
<1>7. ASSUME NEW g \in [All -> V]
      PROVE  F[g] \in [All -> V] /\ \A n \in All : F[g][n] = IF n = Nil THEN {} ELSE {n} \cup g[s[n].left] \cup g[s[n].right]
  <2>1. F[g] = [n \in All |-> IF n = Nil THEN {} ELSE {n} \cup g[s[n].left] \cup g[s[n].right]]
    BY <1>6 DEF ReachBody
  <2>2. \A n \in All : (IF n = Nil THEN {} ELSE {n} \cup g[s[n].left] \cup g[s[n].right]) \in V
    BY <1>4, <1>5
  <2> QED
    BY <2>1, <2>2
<1>8. Recursion(All, V, D, F)
  <2>1. F \in [[All -> V] -> [All -> V]]
    BY <1>6, <1>7
  <2>2. ASSUME NEW g \in [All -> V], NEW h \in [All -> V], NEW m \in All, \A c \in All : D[c] < D[m] => g[c] = h[c]
        PROVE  F[g][m] = F[h][m]
    <3>1. /\ F[g][m] = IF m = Nil THEN {} ELSE {m} \cup g[s[m].left] \cup g[s[m].right]
          /\ F[h][m] = IF m = Nil THEN {} ELSE {m} \cup h[s[m].left] \cup h[s[m].right]
      BY <1>7
    <3>2. m # Nil => g[s[m].left] = h[s[m].left] /\ g[s[m].right] = h[s[m].right]
      BY <1>4, <2>2
    <3> QED
      BY <3>1, <3>2
  <2> QED
    BY <2>1, <2>2 DEF Recursion
<1>9. {} \in V
  BY <1>5
<1>10. RankedTo(All, D, k)
  BY <1>3 DEF RankedTo
<1>11. PICK g \in [All -> V] : g = F[g]
  BY <1>8, <1>9, <1>10, RecursionExists
<1> QED
  BY <1>6, <1>11

LEMMA ReachIs ==
  ASSUME NEW s, NEW T, NEW sub, Tree(s, T, sub), NEW g, g = ReachBody(s, g)
  PROVE  g[s[Top].left] = T
<1>1. /\ T \subseteq All /\ Nil \notin T /\ Nil \in All /\ Joined(s, T)
  BY Alls DEF Tree, Joined
<1>2. \A n \in All : g[n] = IF n = Nil THEN {} ELSE {n} \cup g[s[n].left] \cup g[s[n].right]
  BY DEF ReachBody
<1>3. PICK S : S = {n \in T : g[n] = sub[n]}
  OBVIOUS
<1>4. \A n \in T : /\ sub[n] = {n} \cup sub[Child(s, n, "left")] \cup sub[Child(s, n, "right")]
  BY TreeLinks, ChildSides
<1>5. sub[Nil] = {} /\ sub[s[Top].left] = T
  BY TreeLinks
<1>6. ASSUME NEW n \in T, \A d \in Sides : Child(s, n, d) = Nil \/ Child(s, n, d) \in S
      PROVE  n \in S
  <2>1. ASSUME NEW d \in Sides
        PROVE  g[Child(s, n, d)] = sub[Child(s, n, d)]
    <3>1. CASE Child(s, n, d) = Nil
      BY <1>1, <1>2, <1>5, <3>1
    <3>2. CASE Child(s, n, d) # Nil
      BY <1>3, <1>6, <3>2
    <3> QED
      BY <3>1, <3>2
  <2>2. g[n] = {n} \cup g[Child(s, n, "left")] \cup g[Child(s, n, "right")]
    <3>1. n \in All /\ n # Nil
      BY <1>1
    <3>2. g[n] = {n} \cup g[s[n].left] \cup g[s[n].right]
      BY <1>2, <3>1
    <3> QED
      BY <3>2, ChildSides
  <2>3. g[n] = sub[n]
    BY <1>4, <2>1, <2>2, ChildSides
  <2> QED
    BY <1>3, <2>3
<1>7. T \subseteq S
  BY <1>6, TreeInduct
<1>8. s[Top].left \in T \cup {Nil}
  BY <1>1, TopKin
<1> QED
  BY <1>1, <1>2, <1>3, <1>5, <1>7, <1>8

LEMMA ReachedIs ==
  ASSUME NEW T, NEW sub, Tree(t, T, sub), NEW o, Loose(t, T, o)
  PROVE  Reached = T
<1> DEFINE G == CHOOSE g : g = ReachBody(t, g)
<1>1. Reached = G[t[Top].left]
  BY DEF Reached, ReachBody
<1>2. G = ReachBody(t, G)
  BY ReachExists
<1> HIDE DEF G
<1>3. PICK g : g = G
  OBVIOUS
<1>4. g = ReachBody(t, g)
  BY <1>2, <1>3
<1> QED
  BY <1>1, <1>3, <1>4, ReachIs

(* What TreeForEach visits: the nodes below one, in the order of the keys. *)
Listed(w, S, key) ==
  /\ w \in Seq(S) /\ Len(w) = Cardinality(S)
  /\ \A m \in S : \E i \in 1 .. Len(w) : w[i] = m
  /\ \A i, j \in 1 .. Len(w) : i < j => key[w[i]] <= key[w[j]]

LEMMA ListedNone ==
  ASSUME NEW key
  PROVE  Listed(<<>>, {}, key)
<1>1. PICK w : w = <<>>
  OBVIOUS
<1>2. w \in Seq({}) /\ Len(w) = 0
  BY <1>1
<1>3. Cardinality({}) = 0
  BY FS_EmptySet
<1>4. Listed(w, {}, key)
  BY <1>2, <1>3 DEF Listed
<1> QED
  BY <1>1, <1>4

(* The middle of w is n: before it is a, after it b.                       *)
Joins(w, a, n, b) ==
  /\ Len(w) = Len(a) + 1 + Len(b)
  /\ \A i \in 1 .. Len(a) : w[i] = a[i]
  /\ w[Len(a) + 1] = n
  /\ \A i \in 1 .. Len(b) : w[Len(a) + 1 + i] = b[i]

LEMMA ConcatJoins ==
  ASSUME NEW S, NEW a \in Seq(S), NEW b \in Seq(S), NEW n \in S
  PROVE  a \o <<n>> \o b \in Seq(S) /\ Joins(a \o <<n>> \o b, a, n, b)
<1>1. PICK u : u = a \o <<n>>
  OBVIOUS
<1>2. PICK w : w = u \o b
  OBVIOUS
<1>3. Len(a) \in Nat /\ Len(b) \in Nat
  OBVIOUS
<1>4. u \in Seq(S) /\ Len(u) = Len(a) + 1
  BY <1>1
<1>5. (\A i \in 1 .. Len(a) : u[i] = a[i]) /\ u[Len(a) + 1] = n
  <2>1. \A i \in 1 .. Len(a) : u[i] = a[i]
    BY <1>1, <1>3, <1>4
  <2>2. PICK c : c = <<n>>
    OBVIOUS
  <2>3. c \in Seq(S) /\ Len(c) = 1 /\ c[1] = n
    BY <2>2
  <2>4. u = a \o c
    BY <1>1, <2>2
  <2>5. u[Len(a) + 1] = c[1]
    BY <1>3, <1>4, <2>3, <2>4
  <2> QED
    BY <2>1, <2>3, <2>5
<1>6. w \in Seq(S) /\ Len(w) = Len(u) + Len(b)
  <2>1. u \in Seq(S)
    BY <1>4
  <2>2. w \in Seq(S)
    BY <1>2, <2>1
  <2>3. Len(w) = Len(u) + Len(b)
    BY <1>2, <2>1
  <2> QED
    BY <2>2, <2>3
<1>7. \A i \in 1 .. Len(u) : w[i] = u[i]
  BY <1>2, <1>3, <1>4
<1>8. \A i \in 1 .. Len(b) : w[Len(u) + i] = b[i]
  BY <1>2, <1>3, <1>4
<1>9. Len(w) = Len(a) + 1 + Len(b)
  BY <1>3, <1>4, <1>6
<1>10. \A i \in 1 .. Len(a) : w[i] = a[i]
  <2>1. \A i \in 1 .. Len(a) : i \in 1 .. Len(u)
    BY <1>3, <1>4
  <2> QED
    BY <1>5, <1>7, <2>1
<1>11. w[Len(a) + 1] = n
  <2>1. Len(a) + 1 \in 1 .. Len(u)
    BY <1>3, <1>4
  <2> QED
    BY <1>5, <1>7, <2>1
<1>12. \A i \in 1 .. Len(b) : w[Len(a) + 1 + i] = b[i]
  BY <1>4, <1>8
<1>13. Joins(w, a, n, b)
  BY <1>9, <1>10, <1>11, <1>12 DEF Joins
<1> QED
  BY <1>1, <1>2, <1>6, <1>13

(* Where an element of w comes from.                                       *)
Parts(w, a, n, b, k, l) ==
  /\ Len(w) = k + 1 + l /\ w[k + 1] = n /\ k + 1 \in 1 .. Len(w)
  /\ \A i \in 1 .. k : w[i] = a[i] /\ i \in 1 .. Len(w)
  /\ \A i \in 1 .. l : w[k + 1 + i] = b[i] /\ k + 1 + i \in 1 .. Len(w)
  /\ \A i \in 1 .. Len(w) : \/ i \in 1 .. k
                            \/ i = k + 1
                            \/ i > k + 1 /\ i - k - 1 \in 1 .. l /\ w[i] = b[i - k - 1]

LEMMA JoinsAt ==
  ASSUME NEW w, NEW a, NEW n, NEW b, Joins(w, a, n, b), NEW k \in Nat, k = Len(a), NEW l \in Nat, l = Len(b)
  PROVE  Parts(w, a, n, b, k, l)
<1>1. Len(w) = k + 1 + l /\ w[k + 1] = n
  BY DEF Joins
<1>2. k + 1 \in 1 .. Len(w) /\ (\A i \in 1 .. k : i \in 1 .. Len(w)) /\ (\A i \in 1 .. l : k + 1 + i \in 1 .. Len(w))
  BY <1>1
<1>3. (\A i \in 1 .. k : w[i] = a[i]) /\ \A i \in 1 .. l : w[k + 1 + i] = b[i]
  BY DEF Joins
<1>4. ASSUME NEW i \in 1 .. Len(w), i \notin 1 .. k, i # k + 1
      PROVE  i > k + 1 /\ i - k - 1 \in 1 .. l /\ w[i] = b[i - k - 1]
  <2>1. i > k + 1 /\ i - k - 1 \in 1 .. l /\ k + 1 + (i - k - 1) = i
    BY <1>1, <1>4
  <2> QED
    BY <1>3, <2>1
<1> QED
  BY <1>1, <1>2, <1>3, <1>4 DEF Parts

LEMMA ListedOrder ==
  ASSUME NEW A, NEW B, NEW n, NEW key, \A m \in A \cup B \cup {n} : key[m] \in Int,
         NEW a, Listed(a, A, key), NEW b, Listed(b, B, key),
         \A m \in A : key[m] <= key[n], \A m \in B : key[n] <= key[m],
         NEW w, Joins(w, a, n, b), NEW i \in 1 .. Len(w), NEW j \in 1 .. Len(w), i < j
  PROVE  key[w[i]] <= key[w[j]]
<1>1. PICK k : k = Len(a)
  OBVIOUS
<1>2. PICK l : l = Len(b)
  OBVIOUS
<1>3. a \in Seq(A) /\ b \in Seq(B) /\ k \in Nat /\ l \in Nat
  BY <1>1, <1>2 DEF Listed
<1>4. (\A i1 \in 1 .. k : a[i1] \in A) /\ \A i1 \in 1 .. l : b[i1] \in B
  BY <1>1, <1>2, <1>3
<1>5. /\ \A i1, j1 \in 1 .. k : i1 < j1 => key[a[i1]] <= key[a[j1]]
      /\ \A i1, j1 \in 1 .. l : i1 < j1 => key[b[i1]] <= key[b[j1]]
  BY <1>1, <1>2 DEF Listed
<1>6. /\ Len(w) = k + 1 + l /\ w[k + 1] = n
      /\ \A i1 \in 1 .. k : w[i1] = a[i1]
      /\ \A i1 \in 1 .. Len(w) : \/ i1 \in 1 .. k
                                 \/ i1 = k + 1
                                 \/ i1 > k + 1 /\ i1 - k - 1 \in 1 .. l /\ w[i1] = b[i1 - k - 1]
  <2>1. Parts(w, a, n, b, k, l)
    BY <1>1, <1>2, <1>3, JoinsAt
  <2> QED
    BY <2>1 DEF Parts
<1>7. CASE j \in 1 .. k
  <2>1. i \in 1 .. k
    BY <1>3, <1>6, <1>7
  <2> QED
    BY <1>5, <1>6, <1>7, <2>1
<1>8. CASE j = k + 1
  <2>1. i \in 1 .. k
    BY <1>3, <1>6, <1>8
  <2> QED
    BY <1>4, <1>6, <1>8, <2>1
<1>9. CASE j > k + 1 /\ j - k - 1 \in 1 .. l /\ w[j] = b[j - k - 1]
  <2>1. CASE i \in 1 .. k
    <3>1. PICK ki \in Int : ki = key[w[i]] /\ ki <= key[n]
      BY <1>4, <1>6, <2>1
    <3>2. PICK kj \in Int : kj = key[w[j]] /\ key[n] <= kj
      BY <1>4, <1>9
    <3>3. PICK kn \in Int : kn = key[n]
      OBVIOUS
    <3>4. ki <= kn /\ kn <= kj
      BY <3>1, <3>2, <3>3
    <3>5. ki <= kj
      BY <3>4
    <3> QED
      BY <3>1, <3>2, <3>5
  <2>2. CASE i = k + 1
    BY <1>4, <1>6, <1>9, <2>2
  <2>3. CASE i > k + 1 /\ i - k - 1 \in 1 .. l /\ w[i] = b[i - k - 1]
    <3>1. i - k - 1 < j - k - 1
      BY <1>3, <1>6, <1>9, <2>3
    <3>2. key[b[i - k - 1]] <= key[b[j - k - 1]]
      BY <1>5, <1>9, <2>3, <3>1
    <3> QED
      BY <1>9, <2>3, <3>2
  <2> QED
    BY <1>6, <2>1, <2>2, <2>3
<1> QED
  BY <1>6, <1>7, <1>8, <1>9

LEMMA ListedJoin ==
  ASSUME NEW A, NEW B, NEW n, IsFiniteSet(A), IsFiniteSet(B), A \cap B = {}, n \notin A, n \notin B,
         NEW key, \A m \in A \cup B \cup {n} : key[m] \in Int,
         NEW a, Listed(a, A, key), NEW b, Listed(b, B, key),
         \A m \in A : key[m] <= key[n], \A m \in B : key[n] <= key[m]
  PROVE  Listed(a \o <<n>> \o b, {n} \cup A \cup B, key)
<1>1. PICK k : k = Len(a)
  OBVIOUS
<1>2. PICK l : l = Len(b)
  OBVIOUS
<1>3. PICK S : S = {n} \cup A \cup B
  OBVIOUS
<1>4. PICK w : w = a \o <<n>> \o b
  OBVIOUS
<1>5. a \in Seq(A) /\ b \in Seq(B) /\ k = Cardinality(A) /\ l = Cardinality(B)
  <2>1. a \in Seq(A) /\ Len(a) = Cardinality(A)
    BY DEF Listed
  <2>2. b \in Seq(B) /\ Len(b) = Cardinality(B)
    BY DEF Listed
  <2> QED
    BY <1>1, <1>2, <2>1, <2>2
<1>6. k \in Nat /\ l \in Nat
  <2>1. k \in Nat
    BY <1>5, FS_CardinalityType
  <2>2. l \in Nat
    BY <1>5, FS_CardinalityType
  <2> QED
    BY <2>1, <2>2
<1>7. w \in Seq(S) /\ Joins(w, a, n, b)
  <2>1. A \subseteq S /\ B \subseteq S /\ n \in S
    BY <1>3
  <2>2. a \in Seq(S)
    BY <1>5, <2>1
  <2>3. b \in Seq(S)
    BY <1>5, <2>1
  <2> QED
    BY <1>4, <2>1, <2>2, <2>3, ConcatJoins
<1>8. /\ Len(w) = k + 1 + l /\ w[k + 1] = n /\ k + 1 \in 1 .. Len(w)
      /\ \A i \in 1 .. k : w[i] = a[i] /\ i \in 1 .. Len(w)
      /\ \A i \in 1 .. l : w[k + 1 + i] = b[i] /\ k + 1 + i \in 1 .. Len(w)
  <2>1. Parts(w, a, n, b, k, l)
    BY <1>1, <1>2, <1>6, <1>7, JoinsAt
  <2> QED
    BY <2>1 DEF Parts
<1>9. (\A m \in A : \E i \in 1 .. k : a[i] = m) /\ \A m \in B : \E i \in 1 .. l : b[i] = m
  BY <1>1, <1>2 DEF Listed
<1>10. Len(w) = Cardinality(S)
  <2>1. Cardinality({}) = 0
    BY FS_EmptySet
  <2>2. PICK U : U = A \cup B
    OBVIOUS
  <2>3. IsFiniteSet(U)
    BY <2>2, FS_Union
  <2>4. Cardinality(U) = Cardinality(A) + Cardinality(B) - Cardinality(A \cap B)
    BY <2>2, FS_Union
  <2>5. Cardinality(U) = k + l
    <3>1. Cardinality(A \cap B) = 0
      BY <2>1
    <3> HIDE <2>1
    <3> QED
      BY <1>5, <1>6, <2>4, <3>1
  <2>6. Cardinality(U \cup {n}) = IF n \in U THEN Cardinality(U) ELSE Cardinality(U) + 1
    BY <2>3, FS_AddElement
  <2>7. n \notin U /\ S = U \cup {n}
    BY <1>3, <2>2
  <2>8. Cardinality(S) = Cardinality(U) + 1
    BY <2>6, <2>7
  <2> QED
    BY <1>6, <1>8, <2>5, <2>8
<1>11. ASSUME NEW m \in S
       PROVE  \E i \in 1 .. Len(w) : w[i] = m
  <2>1. CASE m = n
    BY <1>8, <2>1
  <2>2. CASE m \in A
    BY <1>8, <1>9, <2>2
  <2>3. CASE m \in B
    <3>1. PICK i \in 1 .. l : b[i] = m
      BY <1>9, <2>3
    <3>2. w[k + 1 + i] = m /\ k + 1 + i \in 1 .. Len(w)
      BY <1>8, <3>1
    <3> QED
      BY <3>2
  <2> QED
    BY <1>3, <2>1, <2>2, <2>3
<1>12. \A i, j \in 1 .. Len(w) : i < j => key[w[i]] <= key[w[j]]
  BY <1>7, ListedOrder
<1>13. Listed(w, S, key)
  BY <1>7, <1>10, <1>11, <1>12 DEF Listed
<1> QED
  BY <1>3, <1>4, <1>13

(* The walk of InOrder.                                                    *)
OrderBody(s, g) ==
  [n \in All |-> (IF s[n].left # Nil THEN g[s[n].left] ELSE <<>>)
                 \o <<n>>
                 \o (IF s[n].right # Nil THEN g[s[n].right] ELSE <<>>)]

LEMMA OrderExists ==
  ASSUME NEW s, NEW T, NEW sub, Tree(s, T, sub), NEW o, Loose(s, T, o)
  PROVE  \E g \in [All -> Seq(All)] : g = OrderBody(s, g)
<1>1. PICK D : D = Depth(T, sub)
  OBVIOUS
<1>2. PICK k : k = Cardinality(T) + 1
  OBVIOUS
<1>3. /\ k \in Nat /\ \A n \in All : D[n] \in Nat /\ D[n] <= k
      /\ \A n \in All \ {Nil} : \A d \in Sides : Child(s, n, d) \in All /\ D[Child(s, n, d)] < D[n]
  BY <1>1, <1>2, Depths
<1>4. \A n \in All \ {Nil} : s[n].left \in All /\ s[n].right \in All /\ D[s[n].left] < D[n] /\ D[s[n].right] < D[n]
  BY <1>3, ChildSides
<1>5. s[Nil].left = Nil /\ s[Nil].right = Nil
  BY DEF Tree, Joined
<1>6. \A n \in All : /\ s[n].left # Nil => s[n].left \in All /\ D[s[n].left] < D[n]
                     /\ s[n].right # Nil => s[n].right \in All /\ D[s[n].right] < D[n]
  BY <1>4, <1>5
<1>7. PICK V : V = Seq(All)
  OBVIOUS
<1>8. PICK F : F = [g \in [All -> V] |-> OrderBody(s, g)]
  OBVIOUS
<1> DEFINE L(g, n) == IF s[n].left # Nil THEN g[s[n].left] ELSE <<>>
           R(g, n) == IF s[n].right # Nil THEN g[s[n].right] ELSE <<>>
<1>9. ASSUME NEW g \in [All -> V]
      PROVE  F[g] \in [All -> V] /\ \A n \in All : F[g][n] = L(g, n) \o <<n>> \o R(g, n)
  <2>1. F[g] = [n \in All |-> L(g, n) \o <<n>> \o R(g, n)]
    BY <1>8 DEF OrderBody
  <2>2. \A n \in All : L(g, n) \in Seq(All) /\ R(g, n) \in Seq(All)
    BY <1>6, <1>7
  <2> HIDE DEF L, R
  <2>3. \A n \in All : L(g, n) \o <<n>> \o R(g, n) \in V
    BY <1>7, <2>2, ConcatJoins
  <2> QED
    BY <2>1, <2>3
<1>10. Recursion(All, V, D, F)
  <2>1. F \in [[All -> V] -> [All -> V]]
    BY <1>8, <1>9
  <2>2. ASSUME NEW g \in [All -> V], NEW h \in [All -> V], NEW m \in All, \A c \in All : D[c] < D[m] => g[c] = h[c]
        PROVE  F[g][m] = F[h][m]
    <3>1. L(g, m) = L(h, m) /\ R(g, m) = R(h, m)
      BY <1>6, <2>2
    <3> HIDE DEF L, R
    <3>2. F[g][m] = L(g, m) \o <<m>> \o R(g, m) /\ F[h][m] = L(h, m) \o <<m>> \o R(h, m)
      BY <1>9
    <3> QED
      BY <3>1, <3>2
  <2> QED
    BY <2>1, <2>2 DEF Recursion
<1>11. PICK v : v = <<>>
  OBVIOUS
<1>12. v \in V
  BY <1>7, <1>11
<1>13. RankedTo(All, D, k)
  BY <1>3 DEF RankedTo
<1>14. PICK g \in [All -> V] : g = F[g]
  <2> HIDE DEF L, R
  <2> QED
    BY <1>10, <1>12, <1>13, RecursionExists
<1> QED
  BY <1>7, <1>8, <1>14

LEMMA OrderIs ==
  ASSUME NEW s, NEW T, NEW sub, Tree(s, T, sub), Sorted(s, T, sub, KeyOf), NEW g, g = OrderBody(s, g)
  PROVE  /\ T # {} => Listed(g[s[Top].left], T, KeyOf)
         /\ T = {} => g[s[Top].left] = <<Nil>>
<1>1. /\ T \subseteq All /\ Nil \notin T /\ Nil \in All /\ Joined(s, T) /\ T \subseteq Nodes /\ Top \in All
  BY Alls DEF Tree, Joined
<1> DEFINE L(n) == IF s[n].left # Nil THEN g[s[n].left] ELSE <<>>
           R(n) == IF s[n].right # Nil THEN g[s[n].right] ELSE <<>>
<1>2. \A n \in All : g[n] = L(n) \o <<n>> \o R(n)
  BY DEF OrderBody
<1>3. PICK S : S = {n \in T : Listed(g[n], sub[n], KeyOf)}
  OBVIOUS
<1>4. /\ \A n \in T : /\ sub[n] = {n} \cup sub[s[n].left] \cup sub[s[n].right] /\ sub[n] \subseteq T /\ n \in sub[n]
                      /\ n \notin sub[s[n].left] /\ n \notin sub[s[n].right]
                      /\ sub[s[n].left] \cap sub[s[n].right] = {}
      /\ IsFiniteSet(T) /\ sub[Nil] = {} /\ sub[s[Top].left] = T
  BY TreeLinks
<1>5. \A n \in T : (\A m \in sub[s[n].left] : KeyOf[m] <= KeyOf[n]) /\ \A m \in sub[s[n].right] : KeyOf[n] <= KeyOf[m]
  BY ChildSides DEF Sorted, Before
<1>6. ASSUME NEW n \in T, \A d \in Sides : Child(s, n, d) = Nil \/ Child(s, n, d) \in S
      PROVE  n \in S
  <2>1. Listed(L(n), sub[s[n].left], KeyOf)
    <3>1. CASE s[n].left = Nil
      <4>1. L(n) = <<>> /\ sub[s[n].left] = {}
        BY <1>4, <3>1
      <4> HIDE DEF L, R
      <4>2. PICK e : e = <<>>
        OBVIOUS
      <4>3. Listed(e, {}, KeyOf)
        BY <4>2, ListedNone
      <4> QED
        BY <4>1, <4>2, <4>3
    <3>2. CASE s[n].left # Nil
      BY <1>3, <1>6, <3>2, ChildSides
    <3> QED
      BY <3>1, <3>2
  <2>2. Listed(R(n), sub[s[n].right], KeyOf)
    <3>1. CASE s[n].right = Nil
      <4>1. R(n) = <<>> /\ sub[s[n].right] = {}
        BY <1>4, <3>1
      <4> HIDE DEF L, R
      <4>2. PICK e : e = <<>>
        OBVIOUS
      <4>3. Listed(e, {}, KeyOf)
        BY <4>2, ListedNone
      <4> QED
        BY <4>1, <4>2, <4>3
    <3>2. CASE s[n].right # Nil
      BY <1>3, <1>6, <3>2, ChildSides
    <3> QED
      BY <3>1, <3>2
  <2>3. g[n] = L(n) \o <<n>> \o R(n)
    BY <1>1, <1>2
  <2> HIDE DEF L, R
  <2>4. PICK A : A = sub[s[n].left]
    OBVIOUS
  <2>5. PICK B : B = sub[s[n].right]
    OBVIOUS
  <2>6. sub[n] = {n} \cup A \cup B /\ n \notin A /\ n \notin B /\ A \cap B = {}
    BY <1>4, <2>4, <2>5
  <2>7. A \subseteq T /\ B \subseteq T
    BY <1>4, <2>6
  <2>8. IsFiniteSet(A) /\ IsFiniteSet(B)
    BY <1>4, <2>7, FS_Subset
  <2>9. \A m \in A \cup B \cup {n} : KeyOf[m] \in Int
    BY <1>1, <2>7, RBAssumption
  <2>10. (\A m \in A : KeyOf[m] <= KeyOf[n]) /\ \A m \in B : KeyOf[n] <= KeyOf[m]
    BY <1>5, <2>4, <2>5
  <2>11. Listed(L(n) \o <<n>> \o R(n), {n} \cup A \cup B, KeyOf)
    BY <2>1, <2>2, <2>4, <2>5, <2>6, <2>8, <2>9, <2>10, ListedJoin
  <2> QED
    BY <1>3, <2>3, <2>6, <2>11
<1>7. T \subseteq S
  BY <1>6, TreeInduct
<1>8. s[Top].left \in T \cup {Nil}
  BY <1>1, TopKin
<1>9. CASE s[Top].left \in T
  <2>1. T # {} /\ Listed(g[s[Top].left], T, KeyOf)
    BY <1>3, <1>4, <1>7, <1>9
  <2> QED
    BY <2>1
<1>10. CASE s[Top].left = Nil
  <2>1. T = {}
    BY <1>4, <1>10
  <2>2. L(Nil) = <<>> /\ R(Nil) = <<>>
    BY DEF Tree, Joined
  <2>3. g[Nil] = <<>> \o <<Nil>> \o <<>>
    BY <1>1, <1>2, <2>2
  <2>4. <<>> \o <<Nil>> \o <<>> = <<Nil>>
    OBVIOUS
  <2> QED
    BY <1>10, <2>1, <2>3, <2>4
<1> QED
  BY <1>8, <1>9, <1>10

LEMMA InOrderIs ==
  ASSUME NEW T, NEW sub, Tree(t, T, sub), Sorted(t, T, sub, KeyOf), NEW o, Loose(t, T, o)
  PROVE  /\ InOrder(t) \in Seq(All)
         /\ T # {} => Listed(InOrder(t), T, KeyOf)
<1> DEFINE G == CHOOSE g : g = OrderBody(t, g)
<1>1. InOrder(t) = G[t[Top].left]
  BY DEF InOrder, OrderBody
<1>2. G = OrderBody(t, G)
  BY OrderExists
<1> HIDE DEF G
<1>3. PICK g : g = G
  OBVIOUS
<1>4. g = OrderBody(t, g)
  BY <1>2, <1>3
<1>5. PICK w : w = InOrder(t)
  OBVIOUS
<1>6. w = g[t[Top].left]
  BY <1>1, <1>3, <1>5
<1>7. (T # {} => Listed(w, T, KeyOf)) /\ (T = {} => w = <<Nil>>)
  BY <1>4, <1>6, OrderIs
<1>8. w \in Seq(All)
  <2>1. T \subseteq All /\ Nil \in All
    BY Alls DEF Tree, Joined
  <2>2. CASE T = {}
    <3>1. PICK e : e = <<Nil>>
      OBVIOUS
    <3>2. e \in Seq(All)
      BY <2>1, <3>1
    <3> QED
      BY <1>7, <2>2, <3>1, <3>2
  <2>3. CASE T # {}
    <3>1. w \in Seq(T)
      BY <1>7, <2>3 DEF Listed
    <3> QED
      BY <2>1, <3>1
  <2> QED
    BY <2>2, <2>3
<1> QED
  BY <1>5, <1>7, <1>8

-----------------------------------------------------------------------------
(* The counts of black nodes.                                              *)

(* X[<<n, p>>] is what n, as a child of p, counts besides its own colour.   *)
CountBody(s, X, g) ==
  [e \in All \X All |->
     IF e[1] = Nil THEN {X[e]}
     ELSE {Own(s, e[1]) + X[e] + h : h \in g[<<s[e[1]].left, e[1]>>] \cup g[<<s[e[1]].right, e[1]>>]}]

LEMMA CountExists ==
  ASSUME NEW s, NEW T, NEW sub, Tree(s, T, sub), NEW o, Loose(s, T, o),
         NEW X, \A e \in All \X All : X[e] \in Nat
  PROVE  \E g : g = CountBody(s, X, g)
<1>1. PICK D : D = Depth(T, sub)
  OBVIOUS
<1>2. PICK k : k = Cardinality(T) + 1
  OBVIOUS
<1>3. /\ k \in Nat /\ \A n \in All : D[n] \in Nat /\ D[n] <= k
      /\ \A n \in All \ {Nil} : \A d \in Sides : Child(s, n, d) \in All /\ D[Child(s, n, d)] < D[n]
  BY <1>1, <1>2, Depths
<1>4. \A n \in All \ {Nil} : s[n].left \in All /\ s[n].right \in All /\ D[s[n].left] < D[n] /\ D[s[n].right] < D[n]
  BY <1>3, ChildSides
<1>5. PICK S : S = All \X All
  OBVIOUS
<1>6. PICK R : R = [e \in S |-> D[e[1]]]
  OBVIOUS
<1>7. RankedTo(S, R, k)
  BY <1>3, <1>5, <1>6 DEF RankedTo
<1>8. PICK V : V = SUBSET Nat
  OBVIOUS
<1>9. PICK F : F = [g \in [S -> V] |-> CountBody(s, X, g)]
  OBVIOUS
<1> DEFINE B(g, e) == IF e[1] = Nil THEN {X[e]}
                      ELSE {Own(s, e[1]) + X[e] + h : h \in g[<<s[e[1]].left, e[1]>>] \cup g[<<s[e[1]].right, e[1]>>]}
<1>10. \A e \in S : e[1] # Nil => /\ <<s[e[1]].left, e[1]>> \in S /\ <<s[e[1]].right, e[1]>> \in S
                                  /\ R[<<s[e[1]].left, e[1]>>] < R[e] /\ R[<<s[e[1]].right, e[1]>>] < R[e]
  <2>1. ASSUME NEW e \in S, e[1] # Nil, NEW c \in All, D[c] < D[e[1]]
        PROVE  <<c, e[1]>> \in S /\ R[<<c, e[1]>>] < R[e]
    <3>1. e[1] \in All /\ <<c, e[1]>> \in S
      BY <1>5
    <3>2. R[<<c, e[1]>>] = D[c] /\ R[e] = D[e[1]]
      BY <1>6, <3>1
    <3> QED
      BY <2>1, <3>1, <3>2
  <2>2. \A e \in S : e[1] \in All
    BY <1>5
  <2> QED
    BY <1>4, <2>1, <2>2
<1>11. ASSUME NEW g \in [S -> V]
       PROVE  F[g] \in [S -> V] /\ \A e \in S : F[g][e] = B(g, e)
  <2>1. F[g] = [e \in S |-> B(g, e)]
    BY <1>5, <1>9 DEF CountBody
  <2>2. ASSUME NEW e \in S
        PROVE  B(g, e) \in V
    <3>1. X[e] \in Nat
      BY <1>5
    <3>2. CASE e[1] = Nil
      BY <1>8, <3>1, <3>2
    <3>3. CASE e[1] # Nil
      <4>1. g[<<s[e[1]].left, e[1]>>] \in V /\ g[<<s[e[1]].right, e[1]>>] \in V
        BY <1>10, <3>3
      <4>2. PICK H : H = g[<<s[e[1]].left, e[1]>>] \cup g[<<s[e[1]].right, e[1]>>]
        OBVIOUS
      <4>3. H \subseteq Nat
        BY <1>8, <4>1, <4>2
      <4>4. PICK a : a = Own(s, e[1])
        OBVIOUS
      <4>5. PICK b : b = X[e]
        OBVIOUS
      <4>6. a \in Nat /\ b \in Nat
        BY <3>1, <4>4, <4>5 DEF Own
      <4>7. \A h \in H : a + b + h \in Nat
        BY <4>3, <4>6
      <4>8. {a + b + h : h \in H} \in V
        BY <1>8, <4>7
      <4> QED
        BY <3>3, <4>2, <4>4, <4>5, <4>8
    <3> QED
      BY <3>2, <3>3
  <2> HIDE DEF B
  <2> QED
    BY <2>1, <2>2
<1>12. Recursion(S, V, R, F)
  <2>1. F \in [[S -> V] -> [S -> V]]
    BY <1>9, <1>11
  <2>2. ASSUME NEW g \in [S -> V], NEW h \in [S -> V], NEW e \in S, \A c \in S : R[c] < R[e] => g[c] = h[c]
        PROVE  F[g][e] = F[h][e]
    <3>1. B(g, e) = B(h, e)
      <4>1. CASE e[1] = Nil
        BY <4>1
      <4>2. CASE e[1] # Nil
        <5>1. g[<<s[e[1]].left, e[1]>>] = h[<<s[e[1]].left, e[1]>>] /\ g[<<s[e[1]].right, e[1]>>] = h[<<s[e[1]].right, e[1]>>]
          BY <1>10, <2>2, <4>2
        <5> QED
          BY <4>2, <5>1
      <4> QED
        BY <4>1, <4>2
    <3> HIDE DEF B
    <3> QED
      BY <1>11, <3>1
  <2> QED
    BY <2>1, <2>2 DEF Recursion
<1>13. PICK v : v = {}
  OBVIOUS
<1>14. v \in V
  BY <1>8, <1>13
<1>15. PICK g \in [S -> V] : g = F[g]
  <2> HIDE DEF B
  <2> QED
    BY <1>7, <1>12, <1>14, RecursionExists
<1> QED
  BY <1>9, <1>15

LEMMA CountNil ==
  ASSUME NEW s, NEW X, NEW g, g = CountBody(s, X, g), Nil \in All, NEW p \in All
  PROVE  g[<<Nil, p>>] = {X[<<Nil, p>>]}
<1>1. PICK m : m = <<Nil, p>>
  OBVIOUS
<1>2. m \in All \X All /\ m[1] = Nil
  BY <1>1
<1>3. g[m] = IF m[1] = Nil THEN {X[m]}
             ELSE {Own(s, m[1]) + X[m] + h : h \in g[<<s[m[1]].left, m[1]>>] \cup g[<<s[m[1]].right, m[1]>>]}
  BY <1>2 DEF CountBody
<1>4. g[m] = {X[m]}
  BY <1>2, <1>3
<1> QED
  BY <1>1, <1>4

LEMMA CountAt ==
  ASSUME NEW s, NEW X, NEW g, g = CountBody(s, X, g), NEW n \in All, NEW p \in All, n # Nil
  PROVE  \A v : v \in g[<<n, p>>] <=> \E h \in g[<<s[n].left, n>>] \cup g[<<s[n].right, n>>] :
                                        v = Own(s, n) + X[<<n, p>>] + h
<1>1. PICK m : m = <<n, p>>
  OBVIOUS
<1>2. m \in All \X All /\ m[1] = n
  BY <1>1
<1>3. g[m] = IF m[1] = Nil THEN {X[m]}
             ELSE {Own(s, m[1]) + X[m] + h : h \in g[<<s[m[1]].left, m[1]>>] \cup g[<<s[m[1]].right, m[1]>>]}
  BY <1>2 DEF CountBody
<1>4. g[m] = {Own(s, m[1]) + X[m] + h : h \in g[<<s[m[1]].left, m[1]>>] \cup g[<<s[m[1]].right, m[1]>>]}
  BY <1>2, <1>3
<1>5. \A v : v \in g[m] <=> \E h \in g[<<s[m[1]].left, m[1]>>] \cup g[<<s[m[1]].right, m[1]>>] :
                              v = Own(s, m[1]) + X[m] + h
  BY <1>4
<1> QED
  BY <1>1, <1>2, <1>5

LEMMA CountIs ==
  ASSUME NEW s, NEW T, NEW sub, Tree(s, T, sub), NEW bh, NEW lp, NEW ld, Even(s, T, bh, lp, ld),
         NEW X, \A e \in All \X All : X[e] \in Nat,
         \A n \in T : \A d \in Sides : X[<<Child(s, n, d), n>>] = Lack(n, d, lp, ld),
         NEW g, g = CountBody(s, X, g)
  PROVE  Cardinality(g[<<s[Top].left, Top>>]) = 1
<1>1. /\ T \subseteq All /\ Nil \notin T /\ Nil \in All /\ Joined(s, T) /\ Top \in All
  BY Alls DEF Tree, Joined
<1>2. \A p \in All : g[<<Nil, p>>] = {X[<<Nil, p>>]}
  BY <1>1, CountNil
<1>3. PICK S : S = {n \in T : \A p \in All : g[<<n, p>>] = {bh[n] + X[<<n, p>>]}}
  OBVIOUS
<1>4. bh[Nil] = 0 /\ \A n \in All : bh[n] \in Nat
  BY DEF Even
<1>5. ASSUME NEW n \in T, \A d \in Sides : Child(s, n, d) = Nil \/ Child(s, n, d) \in S
      PROVE  n \in S
  <2>1. PICK own : own = Own(s, n)
    OBVIOUS
  <2>2. PICK b : b = bh[n]
    OBVIOUS
  <2>3. own \in Nat /\ b \in Nat /\ n \in All
    BY <1>1, <1>4, <2>1, <2>2 DEF Own
  <2>4. ASSUME NEW d \in Sides
        PROVE  g[<<Child(s, n, d), n>>] = {b - own} /\ b - own \in Nat
    <3>1. PICK c : c = Child(s, n, d)
      OBVIOUS
    <3>2. c \in All
      BY <1>1, <1>3, <1>5, <3>1
    <3>3. PICK e : e = X[<<c, n>>]
      OBVIOUS
    <3>4. e \in Nat
      BY <2>3, <3>2, <3>3
    <3>5. PICK f : f = bh[c]
      OBVIOUS
    <3>6. f \in Nat
      BY <1>4, <3>2, <3>5
    <3>7. g[<<c, n>>] = {f + e}
      <4>1. CASE c = Nil
        <5>1. g[<<c, n>>] = {e}
          BY <1>2, <2>3, <3>3, <4>1
        <5>2. f = 0
          BY <1>4, <3>5, <4>1
        <5>3. f + e = e
          BY <3>4, <5>2
        <5> QED
          BY <5>1, <5>3
      <4>2. CASE c # Nil
        BY <1>3, <1>5, <2>3, <3>1, <3>3, <3>5, <4>2
      <4> QED
        BY <4>1, <4>2
    <3>8. e = Lack(n, d, lp, ld)
      BY <3>1, <3>3
    <3>9. b = own + f + e
      BY <2>1, <2>2, <3>1, <3>5, <3>8 DEF Even
    <3>10. f + e = b - own
      BY <2>3, <3>4, <3>6, <3>9
    <3> QED
      BY <3>1, <3>4, <3>6, <3>7, <3>10
  <2>5. g[<<s[n].left, n>>] \cup g[<<s[n].right, n>>] = {b - own} /\ b - own \in Nat
    BY <2>4, ChildSides
  <2>6. ASSUME NEW p \in All
        PROVE  g[<<n, p>>] = {bh[n] + X[<<n, p>>]}
    <3>1. PICK e : e = X[<<n, p>>]
      OBVIOUS
    <3>2. e \in Nat
      BY <2>3, <3>1
    <3>3. n # Nil
      BY <1>1
    <3>4. \A v : v \in g[<<n, p>>] <=> \E h \in g[<<s[n].left, n>>] \cup g[<<s[n].right, n>>] : v = own + e + h
      BY <2>1, <2>3, <3>1, <3>3, CountAt
    <3>5. own + e + (b - own) = b + e
      BY <2>3, <3>2
    <3>6. \A v : v \in g[<<n, p>>] <=> v = own + e + (b - own)
      BY <2>5, <3>4
    <3> QED
      BY <2>2, <3>1, <3>5, <3>6
  <2> QED
    BY <1>3, <2>6
<1>6. T \subseteq S
  BY <1>5, TreeInduct
<1>7. s[Top].left \in T \cup {Nil}
  BY <1>1, TopKin
<1>8. \E e : g[<<s[Top].left, Top>>] = {e}
  <2>1. CASE s[Top].left = Nil
    BY <1>1, <1>2, <2>1
  <2>2. CASE s[Top].left \in T
    BY <1>1, <1>3, <1>6, <2>2
  <2> QED
    BY <1>7, <2>1, <2>2
<1> QED
  BY <1>8, FS_Singleton

(* BlackHeights as it is written.                                          *)
Extra == [e \in All \X All |->
            IF pc = "DeleteFix" /\ e[1] = x /\ e[2] = t[x].parent /\ (x # root \/ t[x].red) THEN 1 ELSE 0]

HeightsBody(g) ==
  [link \in All \X All |->
     LET n     == link[1]
         p     == link[2]
         extra == IF pc = "DeleteFix" /\ n = x /\ p = t[x].parent
                    /\ (x # root \/ t[x].red)
                  THEN 1 ELSE 0
         own   == IF t[n].red THEN 0 ELSE 1
     IN  IF n = Nil THEN {extra}
         ELSE {own + extra + h : h \in g[<<t[n].left, n>>] \cup g[<<t[n].right, n>>]}]

LEMMA HeightsAre ==
  ASSUME NEW g
  PROVE  HeightsBody(g) = CountBody(t, Extra, g)
<1> DEFINE extra(e) == IF pc = "DeleteFix" /\ e[1] = x /\ e[2] = t[x].parent /\ (x # root \/ t[x].red) THEN 1 ELSE 0
           own(e)   == IF t[e[1]].red THEN 0 ELSE 1
           below(e) == g[<<t[e[1]].left, e[1]>>] \cup g[<<t[e[1]].right, e[1]>>]
<1> DEFINE A(e) == IF e[1] = Nil THEN {extra(e)} ELSE {own(e) + extra(e) + h : h \in below(e)}
           B(e) == IF e[1] = Nil THEN {Extra[e]} ELSE {Own(t, e[1]) + Extra[e] + h : h \in below(e)}
<1>1. HeightsBody(g) = [e \in All \X All |-> A(e)]
  BY DEF HeightsBody
<1>2. CountBody(t, Extra, g) = [e \in All \X All |-> B(e)]
  BY DEF CountBody
<1>3. \A e \in All \X All : Extra[e] = extra(e)
  BY DEF Extra
<1>4. \A e \in All \X All : Own(t, e[1]) = own(e)
  BY DEF Own, Red
<1> HIDE DEF extra, own, below
<1>5. \A e \in All \X All : A(e) = B(e)
  BY <1>3, <1>4
<1> HIDE DEF A, B
<1> QED
  BY <1>1, <1>2, <1>5

LEMMA HeightsIs ==
  ASSUME NEW T, NEW sub, Tree(t, T, sub), NEW o, Loose(t, T, o),
         NEW bh, NEW lp, NEW ld, Even(t, T, bh, lp, ld),
         \A n \in T : \A d \in Sides : Extra[<<Child(t, n, d), n>>] = Lack(n, d, lp, ld)
  PROVE  Cardinality(BlackHeights) = 1
<1> DEFINE G == CHOOSE g : g = HeightsBody(g)
<1>1. BlackHeights = G[<<t[Top].left, Top>>]
  BY DEF BlackHeights, HeightsBody
<1>2. \A e \in All \X All : Extra[e] \in Nat
  BY DEF Extra
<1>3. PICK f : f = CountBody(t, Extra, f)
  BY <1>2, CountExists
<1>4. f = HeightsBody(f)
  BY <1>3, HeightsAre
<1>5. G = HeightsBody(G)
  BY <1>4
<1> HIDE DEF G
<1>6. PICK g : g = G
  OBVIOUS
<1>7. g = CountBody(t, Extra, g)
  BY <1>5, <1>6, HeightsAre
<1>8. Cardinality(g[<<t[Top].left, Top>>]) = 1
  BY <1>2, <1>7, CountIs
<1> QED
  BY <1>1, <1>6, <1>8

(* Nothing is missing.                                                     *)
LEMMA HeightsFull ==
  ASSUME NEW T, NEW K, Grown(t, T, K), NEW E, NEW F, Balanced(t, T, Top, "left", E, F),
         ~ (pc = "DeleteFix" /\ (x # root \/ t[x].red))
  PROVE  Cardinality(BlackHeights) = 1
<1>1. PICK sub : Tree(t, T, sub) /\ Loose(t, T, K.out)
  BY DEF Grown
<1>2. PICK bh : Even(t, T, bh, Top, "left")
  BY DEF Balanced
<1>3. T \subseteq All /\ Top \notin T
  BY Alls, <1>1 DEF Tree, Joined
<1>4. ASSUME NEW n \in T, NEW d \in Sides
      PROVE  Extra[<<Child(t, n, d), n>>] = Lack(n, d, Top, "left")
  <2>1. Child(t, n, d) \in All /\ n \in All
    BY <1>3, GrownChild
  <2>2. PICK e \in All \X All : e = <<Child(t, n, d), n>>
    BY <2>1
  <2>3. Extra[e] = 0
    BY DEF Extra
  <2>4. Lack(n, d, Top, "left") = 0
    BY <1>3 DEF Lack
  <2> QED
    BY <2>2, <2>3, <2>4
<1> QED
  BY <1>1, <1>2, <1>4, HeightsIs

(* x counts as one more.                                                   *)
LEMMA HeightsShort ==
  ASSUME t \in Heap, NEW T, NEW K, Grown(t, T, K), x \in All, Short(t, T, x, t[x].parent, SideOf(t, x), root),
         pc = "DeleteFix", x # root \/ x \in Red(t)
  PROVE  Cardinality(BlackHeights) = 1
<1>1. PICK sub : Tree(t, T, sub) /\ Loose(t, T, K.out)
  BY DEF Grown
<1>2. PICK p : p = t[x].parent
  OBVIOUS
<1>3. PICK l : l = SideOf(t, x)
  OBVIOUS
<1>4. l \in Sides
  BY <1>3, ChildSides DEF SideOf
<1>5. Balanced(t, T, p, l, {x}, {x}) /\ p \in T \cup {Top} /\ Child(t, p, l) = x /\ (x \notin Red(t) => p \in T)
  BY <1>2, <1>3 DEF Short
<1>6. PICK bh : Even(t, T, bh, p, l)
  BY <1>5 DEF Balanced
<1>7. Nil \notin Red(t)
  BY <1>5 DEF Balanced, Reds
<1>8. T \subseteq All /\ Top \notin T /\ Nil \in All
  BY Alls, <1>1 DEF Tree, Joined
<1>9. t[x].red <=> x \in Red(t)
  BY DEF Red
<1>10. p \in T => Child(t, p, Other(l)) # x
  <2>1. CASE x = Nil /\ p \in T
    <3>1. Deficient(t, T, K, x, p, l)
      BY <1>2, <1>3, <1>4, <1>7, <2>1, Deficits
    <3> QED
      BY <1>6, <3>1, Siblings
  <2>2. CASE x # Nil
    BY <1>4, <1>5, <2>2, GrownChild
  <2> QED
    BY <2>1, <2>2
<1>11. ASSUME NEW n \in T, NEW d \in Sides
       PROVE  Extra[<<Child(t, n, d), n>>] = Lack(n, d, p, l)
  <2>1. Child(t, n, d) \in All /\ n \in All
    BY <1>8, GrownChild
  <2>2. PICK e \in All \X All : e = <<Child(t, n, d), n>>
    BY <2>1
  <2>3. Extra[e] = IF Child(t, n, d) = x /\ n = p THEN 1 ELSE 0
    BY <1>2, <1>9, <2>2 DEF Extra
  <2>4. Child(t, n, d) = x /\ n = p <=> n = p /\ d = l
    BY <1>4, <1>5, <1>10, TurnSides
  <2>5. Lack(n, d, p, l) = IF n = p /\ d = l THEN 1 ELSE 0
    BY DEF Lack
  <2> QED
    BY <2>2, <2>3, <2>4, <2>5
<1> QED
  BY <1>1, <1>6, <1>11, HeightsIs

-----------------------------------------------------------------------------
(* The calls that read, and the end of the tree.                           *)

LEMMA QueryStart == ASSUME IInv, NEW k \in Queries, RBExactQuery(k) PROVE IInv'
<1>1. PICK T : /\ Stage(T) /\ t \in Heap /\ T \subseteq Nodes /\ live \subseteq Nodes
               /\ {x, y, z, root} \subseteq All /\ q \in Queries \cup {0} /\ visited \in Seq(All)
  BY StageAt
<1>2. /\ pc = "Idle" /\ q' = k /\ x' = t[Top].left /\ pc' = "Query" /\ UNCHANGED <<t, y, z, root, live, visited>>
  BY DEF RBExactQuery
<1>3. AtRest(T)
  BY <1>1, <1>2 DEF Stage
<1>4. PICK sub : Tree(t, T, sub) /\ Sorted(t, T, sub, KeyOf)
  BY <1>3, PlainTree DEF AtRest, Whole
<1>5. x' \in T \cup {Nil} /\ sub[x'] = T
  BY <1>2, <1>4, TopKin, TreeLinks DEF Tree
<1>6. Querying(T)'
  <2>1. AtRest(T)'
    BY <1>2, <1>3 DEF AtRest, Whole
  <2>2. \A m \in T : KeyOf[m] = q' => m \in sub[x']
    BY <1>5
  <2>3. Tree(t', T, sub) /\ Sorted(t', T, sub, KeyOf)
    BY <1>2, <1>4
  <2> QED
    BY <1>5, <2>1, <2>2, <2>3 DEF Querying
<1>7. Stage(T)'
  BY <1>2, <1>6 DEF Stage
<1>8. TypeOK'
  <2>1. x' \in All
    BY <1>1, <1>5, Alls
  <2> QED
    BY <1>1, <1>2, <2>1, StageType
<1> QED
  BY <1>7, <1>8 DEF IInv

(* Where the entries with a key are, seen from a node.                     *)
Holds(T, sub, k, n) == n \in T \cup {Nil} /\ \A m \in T : KeyOf[m] = k => m \in sub[n]

LEMMA Guides ==
  ASSUME NEW s, NEW T, NEW sub, Tree(s, T, sub), Sorted(s, T, sub, KeyOf), T \subseteq Nodes,
         NEW k \in Int, NEW n \in T, KeyOf[n] # k, Holds(T, sub, k, n),
         NEW c, c = IF KeyOf[n] > k THEN s[n].left ELSE s[n].right
  PROVE  Holds(T, sub, k, c)
<1>1. c \in T \cup {Nil}
  BY JoinedLinks DEF Tree
<1>2. sub[n] = {n} \cup sub[s[n].left] \cup sub[s[n].right]
  BY TreeLinks
<1>3. (\A m \in sub[s[n].left] : KeyOf[m] <= KeyOf[n]) /\ \A m \in sub[s[n].right] : KeyOf[n] <= KeyOf[m]
  BY ChildSides DEF Sorted, Before
<1>4. KeyOf[n] \in Int
  BY RBAssumption
<1>5. ASSUME NEW m \in T, KeyOf[m] = k
      PROVE  m \in sub[c]
  <2>1. m \in sub[s[n].left] \/ m \in sub[s[n].right]
    BY <1>2, <1>5 DEF Holds
  <2>2. CASE KeyOf[n] > k
    <3>1. m \notin sub[s[n].right]
      BY <1>3, <1>4, <1>5, <2>2
    <3> QED
      BY <2>1, <2>2, <3>1
  <2>3. CASE ~ KeyOf[n] > k
    <3>1. KeyOf[n] < k
      BY <1>4, <2>3
    <3>2. m \notin sub[s[n].left]
      BY <1>3, <1>4, <1>5, <3>1
    <3> QED
      BY <2>1, <2>3, <3>2
  <2> QED
    BY <2>2, <2>3
<1> QED
  BY <1>1, <1>5 DEF Holds

LEMMA QueryStepStep == ASSUME IInv, QueryStep PROVE IInv'
<1>1. PICK T : /\ Stage(T) /\ t \in Heap /\ T \subseteq Nodes /\ live \subseteq Nodes
               /\ {x, y, z, root} \subseteq All /\ q \in Queries \cup {0} /\ visited \in Seq(All)
  BY StageAt
<1>2. pc = "Query" /\ UNCHANGED <<t, live, visited>>
  BY DEF QueryStep
<1>3. Querying(T)
  BY <1>1, <1>2 DEF Stage
<1>4. AtRest(T)'
  BY <1>2, <1>3 DEF Querying, AtRest, Whole
<1>5. CASE x = Nil \/ KeyOf[x] = q
  <2>1. pc' = "Idle" /\ x' = Nil /\ y' = Nil /\ z' = Nil /\ root' = Nil /\ q' = 0
    BY <1>5 DEF QueryStep, Return
  <2>2. Stage(T)'
    BY <1>4, <2>1 DEF Stage
  <2>3. TypeOK'
    BY <1>1, <1>2, <2>1, Alls, StageType
  <2> QED
    BY <2>2, <2>3 DEF IInv
<1>6. CASE ~ (x = Nil \/ KeyOf[x] = q)
  <2>1. x' = (IF KeyOf[x] > q THEN t[x].left ELSE t[x].right) /\ UNCHANGED <<pc, y, z, root, q>>
    BY <1>6 DEF QueryStep
  <2>2. x \in T
    BY <1>3, <1>6 DEF Querying
  <2>3. PICK sub : Tree(t, T, sub) /\ Sorted(t, T, sub, KeyOf) /\ \A m \in T : KeyOf[m] = q => m \in sub[x]
    BY <1>3 DEF Querying
  <2>4. q \in Int
    BY <1>1, RBAssumption
  <2>5. x' \in T \cup {Nil} /\ \A m \in T : KeyOf[m] = q => m \in sub[x']
    <3>1. PICK c : c = x'
      OBVIOUS
    <3>2. Holds(T, sub, q, x)
      BY <2>2, <2>3 DEF Holds
    <3>3. Holds(T, sub, q, c)
      BY <1>1, <1>6, <2>1, <2>2, <2>3, <2>4, <3>1, <3>2, Guides
    <3> QED
      BY <3>1, <3>3 DEF Holds
  <2>6. Querying(T)'
    <3>1. Tree(t', T, sub) /\ Sorted(t', T, sub, KeyOf) /\ q' = q
      BY <1>2, <2>1, <2>3
    <3> QED
      BY <1>4, <2>5, <3>1 DEF Querying
  <2>7. Stage(T)'
    BY <1>2, <2>1, <2>6 DEF Stage
  <2>8. TypeOK'
    <3>1. x' \in All
      BY <1>1, <2>5, Alls
    <3> QED
      BY <1>1, <1>2, <2>1, <3>1, StageType
  <2> QED
    BY <2>7, <2>8 DEF IInv
<1> QED
  BY <1>5, <1>6

(* The walk of a tree at rest.                                             *)
LEMMA WholeWalks ==
  ASSUME NEW T, Whole(T)
  PROVE  Reached = T /\ InOrder(t) \in Seq(All) /\ (T # {} => Listed(InOrder(t), T, KeyOf))
<1>1. PICK sub : Tree(t, T, sub) /\ Sorted(t, T, sub, KeyOf)
  BY PlainTree DEF Whole
<1>2. Loose(t, T, Nil)
  BY PlainTree DEF Whole
<1> QED
  BY <1>1, <1>2, ReachedIs, InOrderIs

LEMMA ForEachStep == ASSUME IInv, TreeForEach PROVE IInv'
<1>1. PICK T : /\ Stage(T) /\ t \in Heap /\ T \subseteq Nodes /\ live \subseteq Nodes
               /\ {x, y, z, root} \subseteq All /\ q \in Queries \cup {0} /\ visited \in Seq(All)
  BY StageAt
<1>2. pc = "Idle" /\ visited' = InOrder(t) /\ pc' = "Visited" /\ UNCHANGED <<t, x, y, z, root, q, live>>
  BY DEF TreeForEach, locals
<1>3. AtRest(T)
  BY <1>1, <1>2 DEF Stage
<1>4. AtRest(T)'
  BY <1>2, <1>3 DEF AtRest, Whole
<1>5. InOrder(t)' = InOrder(t)
  BY <1>2 DEF InOrder
<1>6. Stage(T)'
  BY <1>2, <1>4, <1>5 DEF Stage
<1>7. visited' \in Seq(All)
  BY <1>2, <1>3, WholeWalks DEF AtRest
<1>8. TypeOK'
  BY <1>1, <1>2, <1>7, StageType
<1> QED
  BY <1>6, <1>8 DEF IInv

LEMMA ForEachDoneStep == ASSUME IInv, ForEachDone PROVE IInv'
<1>1. PICK T : /\ Stage(T) /\ t \in Heap /\ T \subseteq Nodes /\ live \subseteq Nodes
               /\ {x, y, z, root} \subseteq All /\ q \in Queries \cup {0} /\ visited \in Seq(All)
  BY StageAt
<1>2. pc = "Visited" /\ visited' = <<>> /\ pc' = "Idle" /\ UNCHANGED <<t, x, y, z, root, q, live>>
  BY DEF ForEachDone, locals
<1>3. AtRest(T)'
  BY <1>1, <1>2 DEF Stage, AtRest, Whole
<1>4. Stage(T)'
  BY <1>2, <1>3 DEF Stage
<1>5. visited' \in Seq(All)
  BY <1>2
<1>6. TypeOK'
  BY <1>1, <1>2, <1>5, StageType
<1> QED
  BY <1>4, <1>6 DEF IInv

LEMMA DestroyStep == ASSUME IInv, RBTreeDestroy PROVE IInv'
<1>1. PICK T : /\ Stage(T) /\ t \in Heap /\ T \subseteq Nodes /\ live \subseteq Nodes
               /\ {x, y, z, root} \subseteq All /\ q \in Queries \cup {0} /\ visited \in Seq(All)
  BY StageAt
<1>2. pc = "Idle" /\ live' = live \ Reached /\ pc' = "Destroyed" /\ UNCHANGED <<t, x, y, z, root, q, visited>>
  BY DEF RBTreeDestroy, locals
<1>3. Whole(T) /\ live = T
  BY <1>1, <1>2 DEF Stage, AtRest
<1>4. live' = {}
  BY <1>2, <1>3, WholeWalks
<1>5. Whole(T)'
  BY <1>2, <1>3 DEF Whole
<1>6. Stage(T)'
  BY <1>2, <1>4, <1>5 DEF Stage
<1>7. TypeOK'
  BY <1>1, <1>2, <1>4, StageType
<1> QED
  BY <1>6, <1>7 DEF IInv

LEMMA StillStep == ASSUME IInv, UNCHANGED vars PROVE IInv'
<1>1. PICK T : /\ Stage(T) /\ t \in Heap /\ T \subseteq Nodes /\ live \subseteq Nodes
               /\ {x, y, z, root} \subseteq All /\ q \in Queries \cup {0} /\ visited \in Seq(All)
  BY StageAt
<1>2. UNCHANGED <<t, pc, x, y, z, root, q, live, visited>>
  BY DEF vars
<1>3. Stage(T)'
  <2>1. AtRest(T)' <=> AtRest(T)
    BY <1>2 DEF AtRest, Whole
  <2>2. Descending(T)' <=> Descending(T)
    BY <1>2 DEF Descending, Whole
  <2>3. Inserting(T)' <=> Inserting(T)
    BY <1>2 DEF Inserting
  <2>4. Succeeding(T)' <=> Succeeding(T)
    BY <1>2, <2>1 DEF Succeeding
  <2>5. Splicing(T)' <=> Splicing(T)
    BY <1>2, <2>1 DEF Splicing
  <2>6. Out(T)' <=> Out(T)
    BY <1>2 DEF Out
  <2>7. Deleting(T)' <=> Deleting(T)
    BY <1>2, <2>6 DEF Deleting
  <2>8. Freeing(T)' <=> Freeing(T)
    BY <1>2, <2>6 DEF Freeing
  <2>9. Querying(T)' <=> Querying(T)
    BY <1>2, <2>1 DEF Querying
  <2>10. Whole(T)' <=> Whole(T)
    BY <1>2 DEF Whole
  <2>11. UNCHANGED <<pc, visited, live>> /\ InOrder(t)' = InOrder(t)
    BY <1>2 DEF InOrder
  <2>12. Stage(T)
    BY <1>1
  <2> QED
    BY <2>1, <2>2, <2>3, <2>4, <2>5, <2>7, <2>8, <2>9, <2>10, <2>11, <2>12 DEF Stage
<1>4. TypeOK'
  BY <1>2 DEF IInv, TypeOK
<1> QED
  BY <1>3, <1>4 DEF IInv

-----------------------------------------------------------------------------
(* IInv is inductive.                                                      *)

LEMMA NextStep == ASSUME IInv, [Next]_vars PROVE IInv'
<1>1. ASSUME NEW n \in Nodes, RBTreeInsert(n)
      PROVE  IInv'
  BY <1>1, InsertStep
<1>2. ASSUME NEW n \in Nodes, RBDelete(n)
      PROVE  IInv'
  BY <1>2, DeleteStep
<1>3. ASSUME NEW k \in Queries, RBExactQuery(k)
      PROVE  IInv'
  BY <1>3, QueryStart
<1>4. CASE TreeForEach
  BY <1>4, ForEachStep
<1>5. CASE RBTreeDestroy
  BY <1>5, DestroyStep
<1>6. CASE Descend
  BY <1>6, DescendStep
<1>7. CASE Hang
  BY <1>7, HangStep
<1>8. CASE InsertFix
  BY <1>8, InsertFixStep
<1>9. CASE InsertDone
  BY <1>9, InsertDoneStep
<1>10. CASE Successor
  BY <1>10, SuccessorStep
<1>11. CASE Splice
  BY <1>11, SpliceStep
<1>12. CASE DeleteFix
  BY <1>12, DeleteFixStep
<1>13. CASE DeleteFixDone
  BY <1>13, DeleteFixDoneStep
<1>14. CASE Free
  BY <1>14, FreeStep
<1>15. CASE QueryStep
  BY <1>15, QueryStepStep
<1>16. CASE ForEachDone
  BY <1>16, ForEachDoneStep
<1>17. CASE Stopped
  BY <1>17, StillStep DEF Stopped
<1>18. CASE UNCHANGED vars
  BY <1>18, StillStep
<1> QED
  BY <1>1, <1>2, <1>3, <1>4, <1>5, <1>6, <1>7, <1>8, <1>9, <1>10, <1>11, <1>12, <1>13, <1>14, <1>15, <1>16, <1>17, <1>18
     DEF Next, Call, Run

LEMMA Invariant == Spec => []IInv
<1>1. IInv /\ [Next]_vars => IInv'
  BY NextStep
<1> QED
  BY <1>1, StageInit, PTL DEF Spec

-----------------------------------------------------------------------------
(* What the inductive invariant gives.                                     *)

Shaped(T) ==
  /\ Stage(T) /\ T \subseteq Nodes /\ Reached = T /\ (T # {} => Listed(InOrder(t), T, KeyOf))
  /\ \E K : Grown(t, T, K)

LEMMA InvShape ==
  ASSUME IInv
  PROVE  \E T : Shaped(T)
<1>1. PICK T : /\ Stage(T) /\ t \in Heap /\ T \subseteq Nodes /\ live \subseteq Nodes
               /\ {x, y, z, root} \subseteq All /\ q \in Queries \cup {0} /\ visited \in Seq(All)
               /\ (pc \in {"Idle", "Descend", "Successor", "Splice", "Query", "Visited", "Destroyed"} => Whole(T))
  BY StageAt
<1>2. pc \in {"Idle", "Descend", "InsertFix", "Successor", "Splice", "DeleteFix", "Free",
              "Query", "Visited", "Destroyed"}
  BY DEF IInv, TypeOK
<1>3. pc = "InsertFix" => Grown(t, T, Plain)
  BY <1>1 DEF Stage, Inserting
<1>4. pc \in {"DeleteFix", "Free"} => y \in Nodes /\ z \in Nodes /\ Grown(t, T, Spliced(y, z))
  BY <1>1 DEF Stage, Deleting, Freeing, Out
<1>5. PICK K : Grown(t, T, K) /\ KeyOf \in K.keys
  <2>1. CASE pc \in {"DeleteFix", "Free"}
    BY <1>4, <2>1, SplicedFacts
  <2>2. CASE pc \notin {"DeleteFix", "Free"}
    <3>1. Grown(t, T, Plain)
      BY <1>1, <1>2, <1>3, <2>2 DEF Whole
    <3> QED
      BY <3>1, KeyFacts
  <2> QED
    BY <2>1, <2>2
<1>6. PICK sub : Tree(t, T, sub) /\ Sorted(t, T, sub, KeyOf)
  BY <1>5 DEF Grown
<1>7. Loose(t, T, K.out)
  BY <1>5 DEF Grown
<1>8. Reached = T
  BY <1>6, <1>7, ReachedIs
<1>9. T # {} => Listed(InOrder(t), T, KeyOf)
  BY <1>6, <1>7, InOrderIs
<1> QED
  BY <1>1, <1>5, <1>8, <1>9 DEF Shaped

(* The colours that may clash.                                             *)
LEMMA RedsShow ==
  ASSUME NEW T, Reached = T, t \in Heap, NEW K, Grown(t, T, K), NEW E, NEW F, Reds(t, T, E, F)
  PROVE  /\ ~ t[Nil].red /\ ~ t[Top].red
         /\ \A n \in InTree : t[n].red /\ (n = t[Top].left \/ t[t[n].parent].red) => n \in E \/ t[n].parent \in F
<1>1. Joined(t, T) /\ T \subseteq All /\ Nil \in All /\ Top \in All /\ Nil \notin T /\ Top \in T \cup {Top}
  BY GrownFacts
<1>2. Nil \notin Red(t) /\ Top \notin Red(t)
  BY DEF Reds
<1>3. \A n \in All : t[n].red <=> n \in Red(t)
  BY DEF Red
<1>4. ASSUME NEW n \in T, n \in Red(t), n = t[Top].left \/ t[t[n].parent].red
      PROVE  n \in E \/ t[n].parent \in F
  <2>1. PICK p : p = t[n].parent
    OBVIOUS
  <2>2. PICK d \in Sides : p \in T \cup {Top} /\ n = Child(t, p, d)
    BY <1>1, <2>1 DEF Joined
  <2>3. n = t[Top].left => p = Top
    BY <1>1, <2>1, JoinedLinks
  <2>4. p = Top \/ p \in Red(t)
    BY <1>1, <1>3, <1>4, <2>1, <2>2, <2>3
  <2> QED
    BY <1>4, <2>1, <2>2, <2>4 DEF Reds
<1> QED
  BY <1>1, <1>2, <1>3, <1>4 DEF InTree

LEMMA InvRedBlack == IInv => RedBlack
<1> SUFFICES ASSUME IInv PROVE RedBlack
  OBVIOUS
<1>1. PICK T : Shaped(T)
  BY InvShape
<1>2. Stage(T) /\ Reached = T
  BY <1>1 DEF Shaped
<1>3. PICK K : Grown(t, T, K)
  BY <1>1 DEF Shaped
<1>4. t \in Heap /\ x \in All
  BY <1>3, GrownFacts DEF IInv, TypeOK
<1>5. ASSUME Balanced(t, T, Top, "left", {}, {}), ~ (pc = "DeleteFix" /\ (x # root \/ t[x].red))
      PROVE  RedBlack
  <2>1. Reds(t, T, {}, {})
    BY <1>5 DEF Balanced
  <2>2. /\ ~ t[Nil].red /\ ~ t[Top].red
        /\ \A n \in InTree : ~ (t[n].red /\ (n = t[Top].left \/ t[t[n].parent].red))
    BY <1>2, <1>3, <1>4, <2>1, RedsShow
  <2>3. Cardinality(BlackHeights) = 1
    BY <1>3, <1>5, HeightsFull
  <2> QED
    BY <2>2, <2>3 DEF RedBlack
<1>6. CASE pc = "InsertFix"
  <2>1. Balanced(t, T, Top, "left", {x}, {})
    BY <1>2, <1>6 DEF Stage, Inserting
  <2>2. Reds(t, T, {x}, {})
    BY <2>1 DEF Balanced
  <2>3. /\ ~ t[Nil].red /\ ~ t[Top].red
        /\ \A n \in InTree : t[n].red /\ (n = t[Top].left \/ t[t[n].parent].red) => n = x
    BY <1>2, <1>3, <1>4, <2>2, RedsShow
  <2>4. Cardinality(BlackHeights) = 1
    BY <1>3, <1>6, <2>1, HeightsFull
  <2> QED
    BY <1>6, <2>3, <2>4 DEF RedBlack
<1>7. CASE pc = "DeleteFix" /\ (x # root \/ t[x].red)
  <2>1. x # root \/ x \in Red(t)
    BY <1>4, <1>7 DEF Red
  <2>2. Short(t, T, x, t[x].parent, SideOf(t, x), root)
    BY <1>2, <1>7, <2>1 DEF Stage, Deleting
  <2>3. Reds(t, T, {x}, {x})
    BY <2>2 DEF Short, Balanced
  <2>4. /\ ~ t[Nil].red /\ ~ t[Top].red
        /\ \A n \in InTree : t[n].red /\ (n = t[Top].left \/ t[t[n].parent].red) => n = x \/ t[n].parent = x
    BY <1>2, <1>3, <1>4, <2>3, RedsShow
  <2>5. Cardinality(BlackHeights) = 1
    BY <1>3, <1>4, <1>7, <2>1, <2>2, HeightsShort
  <2> QED
    BY <1>7, <2>4, <2>5 DEF RedBlack
<1>8. CASE pc = "DeleteFix" /\ ~ (x # root \/ t[x].red)
  <2>1. ~ (x # root \/ x \in Red(t))
    BY <1>8 DEF Red
  <2>2. Balanced(t, T, Top, "left", {}, {})
    BY <1>2, <1>8, <2>1 DEF Stage, Deleting
  <2> QED
    BY <1>5, <1>8, <2>2
<1>9. CASE pc \notin {"InsertFix", "DeleteFix"}
  <2>1. pc \in {"Idle", "Descend", "Successor", "Splice", "Free", "Query", "Visited", "Destroyed"}
    BY <1>9 DEF IInv, TypeOK
  <2>2. Balanced(t, T, Top, "left", {}, {})
    BY <1>2, <2>1 DEF Stage, AtRest, Descending, Succeeding, Splicing, Freeing, Querying, Whole
  <2> QED
    BY <1>5, <1>9, <2>2
<1> QED
  BY <1>6, <1>7, <1>8, <1>9

LEMMA InvLinked == IInv => Linked
<1> SUFFICES ASSUME IInv, pc # "Destroyed"
             PROVE  /\ InTree \subseteq live
                    /\ \A n \in InTree :
                         /\ n = t[Top].left => t[n].parent = Top
                         /\ \A c \in {t[n].left, t[n].right} \ {Nil} : t[c].parent = n
  BY DEF Linked
<1>1. PICK T : Shaped(T)
  BY InvShape
<1>2. Stage(T) /\ InTree = T
  BY <1>1 DEF Shaped, InTree
<1>3. T \subseteq live
  <2>1. pc \in {"Idle", "Descend", "InsertFix", "Successor", "Splice", "DeleteFix", "Free", "Query", "Visited"}
    BY DEF IInv, TypeOK
  <2> QED
    BY <1>2, <2>1 DEF Stage, AtRest, Descending, Inserting, Succeeding, Splicing, Deleting, Freeing, Querying, Out
<1>4. PICK K : Grown(t, T, K)
  BY <1>1 DEF Shaped
<1>5. Joined(t, T) /\ Nil \notin T /\ Top \in T \cup {Top}
  BY <1>4, GrownFacts
<1>6. ASSUME NEW n \in T
      PROVE  /\ n = t[Top].left => t[n].parent = Top
             /\ \A c \in {t[n].left, t[n].right} \ {Nil} : t[c].parent = n
  <2>1. n = t[Top].left => t[n].parent = Top
    BY <1>5, JoinedLinks
  <2>2. \A c \in {t[n].left, t[n].right} \ {Nil} : t[c].parent = n
    BY <1>5, JoinedLinks
  <2> QED
    BY <2>1, <2>2
<1> QED
  BY <1>2, <1>3, <1>6

LEMMA InvOrdered == IInv => Ordered
<1> SUFFICES ASSUME IInv PROVE Ordered
  OBVIOUS
<1>1. PICK T : Shaped(T)
  BY InvShape
<1>2. InTree = T
  BY <1>1 DEF Shaped, InTree
<1>3. PICK s : s = InOrder(t)
  OBVIOUS
<1>4. ASSUME InTree # {}, NEW i \in 1 .. Len(s) - 1
      PROVE  KeyOf[s[i]] <= KeyOf[s[i + 1]]
  <2>1. Listed(s, T, KeyOf)
    BY <1>1, <1>2, <1>3, <1>4 DEF Shaped
  <2>2. s \in Seq(T) /\ \A i1, j1 \in 1 .. Len(s) : i1 < j1 => KeyOf[s[i1]] <= KeyOf[s[j1]]
    BY <2>1 DEF Listed
  <2>3. Len(s) \in Nat
    BY <2>2
  <2>4. i \in 1 .. Len(s) /\ i + 1 \in 1 .. Len(s) /\ i < i + 1
    BY <2>3
  <2> QED
    BY <2>2, <2>4
<1> QED
  BY <1>3, <1>4 DEF Ordered

LEMMA InvWalks == IInv => WalksReachAll
<1> SUFFICES ASSUME IInv PROVE WalksReachAll
  OBVIOUS
<1>1. PICK T : Shaped(T)
  BY InvShape
<1>2. Stage(T)
  BY <1>1 DEF Shaped
<1>3. ASSUME pc = "Visited", live # {}
      PROVE  Len(visited) = Cardinality(live) /\ {visited[i] : i \in 1 .. Len(visited)} = live
  <2>1. live = T /\ visited = InOrder(t)
    BY <1>2, <1>3 DEF Stage, AtRest
  <2>2. PICK w : w = visited
    OBVIOUS
  <2>3. Listed(w, T, KeyOf)
    BY <1>1, <1>3, <2>1, <2>2 DEF Shaped
  <2>4. w \in Seq(T) /\ Len(w) = Cardinality(T) /\ \A m \in T : \E i \in 1 .. Len(w) : w[i] = m
    BY <2>3 DEF Listed
  <2>5. \A i \in 1 .. Len(w) : w[i] \in T
    BY <2>4
  <2>6. {w[i] : i \in 1 .. Len(w)} = T
    BY <2>4, <2>5
  <2> QED
    BY <2>1, <2>2, <2>4, <2>6
<1>4. pc = "Destroyed" => live = {}
  BY <1>2 DEF Stage
<1> QED
  BY <1>3, <1>4 DEF WalksReachAll

(* What the tree holds, by what is allocated.                              *)
Holding ==
  /\ pc \notin {"Descend", "Destroyed"} => Held = live
  /\ pc = "Descend" => z \in live /\ Held = live \ {z}
  /\ pc = "Free" => z \in live
  /\ live \subseteq Nodes

LEMMA InvHolding == IInv => Holding
<1> SUFFICES ASSUME IInv PROVE Holding
  OBVIOUS
<1>1. PICK T : Shaped(T)
  BY InvShape
<1>2. Stage(T) /\ InTree = T
  BY <1>1 DEF Shaped, InTree
<1>3. /\ live \subseteq Nodes
      /\ pc \in {"Idle", "Descend", "InsertFix", "Successor", "Splice", "DeleteFix", "Free", "Query", "Visited", "Destroyed"}
  BY DEF IInv, TypeOK
<1>4. pc \in {"Idle", "InsertFix", "Successor", "Splice", "Query", "Visited"} => Held = live
  BY <1>2 DEF Held, Stage, AtRest, Inserting, Succeeding, Splicing, Querying
<1>5. pc \in {"DeleteFix", "Free"} => Held = live /\ z \in live
  BY <1>2 DEF Held, Stage, Deleting, Freeing, Out
<1>6. pc = "Descend" => z \in live /\ Held = live \ {z}
  BY <1>2 DEF Held, Stage, Descending
<1> QED
  BY <1>3, <1>4, <1>5, <1>6 DEF Holding

-----------------------------------------------------------------------------
(* The theorems.                                                           *)

(* Every link of a node leads to an address, nodes and sentinels alike, in *)
(* every iteration of every loop.                                          *)
THEOREM RBTypeCorrect == Spec => []TypeOK
<1>1. IInv => TypeOK
  BY DEF IInv
<1> QED
  BY <1>1, Invariant, PTL

(* Whatever a rotation, a splice or a transplant is in the middle of, each *)
(* child points back at its parent and no freed node is reachable.         *)
THEOREM RBLinked == Spec => []Linked
BY Invariant, InvLinked, PTL

(* All paths down have as many black nodes, x counting as one more while a *)
(* deletion is being repaired; two red nodes meet only at the node a loop  *)
(* is repairing; and no sentinel is painted.                               *)
THEOREM RBRedBlack == Spec => []RedBlack
BY Invariant, InvRedBlack, PTL

(* The keys stay in order, in the middle of a rotation and while the node  *)
(* spliced out has still to take the place of the deleted one.             *)
THEOREM RBOrdered == Spec => []Ordered
BY Invariant, InvOrdered, PTL

(* TreeForEach passes every entry to Func once, and RBTreeDestroy frees    *)
(* every node that is allocated.                                           *)
THEOREM RBWalksReachAll == Spec => []WalksReachAll
BY Invariant, InvWalks, PTL

(* A query that ends has met an entry with its key if the tree has one.    *)
LEMMA QueryEnds ==
  ASSUME IInv, [Next]_vars, pc = "Query", pc' = "Idle"
  PROVE  IF Bag!Matches(q) = {} THEN x = Nil ELSE x \in Bag!Matches(q)
<1>1. PICK T : Shaped(T)
  BY InvShape
<1>2. Querying(T) /\ InTree = T
  BY <1>1 DEF Shaped, Stage, InTree
<1>3. Held = T
  BY <1>2 DEF Held
<1>4. Bag!Matches(q) = {e \in T : KeyOf[e] = q}
  BY <1>3 DEF Bag!Matches
<1>5. PICK sub : Tree(t, T, sub) /\ \A m \in T : KeyOf[m] = q => m \in sub[x]
  BY <1>2 DEF Querying
<1>6. x \in T \cup {Nil} /\ sub[Nil] = {}
  BY <1>2, <1>5, TreeLinks DEF Querying
<1>7. x = Nil \/ KeyOf[x] = q
  <2>1. QueryStep
    BY DEF Next, Call, Run, Stopped, vars, RBTreeInsert, RBDelete, RBExactQuery, TreeForEach, RBTreeDestroy,
           Descend, Hang, InsertFix, InsertDone, Successor, Splice, DeleteFix, DeleteFixDone, Free, ForEachDone
  <2> QED
    BY <2>1 DEF QueryStep
<1>8. CASE x = Nil
  <2>1. \A m \in T : KeyOf[m] # q
    BY <1>5, <1>6, <1>8
  <2> QED
    BY <1>4, <1>8, <2>1
<1>9. CASE x # Nil
  <2>1. x \in Bag!Matches(q)
    BY <1>4, <1>6, <1>7, <1>9
  <2> QED
    BY <2>1
<1> QED
  BY <1>8, <1>9

(* RBExactQuery returns an entry with the key whenever the tree holds one,  *)
(* and 0 when it holds none, for every shape of the tree.                  *)
THEOREM RBQueryFinds == Spec => QueryFinds
<1>1. IInv /\ [Next]_vars => [pc = "Query" /\ pc' = "Idle" =>
                                IF Bag!Matches(q) = {} THEN x = Nil ELSE x \in Bag!Matches(q)]_vars
  BY QueryEnds
<1> QED
  BY <1>1, Invariant, PTL DEF Spec, QueryFinds

(* Every step is a step of the bag, or none.                               *)
LEMMA BagStep ==
  ASSUME Holding, Holding', [Next]_vars
  PROVE  [Bag!Next]_Held
<1>1. /\ pc \notin {"Descend", "Destroyed"} => Held = live
      /\ pc = "Descend" => z \in live /\ Held = live \ {z}
      /\ pc = "Free" => z \in live
      /\ live \subseteq Nodes
  BY DEF Holding
<1>2. /\ pc' \notin {"Descend", "Destroyed"} => Held' = live'
      /\ pc' = "Descend" => z' \in live' /\ Held' = live' \ {z'}
  BY DEF Holding
<1>3. ASSUME NEW n \in Nodes, RBTreeInsert(n)
      PROVE  Held' = Held
  BY <1>1, <1>2, <1>3 DEF RBTreeInsert
<1>4. ASSUME NEW n \in Nodes, RBDelete(n)
      PROVE  Held' = Held
  <2>1. pc = "Idle" /\ pc' \in {"Splice", "Successor"} /\ live' = live
    BY <1>4 DEF RBDelete
  <2> QED
    BY <1>1, <1>2, <2>1
<1>5. ASSUME NEW k \in Queries, RBExactQuery(k)
      PROVE  Held' = Held
  BY <1>1, <1>2, <1>5 DEF RBExactQuery
<1>6. CASE TreeForEach \/ ForEachDone
  BY <1>1, <1>2, <1>6 DEF TreeForEach, ForEachDone
<1>7. CASE RBTreeDestroy
  <2>1. pc = "Idle" /\ pc' = "Destroyed" /\ t' = t
    BY <1>7 DEF RBTreeDestroy
  <2>2. Reached' = Reached
    BY <2>1 DEF Reached
  <2> QED
    BY <2>1, <2>2 DEF Held, InTree
<1>8. CASE Descend
  <2>1. pc = "Descend" /\ pc' = pc /\ z' = z /\ live' = live
    BY <1>8 DEF Descend
  <2> QED
    BY <1>1, <1>2, <2>1
<1>9. CASE Hang
  <2>1. pc = "Descend" /\ pc' = "InsertFix" /\ live' = live
    BY <1>9 DEF Hang
  <2>2. z \notin Held /\ Held' = Held \cup {z} /\ z \in Nodes
    BY <1>1, <1>2, <2>1
  <2> QED
    BY <2>2 DEF Bag!Next, Bag!Insert
<1>10. CASE InsertFix \/ InsertDone
  <2>1. pc = "InsertFix" /\ pc' \in {"InsertFix", "Idle"} /\ live' = live
    BY <1>10 DEF InsertFix, InsertDone, Return
  <2> QED
    BY <1>1, <1>2, <2>1
<1>11. CASE Successor
  <2>1. pc = "Successor" /\ pc' \in {"Successor", "Splice"} /\ live' = live
    BY <1>11 DEF Successor
  <2> QED
    BY <1>1, <1>2, <2>1
<1>12. CASE Splice
  <2>1. pc = "Splice" /\ pc' \in {"Free", "DeleteFix"} /\ live' = live
    BY <1>12 DEF Splice
  <2> QED
    BY <1>1, <1>2, <2>1
<1>13. CASE DeleteFix \/ DeleteFixDone
  <2>1. pc = "DeleteFix" /\ pc' \in {"DeleteFix", "Free"} /\ live' = live
    BY <1>13 DEF DeleteFix, DeleteFixDone
  <2> QED
    BY <1>1, <1>2, <2>1
<1>14. CASE Free
  <2>1. pc = "Free" /\ pc' = "Idle" /\ live' = live \ {z}
    BY <1>14 DEF Free, Return
  <2>2. z \in Held /\ Held' = Held \ {z} /\ z \in Nodes
    BY <1>1, <1>2, <2>1
  <2> QED
    BY <2>2 DEF Bag!Next, Bag!Delete
<1>15. CASE QueryStep
  <2>1. pc = "Query" /\ pc' \in {"Query", "Idle"} /\ live' = live
    BY <1>15 DEF QueryStep, Return
  <2> QED
    BY <1>1, <1>2, <2>1
<1>16. CASE Stopped \/ UNCHANGED vars
  <2>1. pc' = pc /\ y' = y /\ t' = t
    BY <1>16 DEF Stopped, vars
  <2>2. Reached' = Reached
    BY <2>1 DEF Reached
  <2> QED
    BY <2>1, <2>2 DEF Held, InTree
<1> QED
  BY <1>3, <1>4, <1>5, <1>6, <1>7, <1>8, <1>9, <1>10, <1>11, <1>12, <1>13, <1>14, <1>15, <1>16
     DEF Next, Call, Run

LEMMA BagInit == ASSUME IInv, Init PROVE Bag!Init
<1>1. pc = "Idle" /\ live = {}
  BY DEF Init
<1>2. Held = {}
  BY <1>1, InvHolding DEF Holding
<1> QED
  BY <1>2 DEF Bag!Init

(* The tree is an ordered bag: an insertion adds the one node it was given  *)
(* when it hangs it, a deletion removes the one it was asked to when it    *)
(* frees it, and nothing else changes what the tree holds.                 *)
THEOREM RBTreeIsBag == Spec => ImplementsBag
<1>1. IInv /\ Init => Bag!Init
  BY BagInit
<1>2. Holding /\ Holding' /\ [Next]_vars => [Bag!Next]_Held
  BY BagStep
<1> QED
  BY <1>1, <1>2, Invariant, InvHolding, PTL DEF Spec, ImplementsBag, Bag!Spec
=============================================================================
