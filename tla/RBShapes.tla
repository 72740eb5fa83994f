------------------------------ MODULE RBShapes ------------------------------
(***************************************************************************)
(* Lemmas about RBTree: what linking a node, a rotation, a repaint and     *)
(* splicing a node out do to the shape, the order and the heights of one   *)
(* tree, for all nodes and keys.                                           *)
(***************************************************************************)
EXTENDS RBTree, FiniteSetTheorems, Walks

Sides == {"left", "right"}

Rec  == [left : All, right : All, parent : All, red : BOOLEAN]
Heap == [All -> Rec]

-----------------------------------------------------------------------------
(* The shape of a tree.  T are its nodes; Top is above them.               *)

(* Links lead from node to node, and back.                                 *)
Joined(s, T) ==
  /\ s \in Heap /\ T \subseteq Nodes
  /\ s[Top].right = Nil /\ s[Nil].left = Nil /\ s[Nil].right = Nil
  /\ \A n \in T \cup {Top} : \A d \in Sides :
       /\ Child(s, n, d) \in T \cup {Nil}
       /\ Child(s, n, d) # Nil => s[Child(s, n, d)].parent = n
  /\ \A n \in T : s[n].parent \in T \cup {Top} /\ \E d \in Sides : n = Child(s, s[n].parent, d)

(* What is below each node, itself included: T is below Top, and a node is *)
(* not below itself, so there are no cycles.                               *)
Nest(s, T, sub) ==
  /\ IsFiniteSet(T) /\ sub[Nil] = {} /\ sub[s[Top].left] = T
  /\ \A n \in T : sub[n] \subseteq T
  /\ \A n \in T : \A d \in Sides :
       /\ n \notin sub[Child(s, n, d)]
       /\ sub[n] = {n} \cup sub[Child(s, n, d)] \cup sub[Child(s, n, Other(d))]
       /\ sub[Child(s, n, d)] \cap sub[Child(s, n, Other(d))] = {}

Tree(s, T, sub) == Joined(s, T) /\ Nest(s, T, sub)

LEMMA Alls == /\ Nil \in All /\ Top \in All /\ Nil # Top /\ Nodes \subseteq All
              /\ Nil \notin Nodes /\ Top \notin Nodes
              /\ \A T : T \subseteq Nodes => /\ T \cup {Nil} \subseteq All /\ T \cup {Top} \subseteq All
                                             /\ Nil \notin T \cup {Top} /\ Top \notin T
BY RBAssumption DEF All

LEMMA RecFields ==
  ASSUME NEW s \in Heap, NEW n \in All
  PROVE  /\ s[n] \in Rec /\ s[n].left \in All /\ s[n].right \in All /\ s[n].parent \in All /\ s[n].red \in BOOLEAN
<1>1. s[n] \in Rec
  BY DEF Heap
<1> QED
  BY <1>1 DEF Rec

LEMMA ChildSides == /\ \A s, n : Child(s, n, "left") = s[n].left /\ Child(s, n, "right") = s[n].right
                    /\ "left" # "right" /\ "left" \in Sides /\ "right" \in Sides
                    /\ Other("left") = "right" /\ Other("right") = "left"
                    /\ \A d \in Sides : d = "left" \/ d = "right"
BY DEF Child, Sides, Other

(* The links of a tree, by name.                                           *)
LEMMA JoinedLinks ==
  ASSUME NEW s, NEW T, Joined(s, T), NEW n \in T \cup {Top}
  PROVE  /\ s[n].left \in T \cup {Nil} /\ (s[n].left # Nil => s[n].left \in T /\ s[s[n].left].parent = n)
         /\ s[n].right \in T \cup {Nil} /\ (s[n].right # Nil => s[n].right \in T /\ s[s[n].right].parent = n)
BY ChildSides DEF Joined

LEMMA JoinedParent ==
  ASSUME NEW s, NEW T, Joined(s, T), NEW n \in T
  PROVE  /\ s[n].parent \in T \cup {Top}
         /\ n = s[s[n].parent].left \/ n = s[s[n].parent].right
BY ChildSides DEF Joined

LEMMA TreeLinks ==
  ASSUME NEW s, NEW T, NEW sub, Tree(s, T, sub)
  PROVE  /\ \A n \in T : n \in sub[n] /\ sub[n] \subseteq T
         /\ \A n \in T : /\ n \notin sub[s[n].left] /\ n \notin sub[s[n].right]
                         /\ sub[n] = {n} \cup sub[s[n].left] \cup sub[s[n].right]
                         /\ sub[s[n].left] \cap sub[s[n].right] = {}
         /\ IsFiniteSet(T) /\ sub[Nil] = {} /\ sub[s[Top].left] = T
BY ChildSides DEF Tree, Nest

(* A node is neither of its children, nor its parent, nor are its children *)
(* one.                                                                    *)
LEMMA Kin ==
  ASSUME NEW s, NEW T, NEW sub, Tree(s, T, sub), NEW n \in T
  PROVE  /\ s[n].left # n /\ s[n].right # n
         /\ s[n].left = s[n].right => s[n].left = Nil
         /\ \A m \in T : m \in {s[n].left, s[n].right} => s[m].left # n /\ s[m].right # n
<1>1. Joined(s, T)
  BY DEF Tree
<1>2. s[n].left \in T \cup {Nil} /\ s[n].right \in T \cup {Nil}
  BY <1>1, JoinedLinks
<1>3. \A m \in T : m \in sub[m]
  BY TreeLinks
<1>4. /\ n \notin sub[s[n].left] /\ n \notin sub[s[n].right]
      /\ sub[s[n].left] \cap sub[s[n].right] = {}
  BY TreeLinks
<1>5. ASSUME NEW m \in T, m \in {s[n].left, s[n].right}
      PROVE  s[m].left # n /\ s[m].right # n
  <2>1. sub[m] = {m} \cup sub[s[m].left] \cup sub[s[m].right]
    BY TreeLinks
  <2>2. n \notin sub[m]
    BY <1>4, <1>5
  <2> QED
    BY <1>3, <2>1, <2>2
<1> QED
  BY <1>2, <1>3, <1>4, <1>5

(* Top is above the tree.                                                  *)
LEMMA TopKin ==
  ASSUME NEW s, NEW T, Joined(s, T)
  PROVE  /\ s[Top].right = Nil /\ s[Top].left # Top /\ s[Top].right # Top
         /\ s[Top].left = Nil \/ s[Top].left \in T
<1>1. Top \in T \cup {Top} /\ Top \notin T /\ Top # Nil
  BY Alls DEF Joined
<1>2. s[Top].right = Nil
  BY DEF Joined
<1> QED
  BY <1>1, <1>2, JoinedLinks

-----------------------------------------------------------------------------
(* Writing a link.                                                         *)

(* One node has other links.                                               *)
Writes(s, s1, n, l, r, p) ==
  /\ s1 \in Heap
  /\ s1[n].left = l /\ s1[n].right = r /\ s1[n].parent = p
  /\ \A m \in All : s1[m].red = s[m].red /\ (m # n => s1[m] = s[m])

LEMMA WritesRec ==
  ASSUME NEW s \in Heap, NEW n \in All, NEW k \in Rec, k.red = s[n].red
  PROVE  Writes(s, [s EXCEPT ![n] = k], n, k.left, k.right, k.parent)
<1>1. PICK s1 : s1 = [s EXCEPT ![n] = k]
  OBVIOUS
<1>2. s1 \in Heap /\ s1[n] = k /\ \A m \in All : m # n => s1[m] = s[m]
  BY <1>1 DEF Heap
<1>3. Writes(s, s1, n, k.left, k.right, k.parent)
  BY <1>2 DEF Writes
<1> QED
  BY <1>1, <1>3

LEMMA WritesLeft ==
  ASSUME NEW s \in Heap, NEW n \in All, NEW c \in All
  PROVE  Writes(s, [s EXCEPT ![n].left = c], n, c, s[n].right, s[n].parent)
<1>1. PICK r : r = s[n]
  OBVIOUS
<1>2. r \in Rec
  BY <1>1 DEF Heap
<1>3. PICK k : k = [r EXCEPT !.left = c]
  OBVIOUS
<1>4. k \in Rec /\ k.left = c /\ k.right = r.right /\ k.parent = r.parent /\ k.red = r.red
  BY <1>2, <1>3 DEF Rec
<1>5. Writes(s, [s EXCEPT ![n] = k], n, k.left, k.right, k.parent)
  BY <1>1, <1>4, WritesRec
<1>6. [s EXCEPT ![n].left = c] = [s EXCEPT ![n] = k]
  BY <1>1, <1>3
<1> QED
  BY <1>1, <1>4, <1>5, <1>6

LEMMA WritesRight ==
  ASSUME NEW s \in Heap, NEW n \in All, NEW c \in All
  PROVE  Writes(s, [s EXCEPT ![n].right = c], n, s[n].left, c, s[n].parent)
<1>1. PICK r : r = s[n]
  OBVIOUS
<1>2. r \in Rec
  BY <1>1 DEF Heap
<1>3. PICK k : k = [r EXCEPT !.right = c]
  OBVIOUS
<1>4. k \in Rec /\ k.right = c /\ k.left = r.left /\ k.parent = r.parent /\ k.red = r.red
  BY <1>2, <1>3 DEF Rec
<1>5. Writes(s, [s EXCEPT ![n] = k], n, k.left, k.right, k.parent)
  BY <1>1, <1>4, WritesRec
<1>6. [s EXCEPT ![n].right = c] = [s EXCEPT ![n] = k]
  BY <1>1, <1>3
<1> QED
  BY <1>1, <1>4, <1>5, <1>6

LEMMA WritesParent ==
  ASSUME NEW s \in Heap, NEW n \in All, NEW c \in All
  PROVE  Writes(s, SetParent(s, n, c), n, s[n].left, s[n].right, c)
<1>1. PICK r : r = s[n]
  OBVIOUS
<1>2. r \in Rec
  BY <1>1 DEF Heap
<1>3. PICK k : k = [r EXCEPT !.parent = c]
  OBVIOUS
<1>4. k \in Rec /\ k.parent = c /\ k.left = r.left /\ k.right = r.right /\ k.red = r.red
  BY <1>2, <1>3 DEF Rec
<1>5. Writes(s, [s EXCEPT ![n] = k], n, k.left, k.right, k.parent)
  BY <1>1, <1>4, WritesRec
<1>6. SetParent(s, n, c) = [s EXCEPT ![n] = k]
  BY <1>1, <1>3 DEF SetParent
<1> QED
  BY <1>1, <1>4, <1>5, <1>6

LEMMA Replaces ==
  ASSUME NEW s \in Heap, NEW p \in All, NEW from, NEW to \in All
  PROVE  Writes(s, Replace(s, p, from, to), p,
                IF from = s[p].left THEN to ELSE s[p].left,
                IF from = s[p].left THEN s[p].right ELSE to, s[p].parent)
<1>1. CASE from = s[p].left
  BY <1>1, WritesLeft DEF Replace
<1>2. CASE from # s[p].left
  BY <1>2, WritesRight DEF Replace
<1> QED
  BY <1>1, <1>2

-----------------------------------------------------------------------------
(* Rotations.                                                              *)

(* The tree turns at a, a link of g: b goes up, a goes down on side l, and  *)
(* m, which was below b on that side, is now below a.                      *)
Turned(s, s1, a, b, m, g, l) ==
  /\ s1 \in Heap /\ \A n \in All : s1[n].red = s[n].red
  /\ Child(s1, a, l) = Child(s, a, l) /\ Child(s1, a, Other(l)) = m
  /\ Child(s1, b, l) = a /\ Child(s1, b, Other(l)) = Child(s, b, Other(l))
  /\ \A n \in All \ {a, b} : \A d \in Sides :
       Child(s1, n, d) = IF n = g /\ Child(s, n, d) = a THEN b ELSE Child(s, n, d)
  /\ s1[a].parent = b /\ s1[b].parent = g
  /\ \A n \in All \ {a, b} : s1[n].parent = IF n = m /\ m # Nil THEN a ELSE s[n].parent

LEMMA LeftTurns ==
  ASSUME NEW s, NEW T, NEW sub, Tree(s, T, sub),
         NEW a \in T, s[a].right # Nil,
         NEW b, b = s[a].right, NEW m, m = s[b].left, NEW g, g = s[a].parent
  PROVE  Turned(s, LeftRotate(s, a), a, b, m, g, "left")
<1>1. /\ s \in Heap /\ a \in All /\ b \in T /\ b \in All /\ m \in T \cup {Nil} /\ m \in All
      /\ g \in T \cup {Top} /\ g \in All /\ a # Nil /\ b # Nil
  <2>1. Joined(s, T) /\ s \in Heap /\ T \subseteq Nodes
    BY DEF Tree, Joined
  <2>2. b \in T
    BY <2>1, JoinedLinks
  <2>3. m \in T \cup {Nil}
    BY <2>1, <2>2, JoinedLinks
  <2>4. g \in T \cup {Top}
    BY <2>1, JoinedParent
  <2> QED
    BY <2>1, <2>2, <2>3, <2>4, Alls
<1>2. /\ a # b /\ a # m /\ b # m /\ a # g /\ b # g
      /\ (a = s[g].left \/ a = s[g].right) /\ (s[g].left = s[g].right => s[g].left = Nil)
  <2>1. s[a].right # a /\ s[b].left # b /\ s[b].left # a /\ s[b].right # a
    BY <1>1, Kin
  <2>2. Joined(s, T)
    BY DEF Tree
  <2>3. a = s[g].left \/ a = s[g].right
    BY <2>2, JoinedParent
  <2>4. a # g
    BY <1>1, <2>2, <2>3, Kin, TopKin
  <2>5. s[g].left = s[g].right => s[g].left = Nil
    <3>1. g \in T \/ g = Top
      BY <1>1
    <3> QED
      BY <2>2, <3>1, Kin, TopKin
  <2>6. b # g
    BY <2>1, <2>3
  <2> QED
    BY <2>1, <2>3, <2>4, <2>5, <2>6
<1>3. PICK s2 : s2 = [s EXCEPT ![a].right = m]
  OBVIOUS
<1>4. Writes(s, s2, a, s[a].left, m, g)
  BY <1>1, <1>3, WritesRight
<1>5. PICK s3 : s3 = IF m # Nil THEN SetParent(s2, m, a) ELSE s2
  OBVIOUS
<1>6. m # Nil => Writes(s2, s3, m, s2[m].left, s2[m].right, a)
  <2>1. s2 \in Heap
    BY <1>4 DEF Writes
  <2> QED
    BY <1>1, <1>5, <2>1, WritesParent
<1>7. /\ s3 \in Heap /\ \A n \in All : /\ s3[n].left = s2[n].left /\ s3[n].right = s2[n].right
                                       /\ s3[n].red = s2[n].red
                                       /\ s3[n].parent = IF n = m /\ m # Nil THEN a ELSE s2[n].parent
  BY <1>4, <1>5, <1>6 DEF Writes
<1>8. PICK s4 : s4 = SetParent(s3, b, g)
  OBVIOUS
<1>9. Writes(s3, s4, b, s3[b].left, s3[b].right, g)
  BY <1>1, <1>7, <1>8, WritesParent
<1>10. PICK s5 : s5 = Replace(s4, g, a, b)
  OBVIOUS
<1>11. Writes(s4, s5, g, IF a = s4[g].left THEN b ELSE s4[g].left,
                         IF a = s4[g].left THEN s4[g].right ELSE b, s4[g].parent)
  <2>1. s4 \in Heap
    BY <1>9 DEF Writes
  <2> QED
    BY <1>1, <1>10, <2>1, Replaces
<1>12. PICK s6 : s6 = [s5 EXCEPT ![b].left = a]
  OBVIOUS
<1>13. Writes(s5, s6, b, a, s5[b].right, s5[b].parent)
  <2>1. s5 \in Heap
    BY <1>11 DEF Writes
  <2> QED
    BY <1>1, <1>12, <2>1, WritesLeft
<1>14. PICK s7 : s7 = SetParent(s6, a, b)
  OBVIOUS
<1>15. Writes(s6, s7, a, s6[a].left, s6[a].right, b)
  <2>1. s6 \in Heap
    BY <1>13 DEF Writes
  <2> QED
    BY <1>1, <1>14, <2>1, WritesParent
<1>16. LeftRotate(s, a) = s7
  <2>1. s4[a].parent = g
    <3>1. s2[a].parent = g
      BY <1>4 DEF Writes
    <3>2. s3[a].parent = g
      BY <1>1, <1>2, <1>7, <3>1
    <3> QED
      BY <1>1, <1>2, <1>9, <3>2 DEF Writes
  <2>2. s[a].right = b /\ s[b].left = m /\ s[a].parent = g
    OBVIOUS
  <2>3. SetParent(s3, b, s[a].parent) = s4
    BY <1>8
  <2>4. Replace(s4, s4[a].parent, a, b) = s5
    BY <1>10, <2>1
  <2> QED
    BY <1>3, <1>5, <1>12, <1>14, <2>2, <2>3, <2>4 DEF LeftRotate
<1>17. /\ s7 \in Heap /\ \A n \in All : s7[n].red = s[n].red
  <2>1. s7 \in Heap
    BY <1>15 DEF Writes
  <2>2. ASSUME NEW n \in All
        PROVE  s7[n].red = s[n].red
    <3>1. s7[n].red = s6[n].red /\ s6[n].red = s5[n].red /\ s5[n].red = s4[n].red
      BY <1>11, <1>13, <1>15 DEF Writes
    <3>2. s4[n].red = s3[n].red /\ s3[n].red = s2[n].red /\ s2[n].red = s[n].red
      BY <1>4, <1>7, <1>9 DEF Writes
    <3> QED
      BY <3>1, <3>2
  <2> QED
    BY <2>1, <2>2
<1>18. ASSUME NEW n \in All \ {a, b}
       PROVE  /\ s7[n].parent = IF n = m /\ m # Nil THEN a ELSE s[n].parent
              /\ n # g => s7[n].left = s[n].left /\ s7[n].right = s[n].right
              /\ n = g => /\ s7[n].left = IF a = s[n].left THEN b ELSE s[n].left
                          /\ s7[n].right = IF a = s[n].left THEN s[n].right ELSE b
  <2>1. s2[n] = s[n]
    BY <1>4 DEF Writes
  <2>2. /\ s3[n].left = s[n].left /\ s3[n].right = s[n].right
        /\ s3[n].parent = IF n = m /\ m # Nil THEN a ELSE s[n].parent
    BY <1>7, <2>1
  <2>3. s4[n] = s3[n]
    BY <1>9 DEF Writes
  <2>4. s7[n] = s5[n]
    BY <1>13, <1>15 DEF Writes
  <2>5. n # g => s5[n] = s4[n]
    BY <1>11 DEF Writes
  <2>6. n = g => /\ s5[n].left = IF a = s4[n].left THEN b ELSE s4[n].left
                 /\ s5[n].right = IF a = s4[n].left THEN s4[n].right ELSE b
                 /\ s5[n].parent = s4[n].parent
    BY <1>11 DEF Writes
  <2> QED
    BY <2>2, <2>3, <2>4, <2>5, <2>6
<1>19. s7[a].left = s[a].left /\ s7[a].right = m /\ s7[a].parent = b
  <2>1. s2[a].left = s[a].left /\ s2[a].right = m
    BY <1>4 DEF Writes
  <2>2. s3[a].left = s[a].left /\ s3[a].right = m
    BY <1>1, <1>7, <2>1
  <2>3. s6[a] = s3[a]
    BY <1>1, <1>2, <1>9, <1>11, <1>13 DEF Writes
  <2> QED
    BY <1>15, <2>2, <2>3 DEF Writes
<1>20. s7[b].left = a /\ s7[b].right = s[b].right /\ s7[b].parent = g
  <2>1. s2[b] = s[b]
    BY <1>1, <1>2, <1>4 DEF Writes
  <2>2. s3[b].right = s[b].right
    BY <1>1, <1>7, <2>1
  <2>3. s4[b].right = s[b].right /\ s4[b].parent = g
    BY <1>9, <2>2 DEF Writes
  <2>4. s5[b] = s4[b]
    BY <1>1, <1>2, <1>11 DEF Writes
  <2>5. s6[b].left = a /\ s6[b].right = s[b].right /\ s6[b].parent = g
    BY <1>13, <2>3, <2>4 DEF Writes
  <2> QED
    BY <1>1, <1>2, <1>15, <2>5 DEF Writes
<1>21. \A n \in All \ {a, b} : \A d \in Sides :
          Child(s7, n, d) = IF n = g /\ Child(s, n, d) = a THEN b ELSE Child(s, n, d)
  <2>2. \A n \in All \ {a, b} :
          /\ s7[n].left = IF n = g /\ s[n].left = a THEN b ELSE s[n].left
          /\ s7[n].right = IF n = g /\ s[n].right = a THEN b ELSE s[n].right
    BY <1>1, <1>2, <1>18
  <2> QED
    BY <2>2, ChildSides
<1>22. /\ Child(s7, a, "left") = Child(s, a, "left") /\ Child(s7, a, "right") = m
       /\ Child(s7, b, "left") = a /\ Child(s7, b, "right") = Child(s, b, "right")
  BY <1>19, <1>20, ChildSides
<1>23. Turned(s, s7, a, b, m, g, "left")
  BY <1>17, <1>18, <1>19, <1>20, <1>21, <1>22, ChildSides DEF Turned
<1> QED
  BY <1>16, <1>23

LEMMA RightTurns ==
  ASSUME NEW s, NEW T, NEW sub, Tree(s, T, sub),
         NEW a \in T, s[a].left # Nil,
         NEW b, b = s[a].left, NEW m, m = s[b].right, NEW g, g = s[a].parent
  PROVE  Turned(s, RightRotate(s, a), a, b, m, g, "right")
<1>1. /\ s \in Heap /\ a \in All /\ b \in T /\ b \in All /\ m \in T \cup {Nil} /\ m \in All
      /\ g \in T \cup {Top} /\ g \in All /\ a # Nil /\ b # Nil
  <2>1. Joined(s, T) /\ s \in Heap /\ T \subseteq Nodes
    BY DEF Tree, Joined
  <2>2. b \in T
    BY <2>1, JoinedLinks
  <2>3. m \in T \cup {Nil}
    BY <2>1, <2>2, JoinedLinks
  <2>4. g \in T \cup {Top}
    BY <2>1, JoinedParent
  <2> QED
    BY <2>1, <2>2, <2>3, <2>4, Alls
<1>2. /\ a # b /\ a # m /\ b # m /\ a # g /\ b # g
      /\ (a = s[g].right \/ a = s[g].left) /\ (s[g].right = s[g].left => s[g].right = Nil)
  <2>1. s[a].left # a /\ s[b].right # b /\ s[b].right # a /\ s[b].left # a
    BY <1>1, Kin
  <2>2. Joined(s, T)
    BY DEF Tree
  <2>3. a = s[g].right \/ a = s[g].left
    BY <2>2, JoinedParent
  <2>4. a # g
    BY <1>1, <2>2, <2>3, Kin, TopKin
  <2>5. s[g].right = s[g].left => s[g].right = Nil
    <3>1. g \in T \/ g = Top
      BY <1>1
    <3> QED
      BY <2>2, <3>1, Kin, TopKin
  <2>6. b # g
    BY <2>1, <2>3
  <2> QED
    BY <2>1, <2>3, <2>4, <2>5, <2>6
<1>3. PICK s2 : s2 = [s EXCEPT ![a].left = m]
  OBVIOUS
<1>4. Writes(s, s2, a, m, s[a].right, g)
  BY <1>1, <1>3, WritesLeft
<1>5. PICK s3 : s3 = IF m # Nil THEN SetParent(s2, m, a) ELSE s2
  OBVIOUS
<1>6. m # Nil => Writes(s2, s3, m, s2[m].left, s2[m].right, a)
  <2>1. s2 \in Heap
    BY <1>4 DEF Writes
  <2> QED
    BY <1>1, <1>5, <2>1, WritesParent
<1>7. /\ s3 \in Heap /\ \A n \in All : /\ s3[n].right = s2[n].right /\ s3[n].left = s2[n].left
                                       /\ s3[n].red = s2[n].red
                                       /\ s3[n].parent = IF n = m /\ m # Nil THEN a ELSE s2[n].parent
  BY <1>4, <1>5, <1>6 DEF Writes
<1>8. PICK s4 : s4 = SetParent(s3, b, g)
  OBVIOUS
<1>9. Writes(s3, s4, b, s3[b].left, s3[b].right, g)
  BY <1>1, <1>7, <1>8, WritesParent
<1>10. PICK s5 : s5 = Replace(s4, g, a, b)
  OBVIOUS
<1>11. Writes(s4, s5, g, IF a = s4[g].left THEN b ELSE s4[g].left,
                         IF a = s4[g].left THEN s4[g].right ELSE b, s4[g].parent)
  <2>1. s4 \in Heap
    BY <1>9 DEF Writes
  <2> QED
    BY <1>1, <1>10, <2>1, Replaces
<1>12. PICK s6 : s6 = [s5 EXCEPT ![b].right = a]
  OBVIOUS
<1>13. Writes(s5, s6, b, s5[b].left, a, s5[b].parent)
  <2>1. s5 \in Heap
    BY <1>11 DEF Writes
  <2> QED
    BY <1>1, <1>12, <2>1, WritesRight
<1>14. PICK s7 : s7 = SetParent(s6, a, b)
  OBVIOUS
<1>15. Writes(s6, s7, a, s6[a].left, s6[a].right, b)
  <2>1. s6 \in Heap
    BY <1>13 DEF Writes
  <2> QED
    BY <1>1, <1>14, <2>1, WritesParent
<1>16. RightRotate(s, a) = s7
  <2>1. s4[a].parent = g
    <3>1. s2[a].parent = g
      BY <1>4 DEF Writes
    <3>2. s3[a].parent = g
      BY <1>1, <1>2, <1>7, <3>1
    <3> QED
      BY <1>1, <1>2, <1>9, <3>2 DEF Writes
  <2>2. s[a].left = b /\ s[b].right = m /\ s[a].parent = g
    OBVIOUS
  <2>3. SetParent(s3, b, s[a].parent) = s4
    BY <1>8
  <2>4. Replace(s4, s4[a].parent, a, b) = s5
    BY <1>10, <2>1
  <2> QED
    BY <1>3, <1>5, <1>12, <1>14, <2>2, <2>3, <2>4 DEF RightRotate
<1>17. /\ s7 \in Heap /\ \A n \in All : s7[n].red = s[n].red
  <2>1. s7 \in Heap
    BY <1>15 DEF Writes
  <2>2. ASSUME NEW n \in All
        PROVE  s7[n].red = s[n].red
    <3>1. s7[n].red = s6[n].red /\ s6[n].red = s5[n].red /\ s5[n].red = s4[n].red
      BY <1>11, <1>13, <1>15 DEF Writes
    <3>2. s4[n].red = s3[n].red /\ s3[n].red = s2[n].red /\ s2[n].red = s[n].red
      BY <1>4, <1>7, <1>9 DEF Writes
    <3> QED
      BY <3>1, <3>2
  <2> QED
    BY <2>1, <2>2
<1>18. ASSUME NEW n \in All \ {a, b}
       PROVE  /\ s7[n].parent = IF n = m /\ m # Nil THEN a ELSE s[n].parent
              /\ n # g => s7[n].right = s[n].right /\ s7[n].left = s[n].left
              /\ n = g => /\ s7[n].left = IF a = s[n].left THEN b ELSE s[n].left
                          /\ s7[n].right = IF a = s[n].left THEN s[n].right ELSE b
  <2>1. s2[n] = s[n]
    BY <1>4 DEF Writes
  <2>2. /\ s3[n].right = s[n].right /\ s3[n].left = s[n].left
        /\ s3[n].parent = IF n = m /\ m # Nil THEN a ELSE s[n].parent
    BY <1>7, <2>1
  <2>3. s4[n] = s3[n]
    BY <1>9 DEF Writes
  <2>4. s7[n] = s5[n]
    BY <1>13, <1>15 DEF Writes
  <2>5. n # g => s5[n] = s4[n]
    BY <1>11 DEF Writes
  <2>6. n = g => /\ s5[n].left = IF a = s4[n].left THEN b ELSE s4[n].left
                 /\ s5[n].right = IF a = s4[n].left THEN s4[n].right ELSE b
                 /\ s5[n].parent = s4[n].parent
    BY <1>11 DEF Writes
  <2> QED
    BY <2>2, <2>3, <2>4, <2>5, <2>6
<1>19. s7[a].right = s[a].right /\ s7[a].left = m /\ s7[a].parent = b
  <2>1. s2[a].right = s[a].right /\ s2[a].left = m
    BY <1>4 DEF Writes
  <2>2. s3[a].right = s[a].right /\ s3[a].left = m
    BY <1>1, <1>7, <2>1
  <2>3. s6[a] = s3[a]
    BY <1>1, <1>2, <1>9, <1>11, <1>13 DEF Writes
  <2> QED
    BY <1>15, <2>2, <2>3 DEF Writes
<1>20. s7[b].right = a /\ s7[b].left = s[b].left /\ s7[b].parent = g
  <2>1. s2[b] = s[b]
    BY <1>1, <1>2, <1>4 DEF Writes
  <2>2. s3[b].left = s[b].left
    BY <1>1, <1>7, <2>1
  <2>3. s4[b].left = s[b].left /\ s4[b].parent = g
    BY <1>9, <2>2 DEF Writes
  <2>4. s5[b] = s4[b]
    BY <1>1, <1>2, <1>11 DEF Writes
  <2>5. s6[b].right = a /\ s6[b].left = s[b].left /\ s6[b].parent = g
    BY <1>13, <2>3, <2>4 DEF Writes
  <2> QED
    BY <1>1, <1>2, <1>15, <2>5 DEF Writes
<1>21. \A n \in All \ {a, b} : \A d \in Sides :
          Child(s7, n, d) = IF n = g /\ Child(s, n, d) = a THEN b ELSE Child(s, n, d)
  <2>2. \A n \in All \ {a, b} :
          /\ s7[n].right = IF n = g /\ s[n].right = a THEN b ELSE s[n].right
          /\ s7[n].left = IF n = g /\ s[n].left = a THEN b ELSE s[n].left
    BY <1>1, <1>2, <1>18
  <2> QED
    BY <2>2, ChildSides
<1>22. /\ Child(s7, a, "right") = Child(s, a, "right") /\ Child(s7, a, "left") = m
       /\ Child(s7, b, "right") = a /\ Child(s7, b, "left") = Child(s, b, "left")
  BY <1>19, <1>20, ChildSides
<1>23. Turned(s, s7, a, b, m, g, "right")
  BY <1>17, <1>18, <1>19, <1>20, <1>21, <1>22, ChildSides DEF Turned
<1> QED
  BY <1>16, <1>23

(* Where a tree turns: b is the child of a on the side a does not go down.  *)
Pivot(s, T, a, b, m, g, l) ==
  /\ l \in Sides /\ a \in T /\ b \in T /\ m \in T \cup {Nil} /\ g \in T \cup {Top}
  /\ b = Child(s, a, Other(l)) /\ m = Child(s, b, l) /\ g = s[a].parent
  /\ a # b /\ a # m /\ b # m /\ a # g /\ b # g

LEMMA TurnSides == \A d \in Sides : Other(d) \in Sides /\ Other(d) # d /\ Other(Other(d)) = d
                                    /\ \A e \in Sides : e = d \/ e = Other(d)
BY ChildSides DEF Sides

(* The links of a tree, by side.                                           *)
LEMMA JoinedChild ==
  ASSUME NEW s, NEW T, Joined(s, T), NEW n \in T \cup {Top}, NEW d \in Sides
  PROVE  /\ Child(s, n, d) \in T \cup {Nil} /\ Child(s, n, d) \in All
         /\ Child(s, n, d) # Nil => Child(s, n, d) \in T /\ s[Child(s, n, d)].parent = n
<1>1. T \subseteq Nodes /\ Child(s, n, d) \in T \cup {Nil} /\ (Child(s, n, d) # Nil => s[Child(s, n, d)].parent = n)
  BY DEF Joined
<1> QED
  BY <1>1, Alls

LEMMA TreeChild ==
  ASSUME NEW s, NEW T, NEW sub, Tree(s, T, sub), NEW n \in T, NEW d \in Sides
  PROVE  /\ Child(s, n, d) # n /\ (Child(s, n, d) = Child(s, n, Other(d)) => Child(s, n, d) = Nil)
         /\ \A m \in T : m = Child(s, n, d) => \A e \in Sides : Child(s, m, e) # n
BY Kin, ChildSides

LEMMA Turns ==
  ASSUME NEW s, NEW T, NEW sub, Tree(s, T, sub), NEW a \in T, NEW l \in Sides,
         NEW b, b = Child(s, a, Other(l)), b # Nil, NEW m, m = Child(s, b, l), NEW g, g = s[a].parent
  PROVE  Turned(s, Rotate(s, a, l), a, b, m, g, l) /\ Pivot(s, T, a, b, m, g, l)
<1>1. Joined(s, T) /\ Other(l) \in Sides
  BY TurnSides DEF Tree
<1>2. b \in T /\ s[b].parent = a
  BY <1>1, JoinedChild
<1>3. m \in T \cup {Nil}
  BY <1>1, <1>2, JoinedChild
<1>4. g \in T \cup {Top} /\ (a = s[g].left \/ a = s[g].right)
  BY <1>1, JoinedParent
<1>5. a # b /\ a # m /\ b # m
  BY <1>1, <1>2, TreeChild
<1>6. a # g /\ b # g
  <2>1. a = Child(s, g, "left") \/ a = Child(s, g, "right")
    BY <1>4, ChildSides
  <2>2. b # g
    BY <1>1, <1>2, <2>1, TreeChild, ChildSides
  <2>3. a # g
    BY <1>1, <1>4, Kin, TopKin
  <2> QED
    BY <2>2, <2>3
<1>7. Pivot(s, T, a, b, m, g, l)
  BY <1>1, <1>2, <1>3, <1>4, <1>5, <1>6 DEF Pivot
<1>8. CASE l = "left"
  <2>1. b = s[a].right /\ m = s[b].left
    BY <1>8, ChildSides
  <2>2. Turned(s, LeftRotate(s, a), a, b, m, g, "left")
    BY <2>1, LeftTurns
  <2> QED
    BY <1>7, <1>8, <2>2, ChildSides DEF Rotate
<1>9. CASE l = "right"
  <2>1. b = s[a].left /\ m = s[b].right
    BY <1>9, ChildSides
  <2>2. Turned(s, RightRotate(s, a), a, b, m, g, "right")
    BY <2>1, RightTurns
  <2> QED
    BY <1>7, <1>9, <2>2, ChildSides DEF Rotate
<1> QED
  BY <1>8, <1>9, ChildSides

LEMMA TurnJoined ==
  ASSUME NEW s, NEW T, NEW sub, Tree(s, T, sub), NEW s1,
         NEW a, NEW b, NEW m, NEW g, NEW l, Turned(s, s1, a, b, m, g, l), Pivot(s, T, a, b, m, g, l)
  PROVE  Joined(s1, T)
<1>1. Joined(s, T) /\ T \subseteq Nodes /\ T \cup {Top} \subseteq All /\ Nil \notin T \cup {Top}
      /\ a # Top /\ b # Top /\ a # Nil /\ b # Nil /\ Nil \in All /\ Top \in All
  BY Alls DEF Tree, Joined, Pivot
<1>2. /\ l \in Sides /\ Other(l) \in Sides /\ a \in T /\ b \in T /\ g \in T \cup {Top} /\ m \in T \cup {Nil}
      /\ a # b /\ a # m /\ b # m /\ a # g /\ b # g
      /\ b = Child(s, a, Other(l)) /\ m = Child(s, b, l) /\ g = s[a].parent
  BY TurnSides DEF Pivot
<1>3. /\ Child(s1, a, l) = Child(s, a, l) /\ Child(s1, a, Other(l)) = m
      /\ Child(s1, b, l) = a /\ Child(s1, b, Other(l)) = Child(s, b, Other(l))
      /\ \A n \in All \ {a, b} : \A d \in Sides :
           Child(s1, n, d) = IF n = g /\ Child(s, n, d) = a THEN b ELSE Child(s, n, d)
      /\ s1[a].parent = b /\ s1[b].parent = g
      /\ \A n \in All \ {a, b} : s1[n].parent = IF n = m /\ m # Nil THEN a ELSE s[n].parent
  BY DEF Turned
<1>4. \A n \in T \cup {Top} : \A d \in Sides :
        Child(s, n, d) \in T \cup {Nil} /\ (Child(s, n, d) # Nil => Child(s, n, d) \in T /\ s[Child(s, n, d)].parent = n)
  BY <1>1, JoinedChild
<1>5. /\ Child(s, a, l) # a /\ (Child(s, a, l) # Nil => Child(s, a, l) # b)
      /\ Child(s, b, Other(l)) # b /\ Child(s, b, Other(l)) # a
      /\ (Child(s, b, Other(l)) # Nil => Child(s, b, Other(l)) # m)
  BY <1>2, TreeChild, TurnSides
<1>6. s[b].parent = a /\ (m # Nil => s[m].parent = b)
  BY <1>1, <1>2, <1>4
<1>7. ASSUME NEW n \in T \cup {Top}, NEW d \in Sides
      PROVE  /\ Child(s1, n, d) \in T \cup {Nil}
             /\ Child(s1, n, d) # Nil => s1[Child(s1, n, d)].parent = n
  <2>1. d = l \/ d = Other(l)
    BY <1>2, TurnSides
  <2>2. PICK c : c = Child(s, n, d)
    OBVIOUS
  <2>3. c \in T \cup {Nil} /\ (c # Nil => c \in T /\ s[c].parent = n)
    BY <1>4, <2>2
  <2>4. CASE n = a
    <3>1. CASE d = l
      BY <1>1, <1>2, <1>3, <1>5, <1>6, <2>2, <2>3, <2>4, <3>1
    <3>2. CASE d = Other(l)
      BY <1>1, <1>2, <1>3, <2>4, <3>2
    <3> QED
      BY <2>1, <3>1, <3>2
  <2>5. CASE n = b
    <3>1. CASE d = l
      BY <1>2, <1>3, <2>5, <3>1
    <3>2. CASE d = Other(l)
      BY <1>1, <1>2, <1>3, <1>5, <2>2, <2>3, <2>5, <3>2
    <3> QED
      BY <2>1, <3>1, <3>2
  <2>6. CASE n \notin {a, b}
    <3>1. Child(s1, n, d) = IF n = g /\ c = a THEN b ELSE c
      BY <1>1, <1>3, <2>2, <2>6
    <3>2. c = a => n = g
      BY <1>1, <1>2, <2>3
    <3>3. c # b
      BY <1>1, <1>6, <2>3, <2>6
    <3>4. c # Nil => c # m
      BY <1>6, <2>3, <2>6
    <3>5. c # Nil /\ c # a => s1[c].parent = n
      BY <1>1, <1>3, <2>3, <3>3, <3>4
    <3> QED
      BY <1>2, <1>3, <2>3, <3>1, <3>2, <3>5
  <2> QED
    BY <2>4, <2>5, <2>6
<1>8. ASSUME NEW n \in T
      PROVE  s1[n].parent \in T \cup {Top} /\ \E d \in Sides : n = Child(s1, s1[n].parent, d)
  <2>1. PICK p : p = s[n].parent
    OBVIOUS
  <2>2. p \in T \cup {Top} /\ \E d \in Sides : n = Child(s, p, d)
    BY <1>1, <2>1 DEF Joined
  <2>3. PICK d \in Sides : n = Child(s, p, d)
    BY <2>2
  <2>4. CASE n = a
    BY <1>2, <1>3, <2>4
  <2>5. CASE n = b
    <3>1. \E e \in Sides : a = Child(s, g, e)
      BY <1>1, <1>2 DEF Joined
    <3>2. \E e \in Sides : b = Child(s1, g, e)
      BY <1>1, <1>2, <1>3, <3>1
    <3> QED
      BY <1>2, <1>3, <2>5, <3>2
  <2>6. CASE n = m
    BY <1>1, <1>2, <1>3, <2>6
  <2>7. CASE n \notin {a, b, m}
    <3>1. s1[n].parent = p
      BY <1>1, <1>3, <2>1, <2>7
    <3>2. d = l \/ d = Other(l)
      BY <1>2, TurnSides
    <3>3. n = Child(s1, p, d)
      BY <1>1, <1>2, <1>3, <2>2, <2>3, <2>7, <3>2
    <3> QED
      BY <2>2, <3>1, <3>3
  <2> QED
    BY <2>4, <2>5, <2>6, <2>7
<1>9. s1 \in Heap /\ s1[Top].right = Nil /\ s1[Nil].left = Nil /\ s1[Nil].right = Nil
  <2>1. Child(s, Top, "right") = Nil /\ Child(s, Nil, "left") = Nil /\ Child(s, Nil, "right") = Nil
    BY <1>1, ChildSides DEF Joined
  <2>2. Child(s1, Top, "right") = Nil /\ Child(s1, Nil, "left") = Nil /\ Child(s1, Nil, "right") = Nil
    BY <1>1, <1>2, <1>3, <2>1, ChildSides
  <2>3. s1 \in Heap
    BY DEF Turned
  <2> QED
    BY <2>2, <2>3, ChildSides
<1> QED
  BY <1>1, <1>7, <1>8, <1>9 DEF Joined

(* What is below a and b after the turn.                                    *)
Below(s, sub, a, b, m, l) ==
  [n \in All |-> IF n = b THEN sub[a]
                 ELSE IF n = a THEN {a} \cup sub[Child(s, a, l)] \cup sub[m]
                 ELSE sub[n]]

LEMMA TurnNest ==
  ASSUME NEW s, NEW T, NEW sub, Tree(s, T, sub), NEW s1,
         NEW a, NEW b, NEW m, NEW g, NEW l, Turned(s, s1, a, b, m, g, l), Pivot(s, T, a, b, m, g, l)
  PROVE  Tree(s1, T, Below(s, sub, a, b, m, l))
<1>1. Joined(s, T) /\ T \subseteq All /\ T \cup {Top} \subseteq All /\ Nil \notin T \cup {Top} /\ Top \notin T
      /\ a # Top /\ b # Top /\ a # Nil /\ b # Nil /\ Nil \in All /\ Top \in All
  BY Alls DEF Tree, Joined, Pivot
<1>2. /\ l \in Sides /\ Other(l) \in Sides /\ a \in T /\ b \in T /\ m \in T \cup {Nil} /\ g \in T \cup {Top}
      /\ a # b /\ a # m /\ b # m /\ a # g /\ b # g
      /\ b = Child(s, a, Other(l)) /\ m = Child(s, b, l) /\ g = s[a].parent
  BY TurnSides DEF Pivot
<1>3. /\ Child(s1, a, l) = Child(s, a, l) /\ Child(s1, a, Other(l)) = m
      /\ Child(s1, b, l) = a /\ Child(s1, b, Other(l)) = Child(s, b, Other(l))
      /\ \A n \in All \ {a, b} : \A d \in Sides :
           Child(s1, n, d) = IF n = g /\ Child(s, n, d) = a THEN b ELSE Child(s, n, d)
  BY DEF Turned
<1>4. PICK v : v = Below(s, sub, a, b, m, l)
  OBVIOUS
<1>5. /\ v[b] = sub[a] /\ v[a] = {a} \cup sub[Child(s, a, l)] \cup sub[m]
      /\ \A n \in All \ {a, b} : v[n] = sub[n]
  BY <1>1, <1>2, <1>4 DEF Below
<1>6. \A n \in T \cup {Top} : \A d \in Sides :
        Child(s, n, d) \in T \cup {Nil} /\ Child(s, n, d) \in All
        /\ (Child(s, n, d) # Nil => Child(s, n, d) \in T /\ s[Child(s, n, d)].parent = n)
  BY <1>1, JoinedChild
<1>7. \A n \in T : n \in sub[n] /\ sub[n] \subseteq T
  BY TreeLinks
<1>8. \A n \in T : \A d \in Sides :
       /\ n \notin sub[Child(s, n, d)]
       /\ sub[n] = {n} \cup sub[Child(s, n, d)] \cup sub[Child(s, n, Other(d))]
       /\ sub[Child(s, n, d)] \cap sub[Child(s, n, Other(d))] = {}
  BY DEF Tree, Nest
<1>9. Other(Other(l)) = l
  BY <1>2, TurnSides
<1>10. /\ v[Child(s1, b, l)] = v[a] /\ v[Child(s1, a, l)] = sub[Child(s, a, l)] /\ v[Child(s1, a, Other(l))] = sub[m]
       /\ v[Child(s1, b, Other(l))] = sub[Child(s, b, Other(l))]
  <2>1. /\ Child(s, a, l) # a /\ (Child(s, a, l) # Nil => Child(s, a, l) # b)
        /\ Child(s, b, Other(l)) # b /\ Child(s, b, Other(l)) # a
    BY <1>2, TreeChild, TurnSides
  <2>2. Child(s, a, l) \in All \ {a, b} /\ Child(s, b, Other(l)) \in All \ {a, b} /\ m \in All \ {a, b}
    BY <1>1, <1>2, <1>6, <2>1
  <2> QED
    BY <1>3, <1>5, <2>2
<1>11. ASSUME NEW n \in (T \cup {Top}) \ {a, b}, NEW d \in Sides
       PROVE  v[Child(s1, n, d)] = sub[Child(s, n, d)]
  <2>1. PICK c : c = Child(s, n, d)
    OBVIOUS
  <2>2. c \in All /\ (c # Nil => s[c].parent = n) /\ s[b].parent = a
    BY <1>1, <1>2, <1>6, <2>1
  <2>3. c = a => n = g
    BY <1>1, <1>2, <2>2
  <2>4. c # b
    BY <1>1, <2>2
  <2>5. Child(s1, n, d) = IF n = g /\ c = a THEN b ELSE c
    BY <1>1, <1>3, <2>1
  <2> QED
    BY <1>5, <2>1, <2>2, <2>3, <2>4, <2>5
<1>12. \A n \in T \ {a, b} : \A d \in Sides : Other(d) \in Sides /\ v[n] = sub[n]
                              /\ v[Child(s1, n, d)] = sub[Child(s, n, d)]
                              /\ v[Child(s1, n, Other(d))] = sub[Child(s, n, Other(d))]
  BY <1>1, <1>5, <1>11, TurnSides
<1>13. /\ sub[a] = {a} \cup sub[Child(s, a, l)] \cup sub[b]
       /\ sub[b] = {b} \cup sub[m] \cup sub[Child(s, b, Other(l))]
       /\ a \notin sub[b] /\ sub[Child(s, a, l)] \cap sub[b] = {} /\ a \notin sub[Child(s, a, l)]
       /\ sub[m] \cap sub[Child(s, b, Other(l))] = {} /\ b \notin sub[m] /\ b \notin sub[Child(s, b, Other(l))]
  BY <1>2, <1>8
<1>14. /\ a \notin v[Child(s1, a, l)] /\ a \notin v[Child(s1, a, Other(l))]
       /\ v[a] = {a} \cup v[Child(s1, a, l)] \cup v[Child(s1, a, Other(l))]
       /\ v[Child(s1, a, l)] \cap v[Child(s1, a, Other(l))] = {}
       /\ b \notin v[Child(s1, b, l)] /\ b \notin v[Child(s1, b, Other(l))]
       /\ v[b] = {b} \cup v[Child(s1, b, l)] \cup v[Child(s1, b, Other(l))]
       /\ v[Child(s1, b, l)] \cap v[Child(s1, b, Other(l))] = {}
  <2>1. b \in sub[b] /\ b \notin sub[Child(s, a, l)]
    BY <1>2, <1>7, <1>13
  <2> QED
    BY <1>2, <1>5, <1>10, <1>13, <2>1
<1>15. \A n \in T : \A d \in Sides :
       /\ n \notin v[Child(s1, n, d)]
       /\ v[n] = {n} \cup v[Child(s1, n, d)] \cup v[Child(s1, n, Other(d))]
       /\ v[Child(s1, n, d)] \cap v[Child(s1, n, Other(d))] = {}
  <2> SUFFICES ASSUME NEW n \in T, NEW d \in Sides
               PROVE  /\ n \notin v[Child(s1, n, d)]
                      /\ v[n] = {n} \cup v[Child(s1, n, d)] \cup v[Child(s1, n, Other(d))]
                      /\ v[Child(s1, n, d)] \cap v[Child(s1, n, Other(d))] = {}
    OBVIOUS
  <2>1. CASE n \in {a, b}
    <3>1. d = l \/ d = Other(l)
      BY <1>2, TurnSides
    <3>2. (d = l => Other(d) = Other(l)) /\ (d = Other(l) => Other(d) = l)
      BY <1>9
    <3> QED
      BY <1>14, <2>1, <3>1, <3>2
  <2>2. CASE n \notin {a, b}
    <3>1. /\ v[n] = sub[n] /\ v[Child(s1, n, d)] = sub[Child(s, n, d)]
          /\ v[Child(s1, n, Other(d))] = sub[Child(s, n, Other(d))]
      BY <1>12, <2>2
    <3> QED
      BY <1>8, <3>1
  <2> QED
    BY <2>1, <2>2
<1>16. \A n \in T : v[n] \subseteq T
  <2>1. v[a] \subseteq T
    BY <1>2, <1>5, <1>7, <1>13
  <2> QED
    BY <1>1, <1>2, <1>5, <1>7, <2>1
<1>17. v[Nil] = {} /\ v[s1[Top].left] = T /\ IsFiniteSet(T)
  <2>1. v[Child(s1, Top, "left")] = sub[Child(s, Top, "left")]
    BY <1>1, <1>2, <1>11, ChildSides
  <2> QED
    BY <1>1, <1>5, <2>1, ChildSides, TreeLinks
<1>18. Joined(s1, T)
  BY TurnJoined
<1>19. Tree(s1, T, v)
  BY <1>15, <1>16, <1>17, <1>18 DEF Tree, Nest
<1> QED
  BY <1>4, <1>19

-----------------------------------------------------------------------------
(* The order of the keys.                                                  *)

(* The key of what is on side d of n is not beyond the key of n.           *)
Before(key, d, m, n) == IF d = "left" THEN key[m] <= key[n] ELSE key[n] <= key[m]

Sorted(s, T, sub, key) ==
  \A n \in T : \A d \in Sides : \A m \in sub[Child(s, n, d)] : Before(key, d, m, n)

Keys == [Nodes -> Int]

LEMMA BeforeFacts ==
  ASSUME NEW key \in Keys
  PROVE  \A i, j, k \in Nodes : \A d \in Sides :
           /\ Before(key, d, i, j) /\ Before(key, d, j, k) => Before(key, d, i, k)
           /\ Before(key, d, i, j) <=> Before(key, Other(d), j, i)
<1>1. \A i \in Nodes : key[i] \in Int
  BY DEF Keys
<1> QED
  BY <1>1, ChildSides DEF Before

LEMMA TurnSorted ==
  ASSUME NEW s, NEW T, NEW sub, Tree(s, T, sub), NEW s1,
         NEW a, NEW b, NEW m, NEW g, NEW l, Turned(s, s1, a, b, m, g, l), Pivot(s, T, a, b, m, g, l),
         NEW key \in Keys, Sorted(s, T, sub, key)
  PROVE  Sorted(s1, T, Below(s, sub, a, b, m, l), key)
<1>1. Joined(s, T) /\ T \subseteq Nodes /\ T \cup {Top} \subseteq All /\ Nil \notin T \cup {Top}
      /\ a # Top /\ b # Top /\ a # Nil /\ b # Nil /\ Nil \in All
  BY Alls DEF Tree, Joined, Pivot
<1>2. /\ l \in Sides /\ Other(l) \in Sides /\ a \in T /\ b \in T /\ m \in T \cup {Nil} /\ g \in T \cup {Top}
      /\ a # b /\ a # m /\ b # m /\ a # g /\ b # g
      /\ b = Child(s, a, Other(l)) /\ m = Child(s, b, l) /\ g = s[a].parent
  BY TurnSides DEF Pivot
<1>3. /\ Child(s1, a, l) = Child(s, a, l) /\ Child(s1, a, Other(l)) = m
      /\ Child(s1, b, l) = a /\ Child(s1, b, Other(l)) = Child(s, b, Other(l))
      /\ \A n \in All \ {a, b} : \A d \in Sides :
           Child(s1, n, d) = IF n = g /\ Child(s, n, d) = a THEN b ELSE Child(s, n, d)
  BY DEF Turned
<1>4. PICK v : v = Below(s, sub, a, b, m, l)
  OBVIOUS
<1>5. /\ v[b] = sub[a] /\ v[a] = {a} \cup sub[Child(s, a, l)] \cup sub[m]
      /\ \A n \in All \ {a, b} : v[n] = sub[n]
  BY <1>1, <1>2, <1>4 DEF Below
<1>6. \A n \in T \cup {Top} : \A d \in Sides :
        Child(s, n, d) \in All /\ (Child(s, n, d) # Nil => Child(s, n, d) \in T /\ s[Child(s, n, d)].parent = n)
  BY <1>1, JoinedChild
<1>7. \A n \in T : n \in sub[n] /\ sub[n] \subseteq T
  BY TreeLinks
<1>8. \A n \in T : \A d \in Sides : \A k \in sub[Child(s, n, d)] : Before(key, d, k, n)
  BY DEF Sorted
<1>9. \A n \in T : \A d \in Sides : sub[n] = {n} \cup sub[Child(s, n, d)] \cup sub[Child(s, n, Other(d))]
  BY DEF Tree, Nest
<1>10. \A n \in T : \A d \in Sides : sub[Child(s, n, d)] \subseteq T
  BY <1>7, <1>9
<1>11. \A i, j, k \in T : \A d \in Sides :
           /\ Before(key, d, i, j) /\ Before(key, d, j, k) => Before(key, d, i, k)
           /\ Before(key, d, i, j) <=> Before(key, Other(d), j, i)
  BY <1>1, BeforeFacts
<1>12. /\ v[Child(s1, b, l)] = v[a] /\ v[Child(s1, a, l)] = sub[Child(s, a, l)] /\ v[Child(s1, a, Other(l))] = sub[m]
       /\ v[Child(s1, b, Other(l))] = sub[Child(s, b, Other(l))]
  <2>1. /\ Child(s, a, l) # a /\ (Child(s, a, l) # Nil => Child(s, a, l) # b)
        /\ Child(s, b, Other(l)) # b /\ Child(s, b, Other(l)) # a
    BY <1>2, TreeChild, TurnSides
  <2>2. Child(s, a, l) \in All \ {a, b} /\ Child(s, b, Other(l)) \in All \ {a, b} /\ m \in All \ {a, b}
    BY <1>1, <1>2, <1>6, <2>1
  <2> QED
    BY <1>3, <1>5, <2>2
<1>13. ASSUME NEW n \in T \ {a, b}, NEW d \in Sides
       PROVE  v[Child(s1, n, d)] = sub[Child(s, n, d)]
  <2>1. PICK c : c = Child(s, n, d)
    OBVIOUS
  <2>2. c \in All /\ (c # Nil => s[c].parent = n) /\ s[b].parent = a
    BY <1>1, <1>2, <1>6, <2>1
  <2>3. c = a => n = g
    BY <1>1, <1>2, <2>2
  <2>4. c # b
    BY <1>1, <2>2
  <2>5. Child(s1, n, d) = IF n = g /\ c = a THEN b ELSE c
    BY <1>1, <1>3, <2>1
  <2> QED
    BY <1>5, <2>1, <2>2, <2>3, <2>4, <2>5
<1>14. sub[m] \subseteq sub[b] /\ sub[Child(s, a, l)] \subseteq T /\ sub[m] \subseteq T /\ sub[Child(s, b, Other(l))] \subseteq T
       /\ b \in sub[b]
  BY <1>2, <1>7, <1>9, <1>10
<1>15. ASSUME NEW n \in T, NEW d \in Sides, NEW k \in v[Child(s1, n, d)]
       PROVE  Before(key, d, k, n)
  <2>1. d = l \/ d = Other(l)
    BY <1>2, TurnSides
  <2>2. CASE n = a /\ d = l
    BY <1>2, <1>8, <1>12, <1>15, <2>2
  <2>3. CASE n = a /\ d = Other(l)
    BY <1>2, <1>8, <1>12, <1>14, <1>15, <2>3
  <2>4. CASE n = b /\ d = Other(l)
    BY <1>2, <1>8, <1>12, <1>15, <2>4
  <2>5. CASE n = b /\ d = l
    <3>1. k \in {a} \cup sub[Child(s, a, l)] \cup sub[m]
      BY <1>5, <1>12, <1>15, <2>5
    <3>2. Before(key, Other(l), b, a)
      BY <1>2, <1>8, <1>14
    <3>3. Before(key, l, a, b)
      BY <1>2, <1>11, <3>2
    <3>4. CASE k = a
      BY <2>5, <3>3, <3>4
    <3>5. CASE k \in sub[m]
      BY <1>2, <1>8, <2>5, <3>5
    <3>6. CASE k \in sub[Child(s, a, l)]
      <4>1. Before(key, l, k, a) /\ k \in T
        BY <1>2, <1>8, <1>14, <3>6
      <4> QED
        BY <1>2, <1>11, <2>5, <3>3, <4>1
    <3> QED
      BY <3>1, <3>4, <3>5, <3>6
  <2>6. CASE n \notin {a, b}
    BY <1>8, <1>13, <1>15, <2>6
  <2> QED
    BY <2>1, <2>2, <2>3, <2>4, <2>5, <2>6
<1>16. Sorted(s1, T, v, key)
  BY <1>15 DEF Sorted
<1> QED
  BY <1>4, <1>16

(* The nodes off the tree have no children, but o, just taken out of it.   *)
Loose(s, T, o) ==
  \A n \in Nodes \ T : \A d \in Sides : /\ Child(s, n, d) \in T \cup {Nil}
                                        /\ n # o => Child(s, n, d) = Nil

(* A tree whose nodes are in the order of each of K.keys, and nothing else *)
(* but K.out that leads anywhere.                                          *)
Grown(s, T, K) ==
  /\ K.keys \subseteq Keys /\ \E sub : Tree(s, T, sub) /\ \A key \in K.keys : Sorted(s, T, sub, key)
  /\ Loose(s, T, K.out)

LEMMA TurnLoose ==
  ASSUME NEW s, NEW T, NEW s1, NEW o, Loose(s, T, o),
         NEW a, NEW b, NEW m, NEW g, NEW l, Turned(s, s1, a, b, m, g, l), Pivot(s, T, a, b, m, g, l)
  PROVE  Loose(s1, T, o)
<1>1. ASSUME NEW n \in Nodes \ T, NEW d \in Sides
      PROVE  Child(s1, n, d) = Child(s, n, d)
  <2>1. n \in All /\ n # Top
    BY Alls
  <2>2. n # a /\ n # b /\ n # g
    BY <1>1, <2>1 DEF Pivot
  <2> QED
    BY <1>1, <2>1, <2>2 DEF Turned
<1> QED
  BY <1>1 DEF Loose

LEMMA TurnGrown ==
  ASSUME NEW s, NEW T, NEW K, Grown(s, T, K), NEW a \in T, NEW l \in Sides,
         NEW b, b = Child(s, a, Other(l)), b # Nil, NEW m, m = Child(s, b, l), NEW g, g = s[a].parent
  PROVE  /\ Turned(s, Rotate(s, a, l), a, b, m, g, l) /\ Pivot(s, T, a, b, m, g, l)
         /\ Grown(Rotate(s, a, l), T, K)
<1>1. PICK sub : Tree(s, T, sub) /\ \A key \in K.keys : Sorted(s, T, sub, key)
  BY DEF Grown
<1>2. PICK s1 : s1 = Rotate(s, a, l)
  OBVIOUS
<1>3. Turned(s, s1, a, b, m, g, l) /\ Pivot(s, T, a, b, m, g, l)
  BY <1>1, <1>2, Turns
<1>4. PICK v : v = Below(s, sub, a, b, m, l)
  OBVIOUS
<1>5. Tree(s1, T, v)
  BY <1>1, <1>3, <1>4, TurnNest
<1>6. \A key \in K.keys : Sorted(s1, T, v, key)
  BY <1>1, <1>3, <1>4, TurnSorted DEF Grown
<1>7. Loose(s1, T, K.out)
  BY <1>3, TurnLoose DEF Grown
<1>8. Grown(s1, T, K)
  BY <1>5, <1>6, <1>7 DEF Grown
<1> QED
  BY <1>2, <1>3, <1>8

-----------------------------------------------------------------------------
(* Painting, and whatever leaves the links of the tree alone.              *)

(* The links are those of s.                                               *)
SameLinks(s, s1, S) ==
  \A n \in S : s1[n].left = s[n].left /\ s1[n].right = s[n].right /\ s1[n].parent = s[n].parent

Painted(s, s1, n, c) ==
  /\ s1 \in Heap /\ SameLinks(s, s1, All)
  /\ s1[n].red = c /\ \A m \in All \ {n} : s1[m].red = s[m].red

LEMMA Paints ==
  ASSUME NEW s \in Heap, NEW n \in All, NEW c \in BOOLEAN
  PROVE  Painted(s, Paint(s, n, c), n, c)
<1>1. PICK r : r = s[n]
  OBVIOUS
<1>2. r \in Rec
  BY <1>1 DEF Heap
<1>3. PICK k : k = [r EXCEPT !.red = c]
  OBVIOUS
<1>4. k \in Rec /\ k.parent = r.parent /\ k.left = r.left /\ k.right = r.right
  BY <1>2, <1>3 DEF Rec
<1>5. k.red = c
  BY <1>2, <1>3 DEF Rec
<1>6. PICK s1 : s1 = [s EXCEPT ![n] = k]
  OBVIOUS
<1>7. s1 \in Heap /\ s1[n] = k /\ \A m \in All : m # n => s1[m] = s[m]
  BY <1>4, <1>6 DEF Heap
<1>8. SameLinks(s, s1, All)
  BY <1>1, <1>4, <1>7 DEF SameLinks
<1>9. s1[n].red = c /\ \A m \in All \ {n} : s1[m].red = s[m].red
  BY <1>5, <1>7
<1>10. Paint(s, n, c) = s1
  BY <1>1, <1>3, <1>6 DEF Paint
<1> QED
  BY <1>7, <1>8, <1>9, <1>10 DEF Painted

LEMMA SameChild ==
  ASSUME NEW s, NEW s1, NEW S, SameLinks(s, s1, S)
  PROVE  \A n \in S : \A d : Child(s1, n, d) = Child(s, n, d)
BY DEF SameLinks, Child

LEMMA SameTree ==
  ASSUME NEW s, NEW T, NEW sub, Tree(s, T, sub), NEW s1 \in Heap, SameLinks(s, s1, T \cup {Top}),
         s1[Nil].left = Nil, s1[Nil].right = Nil
  PROVE  Tree(s1, T, sub) /\ \A key : Sorted(s, T, sub, key) => Sorted(s1, T, sub, key)
<1>1. \A n \in T \cup {Top} : \A d : Child(s1, n, d) = Child(s, n, d)
  BY SameChild
<1>2. /\ \A n \in T \cup {Top} : s1[n].parent = s[n].parent
      /\ s1[Top].right = s[Top].right /\ s1[Top].left = s[Top].left
  BY DEF SameLinks
<1>3. Joined(s, T)
  BY DEF Tree
<1>4. ASSUME NEW n \in T \cup {Top}, NEW d \in Sides
      PROVE  Child(s1, n, d) \in T \cup {Nil} /\ (Child(s1, n, d) # Nil => s1[Child(s1, n, d)].parent = n)
  BY <1>1, <1>2, <1>3, JoinedChild
<1>5. ASSUME NEW n \in T
      PROVE  s1[n].parent \in T \cup {Top} /\ \E d \in Sides : n = Child(s1, s1[n].parent, d)
  <2>1. s[n].parent \in T \cup {Top} /\ \E d \in Sides : n = Child(s, s[n].parent, d)
    BY <1>3 DEF Joined
  <2> QED
    BY <1>1, <1>2, <2>1
<1>6. Joined(s1, T)
  BY <1>2, <1>3, <1>4, <1>5 DEF Joined
<1>7. Nest(s1, T, sub)
  <2>1. Nest(s, T, sub) /\ \A n \in T : \A d : Child(s1, n, d) = Child(s, n, d)
    BY <1>1 DEF Tree
  <2> QED
    BY <1>2, <2>1 DEF Nest
<1>8. \A key : Sorted(s, T, sub, key) => Sorted(s1, T, sub, key)
  BY <1>1 DEF Sorted
<1> QED
  BY <1>6, <1>7, <1>8 DEF Tree

LEMMA SameGrown ==
  ASSUME NEW s, NEW T, NEW K, Grown(s, T, K), NEW s1 \in Heap, SameLinks(s, s1, All)
  PROVE  Grown(s1, T, K)
<1>1. PICK sub : Tree(s, T, sub) /\ \A key \in K.keys : Sorted(s, T, sub, key)
  BY DEF Grown
<1>2. Joined(s, T) /\ T \cup {Top} \subseteq All /\ Nodes \subseteq All /\ Nil \in All
  BY <1>1, Alls DEF Tree, Joined
<1>3. SameLinks(s, s1, T \cup {Top}) /\ s1[Nil].left = Nil /\ s1[Nil].right = Nil
  BY <1>2 DEF SameLinks, Joined
<1>4. Tree(s1, T, sub) /\ \A key \in K.keys : Sorted(s1, T, sub, key)
  BY <1>1, <1>3, SameTree
<1>5. \A n \in Nodes : \A d : Child(s1, n, d) = Child(s, n, d)
  BY <1>2, SameChild
<1>6. Loose(s1, T, K.out)
  BY <1>5 DEF Grown, Loose
<1> QED
  BY <1>4, <1>6 DEF Grown

LEMMA GrownFacts ==
  ASSUME NEW s, NEW T, NEW K, Grown(s, T, K)
  PROVE  /\ Joined(s, T) /\ s \in Heap /\ s[Nil].left = Nil /\ s[Nil].right = Nil /\ T \subseteq Nodes
         /\ T \subseteq All /\ Nil \notin T /\ Top \notin T /\ IsFiniteSet(T)
         /\ Nil \in All /\ Top \in All /\ Nil # Top
         /\ (s[Top].left = Nil <=> T = {})
<1>1. PICK sub : Tree(s, T, sub)
  BY DEF Grown
<1>2. Joined(s, T) /\ T \subseteq Nodes
  BY <1>1 DEF Tree, Joined
<1>3. s[Top].left = Nil <=> T = {}
  <2>1. s[Top].left = Nil \/ s[Top].left \in T
    BY <1>2, TopKin
  <2>2. sub[Nil] = {} /\ sub[s[Top].left] = T
    BY <1>1, TreeLinks
  <2>3. Nil \notin T
    BY <1>2, Alls
  <2> QED
    BY <2>1, <2>2, <2>3
<1>4. IsFiniteSet(T)
  BY <1>1, TreeLinks
<1> QED
  BY <1>2, <1>3, <1>4, Alls DEF Joined

LEMMA PaintGrown ==
  ASSUME NEW s, NEW T, NEW K, Grown(s, T, K), NEW n \in All, NEW c \in BOOLEAN
  PROVE  Painted(s, Paint(s, n, c), n, c) /\ Grown(Paint(s, n, c), T, K)
<1>1. s \in Heap /\ s[Nil].left = Nil /\ s[Nil].right = Nil /\ T \cup {Top} \subseteq All /\ Nil \in All
  BY GrownFacts
<1>2. PICK s1 : s1 = Paint(s, n, c)
  OBVIOUS
<1>3. Painted(s, s1, n, c)
  BY <1>1, <1>2, Paints
<1>4. s1 \in Heap /\ SameLinks(s, s1, All)
  BY <1>3 DEF Painted
<1>5. Grown(s1, T, K)
  BY <1>4, SameGrown
<1> QED
  BY <1>2, <1>3, <1>5

-----------------------------------------------------------------------------
(* The balance.                                                            *)

Red(s) == {n \in All : s[n].red}

Own(s, n) == IF n \in Red(s) THEN 0 ELSE 1

(* One black node is missing below node lp on side ld; on no node's side   *)
(* when lp is Top.                                                         *)
Lack(n, d, lp, ld) == IF n = lp /\ d = ld THEN 1 ELSE 0

(* bh[n] black nodes on every path from n down.                             *)
Even(s, T, bh, lp, ld) ==
  /\ bh \in [All -> Nat] /\ bh[Nil] = 0
  /\ \A n \in T : \A d \in Sides : bh[n] = Own(s, n) + bh[Child(s, n, d)] + Lack(n, d, lp, ld)

(* No red node at the top or below a red node, but a node of E or one       *)
(* below a node of F.                                                      *)
Reds(s, T, E, F) ==
  /\ Nil \notin Red(s) /\ Top \notin Red(s)
  /\ \A n \in T \cup {Top} : \A d \in Sides :
       Child(s, n, d) \in Red(s) /\ (n = Top \/ n \in Red(s)) => Child(s, n, d) \in E \/ n \in F

Balanced(s, T, lp, ld, E, F) == (\E bh : Even(s, T, bh, lp, ld)) /\ Reds(s, T, E, F)

LEMMA GrownChild ==
  ASSUME NEW s, NEW T, NEW K, Grown(s, T, K), NEW n \in T \cup {Top}, NEW d \in Sides
  PROVE  /\ Child(s, n, d) \in T \cup {Nil} /\ Child(s, n, d) \in All
         /\ Child(s, n, d) # Nil => Child(s, n, d) \in T /\ s[Child(s, n, d)].parent = n
         /\ n \in T => /\ Child(s, n, d) # n /\ (Child(s, n, d) = Child(s, n, Other(d)) => Child(s, n, d) = Nil)
                       /\ \A m \in T : m = Child(s, n, d) => \A e \in Sides : Child(s, m, e) # n
<1>1. PICK sub : Tree(s, T, sub)
  BY DEF Grown
<1>2. Joined(s, T)
  BY <1>1 DEF Tree
<1> QED
  BY <1>1, <1>2, JoinedChild, TreeChild

LEMMA GrownParent ==
  ASSUME NEW s, NEW T, NEW K, Grown(s, T, K), NEW n \in T
  PROVE  /\ s[n].parent \in T \cup {Top} /\ s[n].parent \in All
         /\ SideOf(s, n) \in Sides /\ Child(s, s[n].parent, SideOf(s, n)) = n
<1>1. Joined(s, T) /\ T \cup {Top} \subseteq All
  BY GrownFacts
<1>2. s[n].parent \in T \cup {Top} /\ (n = s[s[n].parent].left \/ n = s[s[n].parent].right)
  BY <1>1, JoinedParent
<1> QED
  BY <1>1, <1>2, ChildSides DEF SideOf

LEMMA EvenAt ==
  ASSUME NEW s, NEW T, NEW K, Grown(s, T, K), NEW bh, NEW lp, NEW ld, Even(s, T, bh, lp, ld),
         NEW n \in T, NEW d \in Sides
  PROVE  /\ bh[n] = Own(s, n) + bh[Child(s, n, d)] + Lack(n, d, lp, ld)
         /\ bh[n] \in Nat /\ bh[Child(s, n, d)] \in Nat /\ Own(s, n) \in {0, 1} /\ Lack(n, d, lp, ld) \in {0, 1}
<1>1. n \in All
  BY GrownFacts
<1>2. Child(s, n, d) \in All
  BY GrownChild
<1>3. bh[n] \in Nat /\ bh[Child(s, n, d)] \in Nat
  BY <1>1, <1>2 DEF Even
<1>4. bh[n] = Own(s, n) + bh[Child(s, n, d)] + Lack(n, d, lp, ld)
  BY DEF Even
<1>5. Own(s, n) \in {0, 1} /\ Lack(n, d, lp, ld) \in {0, 1}
  BY DEF Own, Lack
<1> QED
  BY <1>3, <1>4, <1>5

(* Painting a node of a tree: red, black, or as another is.                 *)
Redden(s, n)  == Paint(s, n, TRUE)
Blacken(s, n) == Paint(s, n, FALSE)
Dye(s, n, m)  == Paint(s, n, s[m].red)

LEMMA PaintsRed ==
  ASSUME NEW s, NEW T, NEW K, Grown(s, T, K), NEW n \in All, NEW s1, s1 = Redden(s, n)
  PROVE  Grown(s1, T, K) /\ Red(s1) = Red(s) \cup {n} /\ SameLinks(s, s1, All)
<1>1. Painted(s, s1, n, TRUE) /\ Grown(s1, T, K)
  BY PaintGrown DEF Redden
<1>2. s1[n].red /\ \A m \in All \ {n} : s1[m].red = s[m].red
  BY <1>1 DEF Painted
<1>3. Red(s1) = Red(s) \cup {n}
  BY <1>2 DEF Red
<1> QED
  BY <1>1, <1>3 DEF Painted

LEMMA PaintsBlack ==
  ASSUME NEW s, NEW T, NEW K, Grown(s, T, K), NEW n \in All, NEW s1, s1 = Blacken(s, n)
  PROVE  Grown(s1, T, K) /\ Red(s1) = Red(s) \ {n} /\ SameLinks(s, s1, All)
<1>1. Painted(s, s1, n, FALSE) /\ Grown(s1, T, K)
  BY PaintGrown DEF Blacken
<1>2. ~ s1[n].red /\ \A m \in All \ {n} : s1[m].red = s[m].red
  BY <1>1 DEF Painted
<1>3. Red(s1) = Red(s) \ {n}
  BY <1>2 DEF Red
<1> QED
  BY <1>1, <1>3 DEF Painted

LEMMA PaintsAs ==
  ASSUME NEW s, NEW T, NEW K, Grown(s, T, K), NEW n \in All, NEW m \in All, NEW s1, s1 = Dye(s, n, m)
  PROVE  /\ Grown(s1, T, K) /\ SameLinks(s, s1, All)
         /\ Red(s1) = IF m \in Red(s) THEN Red(s) \cup {n} ELSE Red(s) \ {n}
<1>1. s[m].red \in BOOLEAN
  BY GrownFacts, RecFields
<1>2. CASE s[m].red
  <2>1. s1 = Redden(s, n) /\ m \in Red(s)
    BY <1>1, <1>2 DEF Red, Redden, Dye
  <2> QED
    BY <2>1, PaintsRed
<1>3. CASE ~ s[m].red
  <2>1. s1 = Blacken(s, n) /\ m \notin Red(s)
    BY <1>1, <1>3 DEF Red, Blacken, Dye
  <2> QED
    BY <2>1, PaintsBlack
<1> QED
  BY <1>2, <1>3

LEMMA SameLinksTrans ==
  ASSUME NEW s, NEW s1, NEW s2, NEW S, SameLinks(s, s1, S), SameLinks(s1, s2, S)
  PROVE  SameLinks(s, s2, S)
BY DEF SameLinks

LEMMA TurnRed ==
  ASSUME NEW s, NEW s1, NEW a, NEW b, NEW m, NEW g, NEW l, Turned(s, s1, a, b, m, g, l)
  PROVE  Red(s1) = Red(s)
BY DEF Turned, Red

(* Only one node has a child.                                              *)
LEMMA OneParent ==
  ASSUME NEW s, NEW T, NEW K, Grown(s, T, K), NEW n \in T \cup {Top}, NEW d \in Sides,
         NEW m \in T \cup {Top}, NEW e \in Sides, Child(s, n, d) = Child(s, m, e), Child(s, n, d) # Nil
  PROVE  n = m /\ (n \in T => d = e)
<1>1. n = m
  BY GrownChild
<1>2. d # e => e = Other(d)
  BY TurnSides
<1> QED
  BY <1>1, <1>2, GrownChild

-----------------------------------------------------------------------------
(* The fix-up of an insertion.                                             *)

(* e is red, and so is its parent: the grandparent is a black node.        *)
LEMMA InsertKin ==
  ASSUME NEW s, NEW T, NEW K, Grown(s, T, K), NEW e \in T, Reds(s, T, {e}, {}), e \in Red(s),
         NEW p, p = s[e].parent, p \in Red(s), NEW g, g = s[p].parent, NEW l, l = SideOf(s, p)
  PROVE  /\ p \in T /\ g \in T /\ l \in Sides /\ Child(s, g, l) = p /\ g \notin Red(s)
         /\ e = Child(s, p, l) \/ e = Child(s, p, Other(l))
         /\ p # e /\ g # p /\ g # e /\ Other(l) \in Sides
<1>1. SideOf(s, e) \in Sides /\ Child(s, p, SideOf(s, e)) = e /\ p \in T \cup {Top}
  BY GrownParent
<1>2. Nil \notin Red(s) /\ Top \notin Red(s) /\ \A n \in T \cup {Top} : \A d \in Sides :
       Child(s, n, d) \in Red(s) /\ (n = Top \/ n \in Red(s)) => Child(s, n, d) = e
  BY DEF Reds
<1>3. p \in T
  BY <1>1, <1>2
<1>4. l \in Sides /\ Child(s, g, l) = p /\ g \in T \cup {Top} /\ Other(l) \in Sides
  BY <1>3, GrownParent, TurnSides
<1>5. p # e /\ g # e
  BY <1>1, <1>3, <1>4, GrownChild
<1>6. g # Top /\ g \notin Red(s)
  BY <1>2, <1>4, <1>5
<1>7. e = Child(s, p, l) \/ e = Child(s, p, Other(l))
  BY <1>1, <1>4, TurnSides
<1>8. g # p
  BY <1>6
<1> QED
  BY <1>3, <1>4, <1>5, <1>6, <1>7, <1>8

(* A red uncle: the two are painted black and the grandparent red.         *)
LEMMA InsertClimb ==
  ASSUME NEW s, NEW T, NEW K, Grown(s, T, K), NEW e \in T, Balanced(s, T, Top, "left", {e}, {}), e \in Red(s),
         NEW p, p = s[e].parent, p \in Red(s), NEW g, g = s[p].parent, NEW l, l = SideOf(s, p),
         NEW u, u = Child(s, g, Other(l)), u \in Red(s),
         NEW s1, s1 = Redden(Blacken(Blacken(s, p), u), g)
  PROVE  Grown(s1, T, K) /\ Balanced(s1, T, Top, "left", {g}, {}) /\ g \in T /\ g \in Red(s1)
<1>1. /\ p \in T /\ g \in T /\ l \in Sides /\ Child(s, g, l) = p /\ g \notin Red(s)
      /\ e = Child(s, p, l) \/ e = Child(s, p, Other(l))
      /\ p # e /\ g # p /\ g # e /\ Other(l) \in Sides
  BY InsertKin DEF Balanced
<1>2. /\ Nil \notin Red(s) /\ Top \notin Red(s)
      /\ \A n \in T \cup {Top} : \A d \in Sides :
           Child(s, n, d) \in Red(s) /\ (n = Top \/ n \in Red(s)) => Child(s, n, d) = e
  BY DEF Balanced, Reds
<1>3. T \cup {Top} \subseteq All /\ Nil \notin T /\ Top \notin T /\ Nil \in All /\ Top \in All /\ Nil # Top
  BY GrownFacts
<1>4. u \in T /\ u # p /\ u # g /\ s[u].parent = g
  <2>1. u # Nil
    BY <1>2
  <2>2. g \in T \cup {Top} /\ Other(l) # l /\ Child(s, g, l) # Nil
    BY <1>1, <1>3, TurnSides
  <2>3. u # p
    BY <1>1, <2>2, OneParent
  <2> QED
    BY <1>1, <2>1, <2>3, GrownChild
<1>5. PICK s2 : s2 = Blacken(s, p)
  OBVIOUS
<1>6. PICK s3 : s3 = Blacken(s2, u)
  OBVIOUS
<1>7. Grown(s2, T, K) /\ Red(s2) = Red(s) \ {p} /\ SameLinks(s, s2, All)
  <2>1. p \in All
    BY <1>1, <1>3
  <2> QED
    BY <1>5, <2>1, PaintsBlack
<1>8. Grown(s3, T, K) /\ Red(s3) = Red(s2) \ {u} /\ SameLinks(s2, s3, All)
  <2>1. u \in All
    BY <1>3, <1>4
  <2> QED
    BY <1>6, <1>7, <2>1, PaintsBlack
<1>9. s1 = Redden(s3, g)
  BY <1>5, <1>6
<1>10. Grown(s1, T, K) /\ Red(s1) = Red(s3) \cup {g} /\ SameLinks(s3, s1, All)
  <2>1. g \in All
    BY <1>1, <1>3
  <2> QED
    BY <1>8, <1>9, <2>1, PaintsRed
<1>11. PICK R : R = Red(s)
  OBVIOUS
<1>12. Red(s1) = ((R \ {p}) \ {u}) \cup {g}
  BY <1>7, <1>8, <1>10, <1>11
<1>13. \A m \in All : \A d : Child(s1, m, d) = Child(s, m, d)
  <2>1. SameLinks(s, s2, All) /\ SameLinks(s2, s3, All) /\ SameLinks(s3, s1, All)
    BY <1>7, <1>8, <1>10
  <2>2. SameLinks(s, s3, All)
    BY <2>1, SameLinksTrans
  <2>3. SameLinks(s, s1, All)
    BY <2>1, <2>2, SameLinksTrans
  <2> QED
    BY <2>3, SameChild
<1>14. PICK bh : Even(s, T, bh, Top, "left")
  BY DEF Balanced
<1>15. bh \in [All -> Nat] /\ bh[Nil] = 0
  BY <1>14 DEF Even
<1>16. PICK h : h = [n \in All |-> IF n = p \/ n = u THEN bh[n] + 1 ELSE bh[n]]
  OBVIOUS
<1>17. h \in [All -> Nat] /\ h[Nil] = 0 /\ \A n \in All : h[n] = IF n = p \/ n = u THEN bh[n] + 1 ELSE bh[n]
  <2>1. Nil \in All /\ p # Nil /\ u # Nil
    BY <1>1, <1>3, <1>4
  <2>2. h \in [All -> Nat] /\ \A n \in All : h[n] = IF n = p \/ n = u THEN bh[n] + 1 ELSE bh[n]
    <3>1. \A n \in All : bh[n] \in Nat
      BY <1>15
    <3>2. \A n \in All : (IF n = p \/ n = u THEN bh[n] + 1 ELSE bh[n]) \in Nat
      BY <3>1
    <3> QED
      BY <1>16, <3>2
  <2> QED
    BY <1>15, <2>1, <2>2
<1>18. ASSUME NEW n \in T, NEW d \in Sides
       PROVE  h[n] = Own(s1, n) + h[Child(s1, n, d)] + Lack(n, d, Top, "left")
  <2>1. PICK c : c = Child(s, n, d)
    OBVIOUS
  <2>2. c \in All /\ (c # Nil => c \in T /\ s[c].parent = n) /\ n \in All /\ c = Child(s1, n, d)
    BY <1>3, <1>13, <2>1, GrownChild
  <2>3. bh[n] = Own(s, n) + bh[c] + Lack(n, d, Top, "left") /\ bh[n] \in Nat /\ bh[c] \in Nat
    BY <1>14, <2>1, EvenAt
  <2>4. Lack(n, d, Top, "left") = 0
    BY <1>3 DEF Lack
  <2>5. Own(s, n) = (IF n \in R THEN 0 ELSE 1) /\ Own(s1, n) = IF n = g \/ (n \in R /\ n # p /\ n # u) THEN 0 ELSE 1
    BY <1>11, <1>12 DEF Own
  <2>6. c = p \/ c = u <=> n = g
    <3>1. n = g => c = p \/ c = u
      BY <1>1, <2>1, TurnSides
    <3>2. s[p].parent = g /\ p # Nil /\ u # Nil
      BY <1>1, <1>3, <1>4
    <3> QED
      BY <1>4, <2>2, <3>1, <3>2
  <2>7. h[n] = (IF n = p \/ n = u THEN bh[n] + 1 ELSE bh[n]) /\ h[c] = IF n = g THEN bh[c] + 1 ELSE bh[c]
    BY <1>17, <2>2, <2>6
  <2>8. p \in R /\ u \in R /\ g \notin R /\ g # p /\ g # u
    BY <1>1, <1>4, <1>11
  <2>9. h[n] = Own(s1, n) + h[c] + Lack(n, d, Top, "left")
    BY <2>3, <2>4, <2>5, <2>7, <2>8
  <2> QED
    BY <2>2, <2>9
<1>19. Even(s1, T, h, Top, "left")
  BY <1>17, <1>18 DEF Even
<1>20. Reds(s1, T, {g}, {})
  <2>1. Nil \notin Red(s1) /\ Top \notin Red(s1)
    BY <1>1, <1>2, <1>3, <1>11, <1>12
  <2>2. ASSUME NEW n \in T \cup {Top}, NEW d \in Sides, Child(s1, n, d) \in Red(s1), n = Top \/ n \in Red(s1)
        PROVE  Child(s1, n, d) = g
    <3>1. PICK c : c = Child(s, n, d)
      OBVIOUS
    <3>2. c \in All /\ (c # Nil => c \in T /\ s[c].parent = n) /\ n \in All /\ c = Child(s1, n, d)
      BY <1>3, <1>13, <3>1, GrownChild
    <3>3. CASE c # g
      <4>1. c # p /\ c # u /\ c \in R
        BY <1>12, <2>2, <3>2, <3>3
      <4>2. n # g
        BY <1>1, <3>1, <4>1, TurnSides
      <4>3. n = Top \/ (n \in R /\ n # p /\ n # u)
        BY <1>12, <2>2, <4>2
      <4>4. c = e
        BY <1>2, <1>11, <3>1, <4>1, <4>3
      <4>5. n = p
        BY <1>2, <1>11, <3>2, <4>1, <4>4
      <4> QED
        BY <1>1, <1>3, <4>3, <4>5
    <3> QED
      BY <3>2, <3>3
  <2> QED
    BY <2>1, <2>2 DEF Reds
<1> QED
  BY <1>1, <1>10, <1>19, <1>20 DEF Balanced

-----------------------------------------------------------------------------
(* The balance of a tree that turns, from its balance elsewhere.           *)

LEMMA TurnAt ==
  ASSUME NEW s, NEW T, NEW K, Grown(s, T, K), NEW s1,
         NEW a, NEW b, NEW m, NEW g, NEW l, Turned(s, s1, a, b, m, g, l), Pivot(s, T, a, b, m, g, l)
  PROVE  /\ Child(s1, a, l) = Child(s, a, l) /\ Child(s1, a, Other(l)) = m
         /\ Child(s1, b, l) = a /\ Child(s1, b, Other(l)) = Child(s, b, Other(l))
         /\ Child(s, a, l) \in All \ {a, b} /\ Child(s, b, Other(l)) \in All \ {a, b} /\ m \in All \ {a, b}
         /\ a \in T /\ b \in T /\ a # b /\ a \in All /\ b \in All /\ l \in Sides /\ Other(l) \in Sides
         /\ \A d \in Sides : d = l \/ d = Other(l)
         /\ \A n \in (T \cup {Top}) \ {a, b} : \A d \in Sides :
              /\ Child(s1, n, d) \in All \ {a} /\ Child(s, n, d) # b
              /\ Child(s, n, d) = a => n = g /\ Child(s1, n, d) = b
              /\ Child(s, n, d) # a => Child(s1, n, d) = Child(s, n, d)
<1>1. /\ T \cup {Top} \subseteq All /\ Nil \notin T \cup {Top} /\ Nil \in All
  BY GrownFacts
<1>2. /\ l \in Sides /\ Other(l) \in Sides /\ a \in T /\ b \in T /\ m \in T \cup {Nil}
      /\ a # b /\ a # m /\ b # m
      /\ b = Child(s, a, Other(l)) /\ m = Child(s, b, l) /\ g = s[a].parent
      /\ Other(Other(l)) = l
  BY TurnSides DEF Pivot
<1>3. /\ Child(s1, a, l) = Child(s, a, l) /\ Child(s1, a, Other(l)) = m
      /\ Child(s1, b, l) = a /\ Child(s1, b, Other(l)) = Child(s, b, Other(l))
      /\ \A n \in All \ {a, b} : \A d \in Sides :
           Child(s1, n, d) = IF n = g /\ Child(s, n, d) = a THEN b ELSE Child(s, n, d)
  BY DEF Turned
<1>4. a # Nil /\ b # Nil /\ a \in All /\ b \in All /\ m \in All
  BY <1>1, <1>2
<1>5. Child(s, a, l) \in All /\ Child(s, a, l) # a
  BY <1>2, GrownChild
<1>6. Child(s, a, l) # b
  <2>1. Child(s, a, l) = Child(s, a, Other(l)) => Child(s, a, l) = Nil
    BY <1>2, GrownChild
  <2> QED
    BY <1>2, <1>4, <2>1
<1>7. Child(s, b, Other(l)) \in All /\ Child(s, b, Other(l)) # b
  BY <1>2, GrownChild
<1>8. Child(s, b, Other(l)) # a
  <2>1. \A k \in T : k = Child(s, a, Other(l)) => \A e \in Sides : Child(s, k, e) # a
    BY <1>2, GrownChild
  <2> QED
    BY <1>2, <2>1
<1>9. ASSUME NEW n \in (T \cup {Top}) \ {a, b}, NEW d \in Sides
      PROVE  /\ Child(s1, n, d) \in All \ {a} /\ Child(s, n, d) # b
             /\ Child(s, n, d) = a => n = g /\ Child(s1, n, d) = b
             /\ Child(s, n, d) # a => Child(s1, n, d) = Child(s, n, d)
  <2>1. PICK c : c = Child(s, n, d)
    OBVIOUS
  <2>2. c \in All /\ (c # Nil => c \in T /\ s[c].parent = n)
    BY <2>1, GrownChild
  <2>3. s[b].parent = a
    BY <1>2, <1>4, GrownChild
  <2>4. Child(s1, n, d) = IF n = g /\ c = a THEN b ELSE c
    BY <1>1, <1>3, <2>1
  <2>5. c # b /\ (c = a => n = g)
    BY <1>2, <1>4, <2>2, <2>3
  <2> QED
    BY <1>2, <1>4, <2>1, <2>2, <2>4, <2>5
<1>10. \A d \in Sides : d = l \/ d = Other(l)
  BY <1>2, TurnSides
<1> QED
  BY <1>2, <1>3, <1>4, <1>5, <1>6, <1>7, <1>8, <1>9, <1>10

(* The numbers of a and b after the turn, ha and hb, fit.                   *)
Levels(s, T, a, b, m, l, bh, ha, hb, lp, ld) ==
  /\ bh \in [All -> Nat] /\ bh[Nil] = 0 /\ ha \in Nat /\ hb \in Nat /\ hb = bh[a]
  /\ \A n \in T \ {a, b} : \A d \in Sides : bh[n] = Own(s, n) + bh[Child(s, n, d)] + Lack(n, d, lp, ld)
  /\ ha = Own(s, a) + bh[Child(s, a, l)] + Lack(a, l, lp, ld)
  /\ ha = Own(s, a) + bh[m] + Lack(a, Other(l), lp, ld)
  /\ hb = Own(s, b) + ha + Lack(b, l, lp, ld)
  /\ hb = Own(s, b) + bh[Child(s, b, Other(l))] + Lack(b, Other(l), lp, ld)

LEMMA TurnEven ==
  ASSUME NEW s, NEW T, NEW K, Grown(s, T, K), NEW s1,
         NEW a, NEW b, NEW m, NEW g, NEW l, Turned(s, s1, a, b, m, g, l), Pivot(s, T, a, b, m, g, l),
         NEW lp, NEW ld, NEW bh, NEW ha, NEW hb, Levels(s, T, a, b, m, l, bh, ha, hb, lp, ld)
  PROVE  \E h : Even(s1, T, h, lp, ld)
<1>1. /\ Child(s1, a, l) = Child(s, a, l) /\ Child(s1, a, Other(l)) = m
      /\ Child(s1, b, l) = a /\ Child(s1, b, Other(l)) = Child(s, b, Other(l))
      /\ Child(s, a, l) \in All \ {a, b} /\ Child(s, b, Other(l)) \in All \ {a, b} /\ m \in All \ {a, b}
      /\ a \in T /\ b \in T /\ a # b /\ a \in All /\ b \in All /\ l \in Sides /\ Other(l) \in Sides
      /\ \A d \in Sides : d = l \/ d = Other(l)
  BY TurnAt
<1>2. \A n \in (T \cup {Top}) \ {a, b} : \A d \in Sides :
              /\ Child(s1, n, d) \in All \ {a} /\ Child(s, n, d) # b
              /\ Child(s, n, d) = a => n = g /\ Child(s1, n, d) = b
              /\ Child(s, n, d) # a => Child(s1, n, d) = Child(s, n, d)
  BY TurnAt
<1>0. /\ bh \in [All -> Nat] /\ bh[Nil] = 0 /\ ha \in Nat /\ hb \in Nat /\ hb = bh[a]
      /\ \A n \in T \ {a, b} : \A d \in Sides : bh[n] = Own(s, n) + bh[Child(s, n, d)] + Lack(n, d, lp, ld)
      /\ ha = Own(s, a) + bh[Child(s, a, l)] + Lack(a, l, lp, ld)
      /\ ha = Own(s, a) + bh[m] + Lack(a, Other(l), lp, ld)
      /\ hb = Own(s, b) + ha + Lack(b, l, lp, ld)
      /\ hb = Own(s, b) + bh[Child(s, b, Other(l))] + Lack(b, Other(l), lp, ld)
  BY DEF Levels
<1>3. PICK h : h = [n \in All |-> IF n = a THEN ha ELSE IF n = b THEN hb ELSE bh[n]]
  OBVIOUS
<1>4. Nil # a /\ Nil # b /\ Nil \in All /\ T \subseteq All
  BY <1>1, GrownFacts
<1>5. h \in [All -> Nat] /\ h[Nil] = 0
  BY <1>0, <1>3, <1>4
<1>6. h[a] = ha /\ h[b] = hb /\ \A n \in All \ {a, b} : h[n] = bh[n]
  BY <1>1, <1>3
<1>7. Red(s1) = Red(s)
  BY TurnRed
<1>8. \A n : Own(s1, n) = Own(s, n)
  BY <1>7 DEF Own
<1>9. ASSUME NEW n \in T, NEW d \in Sides
      PROVE  h[n] = Own(s1, n) + h[Child(s1, n, d)] + Lack(n, d, lp, ld)
  <2>1. CASE n = a
    <3>1. CASE d = l
      BY <1>0, <1>1, <1>6, <1>8, <2>1, <3>1
    <3>2. CASE d = Other(l)
      BY <1>0, <1>1, <1>6, <1>8, <2>1, <3>2
    <3> QED
      BY <1>1, <3>1, <3>2
  <2>2. CASE n = b
    <3>1. CASE d = l
      BY <1>0, <1>1, <1>6, <1>8, <2>2, <3>1
    <3>2. CASE d = Other(l)
      BY <1>0, <1>1, <1>6, <1>8, <2>2, <3>2
    <3> QED
      BY <1>1, <3>1, <3>2
  <2>3. CASE n \notin {a, b}
    <3>1. h[n] = bh[n]
      BY <1>4, <1>6, <2>3
    <3>2. h[Child(s1, n, d)] = bh[Child(s, n, d)]
      <4>1. CASE Child(s, n, d) = a
        BY <1>0, <1>2, <1>6, <2>3, <4>1
      <4>2. CASE Child(s, n, d) # a
        BY <1>2, <1>6, <2>3, <4>2
      <4> QED
        BY <4>1, <4>2
    <3> QED
      BY <1>0, <1>8, <2>3, <3>1, <3>2
  <2> QED
    BY <2>1, <2>2, <2>3
<1>10. Even(s1, T, h, lp, ld)
  BY <1>5, <1>9 DEF Even
<1> QED
  BY <1>10

LEMMA TurnReds ==
  ASSUME NEW s, NEW T, NEW K, Grown(s, T, K), NEW s1,
         NEW a, NEW b, NEW m, NEW g, NEW l, Turned(s, s1, a, b, m, g, l), Pivot(s, T, a, b, m, g, l),
         NEW R, R = Red(s), Nil \notin R, Top \notin R, NEW E, NEW F,
         \A n \in (T \cup {Top}) \ {a, b} : \A d \in Sides :
            Child(s, n, d) # a /\ Child(s, n, d) \in R /\ (n = Top \/ n \in R) => Child(s, n, d) \in E \/ n \in F,
         b \in R /\ (g = Top \/ g \in R) => b \in E \/ g \in F,
         a \in R /\ Child(s, a, l) \in R => Child(s, a, l) \in E \/ a \in F,
         a \in R /\ m \in R => m \in E \/ a \in F,
         b \in R /\ a \in R => a \in E \/ b \in F,
         b \in R /\ Child(s, b, Other(l)) \in R => Child(s, b, Other(l)) \in E \/ b \in F
  PROVE  Reds(s1, T, E, F)
<1>1. /\ Child(s1, a, l) = Child(s, a, l) /\ Child(s1, a, Other(l)) = m
      /\ Child(s1, b, l) = a /\ Child(s1, b, Other(l)) = Child(s, b, Other(l))
      /\ a \in T /\ b \in T /\ \A d \in Sides : d = l \/ d = Other(l)
  BY TurnAt
<1>2. \A n \in (T \cup {Top}) \ {a, b} : \A d \in Sides :
              /\ Child(s, n, d) = a => n = g /\ Child(s1, n, d) = b
              /\ Child(s, n, d) # a => Child(s1, n, d) = Child(s, n, d)
  BY TurnAt
<1>3. Red(s1) = R
  BY TurnRed
<1>4. a # Top /\ b # Top
  BY <1>1, GrownFacts
<1>5. ASSUME NEW n \in T \cup {Top}, NEW d \in Sides, Child(s1, n, d) \in R, n = Top \/ n \in R
      PROVE  Child(s1, n, d) \in E \/ n \in F
  <2>1. CASE n = a
    BY <1>1, <1>4, <1>5, <2>1
  <2>2. CASE n = b
    BY <1>1, <1>4, <1>5, <2>2
  <2>3. CASE n \notin {a, b}
    BY <1>2, <1>5, <2>3
  <2> QED
    BY <2>1, <2>2, <2>3
<1> QED
  BY <1>3, <1>5 DEF Reds

(* The same with nothing missing.                                          *)
LEMMA EvenAll ==
  ASSUME NEW s, NEW T, NEW K, Grown(s, T, K), NEW bh, Even(s, T, bh, Top, "left"), NEW n \in T, NEW d \in Sides
  PROVE  /\ bh[n] = Own(s, n) + bh[Child(s, n, d)]
         /\ bh[n] \in Nat /\ bh[Child(s, n, d)] \in Nat
<1>1. n # Top
  BY GrownFacts
<1>2. Lack(n, d, Top, "left") = 0
  BY <1>1 DEF Lack
<1>3. /\ bh[n] = Own(s, n) + bh[Child(s, n, d)] + Lack(n, d, Top, "left")
      /\ bh[n] \in Nat /\ bh[Child(s, n, d)] \in Nat /\ Own(s, n) \in {0, 1}
  BY EvenAt
<1> QED
  BY <1>2, <1>3

LEMMA EvenIs ==
  ASSUME NEW s, NEW T, T \subseteq Nodes, NEW bh \in [All -> Nat], bh[Nil] = 0,
         \A n \in T : \A d \in Sides : bh[n] = Own(s, n) + bh[Child(s, n, d)]
  PROVE  Even(s, T, bh, Top, "left")
<1>1. ASSUME NEW n \in T, NEW d \in Sides
      PROVE  bh[n] = Own(s, n) + bh[Child(s, n, d)] + Lack(n, d, Top, "left")
  <2>1. n # Top /\ n \in All
    BY Alls
  <2>2. Lack(n, d, Top, "left") = 0
    BY <2>1 DEF Lack
  <2>3. bh[n] \in Nat /\ bh[n] = Own(s, n) + bh[Child(s, n, d)]
    BY <2>1
  <2>4. PICK v : v = Own(s, n) + bh[Child(s, n, d)]
    OBVIOUS
  <2>5. v + 0 = v
    BY <2>3, <2>4
  <2> QED
    BY <2>2, <2>3, <2>4, <2>5
<1> QED
  BY <1>1 DEF Even

LevelsAll(s, T, a, b, m, l, bh, ha) ==
  /\ bh \in [All -> Nat] /\ bh[Nil] = 0 /\ ha \in Nat
  /\ \A n \in T \ {a, b} : \A d \in Sides : bh[n] = Own(s, n) + bh[Child(s, n, d)]
  /\ ha = Own(s, a) + bh[Child(s, a, l)] /\ ha = Own(s, a) + bh[m]
  /\ bh[a] = Own(s, b) + ha /\ bh[a] = Own(s, b) + bh[Child(s, b, Other(l))]

LEMMA TurnEvenAll ==
  ASSUME NEW s, NEW T, NEW K, Grown(s, T, K), NEW s1,
         NEW a, NEW b, NEW m, NEW g, NEW l, Turned(s, s1, a, b, m, g, l), Pivot(s, T, a, b, m, g, l),
         NEW bh, NEW ha, LevelsAll(s, T, a, b, m, l, bh, ha)
  PROVE  \E h : Even(s1, T, h, Top, "left")
<1>0. /\ bh \in [All -> Nat] /\ bh[Nil] = 0 /\ ha \in Nat
      /\ \A n \in T \ {a, b} : \A d \in Sides : bh[n] = Own(s, n) + bh[Child(s, n, d)]
      /\ ha = Own(s, a) + bh[Child(s, a, l)] /\ ha = Own(s, a) + bh[m]
      /\ bh[a] = Own(s, b) + ha /\ bh[a] = Own(s, b) + bh[Child(s, b, Other(l))]
  BY DEF LevelsAll
<1>1. /\ T \subseteq All /\ Top \notin T
  BY GrownFacts
<1>2. \A n \in T : \A d : Lack(n, d, Top, "left") = 0
  BY <1>1 DEF Lack
<1>3. /\ a \in T /\ b \in T /\ l \in Sides /\ Other(l) \in Sides /\ m \in All
      /\ Child(s, a, l) \in All /\ Child(s, b, Other(l)) \in All
  BY TurnAt
<1>4. /\ bh[a] \in Nat /\ bh[m] \in Nat /\ bh[Child(s, a, l)] \in Nat /\ bh[Child(s, b, Other(l))] \in Nat
      /\ Own(s, a) \in Nat /\ Own(s, b) \in Nat
  BY <1>0, <1>1, <1>3 DEF Own
<1>5. \A n \in T \ {a, b} : \A d \in Sides : bh[n] = Own(s, n) + bh[Child(s, n, d)] + Lack(n, d, Top, "left")
  <2> SUFFICES ASSUME NEW n \in T \ {a, b}, NEW d \in Sides
               PROVE  bh[n] = Own(s, n) + bh[Child(s, n, d)] + Lack(n, d, Top, "left")
    OBVIOUS
  <2>1. Child(s, n, d) \in All
    BY GrownChild
  <2>2. bh[n] \in Nat /\ bh[Child(s, n, d)] \in Nat /\ Own(s, n) \in Nat
    BY <1>0, <1>1, <2>1 DEF Own
  <2>3. Lack(n, d, Top, "left") = 0
    BY <1>2
  <2>4. bh[n] = Own(s, n) + bh[Child(s, n, d)]
    BY <1>0
  <2> QED
    BY <2>2, <2>3, <2>4
<1>6. /\ Lack(a, l, Top, "left") = 0 /\ Lack(a, Other(l), Top, "left") = 0
      /\ Lack(b, l, Top, "left") = 0 /\ Lack(b, Other(l), Top, "left") = 0
  BY <1>2, <1>3
<1>7. PICK hb \in Nat : hb = bh[a]
  BY <1>4
<1>8. /\ ha = Own(s, a) + bh[Child(s, a, l)] + Lack(a, l, Top, "left")
      /\ ha = Own(s, a) + bh[m] + Lack(a, Other(l), Top, "left")
      /\ hb = Own(s, b) + ha + Lack(b, l, Top, "left")
      /\ hb = Own(s, b) + bh[Child(s, b, Other(l))] + Lack(b, Other(l), Top, "left")
  BY <1>0, <1>4, <1>6, <1>7
<1>9. Levels(s, T, a, b, m, l, bh, ha, hb, Top, "left")
  BY <1>0, <1>5, <1>7, <1>8 DEF Levels
<1> QED
  BY <1>9, TurnEven

-----------------------------------------------------------------------------
(* Who is whose child.                                                     *)
LEMMA ParentOf ==
  ASSUME NEW s, NEW T, NEW K, Grown(s, T, K), NEW n \in T \cup {Top}, NEW d \in Sides, NEW c \in T, c = Child(s, n, d)
  PROVE  s[c].parent = n /\ c # n
<1>1. c # Nil /\ c # Top
  BY GrownFacts
<1> QED
  BY <1>1, GrownChild

LEMMA OtherChild ==
  ASSUME NEW s, NEW T, NEW K, Grown(s, T, K), NEW n \in T, NEW d \in Sides, NEW c \in T, c = Child(s, n, d)
  PROVE  c # Child(s, n, Other(d))
<1>1. c # Nil
  BY GrownFacts
<1> QED
  BY <1>1, GrownChild

LEMMA NotOwnChild ==
  ASSUME NEW s, NEW T, NEW K, Grown(s, T, K), NEW n \in T, NEW d \in Sides
  PROVE  Child(s, n, d) # n
BY GrownChild

LEMMA NotGrandchild ==
  ASSUME NEW s, NEW T, NEW K, Grown(s, T, K), NEW n \in T, NEW d \in Sides, NEW c \in T, c = Child(s, n, d), NEW e \in Sides
  PROVE  Child(s, c, e) # n
BY GrownChild

(* The red node a and its red parent b are on the same side, the uncle is   *)
(* black: one rotation is left to do.                                      *)
Straight(s, T, K, a, b, g, l) ==
  /\ Grown(s, T, K) /\ Balanced(s, T, Top, "left", {a}, {})
  /\ a \in T /\ b \in T /\ g \in T /\ l \in Sides
  /\ s[a].parent = b /\ s[b].parent = g /\ Child(s, g, l) = b /\ Child(s, b, l) = a
  /\ a \in Red(s) /\ b \in Red(s) /\ g \notin Red(s) /\ Child(s, g, Other(l)) \notin Red(s)

(* The same with a on the other side of b.                                  *)
Bent(s, T, K, a, b, g, l) ==
  /\ Grown(s, T, K) /\ Balanced(s, T, Top, "left", {a}, {})
  /\ a \in T /\ b \in T /\ g \in T /\ l \in Sides
  /\ s[b].parent = g /\ Child(s, g, l) = b /\ Child(s, b, Other(l)) = a
  /\ a \in Red(s) /\ b \in Red(s) /\ g \notin Red(s) /\ Child(s, g, Other(l)) \notin Red(s)

LEMMA InsertInner ==
  ASSUME NEW s, NEW T, NEW K, NEW e, NEW p, NEW g, NEW l, Bent(s, T, K, e, p, g, l), NEW s1, s1 = Rotate(s, p, l)
  PROVE  Straight(s1, T, K, p, e, g, l)
<1>1. /\ Grown(s, T, K) /\ e \in T /\ p \in T /\ g \in T /\ l \in Sides
      /\ s[p].parent = g /\ Child(s, g, l) = p /\ Child(s, p, Other(l)) = e
      /\ e \in Red(s) /\ p \in Red(s) /\ g \notin Red(s) /\ Child(s, g, Other(l)) \notin Red(s)
      /\ Other(l) \in Sides /\ Other(l) # l /\ Other(Other(l)) = l
  BY TurnSides DEF Bent
<1>2. /\ Nil \notin Red(s) /\ Top \notin Red(s)
      /\ \A n \in T \cup {Top} : \A d \in Sides :
           Child(s, n, d) \in Red(s) /\ (n = Top \/ n \in Red(s)) => Child(s, n, d) = e
  BY DEF Bent, Balanced, Reds
<1>14. p # e /\ g # p /\ g # e
  BY <1>1, NotOwnChild, NotGrandchild
<1>3. T \subseteq All /\ Nil \notin T /\ Top \notin T
  BY <1>1, GrownFacts
<1>4. PICK m : m = Child(s, e, l)
  OBVIOUS
<1>5. Turned(s, s1, p, e, m, g, l) /\ Pivot(s, T, p, e, m, g, l) /\ Grown(s1, T, K)
  BY <1>1, <1>3, <1>4, TurnGrown
<1>6. PICK bh : Even(s, T, bh, Top, "left")
  BY DEF Bent, Balanced
<1>7. bh \in [All -> Nat] /\ bh[Nil] = 0
  BY <1>6 DEF Even
<1>8. Own(s, p) = 0 /\ Own(s, e) = 0
  BY <1>1 DEF Own
<1>9. /\ bh[p] = bh[Child(s, p, l)] /\ bh[p] = bh[e] /\ bh[e] = bh[m] /\ bh[e] = bh[Child(s, e, Other(l))]
      /\ bh[p] \in Nat
  <2>1. bh[p] = Own(s, p) + bh[Child(s, p, l)] /\ bh[Child(s, p, l)] \in Nat /\ bh[p] \in Nat
    BY <1>1, <1>6, EvenAll
  <2>2. bh[p] = Own(s, p) + bh[e] /\ bh[e] \in Nat
    BY <1>1, <1>6, EvenAll
  <2>3. bh[e] = Own(s, e) + bh[m] /\ bh[m] \in Nat
    BY <1>1, <1>4, <1>6, EvenAll
  <2>4. bh[e] = Own(s, e) + bh[Child(s, e, Other(l))] /\ bh[Child(s, e, Other(l))] \in Nat
    BY <1>1, <1>6, EvenAll
  <2> QED
    BY <1>8, <2>1, <2>2, <2>3, <2>4
<1>10. \E h : Even(s1, T, h, Top, "left")
  <2>1. \A n \in T \ {p, e} : \A d \in Sides : bh[n] = Own(s, n) + bh[Child(s, n, d)]
    BY <1>1, <1>6, EvenAll
  <2>2. PICK k \in Nat : k = bh[p]
    BY <1>9
  <2>3. /\ k = Own(s, p) + bh[Child(s, p, l)] /\ k = Own(s, p) + bh[m]
        /\ bh[p] = Own(s, e) + k /\ bh[p] = Own(s, e) + bh[Child(s, e, Other(l))]
    BY <1>8, <1>9, <2>2
  <2> QED
    <3>1. LevelsAll(s, T, p, e, m, l, bh, k)
      BY <1>7, <2>1, <2>2, <2>3 DEF LevelsAll
    <3> QED
      BY <1>1, <1>5, <3>1, TurnEvenAll
<1>11. Reds(s1, T, {p}, {})
  <2>1. PICK R : R = Red(s)
    OBVIOUS
  <2>2. \A n \in (T \cup {Top}) \ {p, e} : \A d \in Sides :
            Child(s, n, d) # p /\ Child(s, n, d) \in R /\ (n = Top \/ n \in R) => Child(s, n, d) \in {p} \/ n \in {}
    <3> SUFFICES ASSUME NEW n \in (T \cup {Top}) \ {p, e}, NEW d \in Sides,
                        Child(s, n, d) \in R, n = Top \/ n \in R
                 PROVE  FALSE
      OBVIOUS
    <3>1. e = Child(s, n, d)
      BY <1>2, <2>1
    <3>2. s[e].parent = n
      BY <1>1, <3>1, ParentOf
    <3>3. s[e].parent = p
      BY <1>1, ParentOf
    <3> QED
      BY <3>2, <3>3
  <2>3. Child(s, p, l) \notin R
    <3>1. Child(s, p, l) # e
      BY <1>1, OtherChild
    <3> QED
      BY <1>1, <1>2, <2>1, <3>1
  <2>4. m \notin R /\ Child(s, e, Other(l)) \notin R
    <3>1. Child(s, e, l) # e /\ Child(s, e, Other(l)) # e
      BY <1>1, NotOwnChild
    <3> QED
      BY <1>1, <1>2, <1>4, <2>1, <3>1
  <2>5. Nil \notin R /\ Top \notin R /\ p \in {p} /\ g \notin R /\ g # Top
    BY <1>1, <1>2, <1>3, <2>1
  <2> QED
    BY <1>1, <1>5, <2>1, <2>2, <2>3, <2>4, <2>5, TurnReds
<1>12. Red(s1) = Red(s)
  BY <1>5, TurnRed
<1>13. /\ s1[p].parent = e /\ s1[e].parent = g /\ Child(s1, e, l) = p
       /\ Child(s1, g, l) = e /\ Child(s1, g, Other(l)) = Child(s, g, Other(l))
  <2>1. s1[p].parent = e /\ s1[e].parent = g /\ Child(s1, e, l) = p
    BY <1>5 DEF Turned
  <2>2. Child(s, g, Other(l)) # p
    BY <1>1, OtherChild
  <2>3. g \in (T \cup {Top}) \ {p, e}
    BY <1>1, <1>14
  <2>4. Child(s1, g, l) = e /\ Child(s1, g, Other(l)) = Child(s, g, Other(l))
    BY <1>1, <1>5, <2>2, <2>3, TurnAt
  <2> QED
    BY <2>1, <2>4
<1> QED
  BY <1>1, <1>5, <1>10, <1>11, <1>12, <1>13 DEF Straight, Balanced

LEMMA InsertTurn ==
  ASSUME NEW s, NEW T, NEW K, NEW a, NEW b, NEW g, NEW l, Straight(s, T, K, a, b, g, l),
         NEW s1, s1 = Rotate(Redden(Blacken(s, b), g), g, Other(l))
  PROVE  Grown(s1, T, K) /\ Balanced(s1, T, Top, "left", {a}, {}) /\ a \in T /\ a \in Red(s1)
<1>1. /\ Grown(s, T, K) /\ a \in T /\ b \in T /\ g \in T /\ l \in Sides
      /\ s[a].parent = b /\ s[b].parent = g /\ Child(s, g, l) = b /\ Child(s, b, l) = a
      /\ a \in Red(s) /\ b \in Red(s) /\ g \notin Red(s) /\ Child(s, g, Other(l)) \notin Red(s)
      /\ Other(l) \in Sides /\ Other(l) # l /\ Other(Other(l)) = l
  BY TurnSides DEF Straight
<1>2. /\ Nil \notin Red(s) /\ Top \notin Red(s)
      /\ \A n \in T \cup {Top} : \A d \in Sides :
           Child(s, n, d) \in Red(s) /\ (n = Top \/ n \in Red(s)) => Child(s, n, d) = a
  BY DEF Straight, Balanced, Reds
<1>3. T \subseteq All /\ Nil \notin T /\ Top \notin T
  BY <1>1, GrownFacts
<1>4. a # b /\ b # g /\ a # g
  BY <1>1, GrownChild
<1>5. PICK s2 : s2 = Blacken(s, b)
  OBVIOUS
<1>6. Grown(s2, T, K) /\ Red(s2) = Red(s) \ {b} /\ SameLinks(s, s2, All)
  BY <1>1, <1>3, <1>5, PaintsBlack
<1>7. PICK s3 : s3 = Redden(s2, g)
  OBVIOUS
<1>8. Grown(s3, T, K) /\ Red(s3) = Red(s2) \cup {g} /\ SameLinks(s2, s3, All)
  BY <1>1, <1>3, <1>6, <1>7, PaintsRed
<1>9. SameLinks(s, s3, All)
  BY <1>6, <1>8, SameLinksTrans
<1>10. \A n \in All : \A d : Child(s3, n, d) = Child(s, n, d)
  BY <1>9, SameChild
<1>11. PICK gg : gg = s3[g].parent
  OBVIOUS
<1>12. PICK m : m = Child(s, b, Other(l))
  OBVIOUS
<1>13. s1 = Rotate(s3, g, Other(l))
  BY <1>5, <1>7
<1>14. Turned(s3, s1, g, b, m, gg, Other(l)) /\ Pivot(s3, T, g, b, m, gg, Other(l)) /\ Grown(s1, T, K)
  <2>1. b = Child(s3, g, Other(Other(l))) /\ b # Nil /\ m = Child(s3, b, Other(l))
    BY <1>1, <1>3, <1>10, <1>12
  <2> QED
    BY <1>1, <1>8, <1>11, <1>13, <2>1, TurnGrown
<1>15. PICK R : R = Red(s3)
  OBVIOUS
<1>16. R = (Red(s) \ {b}) \cup {g}
  BY <1>6, <1>8, <1>15
<1>17. PICK bh : Even(s, T, bh, Top, "left")
  BY DEF Straight, Balanced
<1>18. bh \in [All -> Nat] /\ bh[Nil] = 0
  BY <1>17 DEF Even
<1>19. PICK u : u = Child(s, g, Other(l))
  OBVIOUS
<1>20. /\ Own(s, g) = 1 /\ Own(s, b) = 0 /\ Own(s3, g) = 0 /\ Own(s3, b) = 1
  BY <1>1, <1>4, <1>15, <1>16 DEF Own
<1>21. /\ bh[g] = 1 + bh[b] /\ bh[u] = bh[b] /\ bh[b] = bh[a] /\ bh[b] = bh[m]
       /\ bh[g] \in Nat /\ bh[b] \in Nat
  <2>1. bh[g] = Own(s, g) + bh[b] /\ bh[b] \in Nat /\ bh[g] \in Nat
    BY <1>1, <1>17, EvenAll
  <2>2. bh[g] = Own(s, g) + bh[u] /\ bh[u] \in Nat
    BY <1>1, <1>17, <1>19, EvenAll
  <2>3. bh[b] = Own(s, b) + bh[a] /\ bh[a] \in Nat
    BY <1>1, <1>17, EvenAll
  <2>4. bh[b] = Own(s, b) + bh[m] /\ bh[m] \in Nat
    BY <1>1, <1>12, <1>17, EvenAll
  <2> QED
    BY <1>20, <2>1, <2>2, <2>3, <2>4
<1>22. \E h : Even(s1, T, h, Top, "left")
  <2>1. \A n \in T \ {g, b} : \A d \in Sides : bh[n] = Own(s3, n) + bh[Child(s3, n, d)]
    <3>1. \A n \in T \ {g, b} : \A d \in Sides : bh[n] = Own(s, n) + bh[Child(s, n, d)]
      BY <1>1, <1>17, EvenAll
    <3>2. \A n \in T \ {g, b} : Own(s3, n) = Own(s, n)
      BY <1>15, <1>16 DEF Own
    <3> QED
      BY <1>3, <1>10, <3>1, <3>2
  <2>2. PICK ha \in Nat : ha = bh[b]
    BY <1>21
  <2>3. Child(s3, g, Other(l)) = u /\ Child(s3, b, Other(Other(l))) = a
    BY <1>1, <1>3, <1>10, <1>19
  <2>4. /\ ha = Own(s3, g) + bh[Child(s3, g, Other(l))] /\ ha = Own(s3, g) + bh[m]
        /\ bh[g] = Own(s3, b) + ha /\ bh[g] = Own(s3, b) + bh[Child(s3, b, Other(Other(l)))]
    <3>1. /\ ha = Own(s3, g) + bh[u] /\ ha = Own(s3, g) + bh[m]
          /\ bh[g] = Own(s3, b) + ha /\ bh[g] = Own(s3, b) + bh[a]
      BY <1>20, <1>21, <2>2
    <3> QED
      BY <2>3, <3>1
  <2> QED
    <3>1. LevelsAll(s3, T, g, b, m, Other(l), bh, ha)
      BY <1>18, <2>1, <2>2, <2>4 DEF LevelsAll
    <3> QED
      BY <1>8, <1>14, <3>1, TurnEvenAll
<1>23. Reds(s1, T, {a}, {})
  <2>1. \A n \in (T \cup {Top}) \ {g, b} : \A d \in Sides :
            Child(s3, n, d) # g /\ Child(s3, n, d) \in R /\ (n = Top \/ n \in R) => Child(s3, n, d) \in {a} \/ n \in {}
    <3>1. Top \in All
      BY <1>1, GrownFacts
    <3> QED
      BY <1>2, <1>3, <1>10, <1>16, <3>1
  <2>2. Child(s3, g, Other(l)) \notin R
    <3>1. Child(s, g, Other(l)) # g
      BY <1>1, NotOwnChild
    <3> QED
      BY <1>1, <1>3, <1>10, <1>16, <3>1
  <2>3. m \notin R
    <3>1. m # a
      BY <1>1, <1>12, OtherChild
    <3>2. m # g
      BY <1>1, <1>12, NotGrandchild
    <3> QED
      BY <1>1, <1>2, <1>12, <1>16, <3>1, <3>2
  <2>4. b \notin R /\ Nil \notin R /\ Top \notin R
    BY <1>1, <1>2, <1>3, <1>4, <1>16
  <2> QED
    BY <1>8, <1>14, <1>15, <2>1, <2>2, <2>3, <2>4, TurnReds
<1>24. a \in Red(s1)
  <2>1. Red(s1) = R
    BY <1>14, <1>15, TurnRed
  <2> QED
    BY <1>1, <1>4, <1>16, <2>1
<1> QED
  BY <1>1, <1>14, <1>22, <1>23, <1>24 DEF Balanced

-----------------------------------------------------------------------------
(* The fix-up of a deletion.                                               *)

(* e, on side l of p, lacks one black node, and nothing else is wrong.     *)
Deficient(s, T, K, e, p, l) ==
  /\ Grown(s, T, K) /\ Balanced(s, T, p, l, {}, {})
  /\ p \in T /\ l \in Sides /\ Child(s, p, l) = e /\ s[e].parent = p /\ e \notin Red(s)

(* root is still the top of the tree, or has been taken down and is p.      *)
RootIs(s, T, p, r) ==
  \/ r = p /\ p \in Red(s)
  \/ r = s[Top].left /\ r \in T /\ r \notin Red(s)

LEMMA Lacks ==
  ASSUME NEW l \in Sides, NEW p
  PROVE  /\ Lack(p, l, p, l) = 1 /\ Lack(p, Other(l), p, l) = 0
         /\ \A n, d : n # p => Lack(n, d, p, l) = 0
BY TurnSides DEF Lack

LEMMA Siblings ==
  ASSUME NEW s, NEW T, NEW K, NEW e, NEW p, NEW l, Deficient(s, T, K, e, p, l),
         NEW bh, Even(s, T, bh, p, l), NEW w, w = Child(s, p, Other(l))
  PROVE  /\ w \in T /\ w # e /\ w # p /\ s[w].parent = p
         /\ bh[p] = Own(s, p) + bh[w] /\ bh[w] = bh[e] + 1 /\ bh[p] \in Nat /\ bh[w] \in Nat /\ bh[e] \in Nat
         /\ \A d \in Sides : bh[w] = Own(s, w) + bh[Child(s, w, d)] /\ bh[Child(s, w, d)] \in Nat
<1>1. /\ Grown(s, T, K) /\ p \in T /\ l \in Sides /\ Other(l) \in Sides /\ Child(s, p, l) = e
  BY TurnSides DEF Deficient
<1>2. bh[p] = Own(s, p) + bh[e] + Lack(p, l, p, l) /\ bh[p] \in Nat /\ bh[e] \in Nat /\ Own(s, p) \in {0, 1}
  BY <1>1, EvenAt
<1>3. bh[p] = Own(s, p) + bh[w] + Lack(p, Other(l), p, l) /\ bh[w] \in Nat
  BY <1>1, EvenAt
<1>4. Lack(p, l, p, l) = 1 /\ Lack(p, Other(l), p, l) = 0
  BY <1>1, Lacks
<1>5. bh[w] = bh[e] + 1 /\ bh[p] = Own(s, p) + bh[w]
  BY <1>2, <1>3, <1>4
<1>6. w # Nil /\ w # e
  <2>1. bh[Nil] = 0
    BY DEF Even
  <2> QED
    BY <1>2, <1>5, <2>1
<1>7. w \in T
  BY <1>1, <1>6, GrownChild
<1>8. s[w].parent = p /\ w # p
  BY <1>1, <1>7, ParentOf
<1>9. ASSUME NEW d \in Sides
      PROVE  bh[w] = Own(s, w) + bh[Child(s, w, d)] /\ bh[Child(s, w, d)] \in Nat
  <2>1. bh[w] = Own(s, w) + bh[Child(s, w, d)] + Lack(w, d, p, l) /\ bh[Child(s, w, d)] \in Nat /\ Own(s, w) \in {0, 1}
    BY <1>1, <1>7, EvenAt
  <2>2. Lack(w, d, p, l) = 0
    BY <1>1, <1>8, Lacks
  <2> QED
    BY <2>1, <2>2
<1> QED
  BY <1>2, <1>3, <1>5, <1>6, <1>7, <1>8, <1>9

(* With no red nephew the sibling is painted red, and p lacks a node.      *)
Raised(s, s1, T, K, p, r) ==
  /\ Grown(s1, T, K) /\ Balanced(s1, T, s1[p].parent, SideOf(s1, p), {p}, {p})
  /\ p \in T /\ (p \in Red(s1) <=> p \in Red(s)) /\ s1[Top].left = s[Top].left
  /\ r \notin Red(s1) \/ r = p

LEMMA DeleteClimb ==
  ASSUME NEW s, NEW T, NEW K, NEW e, NEW p, NEW l, Deficient(s, T, K, e, p, l),
         NEW w, w = Child(s, p, Other(l)), w \notin Red(s), \A d \in Sides : Child(s, w, d) \notin Red(s),
         NEW r, RootIs(s, T, p, r), NEW s1, s1 = Redden(s, w)
  PROVE  Raised(s, s1, T, K, p, r)
<1>1. /\ Grown(s, T, K) /\ p \in T /\ l \in Sides /\ Other(l) \in Sides /\ Child(s, p, l) = e
  BY TurnSides DEF Deficient
<1>2. /\ Nil \notin Red(s) /\ Top \notin Red(s)
      /\ \A n \in T \cup {Top} : \A d \in Sides : ~ (Child(s, n, d) \in Red(s) /\ (n = Top \/ n \in Red(s)))
  BY DEF Deficient, Balanced, Reds
<1>3. PICK bh : Even(s, T, bh, p, l)
  BY DEF Deficient, Balanced
<1>4. /\ w \in T /\ w # e /\ w # p /\ s[w].parent = p
      /\ bh[p] = Own(s, p) + bh[w] /\ bh[w] = bh[e] + 1 /\ bh[p] \in Nat /\ bh[w] \in Nat /\ bh[e] \in Nat
      /\ \A d \in Sides : bh[w] = Own(s, w) + bh[Child(s, w, d)] /\ bh[Child(s, w, d)] \in Nat
  BY <1>3, Siblings
<1>5. T \subseteq All /\ Nil \notin T /\ Top \notin T /\ Top \in All /\ Nil \in All
  BY <1>1, GrownFacts
<1>6. Grown(s1, T, K) /\ Red(s1) = Red(s) \cup {w} /\ SameLinks(s, s1, All)
  BY <1>1, <1>4, <1>5, PaintsRed
<1>7. \A n \in All : s1[n].parent = s[n].parent /\ \A d : Child(s1, n, d) = Child(s, n, d)
  BY <1>6, SameChild DEF SameLinks
<1>8. PICK pp : pp = s1[p].parent
  OBVIOUS
<1>9. PICK pl : pl = SideOf(s1, p)
  OBVIOUS
<1>10. /\ pp \in T \cup {Top} /\ pl \in Sides /\ Child(s1, pp, pl) = p /\ Child(s, pp, pl) = p
       /\ pp # p
  <2>1. pp \in T \cup {Top} /\ pl \in Sides /\ Child(s1, pp, pl) = p
    BY <1>1, <1>6, <1>8, <1>9, GrownParent
  <2>2. Child(s, pp, pl) = p
    BY <1>5, <1>7, <2>1
  <2>3. pp # p
    BY <1>1, <2>1, <2>2, ParentOf
  <2> QED
    BY <2>1, <2>2, <2>3
<1>11. bh \in [All -> Nat] /\ bh[Nil] = 0
  BY <1>3 DEF Even
<1>12. PICK h : h = [n \in All |-> IF n = p \/ n = w THEN bh[n] - 1 ELSE bh[n]]
  OBVIOUS
<1>13. bh[p] - 1 \in Nat /\ bh[w] - 1 \in Nat
  <2>1. Own(s, p) \in {0, 1}
    BY DEF Own
  <2> QED
    BY <1>4, <2>1
<1>14. /\ h \in [All -> Nat] /\ h[Nil] = 0 /\ h[p] = bh[p] - 1 /\ h[w] = bh[w] - 1
       /\ \A n \in All \ {p, w} : h[n] = bh[n]
  <2>1. \A n \in All : h[n] = IF n = p \/ n = w THEN bh[n] - 1 ELSE bh[n]
    BY <1>12
  <2>2. Nil # p /\ Nil # w
    BY <1>1, <1>4, <1>5
  <2>3. \A n \in All : h[n] \in Nat
    BY <1>11, <1>13, <2>1
  <2> QED
    BY <1>1, <1>4, <1>5, <1>11, <1>12, <2>1, <2>2, <2>3
<1>15. \A n \in T \ {w} : Own(s1, n) = Own(s, n)
  BY <1>6 DEF Own
<1>16. Own(s1, w) = 0 /\ Own(s, w) = 1
  BY <1>6 DEF Own
<1>17. ASSUME NEW n \in T, NEW d \in Sides
       PROVE  h[n] = Own(s1, n) + h[Child(s1, n, d)] + Lack(n, d, pp, pl)
  <2>1. PICK c : c = Child(s, n, d)
    OBVIOUS
  <2>2. c \in All /\ (c \in T => s[c].parent = n) /\ c = Child(s1, n, d) /\ c # n
    <3>1. c \in T => s[c].parent = n
      BY <1>1, <2>1, ParentOf
    <3>2. c \in All /\ c # n
      BY <1>1, <2>1, GrownChild
    <3> QED
      BY <1>5, <1>7, <2>1, <3>1, <3>2
  <2>3. bh[n] = Own(s, n) + bh[c] + Lack(n, d, p, l) /\ bh[n] \in Nat /\ bh[c] \in Nat /\ Own(s, n) \in {0, 1}
    BY <1>1, <1>3, <2>1, EvenAt
  <2>4. PICK k : k = Own(s, n)
    OBVIOUS
  <2>5. CASE n = w
    <3>1. Lack(n, d, pp, pl) = 0
      <4>1. c = p => FALSE
        <5>1. c = p => s[p].parent = w
          BY <1>1, <2>2, <2>5
        <5>2. \A f \in Sides : Child(s, w, f) # p
          BY <1>1, <1>4, NotGrandchild
        <5> QED
          BY <2>1, <2>5, <5>2
      <4>2. n = pp /\ d = pl => c = p
        BY <1>10, <2>1
      <4> QED
        BY <4>1, <4>2 DEF Lack
    <3>2. c # p /\ c # w
      <4>1. \A f \in Sides : Child(s, w, f) # p
        BY <1>1, <1>4, NotGrandchild
      <4> QED
        BY <2>1, <2>2, <2>5, <4>1
    <3>3. h[c] = bh[c] /\ h[n] = bh[n] - 1
      BY <1>14, <2>2, <2>5, <3>2
    <3>4. Lack(n, d, p, l) = 0
      BY <1>1, <1>4, <2>5, Lacks
    <3>5. h[n] = 0 + h[c] + 0
      BY <1>16, <2>3, <2>5, <3>3, <3>4
    <3> QED
      BY <1>16, <2>2, <2>5, <3>1, <3>5
  <2>6. CASE n = p
    <3>1. Lack(n, d, pp, pl) = 0
      BY <1>10, <2>6 DEF Lack
    <3>2. d = l \/ d = Other(l)
      BY <1>1, TurnSides
    <3>3. Own(s1, n) = k /\ h[n] = bh[n] - 1
      BY <1>1, <1>4, <1>14, <1>15, <2>4, <2>6
    <3>4. CASE d = l
      <4>1. c = e /\ c # p /\ c # w
        BY <1>1, <1>4, <2>1, <2>2, <2>6, <3>4
      <4>2. h[c] = bh[c] /\ Lack(n, d, p, l) = 1
        BY <1>1, <1>14, <2>2, <2>6, <3>4, <4>1, Lacks
      <4>3. h[n] = k + h[c] + 0
        BY <2>3, <2>4, <3>3, <4>2
      <4> QED
        BY <2>2, <3>1, <3>3, <4>3
    <3>5. CASE d = Other(l)
      <4>1. c = w
        BY <2>1, <2>6, <3>5
      <4>2. h[c] = bh[c] - 1 /\ Lack(n, d, p, l) = 0
        BY <1>1, <1>14, <2>6, <3>5, <4>1, Lacks
      <4>3. h[n] = k + h[c] + 0
        BY <2>3, <2>4, <3>3, <4>2
      <4> QED
        BY <2>2, <3>1, <3>3, <4>3
    <3> QED
      BY <3>2, <3>4, <3>5
  <2>7. CASE n # p /\ n # w
    <3>1. c # w /\ Lack(n, d, p, l) = 0 /\ h[n] = bh[n] /\ Own(s1, n) = k
      BY <1>1, <1>4, <1>5, <1>14, <1>15, <2>2, <2>4, <2>7, Lacks
    <3>2. CASE c = p
      <4>1. n = pp
        BY <1>1, <1>5, <1>7, <1>8, <2>2, <3>2
      <4>2. d = pl
        <5>1. p = Child(s, n, pl)
          BY <1>10, <4>1
        <5>2. p # Child(s, n, Other(pl))
          BY <1>1, <1>10, <5>1, OtherChild
        <5>3. d = pl \/ d = Other(pl)
          BY <1>10, TurnSides
        <5> QED
          BY <2>1, <3>2, <5>2, <5>3
      <4>3. Lack(n, d, pp, pl) = 1
        BY <4>1, <4>2 DEF Lack
      <4>4. h[n] = k + h[c] + 1
        BY <1>14, <2>3, <2>4, <3>1, <3>2
      <4> QED
        BY <2>2, <3>1, <4>3, <4>4
    <3>3. CASE c # p
      <4>1. ~ (n = pp /\ d = pl)
        BY <1>10, <2>1, <3>3
      <4>2. Lack(n, d, pp, pl) = 0
        BY <4>1 DEF Lack
      <4>3. h[c] = bh[c]
        BY <1>14, <2>2, <3>1, <3>3
      <4>4. h[n] = k + h[c] + 0
        BY <2>3, <2>4, <3>1, <4>3
      <4> QED
        BY <2>2, <3>1, <4>2, <4>4
    <3> QED
      BY <3>2, <3>3
  <2> QED
    BY <2>5, <2>6, <2>7
<1>18. Even(s1, T, h, pp, pl)
  BY <1>14, <1>17 DEF Even
<1>19. Reds(s1, T, {p}, {p})
  <2>1. Nil \notin Red(s1) /\ Top \notin Red(s1)
    BY <1>2, <1>4, <1>5, <1>6
  <2>2. ASSUME NEW n \in T \cup {Top}, NEW d \in Sides, Child(s1, n, d) \in Red(s1), n = Top \/ n \in Red(s1)
        PROVE  n = p
    <3>1. Child(s1, n, d) = Child(s, n, d)
      BY <1>5, <1>7
    <3>2. CASE Child(s, n, d) = w
      BY <1>1, <1>4, <3>2, ParentOf
    <3>3. CASE Child(s, n, d) # w
      <4>1. Child(s, n, d) \in Red(s) /\ n # w
        BY <1>6, <2>2, <3>1, <3>3
      <4>2. n = Top \/ n \in Red(s)
        BY <1>6, <2>2, <4>1
      <4> QED
        BY <1>2, <4>1, <4>2
    <3> QED
      BY <3>2, <3>3
  <2> QED
    BY <2>1, <2>2 DEF Reds
<1>20. /\ (p \in Red(s1) <=> p \in Red(s)) /\ s1[Top].left = s[Top].left
  BY <1>4, <1>5, <1>6 DEF SameLinks
<1>21. r \notin Red(s1) \/ r = p
  <2>1. CASE r = s[Top].left /\ r \in T /\ r \notin Red(s)
    <3>1. Child(s, Top, "left") = r /\ "left" \in Sides
      BY <2>1, ChildSides
    <3>2. s[r].parent = Top
      BY <1>1, <2>1, <3>1, ParentOf
    <3>3. r # w
      BY <1>1, <1>4, <1>5, <3>2
    <3> QED
      BY <1>6, <2>1, <3>3
  <2> QED
    BY <2>1 DEF RootIs
<1> QED
  BY <1>1, <1>6, <1>8, <1>9, <1>18, <1>19, <1>20, <1>21 DEF Balanced, Raised

(* A red sibling is rotated away.                                          *)
LEMMA DeleteBlackSibling ==
  ASSUME NEW s, NEW T, NEW K, NEW e, NEW p, NEW l, Deficient(s, T, K, e, p, l),
         NEW w, w = Child(s, p, Other(l)), w \in Red(s),
         NEW r, r = s[Top].left, r \in T, r \notin Red(s),
         NEW s1, s1 = Rotate(Redden(Blacken(s, w), p), p, l)
  PROVE  /\ Deficient(s1, T, K, e, p, l) /\ Child(s1, p, Other(l)) \notin Red(s1) /\ RootIs(s1, T, p, r)
<1>1. /\ Grown(s, T, K) /\ p \in T /\ l \in Sides /\ Other(l) \in Sides /\ Child(s, p, l) = e /\ s[e].parent = p
      /\ e \notin Red(s)
  BY TurnSides DEF Deficient
<1>2. /\ Nil \notin Red(s) /\ Top \notin Red(s)
      /\ \A n \in T \cup {Top} : \A d \in Sides : ~ (Child(s, n, d) \in Red(s) /\ (n = Top \/ n \in Red(s)))
  BY DEF Deficient, Balanced, Reds
<1>3. PICK bh : Even(s, T, bh, p, l)
  BY DEF Deficient, Balanced
<1>4. /\ w \in T /\ w # e /\ w # p /\ s[w].parent = p
      /\ bh[p] = Own(s, p) + bh[w] /\ bh[w] = bh[e] + 1 /\ bh[p] \in Nat /\ bh[w] \in Nat /\ bh[e] \in Nat
      /\ \A d \in Sides : bh[w] = Own(s, w) + bh[Child(s, w, d)] /\ bh[Child(s, w, d)] \in Nat
  BY <1>3, Siblings
<1>5. T \subseteq All /\ Nil \notin T /\ Top \notin T /\ Top \in All /\ Nil \in All
  BY <1>1, GrownFacts
<1>6. p \notin Red(s) /\ \A d \in Sides : Child(s, w, d) \notin Red(s)
  BY <1>1, <1>2, <1>4
<1>7. PICK s2 : s2 = Blacken(s, w)
  OBVIOUS
<1>8. PICK s3 : s3 = Redden(s2, p)
  OBVIOUS
<1>9. Grown(s2, T, K) /\ Red(s2) = Red(s) \ {w} /\ SameLinks(s, s2, All)
  BY <1>1, <1>4, <1>5, <1>7, PaintsBlack
<1>10. Grown(s3, T, K) /\ Red(s3) = Red(s2) \cup {p} /\ SameLinks(s2, s3, All)
  BY <1>1, <1>5, <1>8, <1>9, PaintsRed
<1>11. SameLinks(s, s3, All)
  BY <1>9, <1>10, SameLinksTrans
<1>12. \A n \in All : s3[n].parent = s[n].parent /\ \A d : Child(s3, n, d) = Child(s, n, d)
  BY <1>11, SameChild DEF SameLinks
<1>13. PICK R : R = Red(s3)
  OBVIOUS
<1>14. R = (Red(s) \ {w}) \cup {p}
  BY <1>9, <1>10, <1>13
<1>15. PICK m : m = Child(s, w, l)
  OBVIOUS
<1>16. PICK g : g = s3[p].parent
  OBVIOUS
<1>17. Turned(s3, s1, p, w, m, g, l) /\ Pivot(s3, T, p, w, m, g, l) /\ Grown(s1, T, K)
  <2>1. w = Child(s3, p, Other(l)) /\ w # Nil /\ m = Child(s3, w, l)
    BY <1>1, <1>4, <1>5, <1>12, <1>15
  <2>2. s1 = Rotate(s3, p, l)
    BY <1>7, <1>8
  <2> QED
    BY <1>1, <1>10, <1>16, <2>1, <2>2, TurnGrown
<1>18. Own(s, p) = 1 /\ Own(s, w) = 0 /\ Own(s3, p) = 0 /\ Own(s3, w) = 1
  BY <1>4, <1>6, <1>13, <1>14 DEF Own
<1>19. PICK far : far = Child(s, w, Other(l))
  OBVIOUS
<1>20. /\ bh[m] = bh[w] /\ bh[far] = bh[w] /\ bh[p] = 1 + bh[w] /\ bh[w] = bh[e] + 1
       /\ bh[m] \in Nat /\ bh[far] \in Nat
  <2>1. bh[w] = Own(s, w) + bh[m] /\ bh[m] \in Nat /\ bh[w] = Own(s, w) + bh[far] /\ bh[far] \in Nat
    BY <1>1, <1>4, <1>15, <1>19
  <2> QED
    BY <1>4, <1>18, <2>1
<1>21. \E h : Even(s1, T, h, p, l)
  <2>1. PICK ha \in Nat : ha = bh[w]
    BY <1>4
  <2>2. PICK hb \in Nat : hb = bh[p]
    BY <1>4
  <2>3. Lack(p, l, p, l) = 1 /\ Lack(p, Other(l), p, l) = 0 /\ Lack(w, l, p, l) = 0 /\ Lack(w, Other(l), p, l) = 0
    BY <1>1, <1>4, Lacks
  <2>4. Child(s3, p, l) = e /\ Child(s3, w, Other(l)) = far
    BY <1>1, <1>4, <1>5, <1>12, <1>19
  <2>5. /\ ha = Own(s3, p) + bh[Child(s3, p, l)] + Lack(p, l, p, l)
        /\ ha = Own(s3, p) + bh[m] + Lack(p, Other(l), p, l)
        /\ hb = Own(s3, w) + ha + Lack(w, l, p, l)
        /\ hb = Own(s3, w) + bh[Child(s3, w, Other(l))] + Lack(w, Other(l), p, l)
    <3>1. /\ ha = 0 + bh[e] + 1 /\ ha = 0 + bh[m] + 0 /\ hb = 1 + ha + 0 /\ hb = 1 + bh[far] + 0
      BY <1>4, <1>20, <2>1, <2>2
    <3> QED
      BY <1>18, <2>3, <2>4, <3>1
  <2>6. \A n \in T \ {p, w} : \A d \in Sides : bh[n] = Own(s3, n) + bh[Child(s3, n, d)] + Lack(n, d, p, l)
    <3>1. \A n \in T \ {p, w} : \A d \in Sides : bh[n] = Own(s, n) + bh[Child(s, n, d)] + Lack(n, d, p, l)
      BY <1>3 DEF Even
    <3>2. \A n \in T \ {p, w} : Own(s3, n) = Own(s, n)
      BY <1>13, <1>14 DEF Own
    <3> QED
      BY <1>5, <1>12, <3>1, <3>2
  <2>7. bh \in [All -> Nat] /\ bh[Nil] = 0
    BY <1>3 DEF Even
  <2>8. Levels(s3, T, p, w, m, l, bh, ha, hb, p, l)
    BY <2>1, <2>2, <2>5, <2>6, <2>7 DEF Levels
  <2> QED
    BY <1>10, <1>17, <2>8, TurnEven
<1>22. m # p /\ far # p
  BY <1>1, <1>4, <1>15, <1>19, NotGrandchild
<1>23. Reds(s1, T, {}, {})
  <2>1. \A n \in (T \cup {Top}) \ {p, w} : \A d \in Sides :
          Child(s3, n, d) # p /\ Child(s3, n, d) \in R /\ (n = Top \/ n \in R) => Child(s3, n, d) \in {} \/ n \in {}
    BY <1>2, <1>5, <1>12, <1>14
  <2>2. w \notin R /\ Nil \notin R /\ Top \notin R
    BY <1>1, <1>2, <1>4, <1>5, <1>14
  <2>3. Child(s3, p, l) \notin R
    <3>1. Child(s3, p, l) = e /\ e # p
      BY <1>1, <1>5, <1>12, NotOwnChild
    <3> QED
      BY <1>1, <1>14, <3>1
  <2>4. m \notin R
    BY <1>1, <1>6, <1>14, <1>15, <1>22
  <2> QED
    BY <1>10, <1>13, <1>17, <2>1, <2>2, <2>3, <2>4, TurnReds
<1>24. Red(s1) = R
  BY <1>13, <1>17, TurnRed
<1>25. Child(s1, p, l) = e /\ Child(s1, p, Other(l)) = m
  BY <1>1, <1>5, <1>12, <1>17 DEF Turned
<1>26. s1[e].parent = p
  <2>1. e \in All /\ e # p
    BY <1>1, GrownChild
  <2>2. e # m \/ m = Nil
    <3>1. m \in T => s[m].parent = w
      BY <1>1, <1>4, <1>15, ParentOf
    <3>2. m \in T \/ m = Nil
      BY <1>1, <1>4, <1>15, GrownChild
    <3> QED
      BY <1>1, <1>4, <3>1, <3>2
  <2>3. s1[e].parent = s3[e].parent
    BY <1>4, <1>17, <2>1, <2>2 DEF Turned
  <2> QED
    BY <1>1, <1>12, <2>1, <2>3
<1>27. RootIs(s1, T, p, r)
  <2>1. CASE r = p
    BY <1>14, <1>24, <2>1 DEF RootIs
  <2>2. CASE r # p
    <3>1. Child(s3, Top, "left") = r /\ "left" \in Sides /\ Top \in (T \cup {Top}) \ {p, w}
      BY <1>1, <1>4, <1>5, <1>12, ChildSides
    <3>2. Child(s1, Top, "left") = r
      BY <1>10, <1>17, <2>2, <3>1, TurnAt
    <3>3. r \notin R
      BY <1>14, <2>2
    <3> QED
      BY <1>24, <3>2, <3>3, ChildSides DEF RootIs
  <2> QED
    BY <2>1, <2>2
<1>28. e \notin R /\ m \notin R
  <2>1. e # p
    BY <1>1, NotOwnChild
  <2> QED
    BY <1>1, <1>6, <1>14, <1>15, <1>22, <2>1
<1>29. Deficient(s1, T, K, e, p, l)
  BY <1>1, <1>17, <1>21, <1>23, <1>24, <1>25, <1>26, <1>28 DEF Deficient, Balanced
<1> QED
  BY <1>24, <1>25, <1>27, <1>28, <1>29

(* When only the near nephew is red, it becomes the sibling.               *)
LEMMA DeleteRedFar ==
  ASSUME NEW s, NEW T, NEW K, NEW e, NEW p, NEW l, Deficient(s, T, K, e, p, l),
         NEW w, w = Child(s, p, Other(l)), w \notin Red(s),
         NEW v, v = Child(s, w, l), v \in Red(s), NEW far, far = Child(s, w, Other(l)), far \notin Red(s),
         NEW r, RootIs(s, T, p, r),
         NEW s1, s1 = Rotate(Redden(Blacken(s, v), w), w, Other(l))
  PROVE  /\ Deficient(s1, T, K, e, p, l) /\ RootIs(s1, T, p, r)
         /\ Child(s1, p, Other(l)) = v /\ v \notin Red(s1)
         /\ Child(s1, v, Other(l)) = w /\ w \in Red(s1)
<1>1. /\ Grown(s, T, K) /\ p \in T /\ l \in Sides /\ Other(l) \in Sides /\ Other(Other(l)) = l
      /\ Child(s, p, l) = e /\ s[e].parent = p /\ e \notin Red(s)
  BY TurnSides DEF Deficient
<1>2. /\ Nil \notin Red(s) /\ Top \notin Red(s)
      /\ \A n \in T \cup {Top} : \A d \in Sides : ~ (Child(s, n, d) \in Red(s) /\ (n = Top \/ n \in Red(s)))
  BY DEF Deficient, Balanced, Reds
<1>3. PICK bh : Even(s, T, bh, p, l)
  BY DEF Deficient, Balanced
<1>4. /\ w \in T /\ w # e /\ w # p /\ s[w].parent = p
      /\ bh[p] = Own(s, p) + bh[w] /\ bh[w] = bh[e] + 1 /\ bh[p] \in Nat /\ bh[w] \in Nat /\ bh[e] \in Nat
      /\ \A d \in Sides : bh[w] = Own(s, w) + bh[Child(s, w, d)] /\ bh[Child(s, w, d)] \in Nat
  BY <1>3, Siblings
<1>5. T \subseteq All /\ Nil \notin T /\ Top \notin T /\ Top \in All /\ Nil \in All
  BY <1>1, GrownFacts
<1>6. /\ v \in T /\ v # w /\ s[v].parent = w /\ v # p
  <2>1. v \in T
    BY <1>1, <1>2, <1>4, GrownChild
  <2> QED
    BY <1>1, <1>4, <2>1, ParentOf, NotGrandchild
<1>7. PICK m : m = Child(s, v, Other(l))
  OBVIOUS
<1>8. PICK n1 : n1 = Child(s, v, l)
  OBVIOUS
<1>9. PICK s2 : s2 = Blacken(s, v)
  OBVIOUS
<1>10. PICK s3 : s3 = Redden(s2, w)
  OBVIOUS
<1>11. Grown(s2, T, K) /\ Red(s2) = Red(s) \ {v} /\ SameLinks(s, s2, All)
  BY <1>1, <1>5, <1>6, <1>9, PaintsBlack
<1>12. Grown(s3, T, K) /\ Red(s3) = Red(s2) \cup {w} /\ SameLinks(s2, s3, All)
  BY <1>4, <1>5, <1>10, <1>11, PaintsRed
<1>13. SameLinks(s, s3, All)
  BY <1>11, <1>12, SameLinksTrans
<1>14. \A n \in All : s3[n].parent = s[n].parent /\ \A d : Child(s3, n, d) = Child(s, n, d)
  BY <1>13, SameChild DEF SameLinks
<1>15. PICK R : R = Red(s3)
  OBVIOUS
<1>16. R = (Red(s) \ {v}) \cup {w}
  BY <1>11, <1>12, <1>15
<1>17. s3[w].parent = p
  BY <1>4, <1>5, <1>14
<1>18. Turned(s3, s1, w, v, m, p, Other(l)) /\ Pivot(s3, T, w, v, m, p, Other(l)) /\ Grown(s1, T, K)
  <2>1. v = Child(s3, w, Other(Other(l))) /\ v # Nil /\ m = Child(s3, v, Other(l))
    BY <1>1, <1>4, <1>5, <1>6, <1>7, <1>14
  <2>2. s1 = Rotate(s3, w, Other(l))
    BY <1>9, <1>10
  <2> QED
    BY <1>1, <1>4, <1>12, <1>17, <2>1, <2>2, TurnGrown
<1>19. Own(s, w) = 1 /\ Own(s, v) = 0 /\ Own(s3, w) = 0 /\ Own(s3, v) = 1
  BY <1>4, <1>6, <1>15, <1>16 DEF Own
<1>20. /\ bh[w] = 1 + bh[v] /\ bh[far] = bh[v] /\ bh[v] = bh[m] /\ bh[v] = bh[n1]
       /\ bh[v] \in Nat /\ bh[far] \in Nat /\ bh[m] \in Nat /\ bh[n1] \in Nat
  <2>1. bh[w] = Own(s, w) + bh[v] /\ bh[v] \in Nat /\ bh[w] = Own(s, w) + bh[far] /\ bh[far] \in Nat
    BY <1>1, <1>4
  <2>2. bh[v] = Own(s, v) + bh[m] + Lack(v, Other(l), p, l) /\ bh[m] \in Nat
    BY <1>1, <1>3, <1>6, <1>7, EvenAt
  <2>3. bh[v] = Own(s, v) + bh[n1] + Lack(v, l, p, l) /\ bh[n1] \in Nat
    BY <1>1, <1>3, <1>6, <1>8, EvenAt
  <2>4. Lack(v, Other(l), p, l) = 0 /\ Lack(v, l, p, l) = 0
    BY <1>1, <1>6, Lacks
  <2> QED
    BY <1>19, <2>1, <2>2, <2>3, <2>4
<1>21. \E h : Even(s1, T, h, p, l)
  <2>1. PICK ha \in Nat : ha = bh[v]
    BY <1>20
  <2>2. PICK hb \in Nat : hb = bh[w]
    BY <1>4
  <2>3. /\ Lack(w, Other(l), p, l) = 0 /\ Lack(w, Other(Other(l)), p, l) = 0
        /\ Lack(v, Other(l), p, l) = 0 /\ Lack(v, Other(Other(l)), p, l) = 0
    BY <1>1, <1>4, <1>6, Lacks
  <2>4. Child(s3, w, Other(l)) = far /\ Child(s3, v, Other(Other(l))) = n1
    BY <1>1, <1>4, <1>5, <1>6, <1>8, <1>14
  <2>5. /\ ha = Own(s3, w) + bh[Child(s3, w, Other(l))] + Lack(w, Other(l), p, l)
        /\ ha = Own(s3, w) + bh[m] + Lack(w, Other(Other(l)), p, l)
        /\ hb = Own(s3, v) + ha + Lack(v, Other(l), p, l)
        /\ hb = Own(s3, v) + bh[Child(s3, v, Other(Other(l)))] + Lack(v, Other(Other(l)), p, l)
    <3>1. /\ ha = 0 + bh[far] + 0 /\ ha = 0 + bh[m] + 0 /\ hb = 1 + ha + 0 /\ hb = 1 + bh[n1] + 0
      BY <1>4, <1>20, <2>1, <2>2
    <3> QED
      BY <1>19, <2>3, <2>4, <3>1
  <2>6. \A n \in T \ {w, v} : \A d \in Sides : bh[n] = Own(s3, n) + bh[Child(s3, n, d)] + Lack(n, d, p, l)
    <3>1. \A n \in T \ {w, v} : \A d \in Sides : bh[n] = Own(s, n) + bh[Child(s, n, d)] + Lack(n, d, p, l)
      BY <1>3 DEF Even
    <3>2. \A n \in T \ {w, v} : Own(s3, n) = Own(s, n)
      BY <1>15, <1>16 DEF Own
    <3> QED
      BY <1>5, <1>14, <3>1, <3>2
  <2>7. bh \in [All -> Nat] /\ bh[Nil] = 0
    BY <1>3 DEF Even
  <2>8. Levels(s3, T, w, v, m, Other(l), bh, ha, hb, p, l)
    BY <2>1, <2>2, <2>5, <2>6, <2>7 DEF Levels
  <2> QED
    BY <1>12, <1>18, <2>8, TurnEven
<1>22. m # w /\ n1 # w /\ far # w
  BY <1>1, <1>4, <1>6, <1>7, <1>8, NotGrandchild, NotOwnChild
<1>23. m \notin R /\ n1 \notin R /\ far \notin R /\ v \notin R
  <2>1. m \notin Red(s) /\ n1 \notin Red(s)
    BY <1>1, <1>2, <1>6, <1>7, <1>8
  <2> QED
    BY <1>6, <1>16, <1>22, <2>1
<1>24. Reds(s1, T, {}, {})
  <2>1. \A n \in (T \cup {Top}) \ {w, v} : \A d \in Sides :
          Child(s3, n, d) # w /\ Child(s3, n, d) \in R /\ (n = Top \/ n \in R) => Child(s3, n, d) \in {} \/ n \in {}
    BY <1>2, <1>5, <1>14, <1>16
  <2>2. Nil \notin R /\ Top \notin R
    BY <1>2, <1>4, <1>5, <1>16
  <2>3. Child(s3, w, Other(l)) = far
    BY <1>4, <1>5, <1>14
  <2> QED
    BY <1>12, <1>15, <1>18, <1>23, <2>1, <2>2, <2>3, TurnReds
<1>25. Red(s1) = R
  BY <1>15, <1>18, TurnRed
<1>26. Child(s1, p, l) = e /\ Child(s1, p, Other(l)) = v /\ Child(s1, v, Other(l)) = w
  <2>1. p \in (T \cup {Top}) \ {w, v} /\ Child(s3, p, l) = e /\ Child(s3, p, Other(l)) = w
    BY <1>1, <1>4, <1>5, <1>6, <1>14
  <2>2. Child(s1, p, l) = e
    BY <1>1, <1>4, <1>12, <1>18, <2>1, TurnAt
  <2>3. Child(s1, p, Other(l)) = v
    BY <1>1, <1>12, <1>18, <2>1, TurnAt
  <2>4. Child(s1, v, Other(l)) = w
    BY <1>18 DEF Turned
  <2> QED
    BY <2>2, <2>3, <2>4
<1>27. s1[e].parent = p
  <2>1. e \in All
    BY <1>1, GrownChild
  <2>2. e # v
    BY <1>1, <1>4, <1>6
  <2>3. e # m \/ m = Nil
    <3>1. m \in T => s[m].parent = v
      BY <1>1, <1>6, <1>7, ParentOf
    <3>2. m \in T \/ m = Nil
      BY <1>1, <1>6, <1>7, GrownChild
    <3> QED
      BY <1>1, <1>6, <3>1, <3>2
  <2>4. s1[e].parent = s3[e].parent
    BY <1>4, <1>18, <2>1, <2>2, <2>3 DEF Turned
  <2> QED
    BY <1>1, <1>14, <2>1, <2>4
<1>28. RootIs(s1, T, p, r)
  <2>1. CASE r = p /\ p \in Red(s)
    BY <1>4, <1>6, <1>16, <1>25, <2>1 DEF RootIs
  <2>2. CASE r = s[Top].left /\ r \in T /\ r \notin Red(s)
    <3>1. Child(s3, Top, "left") = r /\ Child(s, Top, "left") = r /\ "left" \in Sides
      BY <1>5, <1>14, <2>2, ChildSides
    <3>2. s[r].parent = Top
      BY <1>1, <2>2, <3>1, ParentOf
    <3>3. r # w /\ r # v
      BY <1>1, <1>4, <1>5, <1>6, <3>2
    <3>4. Top \in (T \cup {Top}) \ {w, v}
      BY <1>4, <1>5, <1>6
    <3>5. Child(s1, Top, "left") = r
      BY <1>12, <1>18, <3>1, <3>3, <3>4, TurnAt
    <3>6. r \notin R
      BY <1>16, <2>2, <3>3
    <3> QED
      BY <1>25, <2>2, <3>5, <3>6, ChildSides DEF RootIs
  <2> QED
    BY <2>1, <2>2 DEF RootIs
<1>29. e \notin R /\ w \in R
  BY <1>1, <1>4, <1>16
<1>30. Deficient(s1, T, K, e, p, l)
  BY <1>1, <1>18, <1>21, <1>24, <1>25, <1>26, <1>27, <1>29 DEF Deficient, Balanced
<1> QED
  BY <1>23, <1>25, <1>26, <1>28, <1>29, <1>30

(* With the far nephew red, a rotation gives e's side what it lacks.       *)
LEMMA DeleteLevel ==
  ASSUME NEW s, NEW T, NEW K, NEW e, NEW p, NEW l, Deficient(s, T, K, e, p, l),
         NEW w, w = Child(s, p, Other(l)), w \notin Red(s),
         NEW far, far = Child(s, w, Other(l)), far \in Red(s),
         NEW r, RootIs(s, T, p, r),
         NEW s1, s1 = Rotate(Blacken(Blacken(Dye(s, w, p), p), far), p, l)
  PROVE  Grown(s1, T, K) /\ Balanced(s1, T, Top, "left", {}, {}) /\ r \notin Red(s1)
<1>1. /\ Grown(s, T, K) /\ p \in T /\ l \in Sides /\ Other(l) \in Sides
      /\ Child(s, p, l) = e /\ s[e].parent = p /\ e \notin Red(s)
  BY TurnSides DEF Deficient
<1>2. /\ Nil \notin Red(s) /\ Top \notin Red(s)
      /\ \A n \in T \cup {Top} : \A d \in Sides : ~ (Child(s, n, d) \in Red(s) /\ (n = Top \/ n \in Red(s)))
  BY DEF Deficient, Balanced, Reds
<1>3. PICK bh : Even(s, T, bh, p, l)
  BY DEF Deficient, Balanced
<1>4. /\ w \in T /\ w # e /\ w # p /\ s[w].parent = p
      /\ bh[p] = Own(s, p) + bh[w] /\ bh[w] = bh[e] + 1 /\ bh[p] \in Nat /\ bh[w] \in Nat /\ bh[e] \in Nat
      /\ \A d \in Sides : bh[w] = Own(s, w) + bh[Child(s, w, d)] /\ bh[Child(s, w, d)] \in Nat
  BY <1>3, Siblings
<1>5. T \subseteq All /\ Nil \notin T /\ Top \notin T /\ Top \in All /\ Nil \in All
  BY <1>1, GrownFacts
<1>6. far \in T /\ far # w /\ far # p /\ s[far].parent = w
  <2>1. far \in T
    BY <1>1, <1>2, <1>4, GrownChild
  <2> QED
    BY <1>1, <1>4, <2>1, ParentOf, NotGrandchild
<1>7. PICK m : m = Child(s, w, l)
  OBVIOUS
<1>8. m # far /\ m # p /\ m # w
  <2>1. m # far
    BY <1>1, <1>4, <1>6, <1>7, OtherChild, TurnSides
  <2> QED
    BY <1>1, <1>4, <1>7, <2>1, NotGrandchild, NotOwnChild
<1>9. PICK s2 : s2 = Dye(s, w, p)
  OBVIOUS
<1>10. PICK s3 : s3 = Blacken(s2, p)
  OBVIOUS
<1>11. PICK s4 : s4 = Blacken(s3, far)
  OBVIOUS
<1>12. /\ Grown(s2, T, K) /\ SameLinks(s, s2, All)
       /\ Red(s2) = IF p \in Red(s) THEN Red(s) \cup {w} ELSE Red(s) \ {w}
  <2>1. w \in All /\ p \in All
    BY <1>1, <1>4, <1>5
  <2> QED
    BY <1>1, <1>9, <2>1, PaintsAs
<1>13. Grown(s3, T, K) /\ Red(s3) = Red(s2) \ {p} /\ SameLinks(s2, s3, All)
  <2>1. p \in All
    BY <1>1, <1>5
  <2> QED
    BY <1>10, <1>12, <2>1, PaintsBlack
<1>14. Grown(s4, T, K) /\ Red(s4) = Red(s3) \ {far} /\ SameLinks(s3, s4, All)
  BY <1>5, <1>6, <1>11, <1>13, PaintsBlack
<1>15. SameLinks(s, s4, All)
  <2>1. SameLinks(s, s3, All)
    BY <1>12, <1>13, SameLinksTrans
  <2> QED
    BY <1>14, <2>1, SameLinksTrans
<1>16. \A n \in All : s4[n].parent = s[n].parent /\ \A d : Child(s4, n, d) = Child(s, n, d)
  BY <1>15, SameChild DEF SameLinks
<1>17. PICK R : R = Red(s4)
  OBVIOUS
<1>18. \A n : n \in R <=> n # p /\ n # far /\ ((n # w /\ n \in Red(s)) \/ (n = w /\ p \in Red(s)))
  BY <1>12, <1>13, <1>14, <1>17
<1>19. PICK g : g = s4[p].parent
  OBVIOUS
<1>20. Turned(s4, s1, p, w, m, g, l) /\ Pivot(s4, T, p, w, m, g, l) /\ Grown(s1, T, K)
  <2>1. w = Child(s4, p, Other(l)) /\ w # Nil /\ m = Child(s4, w, l)
    BY <1>1, <1>4, <1>5, <1>7, <1>16
  <2>2. s1 = Rotate(s4, p, l)
    BY <1>9, <1>10, <1>11
  <2> QED
    BY <1>1, <1>14, <1>19, <2>1, <2>2, TurnGrown
<1>21. Own(s, w) = 1 /\ Own(s4, p) = 1 /\ Own(s4, w) = Own(s, p) /\ Own(s4, far) = 1 /\ Own(s, far) = 0
  BY <1>4, <1>6, <1>17, <1>18 DEF Own
<1>22. /\ bh[w] = 1 + bh[m] /\ bh[w] = 1 + bh[far] /\ bh[m] \in Nat /\ bh[far] \in Nat
  <2>1. bh[w] = Own(s, w) + bh[m] /\ bh[m] \in Nat /\ bh[w] = Own(s, w) + bh[far] /\ bh[far] \in Nat
    BY <1>1, <1>4, <1>7
  <2> QED
    BY <1>21, <2>1
<1>23. bh \in [All -> Nat] /\ bh[Nil] = 0
  BY <1>3 DEF Even
<1>24. PICK h : h = [n \in All |-> IF n = far THEN bh[n] + 1 ELSE bh[n]]
  OBVIOUS
<1>25. /\ h \in [All -> Nat] /\ h[Nil] = 0 /\ h[far] = bh[far] + 1
       /\ \A n \in All \ {far} : h[n] = bh[n]
  <2>1. Nil # far /\ far \in All
    BY <1>5, <1>6
  <2> QED
    BY <1>5, <1>23, <1>24, <2>1
<1>26. ASSUME NEW n \in T \ {p, w}, NEW d \in Sides
       PROVE  h[n] = Own(s4, n) + h[Child(s4, n, d)]
  <2>1. PICK c : c = Child(s, n, d)
    OBVIOUS
  <2>2. c \in All /\ (c \in T => s[c].parent = n) /\ c = Child(s4, n, d) /\ c # n
    <3>1. c \in T => s[c].parent = n
      BY <1>1, <2>1, ParentOf
    <3>2. c \in All /\ c # n
      BY <1>1, <2>1, GrownChild
    <3> QED
      BY <1>5, <1>16, <2>1, <3>1, <3>2
  <2>3. bh[n] = Own(s, n) + bh[c] + Lack(n, d, p, l) /\ bh[n] \in Nat /\ bh[c] \in Nat /\ Own(s, n) \in {0, 1}
    BY <1>1, <1>3, <2>1, EvenAt
  <2>4. Lack(n, d, p, l) = 0
    BY <1>1, Lacks
  <2>5. c # far
    BY <1>6, <2>2
  <2>6. h[c] = bh[c]
    BY <1>25, <2>2, <2>5
  <2>7. CASE n = far
    BY <1>21, <1>25, <2>2, <2>3, <2>4, <2>6, <2>7
  <2>8. CASE n # far
    <3>1. Own(s4, n) = Own(s, n)
      BY <1>17, <1>18, <2>8 DEF Own
    <3>2. h[n] = bh[n]
      BY <1>5, <1>25, <2>8
    <3> QED
      BY <2>2, <2>3, <2>4, <2>6, <3>1, <3>2
  <2> QED
    BY <2>7, <2>8
<1>27. \E k : Even(s1, T, k, Top, "left")
  <2>1. PICK ha \in Nat : ha = bh[w]
    BY <1>4
  <2>2. Child(s4, p, l) = e /\ Child(s4, w, Other(l)) = far /\ e # far /\ e \in All /\ m \in All
    <3>1. e \in All /\ m \in All
      BY <1>1, <1>4, <1>7, GrownChild
    <3>2. e # far
      BY <1>1, <1>4, <1>6
    <3> QED
      BY <1>1, <1>4, <1>5, <1>16, <3>1, <3>2
  <2>3. h[p] = bh[p] /\ h[e] = bh[e] /\ h[m] = bh[m]
    BY <1>1, <1>5, <1>6, <1>8, <1>25, <2>2
  <2>4. /\ ha = Own(s4, p) + h[Child(s4, p, l)] /\ ha = Own(s4, p) + h[m]
        /\ h[p] = Own(s4, w) + ha /\ h[p] = Own(s4, w) + h[Child(s4, w, Other(l))]
    <3>1. PICK k \in {0, 1} : k = Own(s, p)
      BY DEF Own
    <3>2. /\ ha = 1 + h[e] /\ ha = 1 + h[m] /\ h[p] = k + ha /\ h[p] = k + h[far]
      BY <1>4, <1>22, <1>25, <2>1, <2>3, <3>1
    <3> QED
      BY <1>21, <2>2, <3>1, <3>2
  <2>5. LevelsAll(s4, T, p, w, m, l, h, ha)
    BY <1>25, <1>26, <2>1, <2>4 DEF LevelsAll
  <2> QED
    BY <1>14, <1>20, <2>5, TurnEvenAll
<1>28. Reds(s1, T, {}, {})
  <2>1. ASSUME NEW n \in (T \cup {Top}) \ {p, w}, NEW d \in Sides,
               Child(s4, n, d) # p, Child(s4, n, d) \in R, n = Top \/ n \in R
        PROVE  FALSE
    <3>1. Child(s4, n, d) = Child(s, n, d)
      BY <1>5, <1>16
    <3>2. w # Child(s, n, d)
      <4>1. ASSUME w = Child(s, n, d) PROVE FALSE
        <5>1. n \in T \cup {Top} /\ n # p
          BY <2>1
        <5>2. s[w].parent = n
          BY <1>1, <1>4, <4>1, <5>1, ParentOf
        <5> QED
          BY <1>4, <5>1, <5>2
      <4> QED
        BY <4>1
    <3>3. Child(s, n, d) \in Red(s) /\ (n = Top \/ n \in Red(s))
      BY <1>18, <2>1, <3>1, <3>2
    <3> QED
      BY <1>2, <3>3
  <2>2. Nil \notin R /\ Top \notin R /\ p \notin R /\ far \notin R
    BY <1>2, <1>4, <1>5, <1>18
  <2>3. ~ (w \in R /\ (g = Top \/ g \in R))
    <3>1. g = s[p].parent
      BY <1>1, <1>5, <1>16, <1>19
    <3>2. g \in T \cup {Top} /\ SideOf(s, p) \in Sides /\ Child(s, g, SideOf(s, p)) = p
      BY <1>1, <3>1, GrownParent
    <3>3. g # w
      BY <1>1, <1>4, <3>2, NotGrandchild
    <3> QED
      BY <1>2, <1>18, <3>2, <3>3
  <2>4. Child(s4, w, Other(l)) = far
    BY <1>4, <1>5, <1>16
  <2> QED
    BY <1>14, <1>17, <1>20, <2>1, <2>2, <2>3, <2>4, TurnReds
<1>29. r \notin Red(s1)
  <2>1. Red(s1) = R
    BY <1>17, <1>20, TurnRed
  <2>2. CASE r = p
    BY <1>18, <2>1, <2>2
  <2>3. CASE r = s[Top].left /\ r \in T /\ r \notin Red(s)
    <3>1. Child(s, Top, "left") = r /\ "left" \in Sides
      BY <2>3, ChildSides
    <3>2. s[r].parent = Top
      BY <1>1, <2>3, <3>1, ParentOf
    <3>3. r # w
      BY <1>1, <1>4, <1>5, <3>2
    <3> QED
      BY <1>18, <2>1, <2>3, <3>3
  <2> QED
    BY <2>2, <2>3 DEF RootIs
<1> QED
  BY <1>20, <1>27, <1>28, <1>29 DEF Balanced

-----------------------------------------------------------------------------
(* Below a node.                                                           *)

Links(s, n) == {Child(s, n, d) : d \in Sides} \ {Nil}

LEMMA TreeDescends ==
  ASSUME NEW s, NEW T, NEW sub, Tree(s, T, sub)
  PROVE  Descends(T, [n \in T |-> Cardinality(sub[n])], [n \in T |-> Links(s, n)])
<1>1. Joined(s, T) /\ IsFiniteSet(T)
  BY TreeLinks DEF Tree
<1>2. PICK rank : rank = [n \in T |-> Cardinality(sub[n])]
  OBVIOUS
<1>3. PICK link : link = [n \in T |-> Links(s, n)]
  OBVIOUS
<1>4. \A n \in T : IsFiniteSet(sub[n])
  BY <1>1, TreeLinks, FS_Subset
<1>5. ASSUME NEW n \in T
      PROVE  rank[n] \in Nat /\ link[n] \in SUBSET T /\ \A c \in link[n] : rank[c] < rank[n]
  <2>1. rank[n] \in Nat
    BY <1>2, <1>4, FS_CardinalityType
  <2>2. ASSUME NEW c \in link[n]
        PROVE  c \in T /\ rank[c] < rank[n]
    <3>1. PICK d \in Sides : c = Child(s, n, d) /\ c # Nil
      BY <1>3, <2>2 DEF Links
    <3>2. c \in T
      BY <1>1, <3>1, JoinedChild
    <3>3. sub[c] \subseteq sub[n] /\ n \notin sub[c] /\ n \in sub[n]
      BY <3>1, TreeLinks DEF Tree, Nest
    <3>4. sub[c] # sub[n]
      BY <3>3
    <3>5. IsFiniteSet(sub[n]) /\ IsFiniteSet(sub[c])
      BY <1>4, <3>2
    <3>6. Cardinality(sub[c]) \in Nat /\ Cardinality(sub[n]) \in Nat
      BY <3>5, FS_CardinalityType
    <3>7. Cardinality(sub[c]) <= Cardinality(sub[n]) /\ Cardinality(sub[n]) # Cardinality(sub[c])
      BY <3>3, <3>4, <3>5, FS_Subset
    <3>8. Cardinality(sub[c]) < Cardinality(sub[n])
      BY <3>6, <3>7
    <3> QED
      BY <1>2, <3>2, <3>8
  <2> QED
    BY <2>1, <2>2
<1>6. link \in [T -> SUBSET T]
  BY <1>3, <1>5
<1> QED
  BY <1>2, <1>3, <1>5, <1>6 DEF Descends

LEMMA TreeInduct ==
  ASSUME NEW s, NEW T, NEW sub, Tree(s, T, sub), NEW S,
         \A n \in T : (\A d \in Sides : Child(s, n, d) = Nil \/ Child(s, n, d) \in S) => n \in S
  PROVE  T \subseteq S
<1>1. PICK rank : rank = [n \in T |-> Cardinality(sub[n])]
  OBVIOUS
<1>2. PICK link : link = [n \in T |-> Links(s, n)]
  OBVIOUS
<1>3. Descends(T, rank, link)
  BY <1>1, <1>2, TreeDescends
<1>4. \A n \in T : (\A c \in link[n] : c \in S) => n \in S
  BY <1>2 DEF Links
<1> QED
  BY <1>3, <1>4, WalkInduct

(* What is below a node, but not the node, is a child of something there.   *)
LEMMA Upward ==
  ASSUME NEW s, NEW T, NEW sub, Tree(s, T, sub)
  PROVE  \A n \in T : \A m \in sub[n] \ {n} : s[m].parent \in sub[n]
<1> DEFINE S == {n \in T : \A m \in sub[n] \ {n} : s[m].parent \in sub[n]}
<1>1. ASSUME NEW n \in T, \A d \in Sides : Child(s, n, d) = Nil \/ Child(s, n, d) \in S
      PROVE  n \in S
  <2> SUFFICES ASSUME NEW m \in sub[n] \ {n} PROVE s[m].parent \in sub[n]
    OBVIOUS
  <2>1. sub[n] = {n} \cup sub[Child(s, n, "left")] \cup sub[Child(s, n, "right")]
    BY TreeLinks DEF Child
  <2>2. PICK d \in Sides : m \in sub[Child(s, n, d)]
    BY <2>1 DEF Sides
  <2>3. Child(s, n, d) # Nil
    BY <2>2, TreeLinks
  <2>4. CASE m = Child(s, n, d)
    <3>1. s[m].parent = n
      BY <2>3, <2>4, JoinedChild DEF Tree
    <3> QED
      BY <2>1, <3>1
  <2>5. CASE m # Child(s, n, d)
    <3>1. s[m].parent \in sub[Child(s, n, d)]
      BY <1>1, <2>2, <2>3, <2>5
    <3>2. sub[Child(s, n, d)] \subseteq sub[n]
      BY DEF Tree, Nest
    <3> QED
      BY <3>1, <3>2
  <2> QED
    BY <2>4, <2>5
<1>2. T \subseteq S
  <2> HIDE DEF S
  <2> QED
    BY <1>1, TreeInduct
<1> QED
  BY <1>2

LEMMA Transitive ==
  ASSUME NEW s, NEW T, NEW sub, Tree(s, T, sub)
  PROVE  \A n \in T : \A m \in sub[n] : sub[m] \subseteq sub[n]
<1> DEFINE S == {n \in T : \A m \in sub[n] : sub[m] \subseteq sub[n]}
<1>1. ASSUME NEW n \in T, \A d \in Sides : Child(s, n, d) = Nil \/ Child(s, n, d) \in S
      PROVE  n \in S
  <2> SUFFICES ASSUME NEW m \in sub[n], m # n PROVE sub[m] \subseteq sub[n]
    OBVIOUS
  <2>1. sub[n] = {n} \cup sub[Child(s, n, "left")] \cup sub[Child(s, n, "right")]
    BY TreeLinks DEF Child
  <2>2. PICK d \in Sides : m \in sub[Child(s, n, d)]
    BY <2>1 DEF Sides
  <2>3. Child(s, n, d) # Nil
    BY <2>2, TreeLinks
  <2>4. sub[m] \subseteq sub[Child(s, n, d)]
    BY <1>1, <2>2, <2>3
  <2>5. sub[Child(s, n, d)] \subseteq sub[n]
    BY DEF Tree, Nest
  <2> QED
    BY <2>4, <2>5
<1>2. T \subseteq S
  <2> HIDE DEF S
  <2> QED
    BY <1>1, TreeInduct
<1> QED
  BY <1>2

-----------------------------------------------------------------------------
(* A new node.                                                             *)

(* o is a red leaf on side d of w, where nothing was.                       *)
Hung(s, s1, w, d, o) ==
  /\ s1 \in Heap /\ Red(s1) = Red(s) \cup {o}
  /\ s1[o].parent = w /\ \A e \in Sides : Child(s1, o, e) = Nil
  /\ \A n \in All \ {o} : /\ s1[n].parent = s[n].parent
                          /\ \A e \in Sides : Child(s1, n, e) = IF n = w /\ e = d THEN o ELSE Child(s, n, e)

Leaf(s, T, w, d, o) ==
  /\ o \in Nodes /\ o \notin T /\ w \in T \cup {Top} /\ d \in Sides
  /\ (w = Top => d = "left") /\ Child(s, w, d) = Nil

(* What is below each node then.                                           *)
With(T, sub, w, o) ==
  [n \in All |-> IF n = o THEN {o} ELSE IF n \in T /\ w \in sub[n] THEN sub[n] \cup {o} ELSE sub[n]]

LEMMA HangLinks ==
  ASSUME NEW s, NEW T, Joined(s, T), NEW w, NEW d, NEW o, Leaf(s, T, w, d, o), NEW s1, Hung(s, s1, w, d, o)
  PROVE  /\ T \subseteq All /\ Top \in All /\ Nil \in All /\ o \in All /\ o \notin T /\ o # Top /\ o # Nil
         /\ Nil \notin T /\ Top \notin T /\ Top # Nil
         /\ \A n \in T \cup {Top} : \A e \in Sides :
              /\ Child(s1, n, e) = IF n = w /\ e = d THEN o ELSE Child(s, n, e)
              /\ Child(s, n, e) \in T \cup {Nil} /\ (Child(s, n, e) # Nil => s[Child(s, n, e)].parent = n)
         /\ \A e \in Sides : Child(s1, o, e) = Nil /\ Child(s1, Nil, e) = Nil
         /\ s1[o].parent = w /\ \A n \in T : s1[n].parent = s[n].parent
<1>1. /\ T \subseteq All /\ Top \in All /\ Nil \in All /\ o \in All /\ o \notin T /\ o # Top /\ o # Nil
      /\ Nil \notin T /\ Top \notin T /\ Top # Nil
  BY Alls DEF Joined, Leaf
<1>2. \A n \in T \cup {Top} : \A e \in Sides : Child(s1, n, e) = IF n = w /\ e = d THEN o ELSE Child(s, n, e)
  BY <1>1 DEF Hung
<1>3. \A e \in Sides : Child(s1, o, e) = Nil /\ Child(s1, Nil, e) = Nil
  <2>1. \A e \in Sides : Child(s, Nil, e) = Nil
    BY DEF Joined, Child
  <2>2. w # Nil
    BY <1>1 DEF Leaf
  <2> QED
    BY <1>1, <2>1, <2>2 DEF Hung
<1>4. s1[o].parent = w /\ \A n \in T : s1[n].parent = s[n].parent
  BY <1>1 DEF Hung
<1>5. \A n \in T \cup {Top} : \A e \in Sides :
        Child(s, n, e) \in T \cup {Nil} /\ (Child(s, n, e) # Nil => s[Child(s, n, e)].parent = n)
  BY DEF Joined
<1> QED
  BY <1>1, <1>2, <1>3, <1>4, <1>5

LEMMA HangJoined ==
  ASSUME NEW s, NEW T, Joined(s, T), NEW w, NEW d, NEW o, Leaf(s, T, w, d, o), NEW s1, Hung(s, s1, w, d, o)
  PROVE  Joined(s1, T \cup {o})
<1>1. /\ T \subseteq All /\ Top \in All /\ Nil \in All /\ o \in All /\ o \notin T /\ o # Top /\ o # Nil
      /\ Nil \notin T /\ Top \notin T /\ Top # Nil
      /\ \A n \in T \cup {Top} : \A e \in Sides :
              /\ Child(s1, n, e) = IF n = w /\ e = d THEN o ELSE Child(s, n, e)
              /\ Child(s, n, e) \in T \cup {Nil} /\ (Child(s, n, e) # Nil => s[Child(s, n, e)].parent = n)
      /\ \A e \in Sides : Child(s1, o, e) = Nil /\ Child(s1, Nil, e) = Nil
      /\ s1[o].parent = w /\ \A n \in T : s1[n].parent = s[n].parent
  BY HangLinks
<1>2. w \in T \cup {Top} /\ d \in Sides /\ (w = Top => d = "left") /\ Child(s, w, d) = Nil /\ o \in Nodes
  BY DEF Leaf
<1>3. PICK U : U = T \cup {o}
  OBVIOUS
<1>4. ASSUME NEW n \in U \cup {Top}, NEW e \in Sides
      PROVE  Child(s1, n, e) \in U \cup {Nil} /\ (Child(s1, n, e) # Nil => s1[Child(s1, n, e)].parent = n)
  <2>1. CASE n = o
    BY <1>1, <2>1
  <2>2. CASE n \in T \cup {Top}
    <3>1. PICK c : c = Child(s, n, e)
      OBVIOUS
    <3>2. c \in T \cup {Nil} /\ (c # Nil => s[c].parent = n) /\ Child(s1, n, e) = IF n = w /\ e = d THEN o ELSE c
      BY <1>1, <2>2, <3>1
    <3> QED
      BY <1>1, <1>3, <3>2
  <2> QED
    BY <1>3, <2>1, <2>2
<1>5. ASSUME NEW n \in U
      PROVE  s1[n].parent \in U \cup {Top} /\ \E e \in Sides : n = Child(s1, s1[n].parent, e)
  <2>1. CASE n = o
    <3>1. Child(s1, w, d) = o
      BY <1>1, <1>2
    <3> QED
      BY <1>1, <1>2, <1>3, <2>1, <3>1
  <2>2. CASE n \in T
    <3>1. PICK p : p = s[n].parent
      OBVIOUS
    <3>2. p \in T \cup {Top} /\ \E e \in Sides : n = Child(s, p, e)
      BY <2>2, <3>1 DEF Joined
    <3>3. PICK e \in Sides : n = Child(s, p, e)
      BY <3>2
    <3>4. ~ (p = w /\ e = d)
      BY <1>1, <1>2, <2>2, <3>3
    <3>5. n = Child(s1, p, e)
      BY <1>1, <3>2, <3>3, <3>4
    <3> QED
      BY <1>1, <1>3, <2>2, <3>1, <3>2, <3>5
  <2> QED
    BY <1>3, <2>1, <2>2
<1>6. s1[Top].right = Nil
  <2>1. ~ (Top = w /\ "right" = d)
    BY <1>2, ChildSides
  <2>2. Child(s1, Top, "right") = Child(s, Top, "right")
    BY <1>1, <2>1, ChildSides
  <2>3. s[Top].right = Nil
    BY DEF Joined
  <2> QED
    BY <2>2, <2>3, ChildSides
<1>7. s1[Nil].left = Nil /\ s1[Nil].right = Nil
  BY <1>1, ChildSides
<1>8. s1 \in Heap /\ U \subseteq Nodes
  BY <1>2, <1>3 DEF Hung, Joined
<1>9. Joined(s1, U)
  BY <1>4, <1>5, <1>6, <1>7, <1>8 DEF Joined
<1> QED
  BY <1>3, <1>9

(* The nodes that o came under have it below them now.                     *)
HangBelow(s, s1, T, sub, v, w, d, o) ==
  \A n \in T : \A e \in Sides :
    v[Child(s1, n, e)] = IF (n = w /\ e = d) \/ w \in sub[Child(s, n, e)] THEN sub[Child(s, n, e)] \cup {o}
                         ELSE sub[Child(s, n, e)]

LEMMA HangTree ==
  ASSUME NEW s, NEW T, NEW sub, Tree(s, T, sub),
         NEW w, NEW d, NEW o, Leaf(s, T, w, d, o), NEW s1, Hung(s, s1, w, d, o),
         NEW v, v = With(T, sub, w, o)
  PROVE  Tree(s1, T \cup {o}, v) /\ HangBelow(s, s1, T, sub, v, w, d, o)
<1>1. /\ T \subseteq All /\ Top \in All /\ Nil \in All /\ o \in All /\ o \notin T /\ o # Top /\ o # Nil
      /\ Nil \notin T /\ Top \notin T /\ Top # Nil
      /\ \A n \in T \cup {Top} : \A e \in Sides :
              /\ Child(s1, n, e) = IF n = w /\ e = d THEN o ELSE Child(s, n, e)
              /\ Child(s, n, e) \in T \cup {Nil} /\ (Child(s, n, e) # Nil => s[Child(s, n, e)].parent = n)
      /\ \A e \in Sides : Child(s1, o, e) = Nil /\ Child(s1, Nil, e) = Nil
  BY HangLinks DEF Tree
<1>2. w \in T \cup {Top} /\ d \in Sides /\ (w = Top => d = "left") /\ Child(s, w, d) = Nil
  BY DEF Leaf
<1>3. /\ IsFiniteSet(T) /\ sub[Nil] = {} /\ sub[s[Top].left] = T
      /\ \A n \in T : n \in sub[n] /\ sub[n] \subseteq T
  BY TreeLinks
<1>4. \A n \in T : \A e \in Sides :
       /\ n \notin sub[Child(s, n, e)]
       /\ sub[n] = {n} \cup sub[Child(s, n, e)] \cup sub[Child(s, n, Other(e))]
       /\ sub[Child(s, n, e)] \cap sub[Child(s, n, Other(e))] = {}
  BY DEF Tree, Nest
<1>5. /\ v[o] = {o} /\ v[Nil] = {}
      /\ \A n \in T : v[n] = IF w \in sub[n] THEN sub[n] \cup {o} ELSE sub[n]
  BY <1>1, <1>3 DEF With
<1>6. ASSUME NEW n \in T, NEW e \in Sides
      PROVE  v[Child(s1, n, e)] = IF (n = w /\ e = d) \/ w \in sub[Child(s, n, e)] THEN sub[Child(s, n, e)] \cup {o}
                                  ELSE sub[Child(s, n, e)]
  <2>1. PICK c : c = Child(s, n, e)
    OBVIOUS
  <2>2. c \in T \cup {Nil} /\ Child(s1, n, e) = IF n = w /\ e = d THEN o ELSE c
    BY <1>1, <2>1
  <2>3. CASE n = w /\ e = d
    BY <1>2, <1>3, <1>5, <2>1, <2>2, <2>3
  <2>4. CASE ~ (n = w /\ e = d)
    BY <1>3, <1>5, <2>1, <2>2, <2>4
  <2> QED
    BY <2>3, <2>4
<1>7. PICK U : U = T \cup {o}
  OBVIOUS
<1>8. ASSUME NEW n \in T, NEW e \in Sides
      PROVE  /\ n \notin v[Child(s1, n, e)]
             /\ v[n] = {n} \cup v[Child(s1, n, e)] \cup v[Child(s1, n, Other(e))]
             /\ v[Child(s1, n, e)] \cap v[Child(s1, n, Other(e))] = {}
  <2>1. PICK A : A = sub[Child(s, n, e)]
    OBVIOUS
  <2>2. PICK B : B = sub[Child(s, n, Other(e))]
    OBVIOUS
  <2>3. n \notin A /\ sub[n] = {n} \cup A \cup B /\ A \cap B = {} /\ o \notin sub[n] /\ n # o /\ n \notin B
    BY <1>1, <1>3, <1>4, <2>1, <2>2, TurnSides
  <2>4. PICK i \in BOOLEAN : i <=> (n = w /\ e = d) \/ w \in A
    OBVIOUS
  <2>5. PICK j \in BOOLEAN : j <=> (n = w /\ Other(e) = d) \/ w \in B
    OBVIOUS
  <2>6. /\ v[Child(s1, n, e)] = IF i THEN A \cup {o} ELSE A
        /\ v[Child(s1, n, Other(e))] = IF j THEN B \cup {o} ELSE B
    BY <1>6, <2>1, <2>2, <2>4, <2>5, TurnSides
  <2>7. v[n] = IF i \/ j THEN sub[n] \cup {o} ELSE sub[n]
    <3>1. w \in sub[n] <=> i \/ j
      BY <1>2, <2>3, <2>4, <2>5, TurnSides
    <3> QED
      BY <1>5, <3>1
  <2>8. ~ (i /\ j)
    BY <2>3, <2>4, <2>5, TurnSides
  <2> QED
    BY <2>3, <2>6, <2>7, <2>8
<1>9. ASSUME NEW n \in U, NEW e \in Sides
      PROVE  /\ n \notin v[Child(s1, n, e)]
             /\ v[n] = {n} \cup v[Child(s1, n, e)] \cup v[Child(s1, n, Other(e))]
             /\ v[Child(s1, n, e)] \cap v[Child(s1, n, Other(e))] = {}
  <2>1. CASE n \in T
    BY <1>8, <2>1
  <2>2. CASE n = o
    BY <1>1, <1>5, <2>2, TurnSides
  <2> QED
    BY <1>7, <2>1, <2>2
<1>10. v[s1[Top].left] = U
  <2>1. PICK r : r = s[Top].left
    OBVIOUS
  <2>2. r \in T \cup {Nil} /\ s1[Top].left = IF Top = w THEN o ELSE r
    BY <1>1, <1>2, <2>1, ChildSides
  <2>3. CASE w = Top
    <3>1. r = Nil
      BY <1>2, <2>1, <2>3, ChildSides
    <3>2. T = {}
      BY <1>3, <2>1, <3>1
    <3> QED
      BY <1>5, <1>7, <2>2, <2>3, <3>2
  <2>4. CASE w # Top
    <3>1. w \in T /\ sub[r] = T
      BY <1>2, <1>3, <2>1, <2>4
    <3>2. r \in T
      BY <1>3, <2>2, <3>1
    <3> QED
      BY <1>5, <1>7, <2>2, <2>4, <3>1, <3>2
  <2> QED
    BY <2>3, <2>4
<1>11. IsFiniteSet(U) /\ \A n \in U : v[n] \subseteq U
  <2>1. IsFiniteSet(U)
    <3>1. IsFiniteSet(T)
      BY <1>3
    <3>2. IsFiniteSet(T \cup {o})
      BY <3>1, FS_AddElement
    <3> QED
      BY <1>7, <3>2
  <2>2. v[o] \subseteq U
    BY <1>5, <1>7
  <2>3. ASSUME NEW n \in T
        PROVE  v[n] \subseteq U
    <3>1. sub[n] \subseteq T /\ (v[n] = sub[n] \cup {o} \/ v[n] = sub[n])
      BY <1>3, <1>5
    <3> QED
      BY <1>7, <3>1
  <2>4. \A n \in U : v[n] \subseteq U
    BY <1>7, <2>2, <2>3
  <2> QED
    BY <2>1, <2>4
<1>12. Joined(s1, U)
  BY <1>7, HangJoined DEF Tree
<1>13. Tree(s1, U, v)
  BY <1>5, <1>9, <1>10, <1>11, <1>12 DEF Tree, Nest
<1> QED
  BY <1>6, <1>7, <1>13 DEF HangBelow

(* o belongs on side d of w: so the search for its place came to w.        *)
Ends(s, T, sub, key, w, d, o) ==
  /\ \A n \in T : \A e \in Sides : w \in sub[Child(s, n, e)] => Before(key, e, o, n)
  /\ w \in T => Before(key, d, o, w)

LEMMA HangGrown ==
  ASSUME NEW s, NEW T, NEW sub, Tree(s, T, sub), NEW w, NEW d, NEW o, Leaf(s, T, w, d, o),
         NEW s1, Hung(s, s1, w, d, o),
         NEW K, K.keys \subseteq Keys, Loose(s, T, K.out),
         \A key \in K.keys : Sorted(s, T, sub, key) /\ Ends(s, T, sub, key, w, d, o)
  PROVE  Grown(s1, T \cup {o}, K)
<1>1. PICK v : v = With(T, sub, w, o)
  OBVIOUS
<1>2. PICK U : U = T \cup {o}
  OBVIOUS
<1>3. Tree(s1, U, v) /\ HangBelow(s, s1, T, sub, v, w, d, o)
  BY <1>1, <1>2, HangTree
<1>4. \A e \in Sides : Child(s1, o, e) = Nil
  BY DEF Hung
<1>5. v[Nil] = {}
  BY <1>3, TreeLinks
<1>6. ASSUME NEW key \in K.keys
      PROVE  Sorted(s1, U, v, key)
  <2>1. Sorted(s, T, sub, key) /\ Ends(s, T, sub, key, w, d, o)
    OBVIOUS
  <2>2. ASSUME NEW n \in U, NEW e \in Sides, NEW m \in v[Child(s1, n, e)]
        PROVE  Before(key, e, m, n)
    <3>1. n \in T
      BY <1>2, <1>4, <1>5, <2>2
    <3>2. CASE m \in sub[Child(s, n, e)]
      BY <2>1, <3>1, <3>2 DEF Sorted
    <3>3. CASE m \notin sub[Child(s, n, e)]
      <4>1. m = o /\ ((n = w /\ e = d) \/ w \in sub[Child(s, n, e)])
        BY <1>3, <2>2, <3>1, <3>3 DEF HangBelow
      <4> QED
        BY <2>1, <3>1, <4>1 DEF Ends
    <3> QED
      BY <3>2, <3>3
  <2> QED
    BY <2>2 DEF Sorted
<1>7. Loose(s1, U, K.out)
  <2>1. ASSUME NEW n \in Nodes \ U, NEW e \in Sides
        PROVE  Child(s1, n, e) = Child(s, n, e)
    <3>1. n \in All /\ n # o /\ n # w
      BY <1>2, <2>1, Alls DEF Leaf
    <3> QED
      BY <3>1 DEF Hung
  <2>2. \A n \in Nodes \ U : n \in Nodes \ T
    BY <1>2
  <2> QED
    BY <1>2, <2>1, <2>2 DEF Loose
<1>8. Grown(s1, U, K)
  BY <1>3, <1>6, <1>7 DEF Grown
<1> QED
  BY <1>2, <1>8

LEMMA HangBalanced ==
  ASSUME NEW s, NEW T, Joined(s, T), NEW w, NEW d, NEW o, Leaf(s, T, w, d, o), NEW s1, Hung(s, s1, w, d, o),
         Balanced(s, T, Top, "left", {}, {})
  PROVE  Balanced(s1, T \cup {o}, Top, "left", {o}, {}) /\ o \in Red(s1)
<1>1. /\ T \subseteq All /\ Top \in All /\ Nil \in All /\ o \in All /\ o \notin T /\ o # Top /\ o # Nil
      /\ Nil \notin T /\ Top \notin T /\ Top # Nil
      /\ \A n \in T \cup {Top} : \A e \in Sides :
              /\ Child(s1, n, e) = IF n = w /\ e = d THEN o ELSE Child(s, n, e)
              /\ Child(s, n, e) \in T \cup {Nil} /\ (Child(s, n, e) # Nil => s[Child(s, n, e)].parent = n)
      /\ \A e \in Sides : Child(s1, o, e) = Nil /\ Child(s1, Nil, e) = Nil
  BY HangLinks
<1>2. w \in T \cup {Top} /\ d \in Sides /\ Child(s, w, d) = Nil /\ o \in Nodes
  BY DEF Leaf
<1>3. PICK R : R = Red(s)
  OBVIOUS
<1>4. Red(s1) = R \cup {o}
  BY <1>3 DEF Hung
<1>5. PICK U : U = T \cup {o}
  OBVIOUS
<1>6. PICK bh : Even(s, T, bh, Top, "left")
  BY DEF Balanced
<1>7. /\ bh \in [All -> Nat] /\ bh[Nil] = 0
      /\ \A n \in T : \A e \in Sides : bh[n] = Own(s, n) + bh[Child(s, n, e)] + Lack(n, e, Top, "left")
  BY <1>6 DEF Even
<1>8. PICK h : h = [n \in All |-> IF n = o THEN 0 ELSE bh[n]]
  OBVIOUS
<1>9. h \in [All -> Nat] /\ h[Nil] = 0 /\ h[o] = 0 /\ \A n \in All \ {o} : h[n] = bh[n]
  BY <1>1, <1>7, <1>8
<1>10. ASSUME NEW n \in U, NEW e \in Sides
       PROVE  h[n] = Own(s1, n) + h[Child(s1, n, e)]
  <2>1. CASE n = o
    <3>1. Own(s1, o) = 0 /\ Child(s1, o, e) = Nil
      BY <1>1, <1>4 DEF Own
    <3> QED
      BY <1>9, <2>1, <3>1
  <2>2. CASE n \in T
    <3>1. PICK c : c = Child(s, n, e)
      OBVIOUS
    <3>2. c \in T \cup {Nil} /\ Child(s1, n, e) = IF n = w /\ e = d THEN o ELSE c
      BY <1>1, <2>2, <3>1
    <3>3. h[Child(s1, n, e)] = bh[c]
      <4>1. CASE n = w /\ e = d
        <5>1. c = Nil
          BY <1>2, <3>1, <4>1
        <5> QED
          BY <1>7, <1>9, <3>2, <4>1, <5>1
      <4>2. CASE ~ (n = w /\ e = d)
        BY <1>1, <1>9, <3>2, <4>2
      <4> QED
        BY <4>1, <4>2
    <3>4. Own(s1, n) = Own(s, n)
      BY <1>1, <1>3, <1>4, <2>2 DEF Own
    <3>5. h[n] = bh[n]
      BY <1>1, <1>9, <2>2
    <3>6. bh[n] = Own(s, n) + bh[c] + Lack(n, e, Top, "left")
      BY <1>7, <2>2, <3>1
    <3>7. Lack(n, e, Top, "left") = 0
      BY <1>1, <2>2 DEF Lack
    <3>8. Own(s, n) \in {0, 1} /\ bh[c] \in Nat
      BY <1>1, <1>7, <3>2 DEF Own
    <3> QED
      BY <3>3, <3>4, <3>5, <3>6, <3>7, <3>8
  <2> QED
    BY <1>5, <2>1, <2>2
<1>11. Even(s1, U, h, Top, "left")
  <2>1. U \subseteq Nodes
    BY <1>2, <1>5 DEF Joined
  <2> QED
    BY <1>9, <1>10, <2>1, EvenIs
<1>12. /\ Nil \notin R /\ Top \notin R
       /\ \A n \in T \cup {Top} : \A e \in Sides : ~ (Child(s, n, e) \in R /\ (n = Top \/ n \in R))
  BY <1>3 DEF Balanced, Reds
<1>13. ASSUME NEW n \in U \cup {Top}, NEW e \in Sides, Child(s1, n, e) \in Red(s1), n = Top \/ n \in Red(s1)
       PROVE  Child(s1, n, e) = o
  <2>1. n \in T \cup {Top}
    <3>1. Nil \notin Red(s1)
      BY <1>1, <1>4, <1>12
    <3> QED
      BY <1>1, <1>5, <1>13, <3>1
  <2>2. CASE Child(s1, n, e) # o
    <3>1. Child(s1, n, e) = Child(s, n, e)
      BY <1>1, <2>1, <2>2
    <3> QED
      BY <1>1, <1>4, <1>12, <1>13, <2>1, <2>2, <3>1
  <2> QED
    BY <2>2
<1>14. Reds(s1, U, {o}, {})
  BY <1>1, <1>4, <1>12, <1>13 DEF Reds
<1> QED
  BY <1>4, <1>5, <1>11, <1>14 DEF Balanced

-----------------------------------------------------------------------------
(* A node with at most one child taken out.                                *)

(* c is now where w was: on side d of p.                                   *)
Taken(s, s1, p, d, c) ==
  /\ s1 \in Heap /\ Red(s1) = Red(s)
  /\ \A n \in All : /\ s1[n].parent = IF n = c THEN p ELSE s[n].parent
                    /\ \A e \in Sides : Child(s1, n, e) = IF n = p /\ e = d THEN c ELSE Child(s, n, e)

Stem(s, T, w, p, d, c) ==
  /\ w \in T /\ p \in T \cup {Top} /\ d \in Sides /\ s[w].parent = p /\ Child(s, p, d) = w
  /\ \E e \in Sides : Child(s, w, e) = Nil /\ Child(s, w, Other(e)) = c

LEMMA StemLinks ==
  ASSUME NEW s, NEW T, NEW sub, Tree(s, T, sub), NEW w, NEW p, NEW d, NEW c, Stem(s, T, w, p, d, c)
  PROVE  /\ T \subseteq All /\ Top \in All /\ Nil \in All /\ Nil \notin T /\ Top \notin T /\ Top # Nil
         /\ w \in T /\ p \in (T \ {w}) \cup {Top} /\ d \in Sides /\ c \in (T \ {w}) \cup {Nil} /\ c # p
         /\ c # Nil => s[c].parent = w
         /\ \A n \in T \cup {Top} : \A e \in Sides :
              /\ Child(s, n, e) \in T \cup {Nil} /\ (Child(s, n, e) # Nil => s[Child(s, n, e)].parent = n)
              /\ Child(s, n, e) = w <=> n = p /\ e = d
         /\ \A n \in T : s[n].parent = w => n = c
         /\ sub[w] = {w} \cup sub[c] /\ w \notin sub[c]
<1>1. Joined(s, T)
  BY DEF Tree
<1>2. T \subseteq All /\ Top \in All /\ Nil \in All /\ Nil \notin T /\ Top \notin T /\ Top # Nil
  BY <1>1, Alls DEF Joined
<1>3. w \in T /\ p \in T \cup {Top} /\ d \in Sides /\ s[w].parent = p /\ Child(s, p, d) = w
  BY DEF Stem
<1>4. PICK f \in Sides : Child(s, w, f) = Nil /\ Child(s, w, Other(f)) = c
  BY DEF Stem
<1>5. \A n \in T \cup {Top} : \A e \in Sides :
        Child(s, n, e) \in T \cup {Nil} /\ (Child(s, n, e) # Nil => s[Child(s, n, e)].parent = n)
  BY <1>1 DEF Joined
<1>6. Other(f) \in Sides /\ \A e \in Sides : e = f \/ e = Other(f)
  BY TurnSides
<1>7. c \in T \cup {Nil} /\ (c # Nil => s[c].parent = w) /\ c # w
  BY <1>3, <1>4, <1>5, <1>6, TreeChild
<1>8. p # w /\ c # p
  <2>1. p # w
    BY <1>2, <1>3, TreeChild
  <2>2. c # p
    BY <1>2, <1>3, <1>4, <1>6, <1>7, TreeChild
  <2> QED
    BY <2>1, <2>2
<1>9. ASSUME NEW n \in T \cup {Top}, NEW e \in Sides
      PROVE  Child(s, n, e) = w <=> n = p /\ e = d
  <2>1. ASSUME Child(s, n, e) = w
        PROVE  n = p /\ e = d
    <3>1. n = p
      BY <1>2, <1>3, <1>5, <2>1
    <3>2. CASE p \in T
      BY <1>2, <1>3, <2>1, <3>1, <3>2, TreeChild, TurnSides
    <3>3. CASE p = Top
      <4>1. Child(s, Top, "right") = Nil
        BY <1>1, ChildSides DEF Joined
      <4> QED
        BY <1>2, <1>3, <2>1, <3>1, <3>3, <4>1, ChildSides
    <3> QED
      BY <1>3, <3>1, <3>2, <3>3
  <2> QED
    BY <1>3, <2>1
<1>10. \A n \in T : s[n].parent = w => n = c
  <2>1. \A n \in T : \E e \in Sides : n = Child(s, s[n].parent, e)
    BY <1>1 DEF Joined
  <2> QED
    BY <1>2, <1>4, <1>6, <2>1
<1>11. sub[w] = {w} \cup sub[c] /\ w \notin sub[c]
  <2>1. sub[w] = {w} \cup sub[Child(s, w, f)] \cup sub[Child(s, w, Other(f))] /\ w \notin sub[Child(s, w, Other(f))]
    BY <1>3, <1>6 DEF Tree, Nest
  <2>2. sub[Nil] = {}
    BY TreeLinks
  <2> QED
    BY <1>4, <2>1, <2>2
<1> QED
  BY <1>2, <1>3, <1>5, <1>7, <1>8, <1>9, <1>10, <1>11

LEMMA TakeJoined ==
  ASSUME NEW s, NEW T, NEW sub, Tree(s, T, sub), NEW w, NEW p, NEW d, NEW c, Stem(s, T, w, p, d, c),
         NEW s1, Taken(s, s1, p, d, c)
  PROVE  Joined(s1, T \ {w})
<1>1. /\ T \subseteq All /\ Top \in All /\ Nil \in All /\ Nil \notin T /\ Top \notin T /\ Top # Nil
      /\ w \in T /\ p \in (T \ {w}) \cup {Top} /\ d \in Sides /\ c \in (T \ {w}) \cup {Nil} /\ c # p
      /\ c # Nil => s[c].parent = w
      /\ \A n \in T \cup {Top} : \A e \in Sides :
           /\ Child(s, n, e) \in T \cup {Nil} /\ (Child(s, n, e) # Nil => s[Child(s, n, e)].parent = n)
           /\ Child(s, n, e) = w <=> n = p /\ e = d
      /\ \A n \in T : s[n].parent = w => n = c
  BY StemLinks
<1>2. /\ s1 \in Heap
      /\ \A n \in All : /\ s1[n].parent = IF n = c THEN p ELSE s[n].parent
                        /\ \A e \in Sides : Child(s1, n, e) = IF n = p /\ e = d THEN c ELSE Child(s, n, e)
  BY DEF Taken
<1>3. PICK U : U = T \ {w}
  OBVIOUS
<1>4. U \cup {Top} \subseteq All /\ U \subseteq T
  BY <1>1, <1>3
<1>5. ASSUME NEW n \in U \cup {Top}, NEW e \in Sides
      PROVE  Child(s1, n, e) \in U \cup {Nil} /\ (Child(s1, n, e) # Nil => s1[Child(s1, n, e)].parent = n)
  <2>1. PICK k : k = Child(s, n, e)
    OBVIOUS
  <2>2. k \in T \cup {Nil} /\ (k # Nil => s[k].parent = n) /\ (k = w <=> n = p /\ e = d)
    BY <1>1, <1>4, <2>1
  <2>3. Child(s1, n, e) = IF n = p /\ e = d THEN c ELSE k
    BY <1>2, <1>4, <2>1
  <2>4. CASE n = p /\ e = d
    BY <1>1, <1>2, <1>3, <2>3, <2>4
  <2>5. CASE ~ (n = p /\ e = d)
    <3>1. k \in U \cup {Nil}
      BY <1>3, <2>2, <2>5
    <3>2. k # Nil => k # c
      BY <1>1, <1>3, <2>2
    <3> QED
      BY <1>1, <1>2, <1>4, <2>2, <2>3, <2>5, <3>1, <3>2
  <2> QED
    BY <2>4, <2>5
<1>6. ASSUME NEW n \in U
      PROVE  s1[n].parent \in U \cup {Top} /\ \E e \in Sides : n = Child(s1, s1[n].parent, e)
  <2>1. CASE n = c
    <3>1. Child(s1, p, d) = c
      BY <1>1, <1>2
    <3> QED
      BY <1>1, <1>2, <1>3, <2>1, <3>1
  <2>2. CASE n # c
    <3>1. PICK k : k = s[n].parent
      OBVIOUS
    <3>2. k \in T \cup {Top} /\ \E e \in Sides : n = Child(s, k, e)
      BY <1>4, <3>1 DEF Tree, Joined
    <3>3. PICK e \in Sides : n = Child(s, k, e)
      BY <3>2
    <3>4. k # w /\ ~ (k = p /\ e = d)
      BY <1>1, <1>3, <2>2, <3>1, <3>2, <3>3
    <3>5. Child(s1, k, e) = n /\ s1[n].parent = k
      BY <1>1, <1>2, <1>4, <2>2, <3>1, <3>2, <3>3, <3>4
    <3> QED
      BY <1>3, <3>2, <3>4, <3>5
  <2> QED
    BY <2>1, <2>2
<1>7. s1[Top].right = Nil
  <2>1. s[Top].right = Nil
    BY DEF Tree, Joined
  <2>2. ~ (Top = p /\ "right" = d)
    BY <1>1, <2>1, ChildSides
  <2>3. Child(s1, Top, "right") = Child(s, Top, "right")
    BY <1>1, <1>2, <2>2, ChildSides
  <2> QED
    BY <2>1, <2>3, ChildSides
<1>8. s1[Nil].left = Nil /\ s1[Nil].right = Nil
  <2>1. Child(s, Nil, "left") = Nil /\ Child(s, Nil, "right") = Nil
    BY ChildSides DEF Tree, Joined
  <2>2. p # Nil
    BY <1>1
  <2>3. Child(s1, Nil, "left") = Nil /\ Child(s1, Nil, "right") = Nil
    BY <1>1, <1>2, <2>1, <2>2, ChildSides
  <2> QED
    BY <2>3, ChildSides
<1>9. U \subseteq Nodes
  BY <1>4 DEF Tree, Joined
<1>10. Joined(s1, U)
  BY <1>2, <1>5, <1>6, <1>7, <1>8, <1>9 DEF Joined
<1> QED
  BY <1>3, <1>10

(* Nothing but w has gone from below the nodes that stay.                  *)
TakeBelow(s, s1, T, sub, v, w) ==
  \A n \in T \ {w} : \A e \in Sides : v[Child(s1, n, e)] = sub[Child(s, n, e)] \ {w}

LEMMA TakeTree ==
  ASSUME NEW s, NEW T, NEW sub, Tree(s, T, sub), NEW w, NEW p, NEW d, NEW c, Stem(s, T, w, p, d, c),
         NEW s1, Taken(s, s1, p, d, c), NEW v, v = [n \in All |-> sub[n] \ {w}]
  PROVE  Tree(s1, T \ {w}, v) /\ TakeBelow(s, s1, T, sub, v, w)
<1>1. /\ T \subseteq All /\ Top \in All /\ Nil \in All /\ Nil \notin T /\ Top \notin T /\ Top # Nil
      /\ w \in T /\ p \in (T \ {w}) \cup {Top} /\ d \in Sides /\ c \in (T \ {w}) \cup {Nil} /\ c # p
      /\ \A n \in T \cup {Top} : \A e \in Sides :
           /\ Child(s, n, e) \in T \cup {Nil}
           /\ Child(s, n, e) = w <=> n = p /\ e = d
      /\ sub[w] = {w} \cup sub[c] /\ w \notin sub[c]
  BY StemLinks
<1>2. \A n \in All : \A e \in Sides : Child(s1, n, e) = IF n = p /\ e = d THEN c ELSE Child(s, n, e)
  BY DEF Taken
<1>3. PICK U : U = T \ {w}
  OBVIOUS
<1>4. \A n \in All : v[n] = sub[n] \ {w}
  OBVIOUS
<1>5. ASSUME NEW n \in U \cup {Top}, NEW e \in Sides
      PROVE  v[Child(s1, n, e)] = sub[Child(s, n, e)] \ {w}
  <2>1. PICK k : k = Child(s, n, e)
    OBVIOUS
  <2>2. n \in T \cup {Top} /\ n \in All
    BY <1>1, <1>3
  <2>3. k \in All /\ (k = w <=> n = p /\ e = d) /\ Child(s1, n, e) = IF n = p /\ e = d THEN c ELSE k
    BY <1>1, <1>2, <2>1, <2>2
  <2>4. c \in All
    BY <1>1
  <2>5. CASE n = p /\ e = d
    BY <1>1, <1>4, <2>1, <2>3, <2>4, <2>5
  <2>6. CASE ~ (n = p /\ e = d)
    BY <1>4, <2>1, <2>3, <2>6
  <2> QED
    BY <2>5, <2>6
<1>6. ASSUME NEW n \in U, NEW e \in Sides
      PROVE  /\ n \notin v[Child(s1, n, e)]
             /\ v[n] = {n} \cup v[Child(s1, n, e)] \cup v[Child(s1, n, Other(e))]
             /\ v[Child(s1, n, e)] \cap v[Child(s1, n, Other(e))] = {}
  <2>1. /\ n \notin sub[Child(s, n, e)]
        /\ sub[n] = {n} \cup sub[Child(s, n, e)] \cup sub[Child(s, n, Other(e))]
        /\ sub[Child(s, n, e)] \cap sub[Child(s, n, Other(e))] = {}
    BY <1>3, <1>6 DEF Tree, Nest
  <2>2. v[Child(s1, n, e)] = sub[Child(s, n, e)] \ {w} /\ v[Child(s1, n, Other(e))] = sub[Child(s, n, Other(e))] \ {w}
    BY <1>5, TurnSides
  <2>3. v[n] = sub[n] \ {w} /\ n # w
    BY <1>1, <1>3, <1>4
  <2> QED
    BY <2>1, <2>2, <2>3
<1>7. IsFiniteSet(U) /\ v[Nil] = {} /\ v[s1[Top].left] = U /\ \A n \in U : v[n] \subseteq U
  <2>1. /\ IsFiniteSet(T) /\ sub[Nil] = {} /\ sub[s[Top].left] = T
        /\ \A n \in T : sub[n] \subseteq T
    BY TreeLinks
  <2>2. v[Child(s1, Top, "left")] = sub[Child(s, Top, "left")] \ {w}
    BY <1>5, ChildSides
  <2>3. IsFiniteSet(U)
    BY <1>3, <2>1, FS_Subset
  <2>4. v[s1[Top].left] = U
    BY <1>3, <2>1, <2>2, ChildSides
  <2>5. v[Nil] = {}
    BY <1>1, <1>4, <2>1
  <2>6. \A n \in U : v[n] \subseteq U
    BY <1>1, <1>3, <1>4, <2>1
  <2> QED
    BY <2>3, <2>4, <2>5, <2>6
<1>8. Joined(s1, U)
  BY <1>3, TakeJoined
<1>9. Tree(s1, U, v)
  BY <1>6, <1>7, <1>8 DEF Tree, Nest
<1> QED
  BY <1>3, <1>5, <1>9 DEF TakeBelow

LEMMA TakeGrown ==
  ASSUME NEW s, NEW T, NEW sub, Tree(s, T, sub), NEW w, NEW p, NEW d, NEW c, Stem(s, T, w, p, d, c),
         NEW s1, Taken(s, s1, p, d, c), Loose(s, T, Nil),
         NEW K, K.keys \subseteq Keys, K.out = w,
         \A key \in K.keys : \A n \in T \ {w} : \A e \in Sides : \A m \in sub[Child(s, n, e)] \ {w} : Before(key, e, m, n)
  PROVE  Grown(s1, T \ {w}, K)
<1>1. /\ T \subseteq All /\ Nil \notin T /\ Top \notin T /\ w \in T /\ p \in (T \ {w}) \cup {Top}
      /\ \A n \in T \cup {Top} : \A e \in Sides :
           /\ Child(s, n, e) \in T \cup {Nil} /\ (Child(s, n, e) # Nil => s[Child(s, n, e)].parent = n)
           /\ Child(s, n, e) = w <=> n = p /\ e = d
  BY StemLinks
<1>2. PICK U : U = T \ {w}
  OBVIOUS
<1>3. PICK v : v = [n \in All |-> sub[n] \ {w}]
  OBVIOUS
<1>4. Tree(s1, U, v) /\ TakeBelow(s, s1, T, sub, v, w)
  BY <1>2, <1>3, TakeTree
<1>5. \A key \in K.keys : Sorted(s1, U, v, key)
  BY <1>2, <1>4 DEF Sorted, TakeBelow
<1>6. ASSUME NEW n \in Nodes \ U, NEW e \in Sides
      PROVE  Child(s1, n, e) \in U \cup {Nil} /\ (n # w => Child(s1, n, e) = Nil)
  <2>1. n \in All /\ n # p /\ n # Nil
    BY <1>1, <1>2, <1>6, Alls
  <2>2. Child(s1, n, e) = Child(s, n, e)
    BY <2>1 DEF Taken
  <2>3. CASE n = w
    BY <1>1, <1>2, <2>1, <2>2, <2>3
  <2>4. CASE n # w
    BY <1>2, <1>6, <2>1, <2>2, <2>4 DEF Loose
  <2> QED
    BY <2>3, <2>4
<1>7. Loose(s1, U, K.out)
  BY <1>6 DEF Loose
<1>8. Grown(s1, U, K)
  BY <1>4, <1>5, <1>7 DEF Grown
<1> QED
  BY <1>2, <1>8

(* w is the first on the right of o.                                       *)
Succeeds(s, T, sub, key, w, o) ==
  o \in T /\ w \in sub[Child(s, o, "right")] /\ \A m \in sub[Child(s, o, "right")] : key[w] <= key[m]

(* So o may have the key of w, once w is out.                              *)
LEMMA KeyMoved ==
  ASSUME NEW s, NEW T, NEW sub, Tree(s, T, sub), NEW key \in Keys, Sorted(s, T, sub, key),
         NEW w, NEW o, Succeeds(s, T, sub, key, w, o),
         NEW k2, k2 = [key EXCEPT ![o] = key[w]]
  PROVE  /\ k2 \in Keys
         /\ \A n \in T \ {w} : \A e \in Sides : \A m \in sub[Child(s, n, e)] \ {w} : Before(k2, e, m, n)
<1>1. Joined(s, T) /\ T \subseteq Nodes /\ Nil \notin T
  BY Alls DEF Tree, Joined
<1>2. /\ \A n \in T : n \in sub[n] /\ sub[n] \subseteq T
      /\ \A n \in T : \A e \in Sides : n \notin sub[Child(s, n, e)] /\ sub[Child(s, n, e)] \subseteq sub[n]
  BY TreeLinks DEF Tree, Nest
<1>3. o \in T /\ w \in sub[Child(s, o, "right")] /\ w \in T /\ w # o /\ w \in sub[o]
  BY <1>2, ChildSides DEF Succeeds
<1>4. k2 \in Keys /\ k2[o] = key[w] /\ \A n \in Nodes \ {o} : k2[n] = key[n]
  BY <1>1, <1>3 DEF Keys
<1>5. \A i, j, k \in Nodes : \A e \in Sides : Before(key, e, i, j) /\ Before(key, e, j, k) => Before(key, e, i, k)
  BY BeforeFacts
<1>6. ASSUME NEW n \in T \ {w}, NEW e \in Sides, NEW m \in sub[Child(s, n, e)] \ {w}
      PROVE  Before(k2, e, m, n)
  <2>1. Before(key, e, m, n) /\ m \in T /\ m # n
    BY <1>2 DEF Sorted
  <2>2. CASE n = o
    <3>1. k2[m] = key[m] /\ k2[n] = key[w]
      BY <1>1, <1>4, <2>1, <2>2
    <3>2. CASE e = "right"
      <4>1. key[w] <= key[m]
        BY <2>2, <3>2 DEF Succeeds
      <4> QED
        BY <3>1, <3>2, <4>1, ChildSides DEF Before
    <3>3. CASE e = "left"
      <4>1. key[o] <= key[w]
        <5>1. Before(key, "right", w, o)
          BY <1>3, ChildSides DEF Sorted
        <5> QED
          BY <5>1, ChildSides DEF Before
      <4>2. key[m] <= key[o]
        BY <2>1, <2>2, <3>3 DEF Before
      <4>3. key[m] \in Int /\ key[o] \in Int /\ key[w] \in Int
        BY <1>1, <1>3, <2>1 DEF Keys
      <4>4. key[m] <= key[w]
        BY <4>1, <4>2, <4>3
      <4> QED
        BY <3>1, <3>3, <4>4 DEF Before
    <3> QED
      BY <3>2, <3>3, ChildSides
  <2>3. CASE n # o /\ m = o
    <3>1. k2[m] = key[w] /\ k2[n] = key[n]
      BY <1>1, <1>4, <2>1, <2>3
    <3>2. Child(s, n, e) \in T
      <4>1. Child(s, n, e) \in T \cup {Nil}
        BY <1>1 DEF Joined
      <4>2. sub[Nil] = {}
        BY TreeLinks
      <4> QED
        BY <1>6, <4>1, <4>2
    <3>3. w \in sub[Child(s, n, e)]
      BY <1>3, <1>6, <2>3, <3>2, Transitive
    <3>4. Before(key, e, w, n)
      BY <3>3 DEF Sorted
    <3> QED
      BY <3>1, <3>4 DEF Before
  <2>4. CASE n # o /\ m # o
    <3>1. k2[m] = key[m] /\ k2[n] = key[n]
      BY <1>1, <1>4, <2>1, <2>4
    <3> QED
      BY <2>1, <3>1 DEF Before
  <2> QED
    BY <2>2, <2>3, <2>4
<1> QED
  BY <1>4, <1>6

LEMMA TakeBalanced ==
  ASSUME NEW s, NEW T, NEW sub, Tree(s, T, sub), NEW w, NEW p, NEW d, NEW c, Stem(s, T, w, p, d, c),
         NEW s1, Taken(s, s1, p, d, c), Balanced(s, T, Top, "left", {}, {})
  PROVE  /\ s1[c].parent = p /\ Child(s1, p, d) = c
         /\ w \in Red(s) => Balanced(s1, T \ {w}, Top, "left", {}, {})
         /\ w \notin Red(s) => Balanced(s1, T \ {w}, p, d, {c}, {c}) /\ SideOf(s1, c) = d
<1>1. /\ T \subseteq All /\ Top \in All /\ Nil \in All /\ Nil \notin T /\ Top \notin T /\ Top # Nil
      /\ w \in T /\ p \in (T \ {w}) \cup {Top} /\ d \in Sides /\ c \in (T \ {w}) \cup {Nil} /\ c # p
      /\ c # Nil => s[c].parent = w
      /\ \A n \in T \cup {Top} : \A e \in Sides :
           /\ Child(s, n, e) \in T \cup {Nil} /\ (Child(s, n, e) # Nil => s[Child(s, n, e)].parent = n)
           /\ Child(s, n, e) = w <=> n = p /\ e = d
  BY StemLinks
<1>2. /\ s1 \in Heap /\ Red(s1) = Red(s)
      /\ \A n \in All : /\ s1[n].parent = IF n = c THEN p ELSE s[n].parent
                        /\ \A e \in Sides : Child(s1, n, e) = IF n = p /\ e = d THEN c ELSE Child(s, n, e)
  BY DEF Taken
<1>3. PICK U : U = T \ {w}
  OBVIOUS
<1>4. PICK R : R = Red(s)
  OBVIOUS
<1>5. s1[c].parent = p /\ Child(s1, p, d) = c
  BY <1>1, <1>2
<1>6. PICK bh : Even(s, T, bh, Top, "left")
  BY DEF Balanced
<1>7. bh \in [All -> Nat] /\ bh[Nil] = 0
  BY <1>6 DEF Even
<1>8. ASSUME NEW n \in T, NEW e \in Sides
      PROVE  bh[n] = Own(s, n) + bh[Child(s, n, e)] /\ bh[n] \in Nat /\ bh[Child(s, n, e)] \in Nat /\ Own(s, n) \in {0, 1}
  <2>1. bh[n] = Own(s, n) + bh[Child(s, n, e)] + Lack(n, e, Top, "left")
    BY <1>6 DEF Even
  <2>2. Lack(n, e, Top, "left") = 0
    BY <1>1 DEF Lack
  <2>3. bh[n] \in Nat /\ bh[Child(s, n, e)] \in Nat /\ Own(s, n) \in {0, 1}
    BY <1>1, <1>7 DEF Own
  <2> QED
    BY <2>1, <2>2, <2>3
<1>9. PICK f \in Sides : Child(s, w, Other(f)) = c
  BY DEF Stem
<1>10. bh[w] = Own(s, w) + bh[c] /\ bh[c] \in Nat /\ bh[w] \in Nat
  BY <1>1, <1>8, <1>9, TurnSides
<1>11. ASSUME NEW n \in U, NEW e \in Sides
       PROVE  /\ n \in T /\ Own(s1, n) = Own(s, n) /\ Own(s, n) \in {0, 1}
              /\ (n = p /\ e = d) => bh[n] = Own(s1, n) + bh[w] /\ Child(s1, n, e) = c
              /\ ~ (n = p /\ e = d) => bh[n] = Own(s1, n) + bh[Child(s1, n, e)] /\ bh[Child(s1, n, e)] \in Nat
  <2>1. n \in T /\ n \in All
    BY <1>1, <1>3
  <2>2. Own(s1, n) = Own(s, n)
    BY <1>2 DEF Own
  <2>3. bh[n] = Own(s, n) + bh[Child(s, n, e)] /\ bh[Child(s, n, e)] \in Nat /\ Own(s, n) \in {0, 1}
    BY <1>8, <2>1
  <2>4. Child(s, n, e) = w <=> n = p /\ e = d
    BY <1>1, <2>1
  <2>5. Child(s1, n, e) = IF n = p /\ e = d THEN c ELSE Child(s, n, e)
    BY <1>2, <2>1
  <2> QED
    BY <2>1, <2>2, <2>3, <2>4, <2>5
<1>12. /\ Nil \notin R /\ Top \notin R
       /\ \A n \in T \cup {Top} : \A e \in Sides : ~ (Child(s, n, e) \in R /\ (n = Top \/ n \in R))
  BY <1>4 DEF Balanced, Reds
<1>13. ASSUME NEW n \in U \cup {Top}, NEW e \in Sides, Child(s1, n, e) \in R, n = Top \/ n \in R
       PROVE  Child(s1, n, e) = c /\ n = p /\ e = d
  <2>1. n \in T \cup {Top} /\ n \in All
    BY <1>1, <1>3
  <2>2. ~ (Child(s, n, e) \in R)
    BY <1>12, <1>13, <2>1
  <2> QED
    BY <1>2, <1>13, <2>1, <2>2
<1>14. U \subseteq Nodes
  BY <1>3 DEF Tree, Joined
<1>15. ASSUME w \in R
       PROVE  Balanced(s1, U, Top, "left", {}, {})
  <2>1. bh[w] = bh[c]
    <3>1. Own(s, w) = 0
      BY <1>4, <1>15 DEF Own
    <3> QED
      BY <1>10, <3>1
  <2>2. \A n \in U : \A e \in Sides : bh[n] = Own(s1, n) + bh[Child(s1, n, e)]
    BY <1>11, <2>1
  <2>3. Even(s1, U, bh, Top, "left")
    BY <1>7, <1>14, <2>2, EvenIs
  <2>4. c \notin R
    <3>1. Other(f) \in Sides
      BY TurnSides
    <3> QED
      BY <1>1, <1>9, <1>12, <1>15, <3>1
  <2>5. \A n \in U \cup {Top} : \A e \in Sides : ~ (Child(s1, n, e) \in R /\ (n = Top \/ n \in R))
    BY <1>13, <2>4
  <2>6. Reds(s1, U, {}, {})
    BY <1>2, <1>4, <1>12, <2>5 DEF Reds
  <2> QED
    BY <2>3, <2>6 DEF Balanced
<1>16. ASSUME w \notin R
       PROVE  Balanced(s1, U, p, d, {c}, {c}) /\ SideOf(s1, c) = d
  <2>1. bh[w] = 1 + bh[c]
    <3>1. Own(s, w) = 1
      BY <1>4, <1>16 DEF Own
    <3> QED
      BY <1>10, <3>1
  <2>2. ASSUME NEW n \in U, NEW e \in Sides
        PROVE  bh[n] = Own(s1, n) + bh[Child(s1, n, e)] + Lack(n, e, p, d)
    <3>1. CASE n = p /\ e = d
      <4>1. Lack(n, e, p, d) = 1
        BY <3>1 DEF Lack
      <4>2. bh[n] = Own(s1, n) + bh[w] /\ Child(s1, n, e) = c /\ Own(s1, n) \in {0, 1}
        BY <1>11, <3>1
      <4> QED
        BY <1>10, <2>1, <4>1, <4>2
    <3>2. CASE ~ (n = p /\ e = d)
      <4>1. Lack(n, e, p, d) = 0
        BY <3>2 DEF Lack
      <4>2. bh[n] = Own(s1, n) + bh[Child(s1, n, e)] /\ bh[Child(s1, n, e)] \in Nat /\ Own(s1, n) \in {0, 1}
        BY <1>11, <3>2
      <4> QED
        BY <4>1, <4>2
    <3> QED
      BY <3>1, <3>2
  <2>3. Even(s1, U, bh, p, d)
    BY <1>7, <2>2 DEF Even
  <2>4. Reds(s1, U, {c}, {c})
    <3>1. \A n \in U \cup {Top} : \A e \in Sides : Child(s1, n, e) \in R /\ (n = Top \/ n \in R) => Child(s1, n, e) \in {c}
      BY <1>13
    <3> QED
      BY <1>2, <1>4, <1>12, <3>1 DEF Reds
  <2>5. ASSUME d = "right"
        PROVE  s1[p].left # c
    <3>1. p \in T
      <4>1. s[Top].right = Nil
        BY DEF Tree, Joined
      <4> QED
        BY <1>1, <2>5, <4>1, ChildSides
    <3>2. Child(s1, p, "left") = Child(s, p, "left")
      BY <1>1, <1>2, <2>5, ChildSides
    <3>3. CASE c = Nil
      <4>1. bh[p] = Own(s, p) + bh[Child(s, p, "left")] /\ bh[p] = Own(s, p) + bh[Child(s, p, d)] /\ Own(s, p) \in {0, 1}
        BY <1>1, <1>8, <3>1, ChildSides
      <4>2. Child(s, p, d) = w
        BY <1>1
      <4>3. bh[p] = Own(s, p) + bh[w] /\ bh[w] = 1
        BY <1>7, <2>1, <3>3, <4>1, <4>2
      <4>4. ASSUME Child(s, p, "left") = Nil
            PROVE  FALSE
        <5>1. bh[p] = Own(s, p) + 0
          BY <1>7, <4>1, <4>4
        <5> QED
          BY <4>1, <4>3, <5>1
      <4> QED
        BY <3>2, <3>3, <4>4, ChildSides
    <3>4. CASE c # Nil
      <4>1. ASSUME Child(s, p, "left") = c
            PROVE  FALSE
        <5>1. s[c].parent = p
          BY <1>1, <3>4, <4>1, ChildSides
        <5> QED
          BY <1>1, <3>1, <3>4, <5>1
      <4> QED
        BY <3>2, <4>1, ChildSides
    <3> QED
      BY <3>3, <3>4
  <2>6. SideOf(s1, c) = d
    <3>1. CASE d = "left"
      <4>1. s1[p].left = c
        BY <1>5, <3>1, ChildSides
      <4> QED
        BY <1>5, <3>1, <4>1 DEF SideOf
    <3>2. CASE d = "right"
      BY <1>5, <2>5, <3>2 DEF SideOf
    <3> QED
      BY <1>1, <3>1, <3>2, ChildSides
  <2> QED
    BY <2>3, <2>4, <2>6 DEF Balanced
<1> QED
  BY <1>3, <1>4, <1>5, <1>15, <1>16

-----------------------------------------------------------------------------
(* The node taken out takes the place of another.                          *)

Put(n, w, o) == IF n = o THEN w ELSE n

(* w is where o was, and o is blank.                                       *)
Moved(s, s1, T, w, o) ==
  /\ s1 \in Heap
  /\ \A n \in T \cup {Top} : \A e \in Sides : Child(s1, Put(n, w, o), e) = Put(Child(s, n, e), w, o)
  /\ \A n \in T : s1[Put(n, w, o)].parent = Put(s[n].parent, w, o)
  /\ \A n \in All \ {w} : s1[n].red <=> s[n].red /\ n # o
  /\ s1[w].red <=> s[o].red
  /\ \A e \in Sides : Child(s1, o, e) = Nil
  /\ \A n \in All \ (T \cup {Top, w}) : \A e \in Sides : Child(s1, n, e) = Child(s, n, e)

Transplant(s, w, o) ==
  LET moved == [s EXCEPT ![w] = s[o]]
      under == SetParent(SetParent(moved, s[o].right, w), s[o].left, w)
  IN  [Replace(under, s[o].parent, o, w) EXCEPT ![o] = Blank]

LEMMA Transplants ==
  ASSUME NEW s, NEW T, NEW sub, Tree(s, T, sub), NEW o \in T, NEW w \in Nodes \ T, NEW s1, s1 = Transplant(s, w, o)
  PROVE  Moved(s, s1, T, w, o)
<1>1. /\ Joined(s, T) /\ s \in Heap /\ T \subseteq All /\ Top \in All /\ Nil \in All /\ Nil \notin T /\ Top \notin T /\ Top # Nil
      /\ o \in All /\ w \in All /\ w \notin T /\ w # o /\ w # Nil /\ w # Top /\ o # Nil /\ o # Top
  BY Alls DEF Tree, Joined
<1>2. PICK l : l = s[o].left
  OBVIOUS
<1>3. PICK r : r = s[o].right
  OBVIOUS
<1>4. PICK p : p = s[o].parent
  OBVIOUS
<1>5. /\ l \in T \cup {Nil} /\ (l # Nil => s[l].parent = o)
      /\ r \in T \cup {Nil} /\ (r # Nil => s[r].parent = o)
  BY <1>1, <1>2, <1>3, JoinedLinks
<1>6. p \in T \cup {Top} /\ (o = s[p].left \/ o = s[p].right)
  BY <1>1, <1>4, JoinedParent
<1>7. l # o /\ r # o /\ l # w /\ r # w /\ p # w
  BY <1>1, <1>2, <1>3, <1>5, <1>6, Kin
<1>8. p # o /\ p # l /\ p # r
  <2>1. p # o
    BY <1>1, <1>6, Kin
  <2>2. \A m \in T : m \in {s[o].left, s[o].right} => s[m].left # o /\ s[m].right # o
    BY Kin
  <2> QED
    BY <1>1, <1>2, <1>3, <1>5, <1>6, <2>1, <2>2
<1>9. PICK m0 : m0 = [s EXCEPT ![w] = s[o]]
  OBVIOUS
<1>10. m0 \in Heap /\ m0[w] = s[o] /\ \A n \in All \ {w} : m0[n] = s[n]
  BY <1>1, <1>9 DEF Heap
<1>11. PICK m1 : m1 = SetParent(m0, r, w)
  OBVIOUS
<1>12. PICK m2 : m2 = SetParent(m1, l, w)
  OBVIOUS
<1>13. PICK m3 : m3 = Replace(m2, p, o, w)
  OBVIOUS
<1>14. s1 = [m3 EXCEPT ![o] = Blank]
  BY <1>2, <1>3, <1>4, <1>9, <1>11, <1>12, <1>13 DEF Transplant
<1>15. l \in All /\ r \in All /\ p \in All
  BY <1>1, <1>5, <1>6
<1>16. Writes(m0, m1, r, m0[r].left, m0[r].right, w)
  BY <1>1, <1>10, <1>11, <1>15, WritesParent
<1>17. m1 \in Heap
  BY <1>16 DEF Writes
<1>18. Writes(m1, m2, l, m1[l].left, m1[l].right, w)
  BY <1>1, <1>12, <1>15, <1>17, WritesParent
<1>19. m2 \in Heap
  BY <1>18 DEF Writes
<1>20. Writes(m2, m3, p, IF o = m2[p].left THEN w ELSE m2[p].left,
                         IF o = m2[p].left THEN m2[p].right ELSE w, m2[p].parent)
  BY <1>1, <1>13, <1>15, <1>19, Replaces
<1>21. /\ \A n \in All : m2[n].left = m0[n].left /\ m2[n].right = m0[n].right /\ m2[n].red = m0[n].red
       /\ \A n \in All : m2[n].parent = IF n = l \/ n = r THEN w ELSE m0[n].parent
  BY <1>15, <1>16, <1>18 DEF Writes
<1>22. PICK a : a = IF o = s[p].left THEN w ELSE s[p].left
  OBVIOUS
<1>23. PICK b : b = IF o = s[p].left THEN s[p].right ELSE w
  OBVIOUS
<1>24. m2[p].left = s[p].left /\ m2[p].right = s[p].right
  BY <1>7, <1>10, <1>15, <1>21
<1>25. Writes(m2, m3, p, a, b, m2[p].parent)
  BY <1>20, <1>22, <1>23, <1>24
<1>26. /\ m3 \in Heap /\ m3[p].left = a /\ m3[p].right = b
       /\ \A n \in All : /\ m3[n].red = m0[n].red
                         /\ m3[n].parent = IF n = l \/ n = r THEN w ELSE m0[n].parent
                         /\ n # p => m3[n].left = m0[n].left /\ m3[n].right = m0[n].right
  BY <1>15, <1>21, <1>25 DEF Writes
<1>27. Blank \in Rec /\ Blank.left = Nil /\ Blank.right = Nil /\ Blank.red = FALSE
  BY <1>1 DEF Blank, Rec
<1>28. s1 \in Heap /\ s1[o] = Blank /\ \A n \in All \ {o} : s1[n] = m3[n]
  BY <1>1, <1>14, <1>26, <1>27 DEF Heap
<1>29. /\ s1[p].left = a /\ s1[p].right = b
       /\ s1[w].left = l /\ s1[w].right = r /\ s1[w].parent = p /\ s1[w].red = s[o].red
       /\ s1[o].left = Nil /\ s1[o].right = Nil /\ s1[o].red = FALSE
       /\ \A n \in All \ {w, o} : /\ s1[n].red = s[n].red
                                  /\ s1[n].parent = IF n = l \/ n = r THEN w ELSE s[n].parent
                                  /\ n # p => s1[n].left = s[n].left /\ s1[n].right = s[n].right
  <2>1. s1[p].left = a /\ s1[p].right = b
    BY <1>8, <1>15, <1>26, <1>28
  <2>2. s1[w].left = l /\ s1[w].right = r /\ s1[w].parent = p /\ s1[w].red = s[o].red
    <3>1. s1[w] = m3[w] /\ m0[w].left = l /\ m0[w].right = r /\ m0[w].parent = p
      BY <1>1, <1>2, <1>3, <1>4, <1>10, <1>28
    <3>2. m3[w].left = l /\ m3[w].right = r /\ m3[w].parent = p
      BY <1>1, <1>7, <1>26, <3>1
    <3>3. m3[w].red = m0[w].red /\ m0[w].red = s[o].red
      BY <1>1, <1>10, <1>26
    <3> QED
      BY <3>1, <3>2, <3>3
  <2>3. s1[o].left = Nil /\ s1[o].right = Nil /\ s1[o].red = FALSE
    BY <1>27, <1>28
  <2>4. ASSUME NEW n \in All \ {w, o}
        PROVE  /\ s1[n].red = s[n].red
               /\ s1[n].parent = IF n = l \/ n = r THEN w ELSE s[n].parent
               /\ n # p => s1[n].left = s[n].left /\ s1[n].right = s[n].right
    BY <1>10, <1>26, <1>28
  <2> QED
    BY <2>1, <2>2, <2>3, <2>4
<1>30. ASSUME NEW n \in T \cup {Top}, NEW e \in Sides
       PROVE  Child(s1, Put(n, w, o), e) = Put(Child(s, n, e), w, o)
  <2>1. e = "left" \/ e = "right"
    BY ChildSides
  <2>2. s[n].left # o \/ n = p
    BY <1>1, <1>4, JoinedLinks
  <2>3. s[n].right # o \/ n = p
    BY <1>1, <1>4, JoinedLinks
  <2>4. CASE n = o
    <3>1. Child(s1, w, e) = Child(s, o, e) /\ Child(s, o, e) # o
      BY <1>2, <1>3, <1>7, <1>29, <2>1, ChildSides
    <3> QED
      BY <2>4, <3>1 DEF Put
  <2>5. CASE n = p
    <3>1. s[p].left = s[p].right => s[p].left = Nil
      BY <1>1, <1>6, Kin, TopKin
    <3>2. a = Put(s[p].left, w, o) /\ b = Put(s[p].right, w, o)
      BY <1>1, <1>6, <1>22, <1>23, <3>1 DEF Put
    <3>3. Put(n, w, o) = p
      BY <1>8, <2>5 DEF Put
    <3> QED
      BY <1>29, <2>1, <2>5, <3>2, <3>3, ChildSides
  <2>6. CASE n # o /\ n # p
    <3>1. n \in All \ {w, o} /\ Put(n, w, o) = n
      BY <1>1, <1>7, <2>6 DEF Put
    <3>2. s1[n].left = s[n].left /\ s1[n].right = s[n].right
      BY <1>29, <2>6, <3>1
    <3>3. Put(s[n].left, w, o) = s[n].left /\ Put(s[n].right, w, o) = s[n].right
      BY <2>2, <2>3, <2>6 DEF Put
    <3> QED
      BY <2>1, <3>1, <3>2, <3>3, ChildSides
  <2> QED
    BY <2>4, <2>5, <2>6
<1>31. ASSUME NEW n \in T
       PROVE  s1[Put(n, w, o)].parent = Put(s[n].parent, w, o)
  <2>1. CASE n = o
    BY <1>4, <1>8, <1>29, <2>1 DEF Put
  <2>2. CASE n # o
    <3>1. n \in All \ {w, o} /\ Put(n, w, o) = n
      BY <1>1, <2>2 DEF Put
    <3>2. n = l \/ n = r <=> s[n].parent = o
      <4>1. s[n].parent = o => n = s[o].left \/ n = s[o].right
        BY <1>1, JoinedParent
      <4> QED
        BY <1>1, <1>2, <1>3, <1>5, <4>1
    <3>3. s1[n].parent = IF n = l \/ n = r THEN w ELSE s[n].parent
      BY <1>29, <3>1
    <3> QED
      BY <3>1, <3>2, <3>3 DEF Put
  <2> QED
    BY <2>1, <2>2
<1>32. ASSUME NEW n \in All \ {w}
       PROVE  s1[n].red <=> s[n].red /\ n # o
  BY <1>29
<1>33. ASSUME NEW n \in All \ (T \cup {Top, w}), NEW e \in Sides
       PROVE  Child(s1, n, e) = Child(s, n, e)
  <2>1. n \in All \ {w, o} /\ n # p
    BY <1>6, <1>33
  <2> QED
    BY <1>29, <2>1, ChildSides
<1>34. \A e \in Sides : Child(s1, o, e) = Nil
  BY <1>29, ChildSides
<1>35. s1[w].red <=> s[o].red
  BY <1>29
<1> QED
  BY <1>28, <1>30, <1>31, <1>32, <1>33, <1>34, <1>35 DEF Moved

(* What is below a node, with w for o.                                      *)
PutIn(S, w, o) == IF o \in S THEN (S \ {o}) \cup {w} ELSE S

LEMMA PutFacts ==
  ASSUME NEW T, NEW w, NEW o, w \notin T, w # Nil, w # Top, o \in T, Nil \notin T, Top \notin T
  PROVE  /\ Put(Nil, w, o) = Nil /\ Put(Top, w, o) = Top /\ Put(o, w, o) = w
         /\ \A n \in T : Put(n, w, o) \in (T \ {o}) \cup {w}
         /\ \A u \in (T \ {o}) \cup {w} : \E n \in T : u = Put(n, w, o)
         /\ \A m, n \in T \cup {Nil, Top} : Put(m, w, o) = Put(n, w, o) => m = n
         /\ \A S \in SUBSET T : /\ PutIn(S, w, o) \subseteq (T \ {o}) \cup {w}
                                /\ \A n \in T : Put(n, w, o) \in PutIn(S, w, o) <=> n \in S
                                /\ \A u \in PutIn(S, w, o) : \E n \in S : u = Put(n, w, o)
BY DEF Put, PutIn

LEMMA MovedJoined ==
  ASSUME NEW s, NEW T, Joined(s, T), NEW o \in T, NEW w \in Nodes \ T, NEW s1, Moved(s, s1, T, w, o)
  PROVE  Joined(s1, (T \ {o}) \cup {w})
<1>1. /\ T \subseteq Nodes /\ Top \in All /\ Nil \in All /\ Nil \notin T /\ Top \notin T /\ Top # Nil
      /\ w \notin T /\ w # Nil /\ w # Top /\ w \in Nodes
  BY Alls DEF Joined
<1>2. PICK U : U = (T \ {o}) \cup {w}
  OBVIOUS
<1>3. /\ Put(Nil, w, o) = Nil /\ Put(Top, w, o) = Top
      /\ \A n \in T : Put(n, w, o) \in U
      /\ \A u \in U : \E n \in T : u = Put(n, w, o)
      /\ \A m, n \in T \cup {Nil, Top} : Put(m, w, o) = Put(n, w, o) => m = n
  BY <1>1, <1>2, PutFacts
<1>4. /\ \A n \in T \cup {Top} : \A e \in Sides : Child(s1, Put(n, w, o), e) = Put(Child(s, n, e), w, o)
      /\ \A n \in T : s1[Put(n, w, o)].parent = Put(s[n].parent, w, o)
  BY DEF Moved
<1>5. ASSUME NEW u \in U \cup {Top}, NEW e \in Sides
      PROVE  Child(s1, u, e) \in U \cup {Nil} /\ (Child(s1, u, e) # Nil => s1[Child(s1, u, e)].parent = u)
  <2>1. PICK n \in T \cup {Top} : u = Put(n, w, o)
    BY <1>3
  <2>2. PICK c : c = Child(s, n, e)
    OBVIOUS
  <2>3. c \in T \cup {Nil} /\ (c # Nil => s[c].parent = n)
    BY <2>2 DEF Joined
  <2>4. Child(s1, u, e) = Put(c, w, o)
    BY <1>4, <2>1, <2>2
  <2>5. CASE c = Nil
    BY <1>3, <2>4, <2>5
  <2>6. CASE c \in T
    BY <1>1, <1>3, <1>4, <2>1, <2>3, <2>4, <2>6
  <2> QED
    BY <2>3, <2>5, <2>6
<1>6. ASSUME NEW u \in U
      PROVE  s1[u].parent \in U \cup {Top} /\ \E e \in Sides : u = Child(s1, s1[u].parent, e)
  <2>1. PICK n \in T : u = Put(n, w, o)
    BY <1>3
  <2>2. PICK q0 : q0 = s[n].parent
    OBVIOUS
  <2>3. q0 \in T \cup {Top} /\ \E e \in Sides : n = Child(s, q0, e)
    BY <2>2 DEF Joined
  <2>4. PICK e \in Sides : n = Child(s, q0, e)
    BY <2>3
  <2>5. s1[u].parent = Put(q0, w, o)
    BY <1>4, <2>1, <2>2
  <2>6. Child(s1, Put(q0, w, o), e) = u
    BY <1>4, <2>1, <2>3, <2>4
  <2>7. Put(q0, w, o) \in U \cup {Top}
    BY <1>3, <2>3
  <2> QED
    BY <2>5, <2>6, <2>7
<1>7. s1[Top].right = Nil
  <2>1. Child(s, Top, "right") = Nil
    BY ChildSides DEF Joined
  <2>2. Child(s1, Put(Top, w, o), "right") = Put(Nil, w, o)
    BY <1>4, <2>1, ChildSides
  <2> QED
    BY <1>3, <2>2, ChildSides
<1>8. s1[Nil].left = Nil /\ s1[Nil].right = Nil
  <2>1. \A e \in Sides : Child(s1, Nil, e) = Child(s, Nil, e)
    BY <1>1 DEF Moved
  <2> QED
    BY <2>1, ChildSides DEF Joined
<1>9. s1 \in Heap /\ U \subseteq Nodes
  BY <1>1, <1>2 DEF Moved
<1>10. Joined(s1, U)
  BY <1>5, <1>6, <1>7, <1>8, <1>9 DEF Joined
<1> QED
  BY <1>2, <1>10

(* What is under a node's side goes with it.                               *)
PutUnder(s, s1, T, sub, v, w, o) ==
  \A n \in T : \A e \in Sides : v[Child(s1, Put(n, w, o), e)] = PutIn(sub[Child(s, n, e)], w, o)

LEMMA MovedTree ==
  ASSUME NEW s, NEW T, NEW sub, Tree(s, T, sub), NEW o \in T, NEW w \in Nodes \ T, NEW s1, Moved(s, s1, T, w, o),
         NEW v, v = [n \in All |-> PutIn(IF n = w THEN sub[o] ELSE sub[n], w, o)],
         NEW U, U = (T \ {o}) \cup {w}
  PROVE  Tree(s1, U, v) /\ PutUnder(s, s1, T, sub, v, w, o)
<1>1. /\ T \subseteq Nodes /\ T \subseteq All /\ Top \in All /\ Nil \in All /\ Nil \notin T /\ Top \notin T /\ Top # Nil
      /\ w \notin T /\ w # Nil /\ w # Top /\ w \in Nodes /\ w \in All
  BY Alls DEF Tree, Joined
<1>2. U = (T \ {o}) \cup {w}
  OBVIOUS
<1>3. /\ Put(Nil, w, o) = Nil /\ Put(Top, w, o) = Top
      /\ \A u \in U : \E n \in T : u = Put(n, w, o)
      /\ \A S \in SUBSET T : /\ PutIn(S, w, o) \subseteq U
                             /\ \A n \in T : Put(n, w, o) \in PutIn(S, w, o) <=> n \in S
                             /\ \A u \in PutIn(S, w, o) : \E n \in S : u = Put(n, w, o)
  BY <1>1, <1>2 DEF Put, PutIn
<1>4. \A n \in T \cup {Top} : \A e \in Sides : Child(s1, Put(n, w, o), e) = Put(Child(s, n, e), w, o)
  BY DEF Moved
<1>5. \A n \in T \cup {Top} : \A e \in Sides : Child(s, n, e) \in T \cup {Nil}
  BY DEF Tree, Joined
<1>6. /\ IsFiniteSet(T) /\ sub[Nil] = {} /\ sub[s[Top].left] = T
      /\ \A n \in T : sub[n] \subseteq T
  BY TreeLinks
<1>7. \A c \in T \cup {Nil} : v[Put(c, w, o)] = PutIn(sub[c], w, o) /\ sub[c] \in SUBSET T
  <2>1. ASSUME NEW c \in T \cup {Nil}
        PROVE  v[Put(c, w, o)] = PutIn(sub[c], w, o)
    <3>1. CASE c = o
      BY <1>1, <3>1 DEF Put
    <3>2. CASE c # o
      BY <1>1, <3>2 DEF Put
    <3> QED
      BY <3>1, <3>2
  <2> QED
    BY <1>6, <2>1
<1>8. \A n \in T \cup {Top} : \A e \in Sides : v[Child(s1, Put(n, w, o), e)] = PutIn(sub[Child(s, n, e)], w, o)
  BY <1>4, <1>5, <1>7
<1>9. ASSUME NEW u \in U, NEW e \in Sides
      PROVE  /\ u \notin v[Child(s1, u, e)]
             /\ v[u] = {u} \cup v[Child(s1, u, e)] \cup v[Child(s1, u, Other(e))]
             /\ v[Child(s1, u, e)] \cap v[Child(s1, u, Other(e))] = {}
  <2>1. PICK n \in T : u = Put(n, w, o)
    BY <1>3
  <2>2. PICK A : A = sub[Child(s, n, e)]
    OBVIOUS
  <2>3. PICK B : B = sub[Child(s, n, Other(e))]
    OBVIOUS
  <2>4. n \notin A /\ sub[n] = {n} \cup A \cup B /\ A \cap B = {} /\ A \in SUBSET T /\ B \in SUBSET T
    <3>1. n \notin A /\ sub[n] = {n} \cup A \cup B /\ A \cap B = {}
      BY <2>2, <2>3 DEF Tree, Nest
    <3>2. sub[n] \subseteq T
      BY <1>6
    <3> QED
      BY <3>1, <3>2
  <2>5. v[Child(s1, u, e)] = PutIn(A, w, o) /\ v[Child(s1, u, Other(e))] = PutIn(B, w, o)
    BY <1>8, <2>1, <2>2, <2>3, TurnSides
  <2>6. v[u] = PutIn({n} \cup A \cup B, w, o)
    BY <1>7, <2>1, <2>4
  <2>7. u \notin PutIn(A, w, o)
    BY <1>3, <2>1, <2>4
  <2>8. PutIn({n} \cup A \cup B, w, o) = {u} \cup PutIn(A, w, o) \cup PutIn(B, w, o)
    BY <1>1, <2>1, <2>4 DEF Put, PutIn
  <2>9. PutIn(A, w, o) \cap PutIn(B, w, o) = {}
    BY <1>1, <2>4 DEF PutIn
  <2> QED
    BY <2>5, <2>6, <2>7, <2>8, <2>9
<1>10. v[Nil] = {}
  <2>1. v[Put(Nil, w, o)] = PutIn({}, w, o)
    BY <1>6, <1>7
  <2> QED
    BY <1>3, <2>1 DEF PutIn
<1>11. v[s1[Top].left] = U
  <2>1. v[Child(s1, Put(Top, w, o), "left")] = PutIn(sub[Child(s, Top, "left")], w, o)
    BY <1>8, ChildSides
  <2>2. v[s1[Top].left] = PutIn(T, w, o)
    BY <1>3, <1>6, <2>1, ChildSides
  <2> QED
    BY <1>2, <2>2 DEF PutIn
<1>12. IsFiniteSet(U)
  <2>1. IsFiniteSet(T \ {o})
    BY <1>6, FS_Subset
  <2> QED
    BY <1>2, <2>1, FS_AddElement
<1>13. \A u \in U : v[u] \subseteq U
  <2>1. ASSUME NEW u \in U
        PROVE  v[u] \subseteq U
    <3>1. PICK n \in T : u = Put(n, w, o)
      BY <1>3
    <3>2. v[u] = PutIn(sub[n], w, o) /\ sub[n] \in SUBSET T
      BY <1>7, <3>1
    <3> QED
      BY <1>3, <3>2
  <2> QED
    BY <2>1
<1>14. Joined(s1, U)
  BY <1>2, MovedJoined DEF Tree
<1>15. Tree(s1, U, v)
  BY <1>9, <1>10, <1>11, <1>12, <1>13, <1>14 DEF Tree, Nest
<1>16. PutUnder(s, s1, T, sub, v, w, o)
  BY <1>8 DEF PutUnder
<1> QED
  BY <1>15, <1>16

LEMMA MovedGrown ==
  ASSUME NEW s, NEW T, NEW sub, Tree(s, T, sub), NEW o \in T, NEW w \in Nodes \ T, NEW s1, Moved(s, s1, T, w, o),
         Loose(s, T, w),
         NEW K, K.keys \subseteq Keys,
         \A key \in K.keys : \E k2 : Sorted(s, T, sub, k2) /\ \A n \in T : key[Put(n, w, o)] = k2[n]
  PROVE  Grown(s1, (T \ {o}) \cup {w}, K)
<1>1. /\ T \subseteq Nodes /\ T \subseteq All /\ Nil \notin T /\ Top \notin T
      /\ w \notin T /\ w # Nil /\ w # Top
  BY Alls DEF Tree, Joined
<1>2. PICK U : U = (T \ {o}) \cup {w}
  OBVIOUS
<1>3. PICK v : v = [n \in All |-> PutIn(IF n = w THEN sub[o] ELSE sub[n], w, o)]
  OBVIOUS
<1>4. Tree(s1, U, v) /\ PutUnder(s, s1, T, sub, v, w, o)
  BY <1>2, <1>3, MovedTree
<1>5. /\ \A u \in U : \E n \in T : u = Put(n, w, o)
      /\ \A S \in SUBSET T : \A u \in PutIn(S, w, o) : \E n \in S : u = Put(n, w, o)
  BY <1>1, <1>2, PutFacts
<1>6. \A n \in T : \A e \in Sides : sub[Child(s, n, e)] \in SUBSET T
  <2>1. \A n \in T : \A e \in Sides : sub[Child(s, n, e)] \subseteq sub[n]
    BY DEF Tree, Nest
  <2> QED
    BY <2>1, TreeLinks
<1>7. ASSUME NEW key \in K.keys
      PROVE  Sorted(s1, U, v, key)
  <2>1. PICK k2 : Sorted(s, T, sub, k2) /\ \A n \in T : key[Put(n, w, o)] = k2[n]
    BY <1>7
  <2>2. ASSUME NEW u \in U, NEW e \in Sides, NEW x0 \in v[Child(s1, u, e)]
        PROVE  Before(key, e, x0, u)
    <3>1. PICK n \in T : u = Put(n, w, o)
      BY <1>5
    <3>2. v[Child(s1, u, e)] = PutIn(sub[Child(s, n, e)], w, o)
      BY <1>4, <3>1 DEF PutUnder
    <3>3. PICK m \in sub[Child(s, n, e)] : x0 = Put(m, w, o)
      BY <1>5, <1>6, <2>2, <3>2
    <3>4. Before(k2, e, m, n)
      BY <2>1 DEF Sorted
    <3>5. key[x0] = k2[m] /\ key[u] = k2[n]
      BY <1>6, <2>1, <3>1, <3>3
    <3> QED
      BY <3>4, <3>5 DEF Before
  <2> QED
    BY <2>2 DEF Sorted
<1>8. ASSUME NEW n \in Nodes \ U, NEW e \in Sides
      PROVE  Child(s1, n, e) = Nil
  <2>1. CASE n = o
    BY <2>1 DEF Moved
  <2>2. CASE n # o
    <3>1. n \in Nodes \ T /\ n # w /\ n \in All \ (T \cup {Top, w})
      BY <1>2, <1>8, <2>2, Alls
    <3>2. Child(s, n, e) = Nil
      BY <3>1 DEF Loose
    <3> QED
      BY <3>1, <3>2 DEF Moved
  <2> QED
    BY <2>1, <2>2
<1>9. Loose(s1, U, K.out)
  BY <1>8 DEF Loose
<1>10. Grown(s1, U, K)
  BY <1>4, <1>7, <1>9 DEF Grown
<1> QED
  BY <1>2, <1>10

LEMMA MovedBalanced ==
  ASSUME NEW s, NEW T, Joined(s, T), NEW o \in T, NEW w \in Nodes \ T, NEW s1, Moved(s, s1, T, w, o),
         Balanced(s, T, Top, "left", {}, {})
  PROVE  Balanced(s1, (T \ {o}) \cup {w}, Top, "left", {}, {})
<1>1. /\ T \subseteq Nodes /\ T \subseteq All /\ Top \in All /\ Nil \in All /\ Nil \notin T /\ Top \notin T /\ Top # Nil
      /\ w \notin T /\ w # Nil /\ w # Top /\ w \in Nodes /\ w \in All /\ o \in All /\ o # Nil /\ o # Top
  BY Alls DEF Joined
<1>2. PICK U : U = (T \ {o}) \cup {w}
  OBVIOUS
<1>3. /\ Put(Nil, w, o) = Nil /\ Put(Top, w, o) = Top
      /\ \A u \in U : \E n \in T : u = Put(n, w, o)
  BY <1>1, <1>2, PutFacts
<1>4. /\ \A n \in T \cup {Top} : \A e \in Sides : Child(s1, Put(n, w, o), e) = Put(Child(s, n, e), w, o)
      /\ \A n \in All \ {w} : s1[n].red <=> s[n].red /\ n # o
      /\ s1[w].red <=> s[o].red
  BY DEF Moved
<1>5. \A n \in T \cup {Top} : \A e \in Sides : Child(s, n, e) \in T \cup {Nil}
  BY DEF Joined
<1>6. \A n \in T \cup {Nil, Top} : Put(n, w, o) \in Red(s1) <=> n \in Red(s)
  <2>1. ASSUME NEW n \in T \cup {Nil, Top}
        PROVE  Put(n, w, o) \in Red(s1) <=> n \in Red(s)
    <3>1. CASE n = o
      BY <1>1, <1>4, <3>1 DEF Put, Red
    <3>2. CASE n # o
      <4>1. n \in All \ {w} /\ Put(n, w, o) = n
        BY <1>1, <3>2 DEF Put
      <4> QED
        BY <1>4, <3>2, <4>1 DEF Red
    <3> QED
      BY <3>1, <3>2
  <2> QED
    BY <2>1
<1>7. PICK bh : Even(s, T, bh, Top, "left")
  BY DEF Balanced
<1>8. bh \in [All -> Nat] /\ bh[Nil] = 0
  BY <1>7 DEF Even
<1>9. \A n \in T : \A e \in Sides : bh[n] = Own(s, n) + bh[Child(s, n, e)]
  <2>1. ASSUME NEW n \in T, NEW e \in Sides
        PROVE  bh[n] = Own(s, n) + bh[Child(s, n, e)]
    <3>1. bh[n] = Own(s, n) + bh[Child(s, n, e)] + Lack(n, e, Top, "left")
      BY <1>7 DEF Even
    <3>2. Lack(n, e, Top, "left") = 0
      BY <1>1 DEF Lack
    <3>3. bh[Child(s, n, e)] \in Nat /\ Own(s, n) \in {0, 1}
      BY <1>1, <1>5, <1>8 DEF Own
    <3> QED
      BY <3>1, <3>2, <3>3
  <2> QED
    BY <2>1
<1>10. PICK h : h = [n \in All |-> IF n = w THEN bh[o] ELSE bh[n]]
  OBVIOUS
<1>11. h \in [All -> Nat] /\ \A n \in All : h[n] = IF n = w THEN bh[o] ELSE bh[n]
  BY <1>1, <1>8, <1>10
<1>12. \A n \in T \cup {Nil} : h[Put(n, w, o)] = bh[n]
  BY <1>1, <1>11 DEF Put
<1>13. \A u \in U : \A e \in Sides : h[u] = Own(s1, u) + h[Child(s1, u, e)]
  <2>1. ASSUME NEW u \in U, NEW e \in Sides
        PROVE  h[u] = Own(s1, u) + h[Child(s1, u, e)]
    <3>1. PICK n \in T : u = Put(n, w, o)
      BY <1>3
    <3>2. h[u] = bh[n] /\ h[Child(s1, u, e)] = bh[Child(s, n, e)]
      BY <1>4, <1>5, <1>12, <3>1
    <3>3. Own(s1, u) = Own(s, n)
      BY <1>6, <3>1 DEF Own
    <3>4. bh[n] = Own(s, n) + bh[Child(s, n, e)]
      BY <1>9
    <3> QED
      BY <3>2, <3>3, <3>4
  <2> QED
    BY <2>1
<1>14. Even(s1, U, h, Top, "left")
  <2>1. h[Nil] = 0 /\ U \subseteq Nodes
    BY <1>1, <1>2, <1>8, <1>11
  <2> QED
    BY <1>11, <1>13, <2>1, EvenIs
<1>15. /\ Nil \notin Red(s) /\ Top \notin Red(s)
       /\ \A n \in T \cup {Top} : \A e \in Sides : ~ (Child(s, n, e) \in Red(s) /\ (n = Top \/ n \in Red(s)))
  BY DEF Balanced, Reds
<1>16. ASSUME NEW u \in U \cup {Top}, NEW e \in Sides, Child(s1, u, e) \in Red(s1), u = Top \/ u \in Red(s1)
       PROVE  FALSE
  <2>1. PICK n \in T \cup {Top} : u = Put(n, w, o)
    BY <1>3
  <2>2. Child(s, n, e) \in Red(s)
    BY <1>4, <1>5, <1>6, <1>16, <2>1
  <2>3. n = Top \/ n \in Red(s)
    <3>1. CASE u = Top
      <4>1. n = Top
        BY <1>1, <2>1, <3>1 DEF Put
      <4> QED
        BY <4>1
    <3>2. CASE u \in Red(s1)
      BY <1>6, <2>1, <3>2
    <3> QED
      BY <1>16, <3>1, <3>2
  <2> QED
    BY <1>15, <2>2, <2>3
<1>17. Nil \notin Red(s1) /\ Top \notin Red(s1)
  BY <1>3, <1>6, <1>15
<1>18. Reds(s1, U, {}, {})
  BY <1>16, <1>17 DEF Reds
<1> QED
  BY <1>2, <1>14, <1>18 DEF Balanced

-----------------------------------------------------------------------------
(* A node off the tree is blanked.                                         *)
Wiped(s, n) == [s EXCEPT ![n] = Blank]
Blanked(s, s1, T, sub, n) ==
  /\ Tree(s1, T, sub) /\ \A key : Sorted(s, T, sub, key) => Sorted(s1, T, sub, key)
  /\ Loose(s1, T, Nil) /\ Red(s1) = Red(s) \ {n}
  /\ \A m \in T \cup {Top} : \A d : Child(s1, m, d) = Child(s, m, d)
  /\ \A d : Child(s1, n, d) = Nil

LEMMA Blanks ==
  ASSUME NEW s, NEW T, NEW sub, Tree(s, T, sub), NEW n \in Nodes \ T, NEW o, o = n \/ o = Nil, Loose(s, T, o),
         NEW s1, s1 = Wiped(s, n)
  PROVE  Blanked(s, s1, T, sub, n)
<1>1. /\ Joined(s, T) /\ s \in Heap /\ T \subseteq All /\ Top \in All /\ Nil \in All /\ n \in All /\ n # Nil /\ n # Top
      /\ Nodes \subseteq All
  BY Alls DEF Tree, Joined
<1>2. Blank \in Rec /\ Blank.left = Nil /\ Blank.right = Nil /\ Blank.red = FALSE
  BY <1>1 DEF Blank, Rec
<1>3. s1 \in Heap /\ s1[n] = Blank /\ \A m \in All \ {n} : s1[m] = s[m]
  BY <1>1, <1>2 DEF Heap, Wiped
<1>4. T \cup {Top} \subseteq All \ {n}
  BY <1>1
<1>5. SameLinks(s, s1, T \cup {Top}) /\ s1[Nil].left = Nil /\ s1[Nil].right = Nil
  BY <1>1, <1>3, <1>4 DEF SameLinks, Joined
<1>6. Tree(s1, T, sub) /\ \A key : Sorted(s, T, sub, key) => Sorted(s1, T, sub, key)
  BY <1>3, <1>5, SameTree
<1>7. \A m \in T \cup {Top} : \A d : Child(s1, m, d) = Child(s, m, d)
  BY <1>5, SameChild
<1>8. \A d : Child(s1, n, d) = Nil
  BY <1>2, <1>3 DEF Child
<1>9. Red(s1) = Red(s) \ {n}
  BY <1>2, <1>3 DEF Red
<1>10. ASSUME NEW m \in Nodes \ T, NEW d \in Sides
       PROVE  Child(s1, m, d) = Nil
  <2>1. CASE m = n
    BY <1>8, <2>1
  <2>2. CASE m # n
    <3>1. Child(s, m, d) = Nil
      BY <1>1, <1>10, <2>2, Alls DEF Loose
    <3> QED
      BY <1>1, <1>3, <2>2, <3>1 DEF Child
  <2> QED
    BY <2>1, <2>2
<1>11. Loose(s1, T, Nil)
  BY <1>10 DEF Loose
<1> QED
  BY <1>6, <1>7, <1>8, <1>9, <1>11 DEF Blanked

LEMMA KeepBalanced ==
  ASSUME NEW s, NEW T, Joined(s, T), NEW lp, NEW ld, NEW E, NEW F, Balanced(s, T, lp, ld, E, F),
         NEW s1, \A n \in T \cup {Top} : \A d \in Sides : Child(s1, n, d) = Child(s, n, d),
         \A n \in T \cup {Top, Nil} : n \in Red(s1) <=> n \in Red(s)
  PROVE  Balanced(s1, T, lp, ld, E, F)
<1>1. PICK bh : Even(s, T, bh, lp, ld)
  BY DEF Balanced
<1>2. \A n \in T : Own(s1, n) = Own(s, n)
  BY DEF Own
<1>3. Even(s1, T, bh, lp, ld)
  BY <1>1, <1>2 DEF Even
<1>4. \A n \in T \cup {Top} : \A d \in Sides : Child(s, n, d) \in T \cup {Nil}
  BY DEF Joined
<1>5. Reds(s1, T, E, F)
  BY <1>4 DEF Balanced, Reds
<1> QED
  BY <1>3, <1>5 DEF Balanced

LEMMA BlankBalanced ==
  ASSUME NEW s, NEW T, NEW sub, Tree(s, T, sub), NEW n \in Nodes \ T, NEW o, o = n \/ o = Nil, Loose(s, T, o),
         NEW s1, s1 = Wiped(s, n), NEW lp, NEW ld, NEW E, NEW F, Balanced(s, T, lp, ld, E, F)
  PROVE  Balanced(s1, T, lp, ld, E, F)
<1>1. Joined(s, T) /\ n \notin T \cup {Top, Nil}
  BY Alls DEF Tree
<1>2. Red(s1) = Red(s) \ {n} /\ \A m \in T \cup {Top} : \A d : Child(s1, m, d) = Child(s, m, d)
  <2>1. Blanked(s, s1, T, sub, n)
    BY Blanks
  <2> QED
    BY <2>1 DEF Blanked
<1> QED
  BY <1>1, <1>2, KeepBalanced

(* With nothing missing in the tree, the side does not matter.             *)
LEMMA LackNone ==
  ASSUME NEW s, NEW T, Top \notin T, NEW bh, NEW d, NEW e, Even(s, T, bh, Top, d)
  PROVE  Even(s, T, bh, Top, e)
<1>1. \A n \in T : \A f : Lack(n, f, Top, d) = Lack(n, f, Top, e)
  BY DEF Lack
<1> QED
  BY <1>1 DEF Even

(* The red node e gives the black node that is missing above it.           *)
LEMMA BlackenLack ==
  ASSUME NEW s, NEW T, NEW K, Grown(s, T, K), NEW e \in T, e \in Red(s),
         NEW p, p = s[e].parent, NEW l, l = SideOf(s, e), Balanced(s, T, p, l, {e}, {e}),
         NEW s1, s1 = Blacken(s, e)
  PROVE  Grown(s1, T, K) /\ Balanced(s1, T, Top, "left", {}, {})
<1>1. T \subseteq All /\ Nil \notin T /\ Top \notin T /\ Nil \in All /\ Top \in All /\ e \in All /\ T \subseteq Nodes
  BY GrownFacts
<1>2. Grown(s1, T, K) /\ Red(s1) = Red(s) \ {e} /\ SameLinks(s, s1, All)
  BY <1>1, PaintsBlack
<1>3. \A n \in All : \A d : Child(s1, n, d) = Child(s, n, d)
  BY <1>2, SameChild
<1>4. p \in T \cup {Top} /\ l \in Sides /\ Child(s, p, l) = e
  BY GrownParent
<1>5. PICK R : R = Red(s)
  OBVIOUS
<1>6. Red(s1) = R \ {e}
  BY <1>2, <1>5
<1>7. PICK bh : Even(s, T, bh, p, l)
  BY DEF Balanced
<1>8. bh \in [All -> Nat] /\ bh[Nil] = 0
  BY <1>7 DEF Even
<1>9. PICK h : h = [n \in All |-> IF n = e THEN bh[n] + 1 ELSE bh[n]]
  OBVIOUS
<1>10. h \in [All -> Nat] /\ h[Nil] = 0 /\ h[e] = bh[e] + 1 /\ \A n \in All \ {e} : h[n] = bh[n]
  BY <1>1, <1>8, <1>9
<1>11. ASSUME NEW n \in T, NEW d \in Sides
       PROVE  h[n] = Own(s1, n) + h[Child(s1, n, d)]
  <2>1. PICK c : c = Child(s, n, d)
    OBVIOUS
  <2>2. c \in All /\ (c # Nil => c \in T /\ s[c].parent = n) /\ c = Child(s1, n, d) /\ c # n
    BY <1>1, <1>3, <2>1, GrownChild
  <2>3. bh[n] = Own(s, n) + bh[c] + Lack(n, d, p, l) /\ bh[n] \in Nat /\ bh[c] \in Nat /\ Own(s, n) \in {0, 1}
    BY <1>7, <2>1, EvenAt
  <2>4. c = e <=> n = p /\ d = l
    BY <1>1, <1>4, <2>1, OneParent
  <2>5. Lack(n, d, p, l) = IF c = e THEN 1 ELSE 0
    BY <2>4 DEF Lack
  <2>6. h[c] = IF c = e THEN bh[c] + 1 ELSE bh[c]
    BY <1>10, <2>2
  <2>7. CASE n = e
    <3>1. Own(s, n) = 0 /\ Own(s1, n) = 1
      BY <1>5, <1>6, <2>7 DEF Own
    <3>2. c # e
      BY <2>2, <2>7
    <3>3. bh[n] = 0 + bh[c] + 0 /\ h[n] = bh[n] + 1 /\ h[c] = bh[c]
      BY <1>10, <2>3, <2>5, <2>6, <2>7, <3>1, <3>2
    <3> QED
      BY <2>2, <2>3, <3>1, <3>3
  <2>8. CASE n # e
    <3>1. Own(s1, n) = Own(s, n)
      BY <1>5, <1>6, <2>8 DEF Own
    <3>2. h[n] = bh[n]
      BY <1>1, <1>10, <2>8
    <3>3. h[c] = bh[c] + Lack(n, d, p, l)
      BY <2>3, <2>5, <2>6
    <3>4. h[n] = Own(s, n) + h[c]
      BY <2>3, <2>5, <3>2, <3>3
    <3> QED
      BY <2>2, <3>1, <3>4
  <2> QED
    BY <2>7, <2>8
<1>12. Even(s1, T, h, Top, "left")
  BY <1>1, <1>10, <1>11, EvenIs
<1>13. /\ Nil \notin R /\ Top \notin R
       /\ \A n \in T \cup {Top} : \A d \in Sides :
            Child(s, n, d) \in R /\ (n = Top \/ n \in R) => Child(s, n, d) \in {e} \/ n \in {e}
  BY <1>5 DEF Balanced, Reds
<1>14. ASSUME NEW n \in T \cup {Top}, NEW d \in Sides, Child(s1, n, d) \in R \ {e}, n = Top \/ n \in R \ {e}
       PROVE  FALSE
  <2>1. Child(s1, n, d) = Child(s, n, d)
    BY <1>1, <1>3
  <2> QED
    BY <1>1, <1>13, <1>14, <2>1
<1>15. Reds(s1, T, {}, {})
  BY <1>6, <1>13, <1>14 DEF Reds
<1> QED
  BY <1>2, <1>12, <1>15 DEF Balanced

(* The end of an insertion: the top is painted black.                      *)
LEMMA InsertBlacken ==
  ASSUME NEW s, NEW T, NEW K, Grown(s, T, K), NEW e \in T, Balanced(s, T, Top, "left", {e}, {}),
         s[e].parent \notin Red(s), NEW r, r = s[Top].left, NEW s1, s1 = Blacken(s, r)
  PROVE  Grown(s1, T, K) /\ Balanced(s1, T, Top, "left", {}, {})
<1>1. T \subseteq All /\ Nil \notin T /\ Top \notin T /\ Nil \in All /\ Top \in All /\ T \subseteq Nodes /\ Joined(s, T)
  BY GrownFacts
<1>2. r \in T /\ r \in All /\ Child(s, Top, "left") = r /\ s[r].parent = Top
  <2>1. r # Nil
    BY GrownFacts
  <2>2. Child(s, Top, "left") = r
    BY ChildSides
  <2> QED
    BY <1>1, <2>1, <2>2, GrownChild, ChildSides
<1>3. Grown(s1, T, K) /\ Red(s1) = Red(s) \ {r} /\ SameLinks(s, s1, All)
  BY <1>2, PaintsBlack
<1>4. PICK R : R = Red(s)
  OBVIOUS
<1>5. PICK p : p = s[e].parent
  OBVIOUS
<1>6. /\ Nil \notin R /\ Top \notin R
      /\ \A n \in T \cup {Top} : \A d \in Sides : Child(s, n, d) \in R /\ (n = Top \/ n \in R) => Child(s, n, d) = e
  BY <1>4 DEF Balanced, Reds
<1>7. \A n \in T \cup {Top} : \A d \in Sides : Child(s, n, d) = e => n = p
  BY <1>1, <1>5, GrownChild
<1>8. p \notin R
  BY <1>4, <1>5
<1>9. CASE r \in R
  <2>1. r = e
    BY <1>2, <1>6, <1>9, ChildSides
  <2>2. PICK l : l = SideOf(s, e)
    OBVIOUS
  <2>3. Balanced(s, T, Top, l, {e}, {e})
    <3>1. PICK bh : Even(s, T, bh, Top, "left")
      BY DEF Balanced
    <3>2. Even(s, T, bh, Top, l)
      BY <1>1, <3>1, LackNone
    <3>3. Reds(s, T, {e}, {e})
      BY <1>4, <1>6 DEF Reds
    <3> QED
      BY <3>2, <3>3 DEF Balanced
  <2>4. s[e].parent = Top
    BY <1>2, <2>1
  <2>5. e \in Red(s) /\ s1 = Blacken(s, e)
    BY <1>4, <1>9, <2>1
  <2> QED
    BY <2>2, <2>3, <2>4, <2>5, BlackenLack
<1>10. CASE r \notin R
  <2>1. Red(s1) = Red(s)
    BY <1>3, <1>4, <1>10
  <2>2. Reds(s, T, {}, {})
    <3>1. ASSUME NEW n \in T \cup {Top}, NEW d \in Sides, Child(s, n, d) \in R, n = Top \/ n \in R
          PROVE  FALSE
      <4>1. Child(s, n, d) = e /\ n = p
        BY <1>6, <1>7, <3>1
      <4>2. n = Top
        BY <1>8, <3>1, <4>1
      <4>3. Child(s, Top, d) = r \/ Child(s, Top, d) = Nil
        BY <1>1, <1>2, ChildSides DEF Joined
      <4> QED
        BY <1>6, <1>10, <3>1, <4>2, <4>3
    <3> QED
      BY <1>4, <1>6, <3>1 DEF Reds
  <2>3. Balanced(s, T, Top, "left", {}, {})
    BY <2>2 DEF Balanced
  <2>4. \A n \in T \cup {Top} : \A d \in Sides : Child(s1, n, d) = Child(s, n, d)
    <3>1. \A n \in All : \A d : Child(s1, n, d) = Child(s, n, d)
      BY <1>3, SameChild
    <3> QED
      BY <1>1, <3>1
  <2>5. Balanced(s1, T, Top, "left", {}, {})
    BY <1>1, <2>1, <2>3, <2>4, KeepBalanced
  <2> QED
    BY <1>3, <2>5
<1> QED
  BY <1>9, <1>10

-----------------------------------------------------------------------------
(* One iteration of the fix-up of a deletion.                              *)
LEMMA DeleteFirst ==
  ASSUME NEW s, NEW T, NEW K, NEW e, NEW p, NEW l, Deficient(s, T, K, e, p, l),
         NEW r, r = s[Top].left, r \in T, r \notin Red(s), NEW s1, s1 = BlackSibling(s, p, l)
  PROVE  Deficient(s1, T, K, e, p, l) /\ Child(s1, p, Other(l)) \notin Red(s1) /\ RootIs(s1, T, p, r)
<1>1. PICK w : w = Child(s, p, Other(l))
  OBVIOUS
<1>2. w = Sibling(s, p, l)
  BY <1>1 DEF Sibling
<1>3. w \in All
  BY <1>1, GrownChild, TurnSides DEF Deficient
<1>4. CASE s[w].red
  <2>1. w \in Red(s)
    BY <1>3, <1>4 DEF Red
  <2>2. s1 = Rotate(Redden(Blacken(s, w), p), p, l)
    BY <1>2, <1>4 DEF BlackSibling, Redden, Blacken
  <2> QED
    BY <1>1, <2>1, <2>2, DeleteBlackSibling
<1>5. CASE ~ s[w].red
  <2>1. w \notin Red(s)
    BY <1>5 DEF Red
  <2>2. s1 = s
    BY <1>2, <1>5 DEF BlackSibling
  <2>3. RootIs(s, T, p, r)
    BY DEF RootIs
  <2> QED
    BY <1>1, <2>1, <2>2, <2>3
<1> QED
  BY <1>4, <1>5

LEMMA DeleteEnds ==
  ASSUME NEW s, NEW T, NEW K, NEW e, NEW p, NEW l, Deficient(s, T, K, e, p, l),
         NEW w, w = Child(s, p, Other(l)), w \notin Red(s), ~ \A d \in Sides : Child(s, w, d) \notin Red(s),
         NEW r, RootIs(s, T, p, r), NEW s2, s2 = RedFarNephew(s, p, l), NEW s1, s1 = Level(s2, p, l)
  PROVE  Grown(s1, T, K) /\ Balanced(s1, T, Top, "left", {}, {}) /\ r \notin Red(s1)
<1>1. PICK far : far = Child(s, w, Other(l))
  OBVIOUS
<1>2. PICK v : v = Child(s, w, l)
  OBVIOUS
<1>3. w = Sibling(s, p, l)
  BY DEF Sibling
<1>4. PICK bh : Even(s, T, bh, p, l)
  BY DEF Deficient, Balanced
<1>5. w \in T /\ Grown(s, T, K) /\ l \in Sides /\ Other(l) \in Sides
  BY <1>4, Siblings, TurnSides DEF Deficient
<1>6. far \in All /\ v \in All
  BY <1>1, <1>2, <1>5, GrownChild
<1>7. \A q0, w0, f0 : w0 = Child(q0, p, Other(l)) /\ f0 = Child(q0, w0, Other(l))
          => Level(q0, p, l) = Rotate(Blacken(Blacken(Dye(q0, w0, p), p), f0), p, l)
  BY DEF Level, Sibling, Blacken, Dye
<1>8. CASE s[far].red
  <2>1. s2 = s
    BY <1>1, <1>3, <1>8 DEF RedFarNephew
  <2>2. far \in Red(s)
    BY <1>6, <1>8 DEF Red
  <2>3. s1 = Rotate(Blacken(Blacken(Dye(s, w, p), p), far), p, l)
    BY <1>1, <1>7, <2>1
  <2> QED
    BY <1>1, <2>2, <2>3, DeleteLevel
<1>9. CASE ~ s[far].red
  <2>1. far \notin Red(s)
    BY <1>9 DEF Red
  <2>2. v \in Red(s)
    <3>1. PICK d \in Sides : Child(s, w, d) \in Red(s)
      OBVIOUS
    <3>2. d = l \/ d = Other(l)
      BY <1>5, TurnSides
    <3> QED
      BY <1>1, <1>2, <2>1, <3>1, <3>2
  <2>3. s2 = Rotate(Redden(Blacken(s, v), w), w, Other(l))
    BY <1>1, <1>2, <1>3, <1>9 DEF RedFarNephew, Redden, Blacken
  <2>4. /\ Deficient(s2, T, K, e, p, l) /\ RootIs(s2, T, p, r)
        /\ Child(s2, p, Other(l)) = v /\ v \notin Red(s2)
        /\ Child(s2, v, Other(l)) = w /\ w \in Red(s2)
    BY <1>1, <1>2, <2>1, <2>2, <2>3, DeleteRedFar
  <2>5. s1 = Rotate(Blacken(Blacken(Dye(s2, v, p), p), w), p, l)
    BY <1>7, <2>4
  <2> QED
    BY <2>4, <2>5, DeleteLevel
<1> QED
  BY <1>8, <1>9
=============================================================================
