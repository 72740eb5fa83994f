------------------------------- MODULE RBTree -------------------------------
(***************************************************************************)
(* The red-black tree of c/red_black_tree.c, pointer by pointer.  A node   *)
(* is an address of Nodes with its key fixed (the nodes a client may       *)
(* allocate), or one of the two sentinels: Nil (tree->nilx) and Top        *)
(* (tree->root, whose left child is the root of the tree).                 *)
(*                                                                         *)
(* An operation runs from Idle back to Idle; pc names the loop control is  *)
(* in, and one step is one iteration, so what a loop relies on can be      *)
(* stated in the middle of it.  x, y, z, q and root are the locals of the  *)
(* source.                                                                 *)
(***************************************************************************)
EXTENDS Integers, Sequences, FiniteSets

CONSTANTS Nodes, KeyOf, Queries, Nil, Top

ASSUME RBAssumption ==
  /\ Nil \notin Nodes /\ Top \notin Nodes /\ Nil # Top
  /\ KeyOf \in [Nodes -> Int] /\ Queries \subseteq Int

VARIABLES
  t,         \* the nodes: address -> links and colour
  pc,        \* the loop being run
  x, y, z,   \* locals of the operation
  root,      \* the local of RBDeleteFixUp, read once when it is entered
  q,         \* the key RBExactQuery looks for
  live,      \* allocated and not freed
  visited    \* the nodes whose info TreeForEach passed to Func

locals == <<x, y, z, root, q>>

(* The locals of an operation are dead once it returns.                    *)
Return == pc' = "Idle" /\ x' = Nil /\ y' = Nil /\ z' = Nil /\ root' = Nil /\ q' = 0
vars   == <<t, pc, x, y, z, root, q, live, visited>>

All == Nodes \cup {Nil, Top}

(* RBTreeCreate.  The links of an address not allocated are arbitrary;     *)
(* they are kept at Nil, and both Nodes and sentinels start black.         *)
Blank == [left |-> Nil, right |-> Nil, parent |-> Nil, red |-> FALSE]

Init ==
  /\ t = [n \in All |-> Blank]
  /\ pc = "Idle"
  /\ x = Nil /\ y = Nil /\ z = Nil /\ root = Nil /\ q = 0
  /\ live = {}
  /\ visited = <<>>

-----------------------------------------------------------------------------
(* Compare(a,b) is 1 when a's key is greater.                              *)
Greater(a, b) == KeyOf[a] > KeyOf[b]

(* Make `to` the child of p that `from` is, left when from is the left one.*)
Replace(s, p, from, to) ==
  IF from = s[p].left THEN [s EXCEPT ![p].left = to] ELSE [s EXCEPT ![p].right = to]

SetParent(s, n, p) == [s EXCEPT ![n].parent = p]

(* Mutant: the subtree that changes sides keeps its old parent.            *)
LeftRotate_OldParent(s, a) ==
  LET b    == s[a].right
      down == [s EXCEPT ![a].right = s[b].left]
      up   == SetParent(down, b, s[a].parent)
      hung == Replace(up, up[a].parent, a, b)
  IN  SetParent([hung EXCEPT ![b].left = a], a, b)

LeftRotate(s, a) ==
  LET b    == s[a].right
      mid  == s[b].left
      down == [s EXCEPT ![a].right = mid]
      kept == IF mid # Nil THEN SetParent(down, mid, a) ELSE down
      up   == SetParent(kept, b, s[a].parent)
      hung == Replace(up, up[a].parent, a, b)
  IN  SetParent([hung EXCEPT ![b].left = a], a, b)

RightRotate(s, b) ==
  LET a    == s[b].left
      mid  == s[a].right
      down == [s EXCEPT ![b].left = mid]
      kept == IF mid # Nil THEN SetParent(down, mid, b) ELSE down
      up   == SetParent(kept, a, s[b].parent)
      hung == Replace(up, up[b].parent, b, a)
  IN  SetParent([hung EXCEPT ![a].right = b], b, a)

(* The two mirror images of the fix-up loops: on "left" the rotations are   *)
(* as written first in the source, on "right" they are exchanged.          *)
Other(side) == IF side = "left" THEN "right" ELSE "left"
Child(s, n, side) == IF side = "left" THEN s[n].left ELSE s[n].right
Rotate(s, n, side) == IF side = "left" THEN LeftRotate(s, n) ELSE RightRotate(s, n)
Paint(s, n, red) == [s EXCEPT ![n].red = red]
SideOf(s, n) == IF n = s[s[n].parent].left THEN "left" ELSE "right"

-----------------------------------------------------------------------------
(* Mutant: the links of the new node are left as malloc returns them.      *)
RBTreeInsert_Unlinked(n) ==
  /\ pc = "Idle" /\ n \notin live
  /\ live' = live \cup {n}
  /\ t' = [t EXCEPT ![n] = [Blank EXCEPT !.left = -1, !.right = -1]]
  /\ z' = n /\ y' = Top /\ x' = t[Top].left
  /\ pc' = "Descend"
  /\ UNCHANGED <<root, q, visited>>

(* RBTreeInsert(n): allocate n and enter TreeInsertHelp.                   *)
RBTreeInsert(n) ==
  /\ pc = "Idle" /\ n \notin live
  /\ live' = live \cup {n}
  /\ t' = [t EXCEPT ![n] = Blank]
  /\ z' = n /\ y' = Top /\ x' = t[Top].left
  /\ pc' = "Descend"
  /\ UNCHANGED <<root, q, visited>>

(* Mutant: the comparison the other way round.                             *)
Descend_Swapped ==
  /\ pc = "Descend" /\ x # Nil
  /\ y' = x
  /\ x' = IF Greater(x, z) THEN t[x].right ELSE t[x].left
  /\ UNCHANGED <<t, pc, z, root, q, live, visited>>

(* while( x != nil ): equal keys go to the right.                          *)
Descend ==
  /\ pc = "Descend" /\ x # Nil
  /\ y' = x
  /\ x' = IF Greater(x, z) THEN t[x].left ELSE t[x].right
  /\ UNCHANGED <<t, pc, z, root, q, live, visited>>

(* The rest of TreeInsertHelp; the new node is red.                        *)
Hang ==
  /\ pc = "Descend" /\ x = Nil
  /\ LET linked == SetParent(Paint(t, z, TRUE), z, y)
     IN  t' = IF y = Top \/ Greater(y, z)
              THEN [linked EXCEPT ![y].left = z]
              ELSE [linked EXCEPT ![y].right = z]
  /\ x' = z
  /\ pc' = "InsertFix"
  /\ UNCHANGED <<y, z, root, q, live, visited>>

(* while( x->parent->red ): recolour and climb, or rotate and finish.      *)
InsertFix ==
  LET p     == t[x].parent
      g     == t[p].parent
      side  == SideOf(t, p)
      uncle == Child(t, g, Other(side))
      inner == x = Child(t, p, Other(side))
      a     == IF inner THEN p ELSE x
      s     == IF inner THEN Rotate(t, p, side) ELSE t
      b     == s[a].parent
      c     == s[b].parent
      dyed  == Paint(Paint(s, b, FALSE), c, TRUE)
  IN  /\ pc = "InsertFix" /\ t[p].red
      /\ IF t[uncle].red
         THEN /\ t' = Paint(Paint(Paint(t, p, FALSE), uncle, FALSE), g, TRUE)
              /\ x' = g
         ELSE /\ t' = Rotate(dyed, c, Other(side))
              /\ x' = a
      /\ UNCHANGED <<pc, y, z, root, q, live, visited>>

(* tree->root->left->red = 0, and the new node is returned.                *)
InsertDone ==
  /\ pc = "InsertFix" /\ ~ t[t[x].parent].red
  /\ t' = Paint(t, t[Top].left, FALSE)
  /\ Return
  /\ UNCHANGED <<live, visited>>

-----------------------------------------------------------------------------
(* RBDelete(n): with two children, the node spliced out is the successor,  *)
(* the leftmost of the right subtree.                                      *)
RBDelete(n) ==
  /\ pc = "Idle" /\ n \in live
  /\ z' = n
  /\ IF t[n].left = Nil \/ t[n].right = Nil
     THEN y' = n /\ pc' = "Splice"
     ELSE y' = t[n].right /\ pc' = "Successor"
  /\ UNCHANGED <<t, x, root, q, live, visited>>

(* Mutant: the right child is taken for the leftmost of the right subtree. *)
Successor_NoDescent ==
  /\ pc = "Successor"
  /\ pc' = "Splice"
  /\ UNCHANGED <<t, x, y, z, root, q, live, visited>>

Successor ==
  /\ pc = "Successor"
  /\ IF t[y].left # Nil
     THEN y' = t[y].left /\ UNCHANGED pc
     ELSE pc' = "Splice" /\ UNCHANGED y
  /\ UNCHANGED <<t, x, z, root, q, live, visited>>

(* x takes the place of y; x may be the sentinel Nil, whose parent is set   *)
(* all the same because the fix-up climbs from it.                         *)
Splice ==
  /\ pc = "Splice"
  /\ LET p   == t[y].parent
         sub == IF t[y].left = Nil THEN t[y].right ELSE t[y].left
         s   == SetParent(t, sub, p)
     IN  /\ x' = sub
         /\ t' = IF p = Top THEN [s EXCEPT ![Top].left = sub] ELSE Replace(s, p, y, sub)
  /\ root' = t'[Top].left
  /\ pc' = IF t[y].red THEN "Free" ELSE "DeleteFix"
  /\ UNCHANGED <<y, z, q, live, visited>>

Sibling(s, p, side) == Child(s, p, Other(side))

(* A red sibling w is rotated away: the new one is black.                  *)
BlackSibling(s, p, side) ==
  LET w == Sibling(s, p, side)
  IN  IF s[w].red THEN Rotate(Paint(Paint(s, w, FALSE), p, TRUE), p, side) ELSE s

(* When only the near child of the sibling is red, it becomes the sibling. *)
RedFarNephew(s, p, side) ==
  LET w == Sibling(s, p, side)
  IN  IF s[Child(s, w, Other(side))].red THEN s
      ELSE Rotate(Paint(Paint(s, Child(s, w, side), FALSE), w, TRUE), w, Other(side))

(* The rotation that gives x's side the black node it lacks.               *)
Level(s, p, side) ==
  LET w == Sibling(s, p, side)
  IN  Rotate(Paint(Paint(Paint(s, w, s[p].red), p, FALSE), Child(s, w, Other(side)), FALSE), p, side)

(* One iteration of RBDeleteFixUp: with no red child of the sibling it is   *)
(* painted and x climbs; with one, the loop ends.                          *)
DeleteFix ==
  /\ pc = "DeleteFix" /\ ~ t[x].red /\ x # root
  /\ LET side == SideOf(t, x)
         p    == t[x].parent
     IN  \E s \in {BlackSibling(t, p, side)} :
           LET w == Sibling(s, p, side)
           IN  IF ~ s[s[w].left].red /\ ~ s[s[w].right].red
               THEN t' = Paint(s, w, TRUE) /\ x' = p
               ELSE /\ \E s2 \in {RedFarNephew(s, p, side)} : t' = Level(s2, p, side)
                    /\ x' = root
  /\ UNCHANGED <<pc, y, z, root, q, live, visited>>

DeleteFixDone ==
  /\ pc = "DeleteFix" /\ (t[x].red \/ x = root)
  /\ t' = Paint(t, x, FALSE)
  /\ pc' = "Free"
  /\ UNCHANGED <<locals, live, visited>>

(* Mutant: y keeps its own colour in z's place.                            *)
Free_OwnColour ==
  /\ pc = "Free"
  /\ LET moved == [t EXCEPT ![y] = [t[z] EXCEPT !.red = t[y].red]]
         under == SetParent(SetParent(moved, t[z].right, y), t[z].left, y)
         s     == IF y = z THEN t ELSE Replace(under, t[z].parent, z, y)
     IN  t' = [s EXCEPT ![z] = Blank]
  /\ live' = live \ {z}
  /\ Return
  /\ UNCHANGED visited

(* The rest of RBDelete: y, if it is not z, takes z's place and colour; z   *)
(* is destroyed and freed.                                                 *)
Free ==
  /\ pc = "Free"
  /\ LET moved == [t EXCEPT ![y] = t[z]]
         under == SetParent(SetParent(moved, t[z].right, y), t[z].left, y)
         s     == IF y = z THEN t ELSE Replace(under, t[z].parent, z, y)
     IN  t' = [s EXCEPT ![z] = Blank]
  /\ live' = live \ {z}
  /\ Return
  /\ UNCHANGED visited

-----------------------------------------------------------------------------
(* RBExactQuery(k); the result is x, Nil standing for a returned 0.        *)
RBExactQuery(k) ==
  /\ pc = "Idle"
  /\ q' = k /\ x' = t[Top].left
  /\ pc' = "Query"
  /\ UNCHANGED <<t, y, z, root, live, visited>>

(* Mutant: the comparison the other way round.                             *)
QueryStep_Swapped ==
  /\ pc = "Query"
  /\ IF x = Nil \/ KeyOf[x] = q
     THEN Return
     ELSE /\ x' = IF KeyOf[x] < q THEN t[x].left ELSE t[x].right
          /\ UNCHANGED <<pc, y, z, root, q>>
  /\ UNCHANGED <<t, live, visited>>

(* Mutant: x does not move when its key is smaller.                        *)
QueryStep_Stays ==
  /\ pc = "Query"
  /\ IF x = Nil \/ KeyOf[x] = q
     THEN Return
     ELSE /\ x' = IF KeyOf[x] > q THEN t[x].left ELSE x
          /\ UNCHANGED <<pc, y, z, root, q>>
  /\ UNCHANGED <<t, live, visited>>

QueryStep ==
  /\ pc = "Query"
  /\ IF x = Nil \/ KeyOf[x] = q
     THEN Return
     ELSE /\ x' = IF KeyOf[x] > q THEN t[x].left ELSE t[x].right
          /\ UNCHANGED <<pc, y, z, root, q>>
  /\ UNCHANGED <<t, live, visited>>

(* Mutant: the walk does not descend to the right.                         *)
InOrder_LeftOnly(s) ==
  LET walk[n \in All] == (IF s[n].left # Nil THEN walk[s[n].left] ELSE <<>>) \o <<n>>
  IN  walk[s[Top].left]

(* The nodes TreeForEach visits from n, in order.  The recursion is guarded *)
(* at the children but not at n, so on an empty tree it visits Nil.        *)
InOrder(s) ==
  LET walk[n \in All] ==
        (IF s[n].left # Nil THEN walk[s[n].left] ELSE <<>>)
        \o <<n>>
        \o (IF s[n].right # Nil THEN walk[s[n].right] ELSE <<>>)
  IN  walk[s[Top].left]

TreeForEach ==
  /\ pc = "Idle"
  /\ visited' = InOrder(t)
  /\ pc' = "Visited"
  /\ UNCHANGED <<t, locals, live>>

ForEachDone ==
  /\ pc = "Visited"
  /\ visited' = <<>> /\ pc' = "Idle"
  /\ UNCHANGED <<t, locals, live>>

(* RBTreeDestroy frees the nodes it reaches and the tree is gone.          *)
Reached ==
  LET below[n \in All] == IF n = Nil THEN {} ELSE {n} \cup below[t[n].left] \cup below[t[n].right]
  IN  below[t[Top].left]

RBTreeDestroy ==
  /\ pc = "Idle"
  /\ live' = live \ Reached
  /\ pc' = "Destroyed"
  /\ UNCHANGED <<t, locals, visited>>

Stopped == pc = "Destroyed" /\ UNCHANGED vars

-----------------------------------------------------------------------------
Call ==
  \/ \E n \in Nodes : RBTreeInsert(n) \/ RBDelete(n)
  \/ \E k \in Queries : RBExactQuery(k)
  \/ TreeForEach \/ RBTreeDestroy

(* The steps of an operation that is running.                              *)
Run ==
  \/ Descend \/ Hang \/ InsertFix \/ InsertDone
  \/ Successor \/ Splice \/ DeleteFix \/ DeleteFixDone \/ Free
  \/ QueryStep \/ ForEachDone

Next == Call \/ Run \/ Stopped

(* A call that was made keeps running; no call need be made.               *)
Spec == Init /\ [][Next]_vars /\ WF_vars(Run)

-----------------------------------------------------------------------------
(* The type invariant.                                                     *)
TypeOK ==
  /\ t \in [All -> [left : All, right : All, parent : All, red : BOOLEAN]]
  /\ pc \in {"Idle", "Descend", "InsertFix", "Successor", "Splice", "DeleteFix", "Free",
             "Query", "Visited", "Destroyed"}
  /\ {x, y, z, root} \subseteq All /\ q \in Queries \cup {0}
  /\ live \subseteq Nodes
  /\ visited \in Seq(All)

InTree == Reached

(* Both fix-up loops rotate through parent pointers: every child points     *)
(* back at its parent, also in the middle of an operation, and no freed    *)
(* node is reachable.                                                      *)
Linked ==
  pc # "Destroyed" =>
    /\ InTree \subseteq live
    /\ \A n \in InTree :
         /\ n = t[Top].left => t[n].parent = Top
         /\ \A c \in {t[n].left, t[n].right} \ {Nil} : t[c].parent = n

(* The keys never get out of order, in the middle of a rotation either:     *)
(* equal keys stay neighbours.                                             *)
Ordered ==
  LET s == InOrder(t)
  IN  InTree # {} => \A i \in 1 .. Len(s) - 1 : KeyOf[s[i]] <= KeyOf[s[i + 1]]

(* The numbers of black nodes on the paths from n, a child of p, down to    *)
(* Nil; while a deletion is being repaired, x counts as one black more.    *)
(* The loop leaves by setting x to root: then nothing is left to repair,   *)
(* and root need not be the top of the tree any more, for a rotation may   *)
(* have taken it down after it was read.                                   *)
BlackHeights ==
  LET counts[link \in All \X All] ==
        LET n     == link[1]
            p     == link[2]
            extra == IF pc = "DeleteFix" /\ n = x /\ p = t[x].parent
                       /\ (x # root \/ t[x].red)
                     THEN 1 ELSE 0
            own   == IF t[n].red THEN 0 ELSE 1
        IN  IF n = Nil THEN {extra}
            ELSE {own + extra + h : h \in counts[<<t[n].left, n>>] \cup counts[<<t[n].right, n>>]}
  IN  counts[<<t[Top].left, Top>>]

(* red_black_tree.h: "nil points to a node which should always be black";   *)
(* the fix-up loops paint through computed pointers, and reach no sentinel. *)
(* The balance of the tree, in the form both loops keep: all paths have as  *)
(* many black nodes, and where a red node has a red parent, or is the root, *)
(* it is at x, the node being repaired: in a deletion x, when it is red,    *)
(* is about to be painted, and it may be either of the two.                 *)
RedBlack ==
  /\ ~ t[Nil].red /\ ~ t[Top].red
  /\ Cardinality(BlackHeights) = 1
  /\ \A n \in InTree :
       t[n].red /\ (n = t[Top].left \/ t[t[n].parent].red)
         => \/ pc = "InsertFix" /\ n = x
            \/ pc = "DeleteFix" /\ x \in {n, t[n].parent}

-----------------------------------------------------------------------------
(* What the tree holds: the reachable nodes, and the one RBDelete has       *)
(* spliced out and will put back in place of the node it deletes.          *)
Held == InTree \cup IF pc \in {"DeleteFix", "Free"} THEN {y} ELSE {}

Bag == INSTANCE OrderedBag WITH Entries <- Nodes, held <- Held

(* The tree implements the ordered bag: an insertion adds the one node, a   *)
(* deletion removes the one it was asked to, and no rotation, recolouring  *)
(* or transplant loses or revives another.                                 *)
ImplementsBag == Bag!Spec

(* RBExactQuery returns an entry with the key whenever the tree holds one.  *)
QueryFinds ==
  [][pc = "Query" /\ pc' = "Idle" =>
       IF Bag!Matches(q) = {} THEN x = Nil ELSE x \in Bag!Matches(q)]_vars

(* The recursive walks reach every node: TreeForEach calls Func on every    *)
(* entry, and on each once (on an empty tree it calls Func with the info   *)
(* of Nil), and RBTreeDestroy leaves none allocated.                       *)
WalksReachAll ==
  /\ pc = "Visited" /\ live # {} =>
       /\ Len(visited) = Cardinality(live)
       /\ {visited[i] : i \in 1 .. Len(visited)} = live
  /\ pc = "Destroyed" => live = {}

(* Every operation ends: neither fix-up loop climbs or rotates for ever.    *)
OperationsEnd == pc \notin {"Idle", "Destroyed"} ~> pc = "Idle"
=============================================================================
