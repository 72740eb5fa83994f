------------------------------ MODULE MCRBTree ------------------------------
(***************************************************************************)
(* Small instances of RBTree.  A node is a number; keys come in pairs.     *)
(*                                                                         *)
(* All the histories of a few nodes are taken.  Rotations after the fix-up *)
(* has climbed need more: trees are also grown to the full size, the nodes *)
(* coming from both ends towards the middle, and then deleted in any order.*)
(***************************************************************************)
EXTENDS RBTree

CONSTANTS Size, Few

MCNodes == 1 .. Size
MCNil   == 0
MCTop   == 100

MCKeyOf   == [n \in MCNodes |-> (n + 1) \div 2]
MCQueries == {0, 2}

Inwards  == [i \in MCNodes |-> IF i % 2 = 1 THEN (i + 1) \div 2 ELSE Size + 1 - i \div 2]
Outwards == [i \in MCNodes |-> Size + 1 - Inwards[i]]
Prefix(order, n) == {order[i] : i \in 1 .. n}

Grows == \/ live' \subseteq 1 .. Few
         \/ \E order \in {Inwards, Outwards} :
             \E n \in MCNodes : live = Prefix(order, n - 1) /\ live' = Prefix(order, n)

MCNext == Next /\ (live' \subseteq live \/ Grows)

MCSpec == Init /\ [][MCNext]_vars /\ WF_vars(Run)
=============================================================================
