----------------------------- MODULE MCNodeLife -----------------------------
(***************************************************************************)
(* Small documents for NodeLife: hashes in hashes, in arrays and in arrays *)
(* of arrays, so that a hash has a wrapper while what holds it is deleted. *)
(***************************************************************************)
EXTENDS NodeLife

CONSTANTS a, b

Leaf         == [type |-> "str", tree |-> <<>>, items |-> <<>>]
HashOf(tree) == [type |-> "hash", tree |-> tree, items |-> <<>>]
ArrOf(items) == [type |-> "arr", tree |-> <<>>, items |-> items]

(* { a: { a: { a: "" } } }                                                 *)
InHash  == <<HashOf(<<<<a, 2>>>>), HashOf(<<<<a, 3>>>>), HashOf(<<<<a, 4>>>>), Leaf>>
(* { a: [ "", [ { a: "" } ] ] }                                            *)
InArray == <<HashOf(<<<<a, 2>>>>), ArrOf(<<3, 4>>), Leaf, ArrOf(<<5>>), HashOf(<<<<a, 6>>>>), Leaf>>

(* { a: { a: "" }, a: { a: "" } }: the second value is behind the first. *)
Twice   == <<HashOf(<<<<a, 2>>, <<a, 3>>>>), HashOf(<<<<a, 4>>>>), HashOf(<<<<a, 5>>>>), Leaf, Leaf>>

Empty   == <<HashOf(<<>>)>>
Small   == <<HashOf(<<<<a, 2>>>>), Leaf>>

MCKeys   == {a, b}
MCTexts  == {InHash, InArray, Twice}
MCValues == {Empty, Small}
=============================================================================
