------------------------------ MODULE PathTree ------------------------------
(***************************************************************************)
(* What the node operations of go/ujsonin.go come to for somebody who sees *)
(* values and no nodes.  A value says what is at each of the Probes, the   *)
(* paths it is looked at: a type, "none" where there is nothing, and a     *)
(* text.  trees are the values of some roots, made is how many calls were  *)
(* made on them, and call is the last one.                                 *)
(***************************************************************************)
EXTENDS Integers, Sequences

CONSTANT Probes
VARIABLES trees, made, call, fault

Nothing == [type |-> "none", str |-> <<>>]

Has(value, p, t) == value[p].type = t
To(p, i)         == SubSeq(p, 1, i)
Begins(q, p)     == Len(q) <= Len(p) /\ To(p, Len(q)) = q

Both(base, top, p, t) == Has(base, p, t) /\ Has(top, p, t)

(* A hash lies on a hash at the path, and all the way down to it.          *)
Joint(base, top, p) == \A i \in 0 .. Len(p) : Both(base, top, To(p, i), "hash")

(* What is at the path in top replaces what base has there, if anything:   *)
(* hashes merge, and an array does not replace an array.                   *)
Replaces(base, top, p) ==
  /\ p # <<>> /\ Joint(base, top, To(p, Len(p) - 1))
  /\ ~ Has(top, p, "none") /\ ~ Both(base, top, p, "hash") /\ ~ Both(base, top, p, "arr")

Covered(base, top, p) == \E i \in 1 .. Len(p) : Replaces(base, top, To(p, i))

(* One hash laid over another.                                             *)
Merge(base, top) == [p \in Probes |-> IF Covered(base, top, p) THEN top[p] ELSE base[p]]

Without(value, q) == [p \in Probes |-> IF Begins(q, p) THEN Nothing ELSE value[p]]

(* A base takes what is laid on it, and that stays as it is.  Other trees   *)
(* may change: those that were laid on the base before share nodes with it. *)
Overlaid(base, top) ==
  /\ trees'[base] = Merge(trees[base], trees[top])
  /\ trees'[top] = trees[top]
  /\ fault' = FALSE

(* A key with no dot in it is taken out of its hash.  A path is followed to *)
(* its end, and what is found there, if it is a hash, loses the entry of    *)
(* the last name; if nothing is, that is a fault.                          *)
Deleted(root, path) ==
  LET n == Len(path)
      q == IF n = 1 THEN path ELSE Append(path, path[n])
  IN  /\ trees'[root] = Without(trees[root], q)
      /\ fault' = (n > 1 /\ Has(trees[root], <<>>, "hash") /\ Has(trees[root], path, "none"))

Init == fault = FALSE

Next ==
  /\ made' = made + 1 /\ DOMAIN trees' = DOMAIN trees
  /\ \/ call'.op = "overlay" /\ Overlaid(call'.root, call'.arg)
     \/ call'.op = "del" /\ Deleted(call'.root, call'.arg)

Spec == Init /\ [][trees = <<>> \/ Next]_<<trees, made, fault>>
=============================================================================
