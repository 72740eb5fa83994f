------------------------------- MODULE KeyMap -------------------------------
(***************************************************************************)
(* What a hash of keys promises its callers, without lists or trees: a     *)
(* finite map from keys to values.  A key stored again keeps the value it  *)
(* had, because c/string-tree.c puts the new one behind the old.           *)
(***************************************************************************)
CONSTANTS Keys, Values

VARIABLE map

Init == map = <<>>

Store(k, v) ==
  /\ k \notin DOMAIN map
  /\ map' = [j \in DOMAIN map \cup {k} |-> IF j = k THEN v ELSE map[j]]

Delete(k) ==
  /\ k \in DOMAIN map
  /\ map' = [j \in DOMAIN map \ {k} |-> map[j]]

Clear == map' = <<>>

Next ==
  \/ \E k \in Keys : Delete(k) \/ \E v \in Values : Store(k, v)
  \/ Clear

Spec == Init /\ [][Next]_map
=============================================================================
