----------------------------- MODULE OrderedBag -----------------------------
(***************************************************************************)
(* What an ordered tree of entries promises its callers, without a shape:  *)
(* the set of entries it holds.  Several entries may have the same key; a  *)
(* query finds one of those, and which one is not promised.                *)
(***************************************************************************)
CONSTANTS Entries, KeyOf

VARIABLE held

Init == held = {}

Insert(e) == e \notin held /\ held' = held \cup {e}

Delete(e) == e \in held /\ held' = held \ {e}

Next == \E e \in Entries : Insert(e) \/ Delete(e)

Spec == Init /\ [][Next]_held

(* The entries a query for a key may return.                               *)
Matches(k) == {e \in held : KeyOf[e] = k}
=============================================================================
