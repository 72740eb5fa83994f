----------------------------- MODULE UjDocument -----------------------------
(***************************************************************************)
(* What building a document means, without pointers: nodes are numbered in *)
(* the order they are created, each container has the sequence of its      *)
(* children, and path is the sequence of containers still open, from the   *)
(* root to the innermost.                                                  *)
(*                                                                         *)
(* UjParse implements this specification with one up pointer that is also  *)
(* the next pointer of arrays, and a separate stack for the arrays.        *)
(***************************************************************************)
EXTENDS Integers, Sequences

VARIABLES kind, kids, path

vars == <<kind, kids, path>>

Containers == {"hash", "arr"}
Leaves     == {"str", "pos", "neg", "true", "false", "null"}

Innermost == path[Len(path)]
NextId    == Len(kind) + 1

Init ==
  /\ kind = <<"hash">>
  /\ kids = << <<>> >>
  /\ path = <<1>>

(* A node of type t becomes the last child of the innermost container.     *)
Attach(t) ==
  /\ kind' = Append(kind, t)
  /\ kids' = Append([kids EXCEPT ![Innermost] = Append(@, NextId)], <<>>)

AddLeaf == /\ \E t \in Leaves : Attach(t)
           /\ UNCHANGED path

Open == /\ \E t \in Containers : Attach(t)
        /\ path' = Append(path, NextId)

(* A closing brace leaves the innermost container, a hash but not the root. *)
CloseHash ==
  /\ kind[Innermost] = "hash" /\ Len(path) > 1
  /\ path' = SubSeq(path, 1, Len(path) - 1)
  /\ UNCHANGED <<kind, kids>>

(* A closing bracket leaves the innermost open array, and with it every     *)
(* hash opened inside that array and not closed yet.                        *)
CloseArr ==
  \E i \in 2 .. Len(path) :
    /\ kind[path[i]] = "arr"
    /\ \A j \in i + 1 .. Len(path) : kind[path[j]] = "hash"
    /\ path' = SubSeq(path, 1, i - 1)
    /\ UNCHANGED <<kind, kids>>

Next == AddLeaf \/ Open \/ CloseHash \/ CloseArr

Spec == Init /\ [][Next]_vars
=============================================================================
