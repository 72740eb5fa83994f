----------------------------- MODULE ByteString -----------------------------
(***************************************************************************)
(* What the string library promises its callers: a sequence of bytes, and  *)
(* for every call what becomes of it.  No blocks, lengths or headers.  The *)
(* arguments of the last call are in call; rest is what a call that writes *)
(* in pieces has still to write.                                           *)
(***************************************************************************)
EXTENDS Integers, Sequences

VARIABLES text, call, rest

Init == text = <<>> /\ rest = <<>>

(* The place a number counted from 0, or from the end, stands for; before   *)
(* the first it stands for the first.                                      *)
Place(k) == IF k >= 0 THEN k + 1 ELSE IF Len(text) + k < 0 THEN 1 ELSE Len(text) + k + 1

Without(set) ==
  LET inner == {k \in 1 .. Len(text) : text[k] \notin set}
      first == CHOOSE k \in inner : \A j \in inner : k <= j
      last  == CHOOSE k \in inner : \A j \in inner : k >= j
  IN  IF inner = {} THEN <<>> ELSE SubSeq(text, first, last)

UpToZero ==
  IF \E k \in 1 .. Len(text) : text[k] = 0
  THEN SubSeq(text, 1, (CHOOSE k \in 1 .. Len(text) :
                          text[k] = 0 /\ \A j \in 1 .. k - 1 : text[j] # 0) - 1)
  ELSE text

Effect(op, arg) ==
  CASE op = "new"    -> arg
    [] op = "cat"    -> text \o arg
    [] op = "cpy"    -> arg
    [] op = "grow"   -> text \o [k \in 1 .. arg - Len(text) |-> 0]
    [] op = "shrink" -> text
    [] op = "cut"    -> SubSeq(text, 1, arg)
    [] op = "update" -> UpToZero
    [] op = "range"  -> [k \in 1 .. IF Len(text) < Place(arg[2])
                                    THEN Len(text) - Place(arg[1]) + 1
                                    ELSE Place(arg[2]) - Place(arg[1]) + 1
                           |-> text[Place(arg[1]) + k - 1]]
    [] op = "trim"   -> Without(arg \cup {0})

(* A call that is over at once.                                            *)
Whole ==
  /\ rest = <<>> /\ rest' = <<>> /\ call'.op \notin {"fmt", "repr"}
  /\ text' = Effect(call'.op, call'.arg)

(* A call that writes in pieces: it begins, and writes the next piece.      *)
Begin ==
  /\ rest = <<>> /\ rest' # <<>>
  /\ \/ call'.op = "fmt"  /\ text' = text
     \/ call'.op = "repr" /\ text' = Append(text, 34)

Piece == rest # <<>> /\ text' = text \o Head(rest) /\ rest' = Tail(rest) /\ call' = call

Next == Whole \/ Begin \/ Piece

Spec == Init /\ [][Next]_<<text, call, rest>>
=============================================================================
