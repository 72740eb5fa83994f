------------------------------- MODULE UjNode -------------------------------
(***************************************************************************)
(* The document nodes of c/ujson.h and the constructors and links of       *)
(* c/ujson.c.  A heap is the sequence of nodes allocated so far: a node's  *)
(* address is its index, NULL is 0, and an allocation appends.             *)
(*                                                                         *)
(* The source reuses one field, base.parent, for two purposes: while a     *)
(* hash is being parsed it points up to the container, and in an array it  *)
(* is the link to the next element.  The model keeps that single field.    *)
(*                                                                         *)
(* A hash's string_tree is abstracted to the sequence of its entries in    *)
(* the order they were stored; a lookup returns the oldest entry of a key, *)
(* as the chain of string-tree.c does.                                     *)
(***************************************************************************)
EXTENDS Integers, Sequences

NULL == 0

NodeTypes == {"hash", "str", "arr", "pos", "neg", "true", "false", "null"}

(* A piece of the input buffer: a pointer into data and a length.          *)
Slice == [start : Int, len : Int]

(* nullStr, the static empty string that an empty JSON string points at.   *)
NullStr == [start |-> -1, len |-> 0]

Node == [type : NodeTypes, parent : Nat, tree : Seq([key : Slice, val : Nat]),
         head : Nat, tail : Nat, count : Nat, str : Slice, alloc : BOOLEAN]

(* uj_node__new: calloc leaves every field but the type zero.              *)
NewNode(t) ==
  [type |-> t, parent |-> NULL, tree |-> <<>>, head |-> NULL, tail |-> NULL,
   count |-> 0, str |-> NullStr, alloc |-> FALSE]

(* uj_hash__new followed by the parser's newHash->base.parent = cur.       *)
NewHash(up) == [NewNode("hash") EXCEPT !.parent = up]

NewArr == NewNode("arr")

(* uj_str__new, and uj_str__new_from_json when decoded is TRUE: the latter *)
(* owns a decoded copy of the slice, so the node no longer points at data. *)
NewStr(t, start, len, decoded) ==
  [NewNode(t) EXCEPT !.str = [start |-> start, len |-> len], !.alloc = decoded]

(* Mutant: the link is written into el instead of into the old tail.       *)
ArrAdd_BackLink(heap, a, el) ==
  LET arr == [heap[a] EXCEPT !.count = @ + 1, !.tail = el]
  IN  IF heap[a].head = NULL
      THEN [heap EXCEPT ![a] = [arr EXCEPT !.head = el]]
      ELSE [[heap EXCEPT ![a] = arr] EXCEPT ![el].parent = heap[a].tail]

(* uj_arr__add: el becomes the tail, linked from the old tail's parent.    *)
ArrAdd(heap, a, el) ==
  LET arr == [heap[a] EXCEPT !.count = @ + 1, !.tail = el]
  IN  IF heap[a].head = NULL
      THEN [heap EXCEPT ![a] = [arr EXCEPT !.head = el]]
      ELSE [[heap EXCEPT ![a] = arr] EXCEPT ![heap[a].tail].parent = el]

(* uj_hash__store on a tree without colliding keys.                        *)
HashStore(heap, h, key, el) ==
  [heap EXCEPT ![h].tree = Append(@, [key |-> key, val |-> el])]

(* The walk of the array dump, serialise and delete loops: count steps     *)
(* from head along base.parent.                                            *)
Elements(heap, a) ==
  LET at[i \in 1 .. heap[a].count] == IF i = 1 THEN heap[a].head ELSE heap[at[i - 1]].parent
  IN  at
=============================================================================
