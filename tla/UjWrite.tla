------------------------------- MODULE UjWrite ------------------------------
(***************************************************************************)
(* The writers of c/ujson.c, uj_node__json and uj_node__jsonx, as what     *)
(* they write for a document (see Documents for documents and symbols).    *)
(* The keys of a hash come in the order of the list getkeys makes; the     *)
(* text of a string stands for what sdscatrepr makes of its bytes.  Only   *)
(* TLC's runs use this module.                                             *)
(***************************************************************************)
EXTENDS Integers, Sequences, Documents

(* add_indent.                                                             *)
Indent(depth) == [k \in 1 .. 2 * depth |-> " "]
Newline       == <<"\n">>

(* What follows entry i of count: no comma in jsonx, and none at the end.  *)
Separator(i, count, jsonx) == IF ~ jsonx /\ i < count THEN <<",">> \o Newline ELSE Newline

RECURSIVE Json(_, _, _), Lines(_, _, _, _)

(* uj_hash__jsonInternal and uj_arr__jsonInternal: the entries from i on,  *)
(* indented, and the closing one level less.  An array writes its elements *)
(* with uj_node__json, even for jsonx.                                     *)
HashEntry(entry, depth, jsonx) ==
  (IF jsonx THEN entry[1] \o <<":">> ELSE <<"\"">> \o entry[1] \o <<"\"", ":">>)
    \o Json(entry[2], depth, jsonx)
ArrEntry(elem, depth) == Json(elem, depth, FALSE)

Lines(d, i, depth, jsonx) ==
  IF i > Len(d[2]) THEN Indent(depth - 1)
  ELSE Indent(depth)
         \o (IF d[1] = "hash" THEN HashEntry(d[2][i], depth, jsonx) ELSE ArrEntry(d[2][i], depth))
         \o Separator(i, Len(d[2]), jsonx)
         \o Lines(d, i + 1, depth, jsonx)

HashJson(d, depth, jsonx) == <<"{">> \o Newline \o Lines(d, 1, depth, jsonx) \o <<"}">>
ArrJson(d, depth, jsonx)  == <<"[">> \o Newline \o Lines(d, 1, depth, jsonx) \o <<"]">>

(* uj_node__jsonInternal.                                                  *)
Json(d, depth, jsonx) ==
  CASE d[1] = "hash" -> HashJson(d, depth + 1, jsonx)
    [] d[1] = "arr"  -> ArrJson(d, depth + 1, jsonx)
    [] d[1] = "str"  -> <<"\"">> \o d[2] \o <<"\"">>
    [] d[1] = "pos"  -> d[2]
    [] d[1] = "neg"  -> <<"-">> \o d[2]
    [] OTHER         -> Word(d[1])
=============================================================================
