----------------------------- MODULE MCUjParse ------------------------------
(***************************************************************************)
(* Buffers for checking UjParse: arbitrary ones, and the documents of a    *)
(* grammar, for which the tree the machine returns must be the document.   *)
(***************************************************************************)
EXTENDS UjParse, UjWrite

MCLower == {"a", "b", "t", "u"}
MCDigit == {"0", "1"}
MCHex   == {"a", "b", "0", "1"}
MCEol   == {"\n"}

(* All the symbols the machine tells apart, from openings that bring it     *)
(* where a few more symbols matter: inside a key, a word, a number, a       *)
(* string, an escape or a comment; in arrays two deep (as many as the stack *)
(* of the runs holds), in a hash inside an array and behind its sibling.    *)
Buffers ==
  After({<<"{">>, <<"{", "a", " ">>, <<"{", "\"">>, <<"{", "a", ":">>,
         <<"{", "a", ":", "/", "*">>, <<"{", "a", ":", "1">>,
         <<"{", "a", ":", "\"", "a">>, <<"{", "a", ":", "'", "\\", "u", "a", "a">>,
         <<"{", "a", ":", "[", "[", "1">>, <<"{", "a", ":", "[", "1", "{", "t", ":", "t">>,
         <<"{", "a", ":", "{", "t", ":", "[">>},
        {"{", "}", "[", "]", ":", "1", "t", "a", " ", "/", "*", "\"", "'", "\\", "u", "-", ".", "\n"}, 3)

(* uj_parse ends a string that is empty at either quote, and decodes only   *)
(* what stands between double ones.                                        *)
Styles == [key : KeyStyles, gap : Gaps, star : Stars, quote : {"\""}]
Docs   == Nested \cup Pairs(Atoms)
Texts  == {Write(d, y) : d \in Docs, y \in Styles}

(* The same documents, and deeper ones, as the library itself writes them: *)
(* those with no empty hash, for which there is no list of keys.           *)
RECURSIVE HasEmptyHash(_)
HasEmptyHash(d) ==
  CASE d[1] = "hash" -> d[2] = <<>> \/ \E i \in 1 .. Len(d[2]) : HasEmptyHash(d[2][i][2])
    [] d[1] = "arr"  -> \E i \in 1 .. Len(d[2]) : HasEmptyHash(d[2][i])
    [] OTHER         -> FALSE

Layered ==
  LET inner == {Double(v, w) : v \in Flat, w \in Few}
  IN  {Single(KeyA, v) : v \in inner \cup Arrays(inner \cap Hashes(Flat))}

Saved   == {d \in Docs \cup Layered : ~ HasEmptyHash(d)}
Written == {Json(d, 0, jsonx) : d \in Saved, jsonx \in BOOLEAN}

(* What the main run reads.                                                *)
Everything == Buffers \cup Texts \cup Written

-----------------------------------------------------------------------------
(* The document a node stands for.                                         *)
Text(s) == SubSeq(data, s.start + 1, s.start + s.len)

RECURSIVE Denote(_)
Denote(n) ==
  LET node == heap[n]
  IN  CASE node.type = "arr"  ->
             <<"arr", [i \in 1 .. node.count |-> Denote(Elements(heap, n)[i])]>>
        [] node.type = "hash" ->
             <<"hash", [i \in 1 .. Len(node.tree) |->
                         <<Text(node.tree[i].key), Denote(node.tree[i].val)>>]>>
        [] node.type \in {"str", "pos", "neg"} ->
             <<node.type, IF node.str.len = 0 THEN <<>> ELSE Text(node.str)>>
        [] OTHER -> <<node.type, <<>>>>

(* A well-formed document, and what the library writes for a hash, json or *)
(* jsonx, is parsed to its end into a tree that stands for the document,    *)
(* whole keys and texts included: what it denotes is a document of the     *)
(* grammar, and written again in the same way it gives the buffer (no two  *)
(* documents are written alike).                                           *)
ParsesDocument ==
  pc \in Terminal /\ data \in Texts \cup Written =>
    /\ pc = "Done"
    /\ Denote(Root) \in Docs \cup Layered
    /\ \/ \E y \in Styles : Write(Denote(Root), y) = data
       \/ \E jsonx \in BOOLEAN : Json(Denote(Root), 0, jsonx) = data

-----------------------------------------------------------------------------
(* Documents that use what readme.txt lists: a string that begins with an   *)
(* escape of JSON, a slash-star comment in front of a value, a fraction in *)
(* front of the bracket that ends its array, and after a bracket too many  *)
(* one more value: garbage, a bracket or a word nobody knows, or an array  *)
(* eleven deep.                                                            *)
Documented ==
  {<<"{", "\"", "t", "\"", ":", "\"", "\\", "u", "0", "0", "a", "1", "\"", ",",
     "a", ":", "/", "*", "*", "/", "1", ",",
     "b", ":", "[", "1", ".", "0", "]", ",", "\"", "u", "\"", ":", "0",
     "]", ",", "a", "b", ":">> \o value \o <<"}">> :
       value \in {<<"]">>, <<"a", "b">>, [k \in 1 .. 11 |-> "["] \o [k \in 1 .. 11 |-> "]"]}}

(* "Parses a superset of JSON", with C style comments.  At its end the root *)
(* has the four entries: t with a string that was decoded, a with the      *)
(* value behind the comment, b with its array closed, and so u.            *)
SupersetOfJson ==
  pc \in Terminal =>
    LET has(key, type) == \E e \in {heap[Root].tree[i] : i \in 1 .. Len(heap[Root].tree)} :
                            Text(e.key) = <<key>> /\ heap[e.val].type = type
    IN  /\ \E n \in 1 .. Len(heap) : heap[n].type = "str" /\ heap[n].alloc
        /\ has("a", "pos") /\ has("b", "arr") /\ has("u", "pos")

(* readme.txt of the parser: it parses a superset of JSON, and "If you feed *)
(* the parser garbage, you'll just get garbage back": it returns.  Each of *)
(* the documents breaks both.                                              *)
ReadmeHolds == AlwaysReturns /\ SupersetOfJson
=============================================================================
