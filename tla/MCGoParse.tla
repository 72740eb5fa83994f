----------------------------- MODULE MCGoParse ------------------------------
(***************************************************************************)
(* Calls for checking GoParse: arbitrary data, documents with something    *)
(* after them, documents cut short, and streams of documents, whose roots  *)
(* are then laid over one another and deleted from (GoNodes).              *)
(***************************************************************************)
EXTENDS GoNodes, Documents

MCLower == {"a", "b", "t", "u"}
MCUpper == {"A"}
MCDigit == {"0", "1"}
MCEol   == {"\n"}

Call(texts, chunked) == {[data |-> d, chunked |-> chunked] : d \in texts}

(* All the symbols the machine tells apart: three at the root and where     *)
(* keys, values, comments and strings begin, two where a few more matter.  *)
Symbols == {"{", "}", "[", "]", ":", "1", "t", "A", " ", "/", "*", "\"", "'", "\\", "-", ".", "\n"}

Garbage ==
  After({<<>>, <<"{">>, <<"{", "a", ":">>, <<"{", "a", ":", "/", "*">>, <<"{", "\"">>,
         <<"[", "\"", "\\">>}, Symbols, 3)
    \cup After({<<"{", "a", ":", "-">>, <<"[", "[", "1">>, <<"[", "{", "t", ":", "t">>,
                <<"{", "a", ":", "{", "a", ":", "[">>, <<"[", "1", ".">>}, Symbols, 2)

-----------------------------------------------------------------------------
Floats == {<<"float_pos", <<"1", ".", "0">>>>, <<"float_neg", <<"1", ".">>>>}

GoStyles == {y \in Style :
  \/ y.key \in {"spaced", "single"} /\ y.gap = <<",">> /\ y.star = <<>>
  \/ y.key \in {"bare", "double"} /\ Len(y.gap) > 1 /\ y.star # <<>>}

Inner == {<<"arr", <<f>>>> : f \in Floats} \cup {Single(KeyA, f) : f \in Floats}

GoDocs == Nested \cup Pairs(Few \cup Floats)
            \cup {<<"arr", <<v, w>>>> : v \in Inner \cup Strings, w \in Floats \cup Words}

(* Documents, followed by nothing or by the rest of a larger text.         *)
Rests == {<<>>, <<"b", "}", " ">>}
Texts == {Write(d, y) \o r : d \in GoDocs, y \in GoStyles, r \in Rests}

(* All the proper prefixes of some documents.                              *)
Plain   == [key |-> "double", gap |-> <<",">>, star |-> <<>>, quote |-> "\""]
Starred == [Plain EXCEPT !.star = <<"/", "*", "*", "a", ":", "*", "/">>]
Cut(s) == {SubSeq(s, 1, n) : n \in 0 .. Len(s) - 1}
Truncated == UNION {Cut(Write(d, y)) : d \in GoDocs, y \in {Plain, Starred}}

(* Hashes one after the other, a line break after each.                    *)
Lines  == {Write(d, Plain) \o <<"\n">> : d \in Hashes(Mixed \ {<<"arr", <<>>>>})}
Stream == Lines \cup {a \o b : a, b \in Lines}

(* Hashes of hashes and of arrays under one key, hashes two deep, three      *)
(* different ones after each other: once two are laid on one another, an   *)
(* entry of either kind or a value lies over every other.                  *)
Layers ==
  LET one   == <<"pos", <<"1">>>>
      inner == {<<"arr", <<>>>>, <<"arr", <<one>>>>, Single(KeyA, one),
                Single(KeyB, one), Single(KeyB, Single(KeyB, one))}
      lines == {Write(Single(KeyA, v), Plain) \o <<"\n">> : v \in inner}
      line3 == {f \in [1 .. 3 -> lines] : f[1] # f[2] /\ f[1] # f[3] /\ f[2] # f[3]}
  IN  {f[1] \o f[2] \o f[3] : f \in line3}

(* Where those hashes have anything; KeyB only has what KeyA may have.      *)
MCProbes ==
  LET a     == <<"key", KeyA>>
      b     == <<"key", KeyB>>
      first == <<"item", 1>>
  IN  {<<>>, <<a>>, <<b>>, <<a, a>>, <<a, b>>, <<a, b, b>>, <<a, first>>, <<a, first, a>>, <<a, a, first>>}

MCPaths == {KeyA, KeyA \o <<".">> \o KeyB, KeyA \o <<".">> \o KeyB \o <<".">> \o KeyB}

MCCalls == Call(Garbage \cup Texts \cup Truncated, FALSE)
             \cup Call(After({<<>>, <<"{", "}">>, <<"[", "1">>},
                             {"{", "}", "[", "]", ":", "1", "t", " ", "/", "*", "\"", "\n"}, 3), TRUE)
             \cup Call(Stream \cup Layers, TRUE)

(* A lone bracket is not looked at; these are cut later.                   *)
CutCalls == Call({d \in Truncated : Len(d) > 1}, FALSE)

-----------------------------------------------------------------------------
(* The document a node stands for, its strings as they stand between the   *)
(* given quotes once those are exchanged for double ones.                  *)
RECURSIVE Escaped(_, _)
Escaped(s, quote) ==
  IF s = <<>> THEN <<>>
  ELSE (IF Head(s) = quote THEN <<"\\", quote>> ELSE <<Head(s)>>) \o Escaped(Tail(s), quote)

RECURSIVE Denote(_, _)
Denote(n, quote) ==
  LET node == heap[n]
      keys == SelectSeq(<<KeyA, KeyB>>, LAMBDA k : k \in DOMAIN node.hash)
  IN  CASE node.type = "arr"  -> <<"arr", [i \in 1 .. Len(node.arr) |-> Denote(node.arr[i], quote)]>>
        [] node.type = "hash" ->
             <<"hash", [i \in 1 .. Len(keys) |-> <<keys[i], Denote(node.hash[keys[i]], quote)>>]>>
        [] node.type = "str"  -> <<"str", Requote(Escaped(node.str, quote), quote)>>
        [] OTHER              -> <<node.type, node.str>>

(* A document is parsed into a tree that stands for it, escaped quotes     *)
(* decoded and put back, and what follows the document is the remainder    *)
(* (the examples of ujsonin_test.go).  Floats that end a container leave   *)
(* the bracket to be recognised.                                           *)
ParsesDocument ==
  pc = "Returned" /\ ~ onRootChunk /\ data \in Texts =>
    /\ err = "none" /\ remainder \in Rests
    /\ \E y \in GoStyles : /\ Denote(root, y.quote) \in GoDocs
                            /\ Write(Denote(root, y.quote), y) \o remainder = data

(* A document cut short is never returned as if it were whole: with a tree *)
(* there is an error.                                                      *)
CutIsReported ==
  pc = "Returned" /\ ~ onRootChunk /\ data \in Truncated => root = nil \/ err # "none"

(* The comment in ParseFull: a panic from reading past the end is caught   *)
(* instead of checking the bounds, and made a ParseError.                  *)
CutIsAnError == pc = "Returned" /\ data \in Truncated => err # "none"

RECURSIVE Joined(_)
Joined(s) == IF s = <<>> THEN <<>> ELSE Write(Denote(Head(s), "\""), Plain) \o <<"\n">> \o Joined(Tail(s))

(* The callback gets every hash of a stream once, in their order, and each *)
(* as a complete tree.                                                     *)
StreamDelivered ==
  pc = "Returned" /\ calls = 0 /\ onRootChunk /\ data \in Stream \cup Layers =>
    err = "none" /\ Joined(chunks) = data

=============================================================================
