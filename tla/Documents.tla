----------------------------- MODULE Documents ------------------------------
(***************************************************************************)
(* A grammar of documents and the ways they are written, for checking the  *)
(* parsers: nothing here knows of labels, positions or pointers.           *)
(*                                                                         *)
(* A document is a pair: its type, and its text or its children.  The text *)
(* of a string is what stands between double quotes.  The children of a    *)
(* hash are pairs of a key and a document; one key is longer than a symbol. *)
(***************************************************************************)
EXTENDS Integers, Sequences

(* A letter or two stand for each word of the handlers table.              *)
Word(t) ==
  CASE t = "true"  -> <<"t">>
    [] t = "false" -> <<"t", "u">>
    [] t = "null"  -> <<"u", "t">>

WordTable == [w \in {Word(t) : t \in {"true", "false", "null"}} |->
                CHOOSE t \in {"true", "false", "null"} : Word(t) = w]

Words   == {<<t, <<>>>> : t \in {"true", "false", "null"}}
Numbers == {<<"pos", <<"1">>>>, <<"pos", <<"0", "1">>>>, <<"neg", <<"1">>>>}
Strings == {<<"str", s>> : s \in {<<>>, <<"a">>, <<":", "}", "]">>, <<"/", "/", "a">>,
                                  <<"a", "\\", "\\">>, <<"a", "\\", "\"", "'", "b">>,
                                  <<"a", "\\", "u", "0", "0", "a", "1">>}}
Atoms   == Words \cup Numbers \cup Strings
Few     == {<<"pos", <<"1">>>>, <<"str", <<"a">>>>, <<"str", <<>>>>, <<"true", <<>>>>}

Arrays(V) == {<<"arr", s>> : s \in UNION {[1 .. k -> V] : k \in 0 .. 2}}

KeyA == <<"a">>
KeyB == <<"b", "a">>

Single(k, v)   == <<"hash", <<<<k, v>>>>>>
Double(v, w)   == <<"hash", <<<<KeyA, v>>, <<KeyB, w>>>>>>
Hashes(V) == {<<"hash", <<>>>>} \cup {Single(k, v) : k \in {KeyA, KeyB}, v \in V}
               \cup {Double(v, w) : v \in V, w \in V}

Flat   == Arrays(Few) \cup Hashes(Few)
Mixed  == {<<"hash", <<>>>>, <<"arr", <<>>>>, <<"pos", <<"1">>>>,
           <<"arr", <<Single(KeyB, <<"pos", <<"1">>>>)>>>>,
           Single(KeyA, <<"arr", <<<<"str", <<"a">>>>>>>>)}
Deep   == Arrays(Mixed) \cup Hashes(Mixed)

Nested   == {Single(KeyA, v) : v \in Atoms \cup Flat \cup Deep}
Pairs(V) == {Double(v, w) : v \in V, w \in V}

-----------------------------------------------------------------------------
(* How a document is written: how keys are quoted, what separates the      *)
(* entries (a // comment included), a slash-star comment between the       *)
(* entries of a hash, and the quotes of strings.                           *)
KeyStyles == {"bare", "spaced", "double", "single"}
Gaps      == {<<",">>, <<" ">>, <<",", "/", "/", "a", "}", "\n">>}
Stars     == {<<>>, <<"/", "*", "*", "a", ":", "*", "/">>}

Style == [key : KeyStyles, gap : Gaps, star : Stars, quote : {"\"", "'", "tick"}]

WriteKey(k, style) ==
  CASE style = "bare"   -> k \o <<":">>
    [] style = "spaced" -> k \o <<" ", ":", " ">>
    [] style = "double" -> <<"\"">> \o k \o <<"\"", ":">>
    [] style = "single" -> <<"'">> \o k \o <<"'", " ", ":">>

(* Text meant for double quotes, put between others: the two change places. *)
Requote(s, quote) ==
  [i \in 1 .. Len(s) |-> CASE s[i] = "\"" -> quote
                           [] s[i] = quote /\ quote # "\"" -> "\""
                           [] OTHER -> s[i]]

RECURSIVE Write(_, _), WriteAll(_, _, _)
WriteAll(t, s, y) ==
  IF s = <<>> THEN <<>>
  ELSE (IF t = "hash" THEN WriteKey(s[1][1], y.key) \o Write(s[1][2], y) ELSE Write(s[1], y))
       \o (IF Len(s) = 1 THEN <<>> ELSE IF t = "hash" THEN y.star \o y.gap ELSE y.gap)
       \o WriteAll(t, Tail(s), y)

Write(d, y) ==
  CASE d[1] \in {"pos", "float_pos"} -> d[2]
    [] d[1] \in {"neg", "float_neg"} -> <<"-">> \o d[2]
    [] d[1] = "str"  -> <<y.quote>> \o Requote(d[2], y.quote) \o <<y.quote>>
    [] d[1] = "arr"  -> <<"[">> \o WriteAll("arr", d[2], y) \o <<"]">>
    [] d[1] = "hash" -> <<"{">> \o WriteAll("hash", d[2], y) \o <<"}">>
    [] OTHER         -> Word(d[1])

UpTo(alphabet, n) == UNION {[1 .. k -> alphabet] : k \in 0 .. n}

After(openings, alphabet, n) == {o \o s : o \in openings, s \in UpTo(alphabet, n)}
=============================================================================
