------------------------------ MODULE MCUjText ------------------------------
(***************************************************************************)
(* A string value on its way through the library: the text of a literal is *)
(* decoded (UjDecode), the bytes are written with sdscatrepr (Sds), and     *)
(* what was written is decoded in its turn.  Apart from that, strings go   *)
(* through all sequences of the calls Sds knows.                           *)
(***************************************************************************)
EXTENDS UjDecode, Sds, SdsArgs, TLC

Seqs == INSTANCE SequencesExt

(* Headers that hold up to 1, 3, 7, 15 and 511, instead of up to 31, 255,   *)
(* and so on, so that short strings need several of them.                  *)
MCCap == 0 :> 1 @@ 1 :> 3 @@ 2 :> 7 @@ 3 :> 15 @@ 4 :> 511

MCTexts == {<<>>, <<97>>, <<98, 0, 97>>}
MCEnds  == {-2, 1, 5}

(* What a new block may hold.                                              *)
Leftover == {0, 120}

Run(n) == [k \in 1 .. n |-> 97]

(* "%p" with quotes around it; "%s." with a string that needs more room    *)
(* than the format asks for.                                               *)
MCFormats == {[len |-> 4, items |-> <<<<34>>, Run(3), <<34>>>>],
              [len |-> 3, items |-> <<Run(12), <<46>>>>]}

-----------------------------------------------------------------------------
(* Texts are put together from tokens: what they stand for is what JSON    *)
(* says of them, in UTF-8.                                                 *)
Token(text, bytes) == [text |-> text, bytes |-> bytes]
U(a, b, c, d)      == <<92, 117, a, b, c, d>>

WellRead ==
  {Token(<<97>>, <<97>>),                                    \* a
   Token(<<92, 110>>, <<10>>),                               \* \n
   Token(<<92, 114>>, <<13>>),                               \* \r
   Token(<<92, 34>>, <<34>>),                                \* \"
   Token(<<92, 39>>, <<39>>),                                \* \'
   Token(U(48, 48, 48, 48), <<0>>),                          \* 0000
   Token(U(48, 48, 48, 67), <<12>>),                         \* 000C
   Token(U(48, 51, 98, 66), <<206, 187>>),                   \* 03bB
   Token(U(50, 48, 97, 67), <<226, 130, 172>>)}              \* 20aC

(* These do not come to what they stand for, see TextKept.                 *)
Misread ==
  {Token(<<92, 92>>, <<92>>),                                \* \\
   Token(<<92, 116>>, <<9>>),                                \* \t
   Token(U(48, 48, 101, 57), <<195, 169>>)}                  \* 00e9

Tokens == WellRead \cup Misread

Spell(ts) == Seqs!FlattenSeq([k \in 1 .. Len(ts) |-> ts[k].text])
Meant(ts) == Seqs!FlattenSeq([k \in 1 .. Len(ts) |-> ts[k].bytes])

Texts3 == {Spell(ts) : ts \in UNION {[1 .. k -> Tokens] : k \in 1 .. 3}}

(* Behind the text there is the quote that ends it, and a brace.           *)
Literal(text) == [str |-> text \o <<34, 125>>, len |-> Len(text)]

(* What the parser hands over: from the second character on, for String1   *)
(* does not examine the first, there is a backslash in it, and no quote    *)
(* but behind one.                                                         *)
RECURSIVE EndsAt(_, _)
EndsAt(text, p) ==
  \/ p = Len(text) + 1
  \/ /\ p <= Len(text) /\ text[p] # 34
     /\ EndsAt(text, IF text[p] = Backslash THEN p + 2 ELSE p + 1)

HandedOver(text) ==
  (\E p \in 2 .. Len(text) : text[p] = Backslash) /\ EndsAt(text, 2)

MCLiterals == {Literal(t) : t \in {t \in Texts3 : HandedOver(t)}}

RECURSIVE TokensOf(_)
TokensOf(text) ==
  IF text = <<>> THEN <<>>
  ELSE LET t == CHOOSE t \in Tokens : SubSeq(text, 1, Len(t.text)) = t.text
       IN  <<t>> \o TokensOf(SubSeq(text, Len(t.text) + 1, Len(text)))

(* Letters and the escapes that are read come to the bytes they stand for,  *)
(* wherever they are in the text and whatever stands next to them: the     *)
(* tokens in front of the first that is misread are what the result begins *)
(* with, those behind the last are what it ends with, and where none is    *)
(* misread they are all of it.  Nothing is said of those that are misread. *)
DecodesTokens ==
  pc = "Done" /\ [str |-> str, len |-> len] \in MCLiterals =>
    LET ts == TokensOf(SubSeq(str, 1, len))
        AllRead(a, b) == \A k \in a .. b : ts[k] \in WellRead
    IN  /\ \A k \in 0 .. Len(ts) :
             /\ AllRead(1, k) => Seqs!IsPrefix(Meant(SubSeq(ts, 1, k)), Result)
             /\ AllRead(k + 1, Len(ts)) => Seqs!IsSuffix(Meant(SubSeq(ts, k + 1, Len(ts))), Result)
        /\ AllRead(1, Len(ts)) => Result = Meant(ts)

-----------------------------------------------------------------------------
NotRead == {92, 9, 12, 8}
Numbered(b) == Len(Repr(b)) = 6

(* The text sdscatrepr has written into the empty string, and what stands   *)
(* between its quotes.                                                     *)
Quoted  == Text(s)
Between == SubSeq(Quoted, 2, s.len - 1)

(* What was written has been decoded.                                      *)
ReadTwice ==
  pc = "Done" /\ call.op = "repr" /\ rest = <<>> /\ str = Literal(Between).str

(* The bytes whose escapes are read back, in this build, by the decoder and *)
(* by sdssplitargs.  For the others see TextKept.                          *)
DecoderReads(b)   == b \notin NotRead /\ (b < 128 \/ signed)
SplitArgsReads(b) == b # 12 /\ ~ Numbered(b)

(* A text of such bytes is read back, by sdssplitargs as one argument, and  *)
(* by uj_str__new_from_json where the parser hands over what was written.  *)
ReadsBack ==
  pc = "Done" /\ call.op = "repr" /\ rest = <<>> =>
    LET bytes == {call.arg[k] : k \in 1 .. Len(call.arg)}
    IN  /\ (\A b \in bytes : SplitArgsReads(b)) => SplitArgs(Quoted) = [ok |-> TRUE, vector |-> <<call.arg>>]
        /\ ReadTwice /\ (\A b \in bytes : DecoderReads(b)) => Result = call.arg

(* A literal with what is misread, \\, \t and 00e9, and with the number of  *)
(* the form feed, which is read, but then written as \f.                   *)
Misreadable == {Literal(<<97, 92, 92, 92, 116>> \o U(48, 48, 101, 57) \o U(48, 48, 48, 67))}

(* readme.txt: a "reader/writer" that "Parses a superset of JSON", and     *)
(* "The contents of quoted keys/values are entirely untouched": a literal  *)
(* comes to the bytes JSON means by it, or is left as it is, and what is   *)
(* written for them is read again as the same bytes.  sds.c, above         *)
(* sdssplitargs: sdscatrepr writes a string in the format sdssplitargs     *)
(* parses.  The literal of the run breaks all three, in both builds.       *)
TextKept ==
  ReadTwice =>
    /\ \E l \in Literals : LET text == SubSeq(l.str, 1, l.len)
                           IN  call.arg \in {text, Meant(TokensOf(text))}
    /\ Result = call.arg
    /\ SplitArgs(Quoted) = [ok |-> TRUE, vector |-> <<call.arg>>]

MCInit == DecodeInit /\ SdsInit

(* Calls on the string, in any order, until a loop makes it long, ...      *)
Output == pc = "Idle" /\ signed /\ (rest # <<>> \/ Fits(s.len)) /\ SdsNext /\ UNCHANGED decodeVars

(* ... or, the string being new and empty, a literal is decoded ...         *)
Read ==
  /\ pc = "Idle" /\ call = [op |-> "new", arg |-> <<>>]
  /\ \E l \in Literals : Decode(l)
  /\ UNCHANGED sdsVars

(* ... and written, where a byte nobody wrote is what was in the block      *)
(* before, and what was written is decoded.                                *)
Write ==
  /\ pc = "Done" /\ call.op # "repr"
  /\ \E b \in Leftover : CatRepr([k \in 1 .. io |-> IF Result[k] = Uninit THEN b ELSE Result[k]])
  /\ UNCHANGED decodeVars

ReadAgain ==
  /\ pc = "Done" /\ call.op = "repr" /\ rest = <<>>
  /\ HandedOver(Between)
  /\ Decode(Literal(Between))
  /\ UNCHANGED sdsVars

Over == (pc = "Done" \/ ~ Fits(s.len)) /\ UNCHANGED <<decodeVars, sdsVars>>

MCNext ==
  \/ Output \/ Read \/ Write \/ ReadAgain \/ Over
  \/ DecodeStep /\ UNCHANGED sdsVars
  \/ pc = "Done" /\ ReprByte /\ UNCHANGED decodeVars

MCSpec == MCInit /\ [][MCNext]_<<decodeVars, sdsVars>>
=============================================================================
