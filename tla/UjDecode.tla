------------------------------ MODULE UjDecode ------------------------------
(***************************************************************************)
(* uj_str__new_from_json of c/ujson.c: the text between two quotes, which  *)
(* has a backslash in it, becomes bytes.  A loop reads the text at i and   *)
(* writes at io into a block of as many bytes as the text has; one step is *)
(* one iteration.  The digits of an escape are read wherever they should   *)
(* be, also behind the text, so the rest of the caller's buffer is there   *)
(* too.  Bytes are numbers from 0 to 255.                                  *)
(***************************************************************************)
EXTENDS Integers, Sequences

CONSTANT Literals   \* what is decoded: [str, len], str going on behind len

(* Behind the text there is the quote that ends it.                        *)
ASSUME DecodeAssumption ==
  Literals \subseteq {l \in [str : Seq(0 .. 255), len : Nat] :
                         l.len < Len(l.str) /\ l.str[l.len + 1] \in {34, 39}}

VARIABLES
  signed,    \* whether char is signed in this build
  str, len,  \* the arguments
  i, io,     \* where the loop reads and writes
  alloc,     \* the block
  pc         \* "Idle", "Loop", "Done"; "Undefined" after an access out of bounds

decodeVars == <<signed, str, len, i, io, alloc, pc>>

Uninit    == -1
Backslash == 92
At(k)     == str[k + 1]

DecodeInit ==
  /\ signed \in BOOLEAN
  /\ str = <<>> /\ len = 0 /\ i = 0 /\ io = 0 /\ alloc = <<>>
  /\ pc = "Idle"

-----------------------------------------------------------------------------
(* hex_to_num.                                                             *)
HexToNum(c) ==
  IF c \in 48 .. 57 THEN c - 48
  ELSE IF c \in 97 .. 102 THEN c - 87
  ELSE IF c \in 65 .. 70 THEN c - 55
  ELSE 0

(* Mutant: digits count for 15 in the last place.                          *)
Unicode_Base15 ==
  HexToNum(At(i + 5)) + 15 * HexToNum(At(i + 4))
    + 256 * HexToNum(At(i + 3)) + 4096 * HexToNum(At(i + 2))

(* The number behind \u: unicode, and let when b1 and b2 are 0.            *)
Unicode ==
  HexToNum(At(i + 5)) + 16 * HexToNum(At(i + 4))
    + 256 * HexToNum(At(i + 3)) + 4096 * HexToNum(At(i + 2))

TwoBytes(u) == <<192 + u \div 64, 128 + (u % 64)>>

Utf8(u) ==
  IF u < 128 THEN <<u>>
  ELSE IF u < 2048 THEN TwoBytes(u)
  ELSE <<224 + u \div 4096, 128 + ((u \div 64) % 64), 128 + (u % 64)>>

(* What is written for it.  Up to 255 the number is in let, a char: signed, *)
(* it is never above 127 and goes out as it is; not signed, from 128 on it *)
(* goes out as two bytes and then, there being no continue, once more.     *)
Written(u) ==
  IF u < 128 \/ (signed /\ u < 256) THEN <<u>>
  ELSE IF u < 256 THEN TwoBytes(u) \o Utf8(u)
  ELSE Utf8(u)

(* The escapes of one letter it knows: n, r and the quotes.                *)
Known   == {110, 114, 34, 39}
Plain(c) == IF c = 110 THEN 10 ELSE IF c = 114 THEN 13 ELSE c

(* alloc[io++] for each of these bytes.                                    *)
Emit(bytes) ==
  /\ io' = io + Len(bytes)
  /\ IF io + Len(bytes) > len
     THEN pc' = "Undefined" /\ UNCHANGED alloc
     ELSE /\ alloc' = [k \in DOMAIN alloc |->
                         IF k \in io .. io + Len(bytes) - 1 THEN bytes[k - io + 1] ELSE alloc[k]]
          /\ UNCHANGED pc

(* A digit out of the buffer is read.                                      *)
Unreadable == pc' = "Undefined" /\ UNCHANGED <<io, alloc>>

-----------------------------------------------------------------------------
(* Mutant: room for one byte less.                                         *)
Decode_ShortBlock(l) ==
  /\ pc \in {"Idle", "Done"}
  /\ str' = l.str /\ len' = l.len
  /\ i' = 0 /\ io' = 0
  /\ alloc' = [k \in 0 .. l.len - 2 |-> Uninit]
  /\ pc' = "Loop"
  /\ UNCHANGED signed

(* The call.                                                               *)
Decode(l) ==
  /\ pc \in {"Idle", "Done"}
  /\ str' = l.str /\ len' = l.len
  /\ i' = 0 /\ io' = 0
  /\ alloc' = [k \in 0 .. l.len - 1 |-> Uninit]
  /\ pc' = "Loop"
  /\ UNCHANGED signed

Iterate == pc = "Loop" /\ i < len /\ UNCHANGED <<signed, str, len>>

Letter ==
  /\ Iterate /\ At(i) # Backslash
  /\ Emit(<<At(i)>>)
  /\ i' = i + 1

(* Mutant: the four digits are not skipped.                                *)
HexEscape_NoSkip ==
  /\ Iterate /\ At(i) = Backslash /\ At(i + 1) = 117
  /\ IF i + 5 < Len(str) THEN Emit(Written(Unicode)) ELSE Unreadable
  /\ i' = i + 2

HexEscape ==
  /\ Iterate /\ At(i) = Backslash /\ At(i + 1) = 117
  /\ IF i + 5 < Len(str) THEN Emit(Written(Unicode)) ELSE Unreadable
  /\ i' = i + 6

(* An escape of one letter.  One that is not known takes a place in the    *)
(* block that is not written: io++ is all there is.                        *)
Escape ==
  /\ Iterate /\ At(i) = Backslash /\ At(i + 1) # 117
  /\ IF At(i + 1) \in Known THEN Emit(<<Plain(At(i + 1))>>)
     ELSE io' = io + 1 /\ UNCHANGED <<alloc, pc>>
  /\ i' = i + 2

(* The terminator behind the last byte, in the same block.                 *)
Finish ==
  /\ pc = "Loop" /\ i >= len
  /\ IF io < len THEN pc' = "Done" /\ alloc' = [alloc EXCEPT ![io] = 0]
     ELSE pc' = "Undefined" /\ UNCHANGED alloc
  /\ UNCHANGED <<signed, str, len, i, io>>

DecodeStep == Letter \/ HexEscape \/ Escape \/ Finish

DecodeNext == (\E l \in Literals : Decode(l)) \/ DecodeStep

DecodeSpec == DecodeInit /\ [][DecodeNext]_decodeVars

-----------------------------------------------------------------------------
(* The bytes of the node that is returned.                                 *)
Result == [k \in 1 .. io |-> alloc[k - 1]]

(* What the parser hands over has a backslash with something behind it,    *)
(* for StrSlash1 consumed that.  Complete escapes have their four digits   *)
(* inside the text as well; the parser ends a text at any quote, and does  *)
(* not ask for that.                                                       *)
Escaped  == \E p \in 1 .. len - 1 : str[p] = Backslash
Complete == \A p \in 1 .. len - 1 : str[p] = Backslash /\ str[p + 1] = 117 => p + 5 <= len

(* A text of complete escapes never makes the loop read behind the buffer  *)
(* or write behind the block, though the block was made for the text and   *)
(* not for what is written, the terminator included: every escape is at    *)
(* least a byte longer than what it writes, in both kinds of build.        *)
StaysInBlock == Escaped /\ Complete => pc # "Undefined"

(* The type invariant.                                                     *)
DecodeTypeOK ==
  /\ signed \in BOOLEAN
  /\ str \in Seq(0 .. 255) /\ len \in 0 .. Len(str)
  /\ i \in Nat /\ io \in Nat
  /\ alloc \in [0 .. len - 1 -> 0 .. 255 \cup {Uninit}]
  /\ pc \in {"Idle", "Loop", "Done", "Undefined"}
=============================================================================
