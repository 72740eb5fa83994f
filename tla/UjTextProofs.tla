---------------------------- MODULE UjTextProofs ----------------------------
(***************************************************************************)
(* Proofs about the text that the C code keeps: UjDecode, for every set of *)
(* literals, and Sds, whatever the widths of the headers, the texts, the   *)
(* formats and the sequence of calls.                                      *)
(***************************************************************************)
EXTENDS UjDecode, Sds, SequenceTheorems, WellFoundedInduction, TLAPS

Byte == 0 .. 255
Cell == Byte \cup {Junk}

-----------------------------------------------------------------------------
(* What is written for an escape.                                          *)

LEMMA HexToNumRange ==
  ASSUME NEW c \in Byte
  PROVE  HexToNum(c) \in 0 .. 15
BY DEF Byte, HexToNum

LEMMA TwoBytesRange ==
  ASSUME NEW u \in Nat, u < 2048
  PROVE  TwoBytes(u) \in Seq(Byte) /\ Len(TwoBytes(u)) = 2
<1>1. 192 + u \div 64 \in Byte /\ 128 + (u % 64) \in Byte
  BY SMTT(30) DEF Byte
<1> QED
  BY <1>1 DEF TwoBytes

LEMMA Utf8Range ==
  ASSUME NEW u \in Nat, u < 65536
  PROVE  /\ Utf8(u) \in Seq(Byte) /\ Len(Utf8(u)) \in 1 .. 3
         /\ u < 2048 => Len(Utf8(u)) \in 1 .. 2
<1>1. CASE u < 128
  <2>1. u \in Byte
    BY <1>1 DEF Byte
  <2> QED
    BY <1>1, <2>1 DEF Utf8
<1>2. CASE u >= 128 /\ u < 2048
  <2>1. TwoBytes(u) \in Seq(Byte) /\ Len(TwoBytes(u)) = 2
    BY <1>2, TwoBytesRange
  <2>2. Utf8(u) = TwoBytes(u)
    BY <1>2 DEF Utf8
  <2> QED
    BY <2>1, <2>2
<1>3. CASE u >= 2048
  <2>1. 224 + u \div 4096 \in Byte
    BY SMTT(30) DEF Byte
  <2>2. 128 + (u % 64) \in Byte
    BY SMTT(30) DEF Byte
  <2>3. 128 + ((u \div 64) % 64) \in Byte
    <3>1. u \div 64 \in Nat
      BY SMTT(30)
    <3> QED
      BY <3>1, SMTT(30) DEF Byte
  <2> QED
    BY <1>3, <2>1, <2>2, <2>3 DEF Utf8
<1> QED
  BY <1>1, <1>2, <1>3

LEMMA ConcatRange ==
  ASSUME NEW a \in Seq(Byte), NEW b \in Seq(Byte), Len(a) = 2, Len(b) \in 1 .. 2
  PROVE  a \o b \in Seq(Byte) /\ Len(a \o b) \in 1 .. 4
<1>1. Len(a \o b) = Len(a) + Len(b)
  BY ConcatProperties
<1>2. ASSUME NEW m, NEW n \in 1 .. 2, m = 2
      PROVE  m + n \in 1 .. 4
  BY <1>2
<1> QED
  BY <1>1, <1>2, ConcatProperties

LEMMA WrittenRange ==
  ASSUME NEW u \in Nat, u < 65536, signed \in BOOLEAN
  PROVE  Written(u) \in Seq(Byte) /\ Len(Written(u)) \in 1 .. 4
<1>1. CASE u < 128 \/ (signed /\ u < 256)
  <2>1. u \in Byte
    BY <1>1 DEF Byte
  <2> QED
    BY <1>1, <2>1 DEF Written
<1>2. CASE ~ (u < 128 \/ (signed /\ u < 256)) /\ u < 256
  <2>0. u < 2048
    BY <1>2
  <2>1. TwoBytes(u) \in Seq(Byte) /\ Len(TwoBytes(u)) = 2
    BY <2>0, TwoBytesRange
  <2>2. Utf8(u) \in Seq(Byte) /\ Len(Utf8(u)) \in 1 .. 2
    BY <2>0, Utf8Range
  <2>3. Written(u) = TwoBytes(u) \o Utf8(u)
    BY <1>2 DEF Written
  <2> QED
    BY <2>1, <2>2, <2>3, ConcatRange
<1>3. CASE u >= 256
  BY <1>3, Utf8Range DEF Written
<1> QED
  BY <1>1, <1>2, <1>3

-----------------------------------------------------------------------------
(* Emit fills the places it says it fills, and no others.                  *)

LEMMA EmitType ==
  ASSUME DecodeTypeOK, UNCHANGED <<signed, str, len>>,
         NEW bytes \in Seq(Byte), Emit(bytes), i' \in Nat, pc = "Loop"
  PROVE  DecodeTypeOK'
<1>1. io' \in Nat
  BY DEF Emit, DecodeTypeOK
<1>2. pc' \in {"Idle", "Loop", "Done", "Undefined"}
  BY DEF Emit
<1>3. alloc' \in [0 .. len - 1 -> 0 .. 255 \cup {Uninit}]
  <2>1. CASE io + Len(bytes) > len
    BY <2>1 DEF Emit, DecodeTypeOK
  <2>2. CASE ~ io + Len(bytes) > len
    <3>1. ASSUME NEW k \in io .. io + Len(bytes) - 1
          PROVE  bytes[k - io + 1] \in Byte
      <4>1. k - io + 1 \in 1 .. Len(bytes)
        BY DEF DecodeTypeOK
      <4> QED
        BY <4>1, ElementOfSeq
    <3>2. alloc' = [k \in DOMAIN alloc |->
                      IF k \in io .. io + Len(bytes) - 1 THEN bytes[k - io + 1] ELSE alloc[k]]
      BY <2>2 DEF Emit
    <3>3. alloc \in [0 .. len - 1 -> 0 .. 255 \cup {Uninit}]
      BY DEF DecodeTypeOK
    <3>4. \A k \in io .. io + Len(bytes) - 1 : bytes[k - io + 1] \in 0 .. 255
      BY <3>1 DEF Byte
    <3>5. PICK D : D = 0 .. len - 1
      OBVIOUS
    <3>6. PICK W : W = 0 .. 255 \cup {Uninit}
      OBVIOUS
    <3>7. PICK f : f = [k \in D |-> IF k \in io .. io + Len(bytes) - 1 THEN bytes[k - io + 1] ELSE alloc[k]]
      OBVIOUS
    <3>8. alloc \in [D -> W] /\ \A k \in io .. io + Len(bytes) - 1 : bytes[k - io + 1] \in W
      BY <3>3, <3>4, <3>5, <3>6
    <3>9. f \in [D -> W]
      BY <3>7, <3>8
    <3>10. alloc' = f
      BY <3>2, <3>7, <3>8
    <3> QED
      BY <3>5, <3>6, <3>9, <3>10
  <2> QED
    BY <2>1, <2>2
<1> QED
  BY <1>1, <1>2, <1>3 DEF DecodeTypeOK

(* The digits of an escape that is inside the buffer make a number of two   *)
(* bytes.                                                                  *)
LEMMA UnicodeRange ==
  ASSUME DecodeTypeOK, i + 5 < Len(str)
  PROVE  Unicode \in Nat /\ Unicode < 65536
<1>1. ASSUME NEW k \in 2 .. 5
      PROVE  HexToNum(At(i + k)) \in 0 .. 15
  <2>1. i + k + 1 \in 1 .. Len(str)
    BY DEF DecodeTypeOK
  <2>2. At(i + k) \in Byte
    BY <2>1, ElementOfSeq DEF At, DecodeTypeOK, Byte
  <2> QED
    BY <2>2, HexToNumRange
<1>2. /\ HexToNum(At(i + 5)) \in 0 .. 15 /\ HexToNum(At(i + 4)) \in 0 .. 15
      /\ HexToNum(At(i + 3)) \in 0 .. 15 /\ HexToNum(At(i + 2)) \in 0 .. 15
  BY <1>1
<1>3. PICK a \in 0 .. 15 : a = HexToNum(At(i + 5))
  BY <1>2
<1>4. PICK b \in 0 .. 15 : b = HexToNum(At(i + 4))
  BY <1>2
<1>5. PICK c \in 0 .. 15 : c = HexToNum(At(i + 3))
  BY <1>2
<1>6. PICK d \in 0 .. 15 : d = HexToNum(At(i + 2))
  BY <1>2
<1>7. Unicode = a + 16 * b + 256 * c + 4096 * d
  BY <1>3, <1>4, <1>5, <1>6 DEF Unicode
<1>8. a + 16 * b + 256 * c + 4096 * d \in Nat /\ a + 16 * b + 256 * c + 4096 * d < 65536
  OBVIOUS
<1> QED
  BY <1>7, <1>8

LEMMA WrittenUnicode ==
  ASSUME DecodeTypeOK, i + 5 < Len(str)
  PROVE  Written(Unicode) \in Seq(Byte) /\ Len(Written(Unicode)) \in 1 .. 4
<1>1. Unicode \in Nat /\ Unicode < 65536
  BY UnicodeRange
<1>2. signed \in BOOLEAN
  BY DEF DecodeTypeOK
<1> QED
  BY <1>1, <1>2, WrittenRange

-----------------------------------------------------------------------------
(* The type invariant.                                                     *)

LEMMA DecodeTypeInit == DecodeInit => DecodeTypeOK
BY DEF DecodeInit, DecodeTypeOK

LEMMA DecodeTypeNext ==
  ASSUME DecodeTypeOK, [DecodeNext]_decodeVars
  PROVE  DecodeTypeOK'
<1>1. CASE \E l \in Literals : Decode(l)
  <2>1. PICK l \in Literals : Decode(l)
    BY <1>1
  <2>2. l.str \in Seq(0 .. 255) /\ l.len \in Nat /\ l.len < Len(l.str)
    BY DecodeAssumption DEF DecodeAssumption
  <2> QED
    BY <2>1, <2>2 DEF Decode, DecodeTypeOK
<1>2. CASE Letter
  <2>1. i + 1 \in 1 .. Len(str)
    BY <1>2 DEF Letter, Iterate, DecodeTypeOK
  <2>2. At(i) \in Byte
    BY <2>1, ElementOfSeq DEF At, DecodeTypeOK, Byte
  <2>3. <<At(i)>> \in Seq(Byte)
    BY <2>2
  <2>4. i' \in Nat
    BY <1>2 DEF Letter, DecodeTypeOK
  <2> QED
    BY <1>2, <2>3, <2>4, EmitType DEF Letter, Iterate
<1>3. CASE HexEscape
  <2>1. i' \in Nat
    BY <1>3 DEF HexEscape, DecodeTypeOK
  <2>2. CASE i + 5 < Len(str)
    <3>1. Written(Unicode) \in Seq(Byte)
      BY <2>2, WrittenUnicode
    <3> QED
      BY <1>3, <2>1, <2>2, <3>1, EmitType DEF HexEscape, Iterate
  <2>3. CASE ~ i + 5 < Len(str)
    BY <1>3, <2>1, <2>3 DEF HexEscape, Iterate, Unreadable, DecodeTypeOK
  <2> QED
    BY <2>2, <2>3
<1>4. CASE Escape
  <2>1. i' \in Nat
    BY <1>4 DEF Escape, DecodeTypeOK
  <2>2. CASE At(i + 1) \in Known
    <3>1. Plain(At(i + 1)) \in Byte
      BY <2>2 DEF Known, Plain, Byte
    <3>2. <<Plain(At(i + 1))>> \in Seq(Byte)
      BY <3>1
    <3>3. PICK b : b = <<Plain(At(i + 1))>>
      OBVIOUS
    <3>4. Emit(b) /\ UNCHANGED <<signed, str, len>> /\ pc = "Loop" /\ b \in Seq(Byte)
      BY <1>4, <2>2, <3>2, <3>3 DEF Escape, Iterate
    <3> QED
      BY <2>1, <3>4, EmitType
  <2>3. CASE At(i + 1) \notin Known
    BY <1>4, <2>1, <2>3 DEF Escape, Iterate, DecodeTypeOK
  <2> QED
    BY <2>2, <2>3
<1>5. CASE Finish
  <2>1. alloc' \in [0 .. len - 1 -> 0 .. 255 \cup {Uninit}]
    <3>1. CASE io < len
      <4>1. io \in 0 .. len - 1
        BY <3>1 DEF DecodeTypeOK
      <4>2. alloc' = [alloc EXCEPT ![io] = 0]
        BY <1>5, <3>1 DEF Finish
      <4>3. 0 \in 0 .. 255 \cup {Uninit}
        OBVIOUS
      <4> QED
        BY <4>1, <4>2, <4>3 DEF DecodeTypeOK
    <3>2. CASE ~ io < len
      BY <1>5, <3>2 DEF Finish, DecodeTypeOK
    <3> QED
      BY <3>1, <3>2
  <2>2. pc' \in {"Idle", "Loop", "Done", "Undefined"}
    BY <1>5 DEF Finish
  <2> QED
    BY <1>5, <2>1, <2>2 DEF Finish, DecodeTypeOK
<1>6. CASE UNCHANGED decodeVars
  BY <1>6 DEF decodeVars, DecodeTypeOK
<1> QED
  BY <1>1, <1>2, <1>3, <1>4, <1>5, <1>6 DEF DecodeNext, DecodeStep

(* Every byte of the block is a byte or was not written, and the block has  *)
(* the size of the text, whatever the literals.                            *)
THEOREM DecodeTypeCorrect == DecodeSpec => []DecodeTypeOK
BY DecodeTypeInit, DecodeTypeNext, PTL DEF DecodeSpec

-----------------------------------------------------------------------------
(* The loop writes at or before the place it reads, before it once it has   *)
(* gone past an escape, and at the end of the text there is room for the    *)
(* terminator.                                                             *)
Behind ==
  /\ io <= i
  /\ (\E p \in 1 .. len - 1 : p <= i /\ str[p] = Backslash) => io < i
  /\ i >= len => io < len

Ended == len < Len(str) /\ str[len + 1] \in {34, 39}

DecodeInv ==
  /\ DecodeTypeOK
  /\ pc # "Idle" => Ended
  /\ Escaped /\ Complete => pc # "Undefined" /\ (pc = "Loop" => Behind)

LEMMA LetterStays ==
  ASSUME DecodeInv, Letter, Escaped, Complete
  PROVE  pc' = "Loop" /\ Behind'
<1>1. Behind /\ i < len /\ str[i + 1] # Backslash
  BY DEF DecodeInv, Letter, Iterate, At
<1>2. i \in Nat /\ io \in Nat /\ len \in Nat
  BY DEF DecodeInv, DecodeTypeOK
<1>3. io' = io + 1 /\ pc' = "Loop" /\ i' = i + 1 /\ str' = str /\ len' = len
  <2>1. Len(<<At(i)>>) = 1
    OBVIOUS
  <2>2. ~ io + 1 > len
    BY <1>1, <1>2 DEF Behind
  <2> QED
    BY <2>1, <2>2 DEF Letter, Iterate, Emit
<1>4. io' <= i'
  BY <1>1, <1>2, <1>3 DEF Behind
<1>5. ASSUME NEW p \in 1 .. len - 1, p <= i + 1, str[p] = Backslash
      PROVE  io + 1 < i + 1
  <2>1. p <= i
    BY <1>1, <1>2, <1>5
  <2> QED
    BY <1>1, <1>2, <1>5, <2>1 DEF Behind
<1>6. ASSUME i + 1 >= len
      PROVE  io + 1 < len
  <2>1. PICK p \in 1 .. len - 1 : str[p] = Backslash
    BY DEF Escaped
  <2>2. p <= i /\ i + 1 = len
    BY <1>1, <1>2, <1>6
  <2>3. io < i
    BY <1>1, <2>1, <2>2 DEF Behind
  <2> QED
    BY <1>2, <2>2, <2>3
<1> QED
  BY <1>3, <1>4, <1>5, <1>6 DEF Behind

LEMMA HexEscapeStays ==
  ASSUME DecodeInv, HexEscape, Escaped, Complete
  PROVE  pc' = "Loop" /\ Behind'
<1>1. Behind /\ Ended /\ i < len /\ str[i + 1] = Backslash /\ str[i + 2] = 117
  BY DEF DecodeInv, HexEscape, Iterate, At, DecodeTypeOK
<1>2. i \in Nat /\ io \in Nat /\ len \in Nat /\ Len(str) \in Nat
  BY DEF DecodeInv, DecodeTypeOK
<1>3. i + 6 <= len
  <2>1. i + 1 # len
    <3>1. ASSUME i + 1 = len
          PROVE  FALSE
      <4>1. i + 2 = len + 1
        BY <1>2, <3>1
      <4> QED
        BY <1>1, <4>1 DEF Ended
    <3> QED
      BY <3>1
  <2>2. i + 1 \in 1 .. len - 1
    BY <1>1, <1>2, <2>1
  <2>3. str[(i + 1) + 1] = 117
    BY <1>1, <1>2
  <2>4. (i + 1) + 5 <= len
    BY <1>1, <2>2, <2>3 DEF Complete
  <2> QED
    BY <1>2, <2>4
<1>4. i + 5 < Len(str)
  BY <1>1, <1>2, <1>3 DEF Ended
<1>5. PICK n \in 1 .. 4 : Len(Written(Unicode)) = n
  BY <1>4, WrittenUnicode DEF DecodeInv
<1>6. io + n <= i + 4 /\ io + n < len
  BY <1>1, <1>2, <1>3 DEF Behind
<1>7. /\ io' = io + n /\ pc' = "Loop"
      /\ i' = i + 6 /\ str' = str /\ len' = len
  <2>1. ~ io + n > len
    BY <1>2, <1>6
  <2> QED
    BY <1>4, <1>5, <2>1 DEF HexEscape, Iterate, Emit
<1>8. io' \in Nat /\ io' <= i + 4 /\ io' < len
  BY <1>2, <1>6, <1>7
<1> QED
  BY <1>2, <1>7, <1>8 DEF Behind

LEMMA EscapeStays ==
  ASSUME DecodeInv, Escape, Escaped, Complete
  PROVE  pc' = "Loop" /\ Behind'
<1>1. Behind /\ i < len /\ str[i + 1] = Backslash
  BY DEF DecodeInv, Escape, Iterate, At
<1>2. i \in Nat /\ io \in Nat /\ len \in Nat
  BY DEF DecodeInv, DecodeTypeOK
<1>3. io' = io + 1 /\ pc' = "Loop" /\ i' = i + 2 /\ str' = str /\ len' = len
  <2>1. Len(<<Plain(At(i + 1))>>) = 1
    OBVIOUS
  <2>2. ~ io + 1 > len
    BY <1>1, <1>2 DEF Behind
  <2> QED
    BY <2>1, <2>2 DEF Escape, Iterate, Emit
<1>4. io' < i'
  BY <1>1, <1>2, <1>3 DEF Behind
<1>5. ASSUME i + 2 >= len
      PROVE  io + 1 < len
  <2>1. PICK p \in 1 .. len - 1 : str[p] = Backslash
    BY DEF Escaped
  <2>2. CASE i + 2 = len
    BY <1>1, <1>2, <2>2 DEF Behind
  <2>3. CASE i + 1 = len
    <3>1. p <= i
      BY <1>2, <2>3
    <3>2. io < i
      BY <1>1, <2>1, <3>1 DEF Behind
    <3> QED
      BY <1>2, <2>3, <3>2
  <2> QED
    BY <1>1, <1>2, <1>5, <2>2, <2>3
<1> QED
  BY <1>2, <1>3, <1>4, <1>5 DEF Behind

LEMMA DecodeInvInit == DecodeInit => DecodeInv
BY DecodeTypeInit DEF DecodeInit, DecodeInv, Escaped

LEMMA DecodeInvNext ==
  ASSUME DecodeInv, [DecodeNext]_decodeVars
  PROVE  DecodeInv'
<1>0. DecodeTypeOK'
  BY DecodeTypeNext DEF DecodeInv
<1>1. CASE \E l \in Literals : Decode(l)
  <2>1. PICK l \in Literals : Decode(l)
    BY <1>1
  <2>2. l.len \in Nat /\ l.len < Len(l.str) /\ l.str[l.len + 1] \in {34, 39}
    BY DecodeAssumption DEF DecodeAssumption
  <2>3. Ended'
    BY <2>1, <2>2 DEF Decode, Ended
  <2>4. pc' = "Loop" /\ i' = 0 /\ io' = 0 /\ len' \in Nat
    BY <2>1, <2>2 DEF Decode
  <2>5. ASSUME Escaped'
        PROVE  Behind'
    <3>1. PICK n \in Nat : n = len'
      BY <2>4
    <3>2. PICK p \in 1 .. n - 1 : TRUE
      BY <2>5, <3>1 DEF Escaped
    <3>3. ~ 0 >= n
      OBVIOUS
    <3>4. ~ \E q \in 1 .. n - 1 : q <= 0
      OBVIOUS
    <3>5. io' <= i' /\ ~ i' >= len' /\ ~ \E q \in 1 .. len' - 1 : q <= i'
      <4>1. io' <= i'
        BY <2>4
      <4> QED
        BY <2>4, <3>1, <3>3, <3>4, <4>1
    <3> QED
      BY <3>5 DEF Behind
  <2> QED
    BY <1>0, <2>3, <2>4, <2>5 DEF DecodeInv
<1>2. CASE DecodeStep
  <2>1. pc = "Loop" /\ UNCHANGED <<str, len>>
    BY <1>2 DEF DecodeStep, Letter, HexEscape, Escape, Finish, Iterate
  <2>2. Ended'
    BY <2>1 DEF DecodeInv, Ended
  <2>3. Escaped' = Escaped /\ Complete' = Complete
    BY <2>1 DEF Escaped, Complete
  <2>4. ASSUME Escaped, Complete
        PROVE  pc' # "Undefined" /\ (pc' = "Loop" => Behind')
    <3>1. CASE Finish
      BY <2>1, <2>4, <3>1 DEF Finish, DecodeInv, Behind
    <3> QED
      BY <1>2, <2>4, <3>1, LetterStays, HexEscapeStays, EscapeStays DEF DecodeStep
  <2> QED
    BY <1>0, <2>2, <2>3, <2>4 DEF DecodeInv
<1>3. CASE UNCHANGED decodeVars
  BY <1>3 DEF decodeVars, DecodeInv, DecodeTypeOK, Ended, Escaped, Complete, Behind
<1> QED
  BY <1>1, <1>2, <1>3 DEF DecodeNext

(* Decoding a text of complete escapes stays in the buffer and in the       *)
(* block, for every text and in both kinds of build: the block of as many   *)
(* bytes as the text has is enough for what is written and the terminator.  *)
THEOREM DecodeStaysInBlock == DecodeSpec => []StaysInBlock
<1>1. DecodeInv => StaysInBlock
  BY DEF DecodeInv, StaysInBlock
<1> QED
  BY <1>1, DecodeInvInit, DecodeInvNext, PTL DEF DecodeSpec
-----------------------------------------------------------------------------
LEMMA ByteIsNotJunk == \A b \in Byte : b # Junk
BY DEF Byte, Junk

(* Arithmetic.                                                             *)

LEMMA FieldWideEnough ==
  ASSUME NEW n \in Nat, NEW c \in Nat, n <= c
  PROVE  n % (c + 1) = n
BY SMTT(20)

LEMMA LessWellFounded ==
  \E R : IsWellFoundedOn(R, Nat) /\ \A x, y \in Nat : x < y => <<x, y>> \in R
<1> DEFINE R == OpToRel(<, Nat)
<1>1. IsWellFoundedOn(R, Nat)
  BY NatLessThanWellFounded
<1>2. \A x, y \in Nat : x < y => <<x, y>> \in R
  BY DEF OpToRel
<1> HIDE DEF R
<1> QED
  BY <1>1, <1>2, Zenon

(* A set of numbers has a smallest one.                                    *)
LEMMA Smallest ==
  ASSUME NEW T \in SUBSET Nat, T # {}
  PROVE  \E x \in T : \A y \in T : x <= y
<1>1. PICK R : IsWellFoundedOn(R, Nat) /\ \A x, y \in Nat : x < y => <<x, y>> \in R
  BY LessWellFounded, Zenon
<1>2. IsWellFoundedOn(R, Nat)
  BY <1>1, Zenon
<1>3. \A x, y \in Nat : x < y => <<x, y>> \in R
  BY <1>1, Zenon
<1>4. \E x \in T : \A y \in T : ~ (<<y, x>> \in R)
  <2>1. T \subseteq Nat
    OBVIOUS
  <2> QED
    BY <1>2, <2>1, WFMin
<1>5. PICK x \in T : \A y \in T : ~ (<<y, x>> \in R)
  BY <1>4
<1>6. ASSUME NEW y \in T PROVE x <= y
  <2>1. x \in Nat /\ y \in Nat
    OBVIOUS
  <2>2. ~ (y < x)
    BY <1>3, <1>5, <2>1, Zenon
  <2> QED
    BY <2>1, <2>2
<1> QED
  BY <1>6

(* A set of numbers below a bound has a largest one.                       *)
LEMMA Largest ==
  ASSUME NEW n \in Nat, NEW T \in SUBSET (0 .. n), T # {}
  PROVE  \E x \in T : \A y \in T : x >= y
<1> DEFINE U == {m \in Nat : n - m \in T}
<1>1. U \in SUBSET Nat /\ U # {}
  <2>1. PICK y \in T : TRUE
    OBVIOUS
  <2>2. y \in 0 .. n /\ n - y \in Nat /\ n - (n - y) = y
    OBVIOUS
  <2> QED
    BY <2>2
<1>2. PICK u \in U : \A v \in U : u <= v
  BY <1>1, Smallest
<1>3. ASSUME NEW y \in T PROVE n - u >= y
  <2>1. y \in 0 .. n /\ n - y \in Nat /\ n - (n - y) = y
    OBVIOUS
  <2>2. u \in Nat /\ u <= n - y
    BY <1>2, <2>1
  <2> QED
    BY <2>1, <2>2
<1>4. n - u \in T
  BY <1>2
<1> QED
  BY <1>3, <1>4

(* A header of the type chosen is wide enough.                             *)
LEMMA CapTypes ==
  /\ \A t \in Types : Cap[t] \in Nat
  /\ Cap[0] < Cap[1] /\ Cap[1] < Cap[2] /\ Cap[2] < Cap[3] /\ Cap[3] < Cap[4]
<1>1. Cap \in [Types -> Nat] /\ \A t \in Types \ {4} : Cap[t] < Cap[t + 1]
  BY SdsAssumption
<1>2. \A t \in {0, 1, 2, 3} : Cap[t] < Cap[t + 1]
  BY <1>1 DEF Types
<1> QED
  BY <1>1, <1>2

LEMMA ReqTypeFits ==
  ASSUME NEW n \in Nat, n <= Cap[4]
  PROVE  ReqType(n) \in Types /\ n <= Cap[ReqType(n)]
BY CapTypes DEF ReqType, Types

-----------------------------------------------------------------------------
(* What the fields of a string hold.  Str is about the shape of the record, *)
(* Roomy says that the header does not promise more room than there is,     *)
(* Holds that both the block and the header have room for n, and Sound is   *)
(* what BlockSound says of a string but for its terminator.                *)

Str(x) ==
  /\ x = [type |-> x.type, len |-> x.len, alloc |-> x.alloc, room |-> x.room,
          buf |-> x.buf, over |-> x.over]
  /\ x.type \in Types /\ x.len \in Nat /\ x.alloc \in Nat /\ x.room \in Nat
  /\ x.buf \in [0 .. x.room -> Cell]
  /\ x.over \in BOOLEAN

Holds(x, n) == n <= x.room /\ n <= Cap[x.type] /\ (x.type # Type5 => n <= x.alloc)

Roomy(x) ==
  /\ Str(x) /\ ~ x.over
  /\ x.type # Type5 => x.alloc <= x.room /\ x.alloc <= Cap[x.type]

Sound(x) ==
  /\ Roomy(x) /\ Holds(x, x.len)
  /\ \A k \in 0 .. x.len - 1 : x.buf[k] # Junk

Terminated(x) == x.buf[x.len] = 0

(* What Text makes of the characters: x holds those of t, or of y.         *)
Spells(x, t) == x.len = Len(t) /\ \A k \in 1 .. Len(t) : x.buf[k - 1] = t[k]

Same(x, y) == y.len = x.len /\ \A k \in 0 .. x.len - 1 : y.buf[k] = x.buf[k]

(* y is x with the bytes t at a place, which end it.                       *)
EndsIn(x, at, t, y) ==
  /\ y.len = at + Len(t)
  /\ \A k \in 0 .. at - 1 : y.buf[k] = x.buf[k]
  /\ \A k \in at .. at + Len(t) - 1 : y.buf[k] = t[k - at + 1]

LEMMA SetLenFields ==
  ASSUME NEW x, Str(x), NEW n \in Nat, n <= Cap[x.type], NEW y, y = SetLen(x, n)
  PROVE  /\ Str(y)
         /\ y.type = x.type /\ y.len = n /\ y.alloc = x.alloc /\ y.room = x.room /\ y.over = x.over
         /\ \A k \in 0 .. x.room : y.buf[k] = IF k <= n THEN x.buf[k] ELSE Junk
<1>1. n % (Cap[x.type] + 1) = n
  BY FieldWideEnough, CapTypes DEF Str
<1>2. y = [type |-> x.type, len |-> n, alloc |-> x.alloc, room |-> x.room,
           buf |-> [k \in 0 .. x.room |-> IF k <= n THEN x.buf[k] ELSE Junk], over |-> x.over]
  BY <1>1 DEF SetLen, Str
<1>3. \A k \in 0 .. x.room : x.buf[k] \in Cell
  BY DEF Str
<1> QED
  BY <1>2, <1>3 DEF Str, Cell

LEMMA PutRecord ==
  ASSUME NEW x, Str(x), NEW at \in Nat, NEW t \in Seq(Byte), ~ (at + Len(t) > x.room + 1),
         NEW y, y = Put(x, at, t)
  PROVE  y =
           [type |-> x.type, len |-> x.len, alloc |-> x.alloc, room |-> x.room,
            buf |-> [k \in 0 .. x.room |-> IF k \in at .. at + Len(t) - 1 THEN t[k - at + 1]
                                           ELSE x.buf[k]],
            over |-> x.over]
BY DEF Put, Str

(* y is x with the bytes t at a place.                                     *)
Placed(x, at, t, y) ==
  /\ Str(y)
  /\ y.type = x.type /\ y.len = x.len /\ y.alloc = x.alloc /\ y.room = x.room
  /\ y.over = x.over
  /\ \A k \in at .. at + Len(t) - 1 : y.buf[k] = t[k - at + 1] /\ y.buf[k] \in Byte
  /\ \A k \in 0 .. x.room : k < at \/ at + Len(t) <= k => y.buf[k] = x.buf[k]

LEMMA PutFields ==
  ASSUME NEW x, Str(x), NEW at \in Nat, NEW t \in Seq(Byte), at + Len(t) <= x.room + 1,
         NEW y, y = Put(x, at, t)
  PROVE  Placed(x, at, t, y)
<1>1. ~ at + Len(t) > x.room + 1
  BY DEF Str
<1>2. y = [type |-> x.type, len |-> x.len, alloc |-> x.alloc, room |-> x.room,
           buf |-> [k \in 0 .. x.room |-> IF k \in at .. at + Len(t) - 1 THEN t[k - at + 1]
                                          ELSE x.buf[k]],
           over |-> x.over]
  BY <1>1, PutRecord
<1>3. \A k \in 0 .. x.room : x.buf[k] \in Cell
  BY DEF Str
<1>4. \A k \in at .. at + Len(t) - 1 : t[k - at + 1] \in Byte
  <2>1. ASSUME NEW k \in at .. at + Len(t) - 1 PROVE t[k - at + 1] \in Byte
    <3>1. k - at + 1 \in 1 .. Len(t)
      OBVIOUS
    <3> QED
      BY <3>1, ElementOfSeq
  <2> QED
    BY <2>1
<1>5. Str(y) /\ y.type = x.type /\ y.len = x.len /\ y.alloc = x.alloc /\ y.room = x.room /\ y.over = x.over
  <2>1. \A k \in 0 .. x.room : (IF k \in at .. at + Len(t) - 1 THEN t[k - at + 1] ELSE x.buf[k]) \in Cell
    BY <1>3, <1>4 DEF Cell
  <2> QED
    BY <1>2, <2>1 DEF Str
<1>6. \A k \in 0 .. x.room : y.buf[k] = IF k \in at .. at + Len(t) - 1 THEN t[k - at + 1] ELSE x.buf[k]
  BY <1>2
<1>7. x.room \in Nat /\ Len(t) \in Nat
  BY DEF Str
<1>8. \A k \in at .. at + Len(t) - 1 : y.buf[k] = t[k - at + 1] /\ y.buf[k] \in Byte
  BY <1>4, <1>6, <1>7
<1>9. \A k \in 0 .. x.room : k < at \/ at + Len(t) <= k => y.buf[k] = x.buf[k]
  BY <1>6, <1>7
<1> QED
  BY <1>5, <1>8, <1>9 DEF Placed

(* Two names for what a string has room for.                               *)
LEMMA SoundAlloc ==
  ASSUME NEW x, Sound(x)
  PROVE  /\ Alloc(x) \in Nat /\ x.len <= Alloc(x) /\ Alloc(x) <= x.room
         /\ \A n \in Nat : n <= Alloc(x) => Holds(x, n)
<1>1. Str(x) /\ Holds(x, x.len) /\ (x.type # Type5 => x.alloc <= x.room /\ x.alloc <= Cap[x.type])
  BY DEF Sound, Roomy
<1>2. PICK n, a, r, c : n = x.len /\ a = x.alloc /\ r = x.room /\ c = Cap[x.type]
  OBVIOUS
<1>3. n \in Nat /\ a \in Nat /\ r \in Nat /\ c \in Nat
  <2>1. x.type \in 0 .. 4
    BY <1>1 DEF Str, Types
  <2> QED
    BY <1>1, <1>2, <2>1, CapTypes DEF Str
<1>4. n <= r /\ n <= c /\ (x.type # Type5 => n <= a /\ a <= r /\ a <= c)
  BY <1>1, <1>2 DEF Holds
<1>5. Alloc(x) = IF x.type = Type5 THEN n ELSE a
  BY <1>2 DEF Alloc
<1>6. ASSUME NEW m \in Nat, m <= Alloc(x)
      PROVE  Holds(x, m)
  <2>1. m <= r /\ m <= c /\ (x.type # Type5 => m <= a)
    BY <1>3, <1>4, <1>5, <1>6
  <2> QED
    BY <1>2, <2>1 DEF Holds
<1> QED
  BY <1>2, <1>3, <1>4, <1>5, <1>6

(* The length of a block is set where everything before it was written.    *)
LEMMA SetLenSound ==
  ASSUME NEW x, Roomy(x), NEW n \in Nat, Holds(x, n), \A k \in 0 .. n - 1 : x.buf[k] # Junk,
         NEW y, y = SetLen(x, n)
  PROVE  /\ Sound(y) /\ y.len = n /\ y.type = x.type /\ y.room = x.room /\ y.alloc = x.alloc
         /\ x.buf[n] = 0 => Terminated(y)
         /\ \A k \in 0 .. n - 1 : y.buf[k] = x.buf[k]
<1>1. Str(x) /\ n <= Cap[x.type] /\ n <= x.room
  BY DEF Roomy, Holds
<1>2. /\ Str(y)
      /\ y.type = x.type /\ y.len = n /\ y.alloc = x.alloc /\ y.room = x.room /\ y.over = x.over
      /\ \A k \in 0 .. x.room : y.buf[k] = IF k <= n THEN x.buf[k] ELSE Junk
  BY <1>1, SetLenFields
<1>3. Roomy(y) /\ Holds(y, y.len)
  BY <1>2 DEF Roomy, Holds
<1>4. \A k \in 0 .. n : y.buf[k] = x.buf[k]
  BY <1>1, <1>2 DEF Str
<1>5. \A k \in 0 .. y.len - 1 : y.buf[k] # Junk
  BY <1>2, <1>4
<1> QED
  BY <1>2, <1>3, <1>4, <1>5 DEF Sound, Terminated

LEMMA PutRoomy ==
  ASSUME NEW x, Roomy(x), NEW at \in Nat, NEW t \in Seq(Byte), at + Len(t) <= x.room + 1,
         NEW y, y = Put(x, at, t)
  PROVE  Roomy(y) /\ Placed(x, at, t, y)
<1>1. Str(x)
  BY DEF Roomy
<1>2. Placed(x, at, t, y)
  BY <1>1, PutFields
<1> QED
  BY <1>2 DEF Roomy, Placed

(* A terminator is written into the block.                                 *)
LEMMA TerminateRoomy ==
  ASSUME NEW x, Roomy(x), NEW n \in 0 .. x.room, NEW y, y = Terminate(x, n)
  PROVE  /\ Roomy(y) /\ y.room = x.room /\ y.len = x.len
         /\ \A m : Holds(x, m) => Holds(y, m)
         /\ y.buf[n] = 0 /\ \A k \in 0 .. x.room \ {n} : y.buf[k] = x.buf[k]
<1>1. Str(x) /\ x.room \in Nat /\ n \in Nat
  BY DEF Roomy, Str
<1>2. Len(<<0>>) = 1 /\ (<<0>>)[1] = 0 /\ <<0>> \in Seq(Byte)
  BY DEF Byte
<1>3. ~ (n + Len(<<0>>) > x.room + 1)
  BY <1>1, <1>2
<1>4. [k \in 0 .. x.room |-> IF k \in n .. n + Len(<<0>>) - 1
                             THEN (<<0>>)[k - n + 1] ELSE x.buf[k]]
        = [k \in 0 .. x.room |-> IF k = n THEN 0 ELSE x.buf[k]]
  BY <1>1, <1>2
<1>5. y = [type |-> x.type, len |-> x.len, alloc |-> x.alloc, room |-> x.room,
           buf |-> [k \in 0 .. x.room |-> IF k = n THEN 0 ELSE x.buf[k]], over |-> x.over]
  <2>1. y = Put(x, n, <<0>>)
    BY DEF Terminate
  <2>2. PICK b : b = <<0>>
    OBVIOUS
  <2>3. b \in Seq(Byte) /\ ~ (n + Len(b) > x.room + 1) /\ y = Put(x, n, b) /\ Str(x) /\ n \in Nat
    BY <1>1, <1>2, <1>3, <2>1, <2>2, Zenon
  <2>4. y = [type |-> x.type, len |-> x.len, alloc |-> x.alloc, room |-> x.room,
             buf |-> [k \in 0 .. x.room |-> IF k \in n .. n + Len(b) - 1
                                            THEN b[k - n + 1] ELSE x.buf[k]],
             over |-> x.over]
    BY <2>3 DEF Put, Str
  <2> QED
    BY <1>4, <2>2, <2>4, Zenon
<1>6. \A k \in 0 .. x.room : x.buf[k] \in Cell
  BY <1>1 DEF Str
<1>7. Str(y)
  BY <1>1, <1>5, <1>6 DEF Str, Cell, Byte
<1>8. \A k \in 0 .. x.room : y.buf[k] = IF k = n THEN 0 ELSE x.buf[k]
  BY <1>5
<1> QED
  BY <1>5, <1>7, <1>8 DEF Roomy, Holds

-----------------------------------------------------------------------------
(* The three orders in which the calls write, terminate and set the length. *)

LEMMA TerminateSound ==
  ASSUME NEW x, Sound(x), NEW y, y = Terminate(x, x.len)
  PROVE  Sound(y) /\ Terminated(y) /\ y.len = x.len /\ Same(x, y)
<1>1. Roomy(x) /\ Holds(x, x.len) /\ x.len \in 0 .. x.room
  BY DEF Sound, Roomy, Str, Holds
<1>2. /\ Roomy(y) /\ y.room = x.room /\ y.len = x.len
      /\ \A m : Holds(x, m) => Holds(y, m)
      /\ y.buf[x.len] = 0 /\ \A k \in 0 .. x.room \ {x.len} : y.buf[k] = x.buf[k]
  BY <1>1, TerminateRoomy
<1>3. ASSUME NEW k \in 0 .. x.len - 1 PROVE y.buf[k] = x.buf[k]
  <2>1. x.len \in Nat /\ x.room \in Nat /\ x.len <= x.room
    BY <1>1 DEF Roomy, Str, Holds
  <2>2. k \in 0 .. x.room \ {x.len}
    BY <1>2, <2>1
  <2> QED
    BY <1>2, <2>2
<1>4. \A k \in 0 .. y.len - 1 : y.buf[k] # Junk
  BY <1>2, <1>3 DEF Sound
<1> QED
  BY <1>1, <1>2, <1>3, <1>4 DEF Sound, Terminated, Same

LEMMA WriteSetTerminate ==
  ASSUME NEW x, Sound(x), NEW at \in 0 .. x.len, NEW t \in Seq(Byte), Holds(x, at + Len(t)),
         NEW y, y = SetLen(Put(x, at, t), at + Len(t)), NEW z, z = Terminate(y, at + Len(t))
  PROVE  /\ Sound(y) /\ y.len = at + Len(t)
         /\ Sound(z) /\ Terminated(z) /\ z.len = at + Len(t) /\ Same(y, z)
         /\ EndsIn(x, at, t, y)
<1> DEFINE n == at + Len(t)
<1>1. PICK w : w = Put(x, at, t)
  OBVIOUS
<1>2. Roomy(x) /\ at \in Nat /\ n \in Nat /\ n <= x.room /\ n <= x.room + 1 /\ x.room \in Nat
  BY DEF Sound, Roomy, Str, Holds
<1>3. /\ Roomy(w) /\ Holds(w, n)
      /\ \A k \in at .. n - 1 : w.buf[k] # Junk /\ w.buf[k] = t[k - at + 1]
      /\ \A k \in 0 .. x.room : k < at \/ n <= k => w.buf[k] = x.buf[k]
  <2>1. w = Put(x, at, t) /\ at \in Nat /\ t \in Seq(Byte) /\ at + Len(t) <= x.room + 1
    BY <1>1, <1>2
  <2>2. Roomy(w) /\ Placed(x, at, t, w)
    BY <1>2, <2>1, PutRoomy
  <2>3. Holds(w, n)
    BY <2>2 DEF Placed, Holds
  <2>4. /\ \A k \in at .. n - 1 : w.buf[k] = t[k - at + 1] /\ w.buf[k] \in Byte
        /\ \A k \in 0 .. x.room : k < at \/ n <= k => w.buf[k] = x.buf[k]
    BY <2>2 DEF Placed
  <2>5. \A k \in at .. n - 1 : w.buf[k] # Junk
    BY <2>4, ByteIsNotJunk
  <2> QED
    BY <2>2, <2>3, <2>4, <2>5
<1>4. ASSUME NEW k \in 0 .. n - 1 PROVE w.buf[k] # Junk
  <2>1. CASE k >= at
    BY <1>3, <2>1
  <2>2. CASE k < at
    <3>1. k \in 0 .. x.len - 1 /\ k \in 0 .. x.room
      BY <1>2, <2>2 DEF Sound, Str, Roomy
    <3> QED
      BY <1>3, <2>2, <3>1 DEF Sound
  <2> QED
    BY <2>1, <2>2
<1>5. Sound(y) /\ y.len = n /\ \A k \in 0 .. n - 1 : y.buf[k] = w.buf[k]
  <2>1. y = SetLen(w, n) /\ \A k \in 0 .. n - 1 : w.buf[k] # Junk
    BY <1>1, <1>4
  <2>2. n \in Nat /\ Roomy(w) /\ Holds(w, n)
    BY <1>2, <1>3
  <2> HIDE DEF n
  <2> QED
    BY <2>1, <2>2, SetLenSound
<1>6. Sound(z) /\ Terminated(z) /\ z.len = n /\ Same(y, z)
  BY <1>5, TerminateSound
<1>7. ASSUME NEW k \in 0 .. at - 1 PROVE y.buf[k] = x.buf[k]
  <2>1. k \in 0 .. n - 1 /\ k \in 0 .. x.room /\ k < at
    BY <1>2
  <2> QED
    BY <1>3, <1>5, <2>1
<1>8. ASSUME NEW k \in at .. at + Len(t) - 1 PROVE y.buf[k] = t[k - at + 1]
  <2>1. k \in at .. n - 1 /\ k \in 0 .. n - 1
    BY <1>2
  <2> QED
    BY <1>3, <1>5, <2>1
<1>9. EndsIn(x, at, t, y)
  BY <1>5, <1>7, <1>8 DEF EndsIn
<1> QED
  BY <1>5, <1>6, <1>9

LEMMA WriteTerminateSet ==
  ASSUME NEW x, Sound(x), NEW t \in Seq(Byte), Holds(x, Len(t)),
         NEW y, y = SetLen(Terminate(Put(x, 0, t), Len(t)), Len(t))
  PROVE  Sound(y) /\ Terminated(y) /\ y.len = Len(t) /\ Spells(y, t)
<1> DEFINE n == Len(t)
<1>1. PICK w, v : w = Put(x, 0, t) /\ v = Terminate(w, n)
  OBVIOUS
<1>2. Roomy(x) /\ 0 \in Nat /\ n \in Nat /\ n <= x.room /\ x.room \in Nat /\ 0 + n <= x.room + 1
  BY DEF Sound, Roomy, Str, Holds
<1>3. /\ Roomy(w) /\ Holds(w, n) /\ w.room = x.room
      /\ \A k \in 0 .. 0 + n - 1 : w.buf[k] # Junk /\ w.buf[k] = t[k - 0 + 1]
  <2>1. w = Put(x, 0, t) /\ t \in Seq(Byte) /\ 0 + Len(t) <= x.room + 1
    BY <1>1, <1>2
  <2>2. Roomy(w) /\ Placed(x, 0, t, w)
    BY <1>2, <2>1, PutRoomy
  <2> QED
    BY <2>2, ByteIsNotJunk DEF Placed, Holds
<1>4. n \in 0 .. w.room
  BY <1>2, <1>3
<1>5. /\ Roomy(v) /\ Holds(v, n) /\ v.buf[n] = 0
      /\ \A k \in 0 .. w.room \ {n} : v.buf[k] = w.buf[k]
  BY <1>1, <1>3, <1>4, TerminateRoomy
<1>6. ASSUME NEW k \in 0 .. n - 1 PROVE v.buf[k] # Junk /\ v.buf[k] = t[k + 1]
  <2>1. k \in 0 .. 0 + n - 1 /\ k \in 0 .. w.room \ {n} /\ k - 0 + 1 = k + 1
    BY <1>2, <1>3
  <2> QED
    BY <1>3, <1>5, <2>1
<1>7. Sound(y) /\ Terminated(y) /\ y.len = n /\ \A k \in 0 .. n - 1 : y.buf[k] = v.buf[k]
  BY <1>1, <1>2, <1>5, <1>6, SetLenSound
<1>8. ASSUME NEW k \in 1 .. n PROVE y.buf[k - 1] = t[k]
  <2>1. k - 1 \in 0 .. n - 1 /\ (k - 1) + 1 = k
    BY <1>2
  <2> QED
    BY <1>6, <1>7, <2>1
<1> QED
  BY <1>7, <1>8 DEF Spells

-----------------------------------------------------------------------------
(* A block moves.                                                          *)

LEMMA BlockFields ==
  ASSUME NEW x, Str(x), ~ x.over, x.len <= x.room, NEW type \in Types, NEW room \in Nat,
         x.len <= room, x.len <= Cap[type], NEW y, y = Block(x, type, room)
  PROVE  /\ Str(y) /\ ~ y.over /\ y.type = type /\ y.len = x.len /\ y.room = room
         /\ \A k \in 0 .. x.len : y.buf[k] = x.buf[k]
<1>1. PICK w : w = [x EXCEPT !.type = type, !.room = room,
                             !.buf = [k \in 0 .. room |-> IF k <= x.len THEN x.buf[k] ELSE Junk],
                             !.over = @ \/ x.len > room]
  OBVIOUS
<1>2. x.len \in Nat /\ x.room \in Nat /\ ~ (x.len > room)
  BY DEF Str
<1>3. w = [type |-> type, len |-> x.len, alloc |-> x.alloc, room |-> room,
           buf |-> [k \in 0 .. room |-> IF k <= x.len THEN x.buf[k] ELSE Junk], over |-> x.over]
  BY <1>1, <1>2 DEF Str
<1>4. y = SetLen(w, x.len)
  BY <1>1, Zenon DEF Block
<1>5. \A k \in 0 .. x.len : x.buf[k] \in Cell
  BY <1>2 DEF Str
<1>6. Str(w) /\ ~ w.over
  BY <1>2, <1>3, <1>5 DEF Str, Cell
<1>7. /\ Str(y)
      /\ y.type = w.type /\ y.len = x.len /\ y.alloc = w.alloc /\ y.room = w.room /\ y.over = w.over
      /\ \A k \in 0 .. w.room : y.buf[k] = IF k <= x.len THEN w.buf[k] ELSE Junk
  <2>1. x.len <= Cap[w.type]
    BY <1>3
  <2> QED
    BY <1>2, <1>4, <1>6, <2>1, SetLenFields
<1>8. \A k \in 0 .. x.len : y.buf[k] = x.buf[k]
  BY <1>2, <1>3, <1>7
<1> QED
  BY <1>3, <1>6, <1>7, <1>8

LEMMA SetAllocFields ==
  ASSUME NEW x, Str(x), NEW n \in Nat, n <= Cap[x.type], NEW y, y = SetAlloc(x, n)
  PROVE  /\ Str(y) /\ y.type = x.type /\ y.len = x.len /\ y.room = x.room /\ y.over = x.over
         /\ y.buf = x.buf /\ y.alloc = IF x.type = Type5 THEN 0 ELSE n
<1>1. n % (Cap[x.type] + 1) = n
  BY FieldWideEnough, CapTypes DEF Str
<1>2. y = [type |-> x.type, len |-> x.len, alloc |-> IF x.type = Type5 THEN 0 ELSE n,
           room |-> x.room, buf |-> x.buf, over |-> x.over]
  BY <1>1 DEF SetAlloc, Str
<1> QED
  BY <1>2 DEF Str

(* A block with as much room as its header says.                           *)
LEMMA MoveSound ==
  ASSUME NEW x, Sound(x), NEW type \in Types, NEW room \in Nat, x.len <= room, room <= Cap[type],
         NEW y, y = SetAlloc(Block(x, type, room), room)
  PROVE  /\ Sound(y) /\ y.len = x.len /\ Holds(y, room) /\ Same(x, y)
         /\ Terminated(x) => Terminated(y)
<1>1. Str(x) /\ ~ x.over /\ x.len <= x.room /\ x.len \in Nat /\ x.len <= Cap[type]
  BY CapTypes DEF Sound, Roomy, Str, Holds
<1>2. PICK w : w = Block(x, type, room)
  OBVIOUS
<1>3. /\ Str(w) /\ ~ w.over /\ w.type = type /\ w.len = x.len /\ w.room = room
      /\ \A k \in 0 .. x.len : w.buf[k] = x.buf[k]
  BY <1>1, <1>2, BlockFields
<1>4. /\ Str(y) /\ y.type = w.type /\ y.len = w.len /\ y.room = w.room /\ y.over = w.over
      /\ y.buf = w.buf /\ y.alloc = IF w.type = Type5 THEN 0 ELSE room
  BY <1>2, <1>3, SetAllocFields
<1>5. Roomy(y) /\ Holds(y, room) /\ Holds(y, y.len)
  BY <1>1, <1>3, <1>4 DEF Roomy, Holds
<1>6. ASSUME NEW k \in 0 .. y.len - 1 PROVE y.buf[k] # Junk
  <2>1. k \in 0 .. x.len - 1 /\ k \in 0 .. x.len
    BY <1>1, <1>3, <1>4
  <2> QED
    BY <1>3, <1>4, <2>1 DEF Sound
<1>7. Same(x, y)
  BY <1>1, <1>3, <1>4 DEF Same
<1> QED
  BY <1>1, <1>3, <1>4, <1>5, <1>6, <1>7 DEF Sound, Terminated

(* What sdsMakeRoomFor promises to those who write into the room.           *)
LEMMA MakeRoomForSound ==
  ASSUME NEW x, Sound(x), NEW more \in Nat, x.len + more + MaxPrealloc <= Cap[4],
         NEW y, y = MakeRoomFor(x, more)
  PROVE  /\ Sound(y) /\ y.len = x.len /\ Holds(y, x.len + more) /\ Same(x, y)
         /\ Terminated(x) => Terminated(y)
<1>1. x.len \in Nat /\ Alloc(x) \in Nat /\ MaxPrealloc \in Nat /\ Cap[4] \in Nat
  <2>1. x.len \in Nat /\ Alloc(x) \in Nat
    BY SoundAlloc DEF Sound, Roomy, Str
  <2>2. MaxPrealloc \in Nat
    BY SdsAssumption
  <2>3. Cap[4] \in Nat
    BY CapTypes DEF Types
  <2> QED
    BY <2>1, <2>2, <2>3
<1>2. CASE Avail(x) >= more
  <2>1. y = x
    BY <1>2 DEF MakeRoomFor
  <2>2. x.len + more <= Alloc(x) /\ x.len + more \in Nat
    BY <1>1, <1>2 DEF Avail
  <2>3. Same(x, y)
    BY <2>1 DEF Same
  <2> QED
    BY <2>1, <2>2, <2>3, SoundAlloc
<1>3. CASE ~ (Avail(x) >= more)
  <2> DEFINE req  == x.len + more
             new  == IF req < MaxPrealloc THEN req * 2 ELSE req + MaxPrealloc
             type == IF ReqType(new) = Type5 THEN Type8 ELSE ReqType(new)
  <2>1. y = SetAlloc(Block(x, type, new), new)
    BY <1>3, Zenon DEF MakeRoomFor
  <2>2. req \in Nat /\ new \in Nat /\ new <= Cap[4] /\ req <= new /\ x.len <= new
    BY <1>1
  <2> HIDE DEF new, req
  <2>3. ReqType(new) \in Types /\ new <= Cap[ReqType(new)]
    BY <2>2, ReqTypeFits
  <2>4. type \in Types /\ new <= Cap[type]
    BY <2>2, <2>3, CapTypes DEF Types, Type5, Type8
  <2> HIDE DEF type
  <2>5. Sound(y) /\ y.len = x.len /\ Holds(y, new) /\ Same(x, y) /\ (Terminated(x) => Terminated(y))
    BY <2>1, <2>2, <2>4, MoveSound
  <2>6. Holds(y, req)
    <3>1. y.type \in Types /\ Cap[y.type] \in Nat /\ y.room \in Nat /\ y.alloc \in Nat
      BY <2>5, CapTypes DEF Sound, Roomy, Str
    <3> QED
      BY <2>2, <2>5, <3>1 DEF Holds
  <2> QED
    BY <2>5, <2>6 DEF req
<1> QED
  BY <1>2, <1>3

-----------------------------------------------------------------------------
(* The bytes a string stands for.                                          *)

LEMMA TextSeq ==
  ASSUME NEW x, Sound(x)
  PROVE  Text(x) \in Seq(Byte) /\ Len(Text(x)) = x.len /\ Spells(x, Text(x))
<1>1. x.len \in Nat /\ x.room \in Nat /\ x.len <= x.room
  BY DEF Sound, Roomy, Str, Holds
<1>2. ASSUME NEW k \in 1 .. x.len PROVE x.buf[k - 1] \in Byte
  <2>1. k - 1 \in 0 .. x.len - 1 /\ k - 1 \in 0 .. x.room
    BY <1>1
  <2>2. x.buf[k - 1] \in Cell /\ x.buf[k - 1] # Junk
    BY <2>1 DEF Sound, Roomy, Str
  <2> QED
    BY <2>2 DEF Cell
<1>3. PICK t : t = [k \in 1 .. x.len |-> x.buf[k - 1]]
  OBVIOUS
<1>4. t \in Seq(Byte) /\ Len(t) = x.len /\ \A k \in 1 .. x.len : t[k] = x.buf[k - 1]
  BY <1>1, <1>2, <1>3
<1>5. t = Text(x)
  BY <1>3 DEF Text
<1> QED
  BY <1>4, <1>5 DEF Spells

LEMMA SpellsText ==
  ASSUME NEW x, NEW t \in Seq(Byte), Spells(x, t)
  PROVE  Text(x) = t
<1>1. x.len = Len(t) /\ \A k \in 1 .. Len(t) : x.buf[k - 1] = t[k]
  BY DEF Spells
<1>2. Text(x) = [k \in 1 .. Len(t) |-> t[k]]
  BY <1>1 DEF Text
<1> QED
  BY <1>2

LEMMA SameText ==
  ASSUME NEW x, Sound(x), NEW y, Same(x, y)
  PROVE  Text(y) = Text(x)
<1>1. x.len \in Nat /\ y.len = x.len /\ \A k \in 0 .. x.len - 1 : y.buf[k] = x.buf[k]
  BY DEF Sound, Roomy, Str, Same
<1>2. \A k \in 1 .. x.len : y.buf[k - 1] = x.buf[k - 1]
  <2>1. \A k \in 1 .. x.len : k - 1 \in 0 .. x.len - 1
    BY <1>1
  <2> QED
    BY <1>1, <2>1
<1> QED
  BY <1>1, <1>2 DEF Text

(* Bytes written behind the last.                                          *)
LEMMA BehindText ==
  ASSUME NEW x, Sound(x), NEW r, Same(x, r), NEW t \in Seq(Byte), NEW y, EndsIn(r, x.len, t, y)
  PROVE  Text(y) = Text(x) \o t
<1>0. /\ y.len = x.len + Len(t)
      /\ \A k \in 0 .. x.len - 1 : y.buf[k] = r.buf[k]
      /\ \A k \in x.len .. x.len + Len(t) - 1 : y.buf[k] = t[k - x.len + 1]
  BY DEF EndsIn
<1>1. PICK u : u = Text(x)
  OBVIOUS
<1>2. u \in Seq(Byte) /\ Len(u) = x.len /\ \A k \in 1 .. Len(u) : x.buf[k - 1] = u[k]
  BY <1>1, TextSeq DEF Spells
<1>3. /\ u \o t \in Seq(Byte) /\ Len(u \o t) = Len(u) + Len(t)
      /\ \A k \in 1 .. Len(u) + Len(t) : (u \o t)[k] = IF k <= Len(u) THEN u[k] ELSE t[k - Len(u)]
  BY <1>2, ConcatProperties
<1>4. PICK n, m : n = Len(u) /\ m = Len(t)
  OBVIOUS
<1>5. n \in Nat /\ m \in Nat /\ x.len = n
  BY <1>2, <1>4
<1>6. ASSUME NEW k \in 1 .. n + m PROVE y.buf[k - 1] = (u \o t)[k]
  <2>1. CASE k <= n
    <3>1. k - 1 \in 0 .. x.len - 1 /\ k \in 1 .. Len(u)
      BY <1>4, <1>5, <2>1
    <3>2. y.buf[k - 1] = r.buf[k - 1]
      BY <1>0, <3>1
    <3>3. r.buf[k - 1] = x.buf[k - 1] /\ x.buf[k - 1] = u[k]
      BY <1>2, <3>1 DEF Same
    <3> QED
      BY <1>3, <1>4, <2>1, <3>2, <3>3
  <2>2. CASE ~ (k <= n)
    <3>1. k - 1 \in x.len .. x.len + Len(t) - 1 /\ (k - 1) - x.len + 1 = k - n
      BY <1>4, <1>5, <2>2
    <3>2. y.buf[k - 1] = t[k - n]
      BY <1>0, <3>1
    <3> QED
      BY <1>3, <1>4, <2>2, <3>2
  <2> QED
    BY <2>1, <2>2
<1>7. Spells(y, u \o t)
  <2>1. y.len = Len(u \o t) /\ Len(u \o t) = n + m
    BY <1>0, <1>3, <1>4, <1>5
  <2> QED
    BY <1>6, <2>1 DEF Spells
<1> QED
  BY <1>1, <1>3, <1>7, SpellsText

-----------------------------------------------------------------------------
(* The calls, one by one: the block stays sound, and what becomes of the    *)
(* bytes.                                                                  *)

LEMMA NewLenSound ==
  ASSUME NEW t \in Seq(Byte), Len(t) <= Cap[4], NEW y, y = NewLen(t)
  PROVE  Sound(y) /\ Terminated(y) /\ Text(y) = t
<1> DEFINE n    == Len(t)
           type == IF t = <<>> THEN Type8 ELSE ReqType(Len(t))
           new  == [type |-> type, len |-> 0, alloc |-> 0, room |-> Len(t),
                    buf |-> [k \in 0 .. Len(t) |-> Junk], over |-> FALSE]
<1>1. n \in Nat
  OBVIOUS
<1>2. type \in Types /\ n <= Cap[type]
  <2>1. ReqType(n) \in Types /\ n <= Cap[ReqType(n)]
    BY ReqTypeFits, <1>1
  <2>2. t = <<>> => n = 0
    OBVIOUS
  <2> QED
    BY <2>1, <2>2, CapTypes DEF Types, Type8
<1>3. PICK a, b, c : a = Put(new, 0, t) /\ b = SetLen(a, n) /\ c = SetAlloc(b, n)
  OBVIOUS
<1>4. y = Terminate(c, n)
  BY <1>3, Zenon DEF NewLen
<1> HIDE DEF type
<1>5. Str(new) /\ ~ new.over /\ new.type = type /\ new.room = n
  BY <1>1, <1>2 DEF Str, Cell
<1> HIDE DEF new
<1>6. /\ Str(a) /\ a.type = type /\ a.room = n /\ ~ a.over
      /\ \A k \in 0 .. 0 + n - 1 : a.buf[k] = t[k - 0 + 1] /\ a.buf[k] \in Byte
  <2>1. 0 + n <= new.room + 1 /\ 0 \in Nat
    BY <1>1, <1>5
  <2>2. Placed(new, 0, t, a)
    BY <1>3, <1>5, <2>1, PutFields
  <2> QED
    BY <1>5, <2>2 DEF Placed
<1> HIDE DEF n
<1>7. /\ Str(b) /\ b.type = type /\ b.room = n /\ ~ b.over /\ b.len = n
      /\ \A k \in 0 .. n : b.buf[k] = a.buf[k]
  <2>1. /\ Str(b)
        /\ b.type = a.type /\ b.len = n /\ b.alloc = a.alloc /\ b.room = a.room /\ b.over = a.over
        /\ \A k \in 0 .. a.room : b.buf[k] = IF k <= n THEN a.buf[k] ELSE Junk
    BY <1>1, <1>2, <1>3, <1>6, SetLenFields
  <2> QED
    BY <1>1, <1>6, <2>1
<1>8. /\ Str(c) /\ c.type = type /\ c.room = n /\ ~ c.over /\ c.len = n /\ c.buf = b.buf
      /\ c.alloc = IF type = Type5 THEN 0 ELSE n
  <2>1. /\ Str(c) /\ c.type = b.type /\ c.len = b.len /\ c.room = b.room /\ c.over = b.over
        /\ c.buf = b.buf /\ c.alloc = IF b.type = Type5 THEN 0 ELSE n
    BY <1>1, <1>2, <1>3, <1>7, SetAllocFields
  <2> QED
    BY <1>7, <2>1
<1>9. ASSUME NEW k \in 0 .. c.len - 1 PROVE c.buf[k] # Junk
  <2>1. k \in 0 .. 0 + n - 1 /\ k \in 0 .. n
    BY <1>1, <1>8
  <2> QED
    BY <1>6, <1>7, <1>8, <2>1, ByteIsNotJunk
<1>10. Sound(c)
  BY <1>1, <1>2, <1>8, <1>9 DEF Sound, Roomy, Holds
<1>11. ASSUME NEW k \in 1 .. n PROVE c.buf[k - 1] = t[k]
  <2>1. k - 1 \in 0 .. 0 + n - 1 /\ k - 1 \in 0 .. n /\ (k - 1) - 0 + 1 = k
    BY <1>1
  <2> QED
    BY <1>6, <1>7, <1>8, <2>1
<1>12. Spells(c, t)
  BY <1>8, <1>11 DEF Spells, n
<1>13. Sound(y) /\ Terminated(y) /\ Same(c, y)
  BY <1>4, <1>8, <1>10, TerminateSound
<1>14. Text(y) = Text(c) /\ Text(c) = t
  BY <1>10, <1>12, <1>13, SameText, SpellsText
<1> QED
  BY <1>13, <1>14

LEMMA CatLenSound ==
  ASSUME NEW x, Sound(x), NEW t \in Seq(Byte), x.len + Len(t) + MaxPrealloc <= Cap[4],
         NEW y, y = CatLen(x, t)
  PROVE  Sound(y) /\ Terminated(y) /\ Text(y) = Text(x) \o t
<1>1. PICK r, w : r = MakeRoomFor(x, Len(t)) /\ w = SetLen(Put(r, x.len, t), x.len + Len(t))
  OBVIOUS
<1>2. Sound(r) /\ r.len = x.len /\ Holds(r, x.len + Len(t)) /\ Same(x, r)
  BY <1>1, MakeRoomForSound
<1>3. PICK at : at = x.len
  OBVIOUS
<1>4. at \in 0 .. r.len
  BY <1>2, <1>3 DEF Sound, Roomy, Str
<1>5. w = SetLen(Put(r, at, t), at + Len(t)) /\ y = Terminate(w, at + Len(t))
  BY <1>1, <1>3, Zenon DEF CatLen
<1>6. /\ Sound(w) /\ w.len = at + Len(t) /\ Sound(y) /\ Terminated(y) /\ Same(w, y) /\ EndsIn(r, at, t, w)
  <2>1. Holds(r, at + Len(t))
    BY <1>2, <1>3 DEF Holds
  <2> QED
    BY <1>2, <1>4, <1>5, <2>1, WriteSetTerminate
<1>7. Text(w) = Text(x) \o t
  <2>1. EndsIn(r, x.len, t, w)
    BY <1>3, <1>6
  <2> QED
    BY <1>2, <2>1, BehindText
<1>8. Text(y) = Text(w)
  BY <1>6, SameText
<1> QED
  BY <1>6, <1>7, <1>8

LEMMA FillSound ==
  ASSUME NEW x, Sound(x), NEW t \in Seq(Byte), x.len + Len(t) + MaxPrealloc <= Cap[4],
         NEW y, y = Fill(x, t)
  PROVE  Sound(y) /\ Terminated(y) /\ Text(y) = Text(x) \o t
<1>1. PICK r, w : r = MakeRoomFor(x, Len(t)) /\ w = SetLen(Put(r, r.len, t), r.len + Len(t))
  OBVIOUS
<1>2. Sound(r) /\ r.len = x.len /\ Holds(r, x.len + Len(t)) /\ Same(x, r)
  BY <1>1, MakeRoomForSound
<1>3. PICK at : at = x.len
  OBVIOUS
<1>4. at \in 0 .. r.len /\ r.len = at
  BY <1>2, <1>3 DEF Sound, Roomy, Str
<1>5. w = SetLen(Put(r, at, t), at + Len(t)) /\ y = Terminate(w, w.len)
  BY <1>1, <1>4, Zenon DEF Fill
<1>6. /\ Sound(w) /\ w.len = at + Len(t) /\ EndsIn(r, at, t, w)
  <2>1. Holds(r, at + Len(t))
    BY <1>2, <1>3 DEF Holds
  <2> QED
    BY <1>2, <1>4, <1>5, <2>1, WriteSetTerminate
<1>7. Text(w) = Text(x) \o t
  <2>1. EndsIn(r, x.len, t, w)
    BY <1>3, <1>6
  <2> QED
    BY <1>2, <2>1, BehindText
<1>8. Sound(y) /\ Terminated(y) /\ Same(w, y)
  BY <1>5, <1>6, TerminateSound
<1>9. Text(y) = Text(w)
  BY <1>6, <1>8, SameText
<1> QED
  BY <1>7, <1>8, <1>9

LEMMA CpyLenSound ==
  ASSUME NEW x, Sound(x), NEW t \in Seq(Byte), Len(t) + MaxPrealloc <= Cap[4],
         NEW y, y = CpyLen(x, t)
  PROVE  Sound(y) /\ Terminated(y) /\ Text(y) = t
<1>1. PICK r : r = IF Alloc(x) < Len(t) THEN MakeRoomFor(x, Len(t) - x.len) ELSE x
  OBVIOUS
<1>2. x.len \in Nat /\ Alloc(x) \in Nat /\ x.len <= Alloc(x) /\ Len(t) \in Nat
  BY SoundAlloc DEF Sound, Roomy, Str
<1>3. Sound(r) /\ Holds(r, Len(t))
  <2>1. CASE Alloc(x) < Len(t)
    <3>1. Len(t) - x.len \in Nat /\ x.len + (Len(t) - x.len) = Len(t)
      BY <1>2, <2>1
    <3>2. r = MakeRoomFor(x, Len(t) - x.len)
      BY <1>1, <2>1
    <3>3. x.len + (Len(t) - x.len) + MaxPrealloc <= Cap[4]
      BY <3>1
    <3> QED
      BY <3>1, <3>2, <3>3, MakeRoomForSound
  <2>2. CASE ~ (Alloc(x) < Len(t))
    BY <1>1, <1>2, <2>2, SoundAlloc
  <2> QED
    BY <2>1, <2>2
<1>4. y = SetLen(Terminate(Put(r, 0, t), Len(t)), Len(t))
  BY <1>1, Zenon DEF CpyLen
<1>5. Sound(y) /\ Terminated(y) /\ Spells(y, t)
  BY <1>3, <1>4, WriteTerminateSet
<1> QED
  BY <1>5, SpellsText

LEMMA GrowZeroSound ==
  ASSUME NEW x, Sound(x), Terminated(x), NEW n \in Nat, n + MaxPrealloc <= Cap[4],
         NEW y, y = GrowZero(x, n)
  PROVE  Sound(y) /\ Terminated(y) /\ Text(y) = Text(x) \o Zeros(n - x.len)
<1>1. x.len \in Nat
  BY DEF Sound, Roomy, Str
<1>2. CASE n <= x.len
  <2>1. y = x
    BY <1>2 DEF GrowZero
  <2>2. Zeros(n - x.len) = <<>>
    BY <1>1, <1>2 DEF Zeros
  <2>3. Text(x) \o <<>> = Text(x)
    BY TextSeq, ConcatEmptySeq
  <2> QED
    BY <2>1, <2>2, <2>3
<1>3. CASE ~ (n <= x.len)
  <2>1. n - x.len \in Nat /\ x.len + (n - x.len) = n /\ n - x.len + 1 \in Nat
    BY <1>1, <1>3
  <2>2. PICK t : t = Zeros(n - x.len + 1)
    OBVIOUS
  <2>3. t \in Seq(Byte) /\ Len(t) = n - x.len + 1 /\ \A k \in 1 .. Len(t) : t[k] = 0
    <3>1. PICK m \in Nat : m = n - x.len + 1
      BY <2>1
    <3>2. t = [k \in 1 .. m |-> 0] /\ 0 \in Byte
      BY <2>2, <3>1 DEF Zeros, Byte
    <3>3. t \in Seq(Byte) /\ Len(t) = m /\ \A k \in 1 .. Len(t) : t[k] = 0
      BY <3>2
    <3> QED
      BY <3>1, <3>3
  <2>4. PICK r, w : r = MakeRoomFor(x, n - x.len) /\ w = Put(r, x.len, t)
    OBVIOUS
  <2>5. Sound(r) /\ r.len = x.len /\ Holds(r, n) /\ Roomy(r)
    <3>1. x.len + (n - x.len) + MaxPrealloc <= Cap[4]
      BY <2>1
    <3>2. Sound(r) /\ r.len = x.len /\ Holds(r, x.len + (n - x.len))
      BY <2>1, <2>4, <3>1, MakeRoomForSound
    <3> QED
      BY <2>1, <3>2 DEF Sound
  <2>6. r.room \in Nat /\ n <= r.room /\ x.len + Len(t) = n + 1 /\ x.len + Len(t) <= r.room + 1
    BY <1>1, <2>1, <2>3, <2>5 DEF Roomy, Str, Holds
  <2>7. /\ Roomy(w) /\ Holds(w, n)
        /\ \A k \in x.len .. n : w.buf[k] = t[k - x.len + 1] /\ w.buf[k] # Junk
        /\ \A k \in 0 .. r.room : k < x.len => w.buf[k] = r.buf[k]
    <3>0. PICK at : at = x.len
      OBVIOUS
    <3>1. Roomy(w) /\ Placed(r, at, t, w)
      <4>1. /\ Roomy(r) /\ at \in Nat /\ t \in Seq(Byte) /\ at + Len(t) <= r.room + 1
            /\ w = Put(r, at, t)
        BY <1>1, <2>3, <2>4, <2>5, <2>6, <3>0
      <4> QED
        BY <4>1, PutRoomy
    <3>2. at + Len(t) - 1 = n
      BY <2>6, <2>3, <1>1, <3>0
    <3> QED
      BY <2>5, <3>0, <3>1, <3>2, ByteIsNotJunk DEF Placed, Holds
  <2>8. w.buf[n] = 0
    <3>1. n \in x.len .. n /\ n - x.len + 1 \in 1 .. Len(t)
      BY <1>1, <1>3, <2>3
    <3> QED
      BY <2>3, <2>7, <3>1
  <2>9. ASSUME NEW k \in 0 .. n - 1 PROVE w.buf[k] # Junk
    <3>1. CASE k >= x.len
      <4>1. k \in x.len .. n
        BY <1>1, <3>1
      <4> QED
        BY <2>7, <4>1
    <3>2. CASE k < x.len
      <4>1. k \in 0 .. r.len - 1 /\ k \in 0 .. r.room
        BY <1>1, <2>5, <2>6, <3>2
      <4> QED
        BY <2>5, <2>7, <3>2, <4>1 DEF Sound
    <3> QED
      BY <1>1, <3>1, <3>2
  <2>10. y = SetLen(w, n)
    BY <1>3, <2>2, <2>4, Zenon DEF GrowZero
  <2>11. n \in Nat /\ Roomy(w) /\ Holds(w, n) /\ \A k \in 0 .. n - 1 : w.buf[k] # Junk
    BY <2>7, <2>9
  <2>12. /\ Sound(y) /\ y.len = n /\ (w.buf[n] = 0 => Terminated(y))
         /\ \A k \in 0 .. n - 1 : y.buf[k] = w.buf[k]
    BY <2>10, <2>11, SetLenSound
  <2>13. PICK z : z = Zeros(n - x.len)
    OBVIOUS
  <2>14. z \in Seq(Byte) /\ Len(z) = n - x.len /\ \A k \in 1 .. n - x.len : z[k] = 0
    <3>1. PICK m \in Nat : m = n - x.len
      BY <2>1
    <3>2. z = [k \in 1 .. m |-> 0] /\ 0 \in Byte
      BY <2>13, <3>1 DEF Zeros, Byte
    <3>3. z \in Seq(Byte) /\ Len(z) = m /\ \A k \in 1 .. m : z[k] = 0
      BY <3>2
    <3> QED
      BY <3>1, <3>3
  <2>15. ASSUME NEW k \in 0 .. x.len - 1 PROVE y.buf[k] = r.buf[k]
    <3>1. k \in 0 .. n - 1 /\ k \in 0 .. r.room /\ k < x.len
      BY <1>1, <1>3, <2>6
    <3> QED
      BY <2>7, <2>12, <3>1
  <2>16. ASSUME NEW k \in x.len .. n - 1 PROVE y.buf[k] = z[k - x.len + 1]
    <3>1. /\ k \in 0 .. n - 1 /\ k \in x.len .. n
          /\ k - x.len + 1 \in 1 .. Len(t) /\ k - x.len + 1 \in 1 .. n - x.len
      <4>1. k \in 0 .. n - 1 /\ k \in x.len .. n /\ k - x.len + 1 \in 1 .. n - x.len
        BY <1>1
      <4>2. k - x.len + 1 \in 1 .. n - x.len + 1
        BY <1>1
      <4>3. Len(t) = n - x.len + 1
        BY <2>3
      <4> QED
        BY <4>1, <4>2, <4>3
    <3>2. y.buf[k] = w.buf[k] /\ w.buf[k] = t[k - x.len + 1]
      BY <2>7, <2>12, <3>1
    <3>3. t[k - x.len + 1] = 0 /\ z[k - x.len + 1] = 0
      BY <2>3, <2>14, <3>1
    <3> QED
      BY <3>2, <3>3
  <2>17. Same(x, r)
    <3>1. x.len + (n - x.len) + MaxPrealloc <= Cap[4]
      BY <2>1
    <3> QED
      BY <2>1, <2>4, <3>1, MakeRoomForSound
  <2>18. Text(y) = Text(x) \o z
    <3>1. y.len = x.len + Len(z)
      BY <2>1, <2>12, <2>14
    <3>2. x.len + Len(z) - 1 = n - 1
      BY <1>1, <2>14
    <3>3. \A k \in x.len .. x.len + Len(z) - 1 : y.buf[k] = z[k - x.len + 1]
      BY <2>16, <3>2
    <3>4. EndsIn(r, x.len, z, y)
      BY <2>15, <3>1, <3>3 DEF EndsIn
    <3> QED
      BY <2>14, <2>17, <3>4, BehindText
  <2> QED
    BY <2>8, <2>12, <2>13, <2>18
<1> QED
  BY <1>2, <1>3

LEMMA RemoveFreeSpaceSound ==
  ASSUME NEW x, Sound(x), Terminated(x), NEW y, y = RemoveFreeSpace(x)
  PROVE  Sound(y) /\ Terminated(y) /\ Text(y) = Text(x)
<1>1. x.len \in Nat /\ x.type \in Types /\ x.len <= Cap[x.type] /\ x.len <= Cap[4]
  <2>1. x.len \in Nat /\ x.type \in Types /\ x.len <= Cap[x.type]
    BY DEF Sound, Roomy, Str, Holds
  <2>2. \A k \in 0 .. 4 : Cap[k] \in Nat /\ Cap[k] <= Cap[4]
    <3>1. Cap[0] \in Nat /\ Cap[1] \in Nat /\ Cap[2] \in Nat /\ Cap[3] \in Nat /\ Cap[4] \in Nat
      BY CapTypes DEF Types
    <3>2. Cap[0] <= Cap[4] /\ Cap[1] <= Cap[4] /\ Cap[2] <= Cap[4] /\ Cap[3] <= Cap[4]
      BY <3>1, CapTypes
    <3>3. \A k \in 0 .. 4 : k = 0 \/ k = 1 \/ k = 2 \/ k = 3 \/ k = 4
      OBVIOUS
    <3> QED
      BY <3>1, <3>2, <3>3
  <2>3. PICK c : c = Cap[x.type]
    OBVIOUS
  <2>4. c \in Nat /\ Cap[4] \in Nat /\ c <= Cap[4] /\ x.len <= c
    BY <2>1, <2>2, <2>3 DEF Types
  <2> QED
    BY <2>1, <2>4
<1>2. CASE Avail(x) = 0
  BY <1>2 DEF RemoveFreeSpace
<1>3. CASE Avail(x) # 0
  <2> DEFINE req  == ReqType(x.len)
             type == IF req > Type8 THEN x.type ELSE req
  <2>1. req \in Types /\ x.len <= Cap[req]
    BY <1>1, ReqTypeFits
  <2> HIDE DEF req
  <2>2. type \in Types /\ x.len <= Cap[type]
    BY <1>1, <2>1
  <2>3. y = SetAlloc(Block(x, type, x.len), x.len)
    BY <1>3, Zenon DEF RemoveFreeSpace, req
  <2> HIDE DEF type
  <2>4. Sound(y) /\ Terminated(y) /\ Same(x, y)
    BY <1>1, <2>2, <2>3, MoveSound
  <2> QED
    BY <2>4, SameText
<1> QED
  BY <1>2, <1>3

(* The first n bytes of a string.                                          *)
LEMMA FirstBytes ==
  ASSUME NEW x, Sound(x), NEW n \in 0 .. x.len, NEW y, y.len = n,
         \A k \in 0 .. n - 1 : y.buf[k] = x.buf[k]
  PROVE  Text(y) = SubSeq(Text(x), 1, n)
<1>1. PICK u : u = Text(x)
  OBVIOUS
<1>2. u \in Seq(Byte) /\ Len(u) = x.len /\ \A k \in 1 .. Len(u) : x.buf[k - 1] = u[k]
  BY <1>1, TextSeq DEF Spells
<1>3. x.len \in Nat /\ n \in Nat /\ n <= x.len
  BY DEF Sound, Roomy, Str
<1>4. PICK v : v = SubSeq(u, 1, n)
  OBVIOUS
<1>5. v \in Seq(Byte) /\ Len(v) = n /\ \A k \in 1 .. n : v[k] = u[k]
  <2>1. \A k \in 1 .. n : u[k] \in Byte
    BY <1>2, <1>3, ElementOfSeq
  <2>2. /\ v \in Seq(Byte) /\ Len(v) = (IF 1 <= n THEN n - 1 + 1 ELSE 0)
        /\ \A k \in 1 .. n - 1 + 1 : v[k] = u[1 + k - 1]
    BY <1>3, <1>4, <2>1, SubSeqProperties
  <2>3. n - 1 + 1 = n /\ \A k \in 1 .. n : 1 + k - 1 = k
    BY <1>3
  <2>4. Len(v) = n
    BY <1>3, <2>2
  <2> QED
    BY <2>2, <2>3, <2>4
<1>6. ASSUME NEW k \in 1 .. n PROVE y.buf[k - 1] = v[k]
  <2>1. k - 1 \in 0 .. n - 1 /\ k \in 1 .. Len(u)
    BY <1>2, <1>3
  <2> QED
    BY <1>2, <1>5, <2>1
<1>7. Spells(y, v)
  BY <1>5, <1>6 DEF Spells
<1> QED
  BY <1>1, <1>4, <1>5, <1>7, SpellsText

LEMMA CutSound ==
  ASSUME NEW x, Sound(x), NEW n \in 0 .. x.len, NEW y, y = Cut(x, n)
  PROVE  Sound(y) /\ Terminated(y) /\ Text(y) = SubSeq(Text(x), 1, n)
<1>1. x.len \in Nat /\ n \in Nat /\ n <= x.len
  BY DEF Sound, Roomy, Str
<1>2. Roomy(x) /\ Holds(x, n)
  BY <1>1, CapTypes DEF Sound, Roomy, Str, Holds
<1>3. \A k \in 0 .. n - 1 : x.buf[k] # Junk
  BY <1>1 DEF Sound
<1>4. PICK w : w = SetLen(x, n)
  OBVIOUS
<1>5. Sound(w) /\ w.len = n /\ \A k \in 0 .. n - 1 : w.buf[k] = x.buf[k]
  BY <1>1, <1>2, <1>3, <1>4, SetLenSound
<1>6. y = Terminate(w, n)
  BY <1>4, Zenon DEF Cut
<1>7. Sound(y) /\ Terminated(y) /\ Same(w, y)
  BY <1>5, <1>6, TerminateSound
<1>8. Text(y) = Text(w) /\ Text(w) = SubSeq(Text(x), 1, n)
  BY <1>5, <1>7, SameText, FirstBytes
<1> QED
  BY <1>7, <1>8

(* The first zero is at n, which may be the terminator.                    *)
FirstZero(x, n) == n \in 0 .. x.len /\ x.buf[n] = 0 /\ \A k \in 0 .. n - 1 : x.buf[k] # 0

LEMMA UpdateLenSound ==
  ASSUME NEW x, Sound(x), Terminated(x), NEW y, y = UpdateLen(x)
  PROVE  /\ Sound(y) /\ Terminated(y)
         /\ \E n : FirstZero(x, n) /\ Text(y) = SubSeq(Text(x), 1, n)
<1>1. x.len \in Nat /\ x.room \in Nat /\ x.len <= x.room
  BY DEF Sound, Roomy, Str, Holds
<1> DEFINE Zero(n) == x.buf[n] = 0 /\ \A k \in 0 .. n - 1 : x.buf[k] # 0
           T == {n \in 0 .. x.room : x.buf[n] = 0}
<1>2. \E n \in 0 .. x.room : Zero(n)
  <2>1. T \in SUBSET Nat /\ x.len \in T
    BY <1>1 DEF Terminated
  <2>2. PICK n \in T : \A m \in T : n <= m
    BY <2>1, Smallest
  <2>3. ASSUME NEW k \in 0 .. n - 1 PROVE x.buf[k] # 0
    <3>1. n \in Nat /\ n <= x.room
      BY <1>1
    <3>2. k \in 0 .. x.room /\ ~ (n <= k)
      BY <1>1, <3>1
    <3> QED
      BY <2>2, <3>2
  <2> QED
    BY <2>2, <2>3
<1>3. PICK n : n = CHOOSE m \in 0 .. x.room : Zero(m)
  OBVIOUS
<1>4. n \in 0 .. x.room /\ Zero(n)
  BY <1>2, <1>3
<1>5. n <= x.len
  BY <1>1, <1>4 DEF Terminated
<1>6. Roomy(x) /\ Holds(x, n) /\ n \in Nat
  BY <1>1, <1>4, <1>5, CapTypes DEF Sound, Roomy, Str, Holds
<1>7. \A k \in 0 .. n - 1 : x.buf[k] # Junk
  BY <1>1, <1>5, <1>6 DEF Sound
<1>8. y = SetLen(x, n)
  BY <1>3, Zenon DEF UpdateLen
<1>9. Sound(y) /\ Terminated(y) /\ y.len = n /\ \A k \in 0 .. n - 1 : y.buf[k] = x.buf[k]
  BY <1>4, <1>6, <1>7, <1>8, SetLenSound
<1>10. n \in 0 .. x.len
  BY <1>1, <1>4, <1>5
<1>11. FirstZero(x, n)
  BY <1>4, <1>10 DEF FirstZero
<1>12. Text(y) = SubSeq(Text(x), 1, n)
  BY <1>9, <1>10, FirstBytes
<1> QED
  BY <1>9, <1>11, <1>12

(* sdsupdatelen drops the first zero byte and what is behind it.            *)
LEMMA UpdateLenText ==
  ASSUME Sound(s), Terminated(s), NEW y, y = UpdateLen(s)
  PROVE  Text(y) = String!UpToZero
<1>1. PICK n : FirstZero(s, n) /\ Text(y) = SubSeq(Text(s), 1, n)
  BY UpdateLenSound
<1>2. PICK u : u = Text(s)
  OBVIOUS
<1>3. u \in Seq(Byte) /\ Len(u) = s.len /\ \A k \in 1 .. Len(u) : s.buf[k - 1] = u[k]
  BY <1>2, TextSeq DEF Spells
<1>4. PICK m : m = Len(u)
  OBVIOUS
<1>5. m \in Nat /\ n \in 0 .. m /\ (n < m => u[n + 1] = 0) /\ \A k \in 1 .. n : u[k] # 0
  <2>1. n \in 0 .. m /\ m \in Nat /\ s.buf[n] = 0 /\ \A k \in 0 .. n - 1 : s.buf[k] # 0
    BY <1>1, <1>3, <1>4 DEF FirstZero
  <2>2. n < m => u[n + 1] = 0
    <3>1. n < m => n + 1 \in 1 .. Len(u) /\ (n + 1) - 1 = n
      BY <1>4, <2>1
    <3> QED
      BY <1>3, <2>1, <3>1
  <2>3. ASSUME NEW k \in 1 .. n PROVE u[k] # 0
    <3>1. k \in 1 .. Len(u) /\ k - 1 \in 0 .. n - 1
      BY <1>4, <2>1
    <3> QED
      BY <1>3, <2>1, <3>1
  <2> QED
    BY <2>1, <2>2, <2>3
<1> DEFINE Zero(k) == Text(s)[k] = 0 /\ \A j \in 1 .. k - 1 : Text(s)[j] # 0
<1>6. String!UpToZero =
        IF \E k \in 1 .. Len(Text(s)) : Text(s)[k] = 0
        THEN SubSeq(Text(s), 1, (CHOOSE k \in 1 .. Len(Text(s)) : Zero(k)) - 1) ELSE Text(s)
  BY Zenon DEF String!UpToZero
<1>7. CASE n < m
  <2>1. n + 1 \in 1 .. Len(u) /\ Zero(n + 1)
    <3>1. (n + 1) - 1 = n /\ n + 1 \in 1 .. Len(u)
      BY <1>4, <1>5, <1>7
    <3> QED
      BY <1>2, <1>5, <1>7, <3>1
  <2>2. PICK c : c = CHOOSE k \in 1 .. Len(Text(s)) : Zero(k)
    OBVIOUS
  <2>3. c \in 1 .. Len(u) /\ Zero(c)
    BY <1>2, <2>1, <2>2
  <2>4. c = n + 1
    <3>1. c \in Nat /\ n \in Nat /\ 1 <= c
      BY <1>5, <2>3
    <3>2. ~ (c < n + 1)
      <4>1. c < n + 1 => c \in 1 .. n
        BY <3>1
      <4> QED
        BY <1>2, <1>5, <2>3, <4>1
    <3>3. ~ (n + 1 < c)
      <4>1. n + 1 < c => n + 1 \in 1 .. c - 1
        BY <3>1
      <4> QED
        BY <1>2, <1>5, <1>7, <2>3, <4>1
    <3> QED
      BY <3>1, <3>2, <3>3
  <2>5. c - 1 = n
    BY <1>5, <2>4
  <2>6. \E k \in 1 .. Len(Text(s)) : Text(s)[k] = 0
    BY <1>2, <2>1
  <2>7. String!UpToZero = SubSeq(Text(s), 1, c - 1)
    BY <1>6, <2>2, <2>6, Zenon
  <2> QED
    BY <1>1, <1>2, <2>5, <2>7
<1>8. CASE ~ (n < m)
  <2>1. n = m
    BY <1>5, <1>8
  <2>2. ~ \E k \in 1 .. Len(Text(s)) : Text(s)[k] = 0
    BY <1>2, <1>4, <1>5, <2>1
  <2>3. String!UpToZero = Text(s)
    BY <1>6, <2>2, Zenon
  <2>4. SubSeq(u, 1, Len(u)) = u
    BY <1>3, SubSeqFull
  <2> QED
    BY <1>1, <1>2, <1>4, <2>1, <2>3, <2>4
<1> QED
  BY <1>7, <1>8

Kept(x, from, n) == [k \in 1 .. n |-> x.buf[from + k - 1]]

LEMMA KeepSound ==
  ASSUME NEW x, Sound(x), NEW from \in Nat, NEW n \in 0 .. x.len, n = 0 \/ from + n <= x.len,
         NEW y, y = Keep(x, from, n)
  PROVE  Sound(y) /\ Terminated(y) /\ Text(y) = Kept(x, from, n)
<1>1. x.len \in Nat /\ n \in Nat /\ x.room \in Nat /\ x.len <= x.room
  BY DEF Sound, Roomy, Str, Holds
<1>2. PICK t : t = [k \in 1 .. n |-> x.buf[from + k - 1]]
  OBVIOUS
<1>3. \A k \in 1 .. n : x.buf[from + k - 1] \in Byte
  <2>1. ASSUME NEW k \in 1 .. n PROVE x.buf[from + k - 1] \in Byte
    <3>1. from + k - 1 \in 0 .. x.len - 1 /\ from + k - 1 \in 0 .. x.room
      BY <1>1
    <3>2. x.buf[from + k - 1] \in Cell /\ x.buf[from + k - 1] # Junk
      BY <3>1 DEF Sound, Roomy, Str
    <3> QED
      BY <3>2 DEF Cell
  <2> QED
    BY <2>1
<1>4. t \in Seq(Byte) /\ Len(t) = n
  BY <1>1, <1>2, <1>3
<1>5. Holds(x, Len(t))
  BY <1>1, <1>4, CapTypes DEF Sound, Roomy, Str, Holds
<1>6. y = SetLen(Terminate(Put(x, 0, t), Len(t)), Len(t))
  BY <1>2, <1>4, Zenon DEF Keep
<1>7. Sound(y) /\ Terminated(y) /\ Spells(y, t)
  BY <1>4, <1>5, <1>6, WriteTerminateSet
<1> QED
  BY <1>2, <1>4, <1>7, SpellsText DEF Kept

(* sdsrange keeps the characters from one place to the other.               *)
LEMMA SubRangeSound ==
  ASSUME Sound(s), Terminated(s), NEW from \in Int, NEW to \in Int,
         NEW y, y = SubRange(s, from, to)
  PROVE  Sound(y) /\ Terminated(y) /\ Text(y) = String!Effect("range", <<from, to>>)
<1>1. PICK u, m : u = Text(s) /\ m = s.len
  OBVIOUS
<1>2. u \in Seq(Byte) /\ Len(u) = m /\ m \in Nat /\ \A k \in 1 .. m : s.buf[k - 1] = u[k]
  BY <1>1, TextSeq DEF Spells, Sound, Roomy, Str
<1> DEFINE fromEnd(k) == IF k >= 0 THEN k ELSE IF m + k < 0 THEN 0 ELSE m + k
           a == fromEnd(from)
           b == fromEnd(to)
           n == IF a > b \/ a >= m THEN 0 ELSE IF b >= m THEN m - a ELSE b - a + 1
           e == IF m < b + 1 THEN m - (a + 1) + 1 ELSE (b + 1) - (a + 1) + 1
<1>3. String!Place(from) = a + 1 /\ String!Place(to) = b + 1
  BY <1>1, <1>2 DEF String!Place
<1>4. String!Effect("range", <<from, to>>) = [k \in 1 .. e |-> u[(a + 1) + k - 1]]
  <2>1. String!Effect("range", <<from, to>>) =
          [k \in 1 .. IF Len(u) < String!Place(to) THEN Len(u) - String!Place(from) + 1
                      ELSE String!Place(to) - String!Place(from) + 1
             |-> u[String!Place(from) + k - 1]]
    BY <1>1 DEF String!Effect
  <2> HIDE DEF a, b
  <2> QED
    BY <1>2, <1>3, <2>1, Zenon
<1>5. a \in Nat /\ b \in Nat
  BY <1>2
<1>6. CASE m = 0
  <2>1. y = s
    BY <1>1, <1>6, Zenon DEF SubRange
  <2>2. u = <<>>
    BY <1>2, <1>6
  <2> HIDE DEF a, b
  <2>3. 1 .. e = {}
    BY <1>5, <1>6
  <2>4. [k \in 1 .. e |-> u[(a + 1) + k - 1]] = <<>>
    BY <2>3
  <2> QED
    BY <1>1, <1>4, <2>1, <2>2, <2>4
<1>7. CASE m # 0
  <2>1. y = Keep(s, a, n)
    BY <1>1, <1>7, Zenon DEF SubRange
  <2> HIDE DEF a, b
  <2>2. n \in 0 .. m /\ (n = 0 \/ a + n <= m) /\ 1 .. e = 1 .. n
    BY <1>2, <1>5, <1>7
  <2> HIDE DEF n, e
  <2>3. Sound(y) /\ Terminated(y) /\ Text(y) = Kept(s, a, n)
    BY <1>1, <1>5, <2>1, <2>2, KeepSound
  <2>4. \A k \in 1 .. n : s.buf[a + k - 1] = u[(a + 1) + k - 1]
    <3>1. ASSUME NEW k \in 1 .. n PROVE s.buf[a + k - 1] = u[(a + 1) + k - 1]
      <4>1. a + k \in 1 .. m /\ (a + k) - 1 = a + k - 1 /\ (a + 1) + k - 1 = a + k
        BY <1>2, <1>5, <2>2
      <4>2. s.buf[(a + k) - 1] = u[a + k]
        BY <1>2, <4>1
      <4> QED
        BY <4>1, <4>2
    <3> QED
      BY <3>1
  <2>5. [k \in 1 .. n |-> s.buf[a + k - 1]] = [k \in 1 .. e |-> u[(a + 1) + k - 1]]
    BY <2>2, <2>4
  <2> QED
    BY <1>4, <2>3, <2>5 DEF Kept
<1> QED
  BY <1>6, <1>7

(* sdstrim keeps what is between the first and the last character that is   *)
(* not in the set.                                                         *)
LEMMA TrimSound ==
  ASSUME Sound(s), NEW set, NEW y, y = Trim(s, set)
  PROVE  Sound(y) /\ Terminated(y) /\ Text(y) = String!Without(set \cup {0})
<1>0. PICK u, m : u = Text(s) /\ m = s.len
  OBVIOUS
<1>1. u \in Seq(Byte) /\ Len(u) = m /\ m \in Nat /\ \A k \in 1 .. m : s.buf[k - 1] = u[k]
  BY <1>0, TextSeq DEF Spells, Sound, Roomy, Str
<1> DEFINE inner == {k \in 0 .. s.len - 1 : s.buf[k] \notin set \cup {0}}
           sp == CHOOSE k \in inner : \A j \in inner : k <= j
           ep == CHOOSE k \in inner : \A j \in inner : k >= j
           places == {k \in 1 .. Len(Text(s)) : Text(s)[k] \notin set \cup {0}}
           first == CHOOSE k \in places : \A j \in places : k <= j
           last  == CHOOSE k \in places : \A j \in places : k >= j
<1>2. inner \in SUBSET Nat /\ inner \in SUBSET (0 .. m) /\ inner \in SUBSET (0 .. m - 1)
  BY <1>0, <1>1
<1>3. y = IF inner = {} THEN Keep(s, 0, 0) ELSE Keep(s, sp, ep - sp + 1)
  BY Zenon DEF Trim
<1>4. String!Without(set \cup {0}) = IF places = {} THEN <<>> ELSE SubSeq(Text(s), first, last)
  BY Zenon DEF String!Without
<1>5. \A k \in inner : k + 1 \in places
  <2>1. \A k \in inner : k + 1 \in 1 .. m /\ (k + 1) - 1 = k
    BY <1>0, <1>1
  <2> QED
    BY <1>0, <1>1, <2>1
<1>6. \A k \in places : k - 1 \in inner /\ k \in 1 .. m
  <2>1. \A k \in places : k - 1 \in 0 .. m - 1 /\ k \in 1 .. m
    BY <1>0, <1>1
  <2> QED
    BY <1>0, <1>1, <2>1
<1> HIDE DEF inner, places
<1>7. CASE inner = {}
  <2>1. places = {}
    BY <1>6, <1>7
  <2>2. y = Keep(s, 0, 0)
    BY <1>3, <1>7
  <2>3. Sound(y) /\ Terminated(y) /\ Text(y) = Kept(s, 0, 0)
    BY <1>0, <1>1, <2>2, KeepSound
  <2>4. Kept(s, 0, 0) = <<>>
    BY DEF Kept
  <2> QED
    BY <1>4, <2>1, <2>3, <2>4
<1>8. CASE inner # {}
  <2>1. sp \in inner /\ \A j \in inner : sp <= j
    <3>1. \E k \in inner : \A j \in inner : k <= j
      BY <1>2, <1>8, Smallest
    <3> QED
      BY <3>1
  <2>2. ep \in inner /\ \A j \in inner : ep >= j
    <3>1. \E k \in inner : \A j \in inner : k >= j
      BY <1>1, <1>2, <1>8, Largest
    <3> QED
      BY <3>1
  <2> HIDE DEF sp, ep
  <2>3. sp \in 0 .. m - 1 /\ ep \in 0 .. m - 1 /\ sp <= ep
    BY <1>2, <2>1, <2>2
  <2>4. first = sp + 1
    <3>1. \A j \in places : sp + 1 <= j
      BY <1>6, <2>1, <2>3
    <3>2. sp + 1 \in places
      BY <1>5, <2>1
    <3>3. first \in places /\ \A j \in places : first <= j
      BY <3>1, <3>2
    <3> HIDE DEF first
    <3>4. first \in 1 .. m /\ first <= sp + 1 /\ sp + 1 <= first
      BY <1>6, <3>1, <3>2, <3>3
    <3> QED
      BY <1>1, <2>3, <3>4
  <2>5. last = ep + 1
    <3>1. \A j \in places : ep + 1 >= j
      BY <1>6, <2>2, <2>3
    <3>2. ep + 1 \in places
      BY <1>5, <2>2
    <3>3. last \in places /\ \A j \in places : last >= j
      BY <3>1, <3>2
    <3> HIDE DEF last
    <3>4. last \in 1 .. m /\ last >= ep + 1 /\ ep + 1 >= last
      BY <1>6, <3>1, <3>2, <3>3
    <3> QED
      BY <1>1, <2>3, <3>4
  <2>6. PICK n : n = ep - sp + 1
    OBVIOUS
  <2>7. sp \in Nat /\ n \in 0 .. m /\ sp + n <= m /\ ep + 1 = sp + n /\ n \in Nat
    BY <1>1, <2>3, <2>6
  <2>8. y = Keep(s, sp, n)
    BY <1>3, <1>8, <2>6
  <2>9. Sound(y) /\ Terminated(y) /\ Text(y) = Kept(s, sp, n)
    BY <1>0, <2>7, <2>8, KeepSound
  <2>10. \A k \in 1 .. n : s.buf[sp + k - 1] = u[sp + k] /\ u[sp + k] \in Byte
    <3>1. ASSUME NEW k \in 1 .. n PROVE s.buf[sp + k - 1] = u[sp + k] /\ u[sp + k] \in Byte
      <4>1. sp + k \in 1 .. m /\ (sp + k) - 1 = sp + k - 1
        BY <1>1, <2>7
      <4>2. s.buf[(sp + k) - 1] = u[sp + k] /\ u[sp + k] \in Byte
        BY <1>1, <4>1, ElementOfSeq
      <4> QED
        BY <4>1, <4>2
    <3> QED
      BY <3>1
  <2>11. SubSeq(u, sp + 1, sp + n) = [k \in 1 .. n |-> u[sp + k]]
    <3>1. SubSeq(u, sp + 1, sp + n) = [k \in 1 .. (1 + (sp + n) - (sp + 1)) |-> u[k + (sp + 1) - 1]]
      BY <2>7
    <3>2. 1 + (sp + n) - (sp + 1) = n /\ \A k \in 1 .. n : k + (sp + 1) - 1 = sp + k
      BY <2>7
    <3> QED
      BY <3>1, <3>2
  <2>12. Text(y) = SubSeq(u, first, last)
    BY <2>4, <2>5, <2>7, <2>9, <2>10, <2>11 DEF Kept
  <2>13. places # {}
    BY <1>5, <2>1
  <2> QED
    BY <1>0, <1>4, <2>9, <2>12, <2>13
<1> QED
  BY <1>7, <1>8

LEMMA ReprInBytes ==
  ASSUME NEW b \in Byte
  PROVE  Repr(b) \in Seq(Byte)
<1>1. \A d \in 0 .. 15 : HexDigit(d) \in Byte
  BY DEF HexDigit, Byte
<1>2. CASE b \in DOMAIN Escapes
  <2>1. b \in {92, 34, 10, 13, 9, 12, 8} /\ Repr(b) = Escapes[b]
    BY <1>2 DEF Escapes, Repr
  <2>2. \A c \in {92, 34, 10, 13, 9, 12, 8} :
          (CASE c = 92 -> 92 [] c = 34 -> 34 [] c = 10 -> 110 [] c = 13 -> 114
             [] c = 9 -> 116 [] c = 12 -> 102 [] c = 8 -> 98) \in Byte
    BY DEF Byte
  <2>3. PICK c \in Byte : Escapes[b] = <<92, c>>
    BY <2>1, <2>2 DEF Escapes
  <2>4. 92 \in Byte
    BY DEF Byte
  <2> QED
    BY <2>1, <2>3, <2>4
<1>3. CASE b \notin DOMAIN Escapes /\ b \in 32 .. 126
  BY <1>3 DEF Repr
<1>4. CASE b \notin DOMAIN Escapes /\ b \notin 32 .. 126
  <2>1. b \div 16 \in 0 .. 15 /\ b % 16 \in 0 .. 15
    BY DEF Byte
  <2>2. PICK c, d : c = HexDigit(b \div 16) /\ d = HexDigit(b % 16)
    OBVIOUS
  <2>3. c \in Byte /\ d \in Byte
    BY <1>1, <2>1, <2>2
  <2>4. 92 \in Byte /\ 117 \in Byte /\ 48 \in Byte
    BY DEF Byte
  <2>5. Repr(b) = <<92, 117, 48, 48, c, d>>
    BY <1>4, <2>2, Zenon DEF Repr
  <2> QED
    BY <2>3, <2>4, <2>5
<1> QED
  BY <1>2, <1>3, <1>4

-----------------------------------------------------------------------------
(* The invariant.  Between two items of sdscatfmt the terminator may be    *)
(* missing; every other call begins with one, on which sdsupdatelen relies. *)
Inv ==
  /\ Sound(s)
  /\ rest \in Seq(Seq(Byte))
  /\ (call.op = "fmt" /\ rest # <<>>) \/ Terminated(s)

(* Every step keeps it, and is one the string of bytes may take.           *)
Step == Inv' /\ [String!Next]_<<Text(s), call, rest>>

(* What the bounds of the calls leave for their room.                      *)
LEMMA Bounds ==
  /\ MaxLen \in Nat /\ MaxOut \in Nat /\ MaxPrealloc \in Nat /\ Cap[4] \in Nat
  /\ \A n \in Nat : n <= 2 * MaxLen \/ n <= MaxOut + 1 \/ n <= MaxLen => n + MaxPrealloc <= Cap[4]
<1>1. /\ MaxLen \in Nat /\ MaxOut \in Nat /\ MaxPrealloc \in Nat
      /\ Cap[4] > 2 * (MaxLen + MaxOut) + MaxPrealloc
  BY SdsAssumption
<1>2. Cap[4] \in Nat
  BY CapTypes DEF Types
<1> QED
  BY <1>1, <1>2

LEMMA LenFits ==
  ASSUME NEW n \in Nat, n <= MaxLen
  PROVE  n + MaxPrealloc <= Cap[4] /\ n <= Cap[4]
BY Bounds

LEMMA OutFits ==
  ASSUME NEW n \in Nat, n <= MaxOut + 1
  PROVE  n + MaxPrealloc <= Cap[4]
BY Bounds

LEMMA TextsAreBytes ==
  /\ \A t \in Texts : t \in Seq(Byte) /\ Len(t) \in Nat
  /\ \A f \in Formats : f.len \in Nat /\ f.items \in Seq(Seq(Byte)) /\ f.items # <<>>
  /\ \A a \in Ends : a \in Int
BY SdsAssumption DEF Byte

LEMMA InvInit == SdsInit => Inv
<1> SUFFICES ASSUME SdsInit PROVE Inv
  OBVIOUS
<1>1. <<>> \in Seq(Byte) /\ Len(<<>>) <= Cap[4] /\ <<>> \in Seq(Seq(Byte))
  BY Bounds
<1>2. s = NewLen(<<>>) /\ rest = <<>>
  BY DEF SdsInit
<1>3. Sound(s) /\ Terminated(s)
  BY <1>1, <1>2, NewLenSound
<1> QED
  BY <1>1, <1>2, <1>3 DEF Inv

(* A call that does all of its work at once.                               *)
LEMMA CallStep ==
  ASSUME Inv, NEW op, op \notin {"fmt", "repr"}, NEW arg, NEW x, Calls(op, arg, x),
         Sound(s) /\ Terminated(s) =>
           Sound(x) /\ Terminated(x) /\ Text(x) = String!Effect(op, arg)
  PROVE  Step
<1>1. rest = <<>> /\ rest' = rest /\ s' = x /\ call' = [op |-> op, arg |-> arg]
  BY DEF Calls
<1>2. Sound(s) /\ Terminated(s) /\ rest \in Seq(Seq(Byte))
  BY <1>1 DEF Inv
<1>3. Sound(s') /\ Terminated(s')
  BY <1>1, <1>2
<1>4. Inv'
  BY <1>1, <1>2, <1>3 DEF Inv, Sound, Terminated, Roomy, Str, Holds
<1>5. call'.op = op /\ call'.arg = arg
  BY <1>1
<1>6. Text(s') = String!Effect(op, arg)
  BY <1>1, <1>2
<1>7. String!Whole
  BY <1>1, <1>5, <1>6 DEF String!Whole, Text
<1> QED
  BY <1>4, <1>7 DEF Step, String!Next

LEMMA Twice ==
  ASSUME NEW a \in Nat, NEW b \in Nat, NEW c \in Nat, a + b <= c
  PROVE  a + 2 * b \in Nat /\ a + (a + 2 * b) \in Nat /\ a + (a + 2 * b) <= 2 * c
OBVIOUS

LEMMA InvFmt ==
  ASSUME Inv, NEW f \in Formats, CatFmt(f)
  PROVE  Step
<1>1. rest = <<>> /\ Sound(s) /\ Terminated(s)
  BY DEF CatFmt, Inv
<1>2. s.len \in Nat /\ f.len \in Nat /\ f.items \in Seq(Seq(Byte)) /\ f.items # <<>>
  BY <1>1, TextsAreBytes DEF Sound, Roomy, Str
<1>3. s.len + f.len <= MaxLen
  BY DEF CatFmt, Fits
<1>4. s.len + 2 * f.len \in Nat /\ s.len + (s.len + 2 * f.len) \in Nat
      /\ s.len + (s.len + 2 * f.len) <= 2 * MaxLen
  <2>1. MaxLen \in Nat
    BY Bounds
  <2> QED
    BY <1>2, <1>3, <2>1, Twice
<1>5. PICK more : more = s.len + 2 * f.len
  OBVIOUS
<1>6. more \in Nat /\ s.len + more + MaxPrealloc <= Cap[4]
  BY <1>4, <1>5, Bounds
<1>7. s' = MakeRoomFor(s, more) /\ rest' = f.items
  BY <1>5 DEF CatFmt
<1>8. Sound(s') /\ Terminated(s') /\ Same(s, s')
  BY <1>1, <1>6, <1>7, MakeRoomForSound
<1>9. Inv'
  BY <1>2, <1>7, <1>8 DEF Inv, Sound, Terminated, Roomy, Str, Holds
<1>10. Text(s') = Text(s)
  BY <1>1, <1>8, SameText
<1>11. rest = <<>> /\ rest' # <<>> /\ call'.op = "fmt"
  BY <1>2 DEF CatFmt
<1>12. String!Begin
  BY <1>10, <1>11 DEF String!Begin, Text
<1> QED
  BY <1>9, <1>12 DEF Step, String!Next

LEMMA HeadAndTail ==
  ASSUME rest \in Seq(Seq(Byte)), rest # <<>>
  PROVE  Head(rest) \in Seq(Byte) /\ Len(Head(rest)) \in Nat /\ Tail(rest) \in Seq(Seq(Byte))
BY HeadTailProperties

LEMMA InvFmtItem ==
  ASSUME Inv, FmtItem
  PROVE  Step
<1>1. rest # <<>> /\ rest \in Seq(Seq(Byte)) /\ Sound(s) /\ call.op = "fmt"
  BY DEF FmtItem, Inv
<1>2. PICK t : t = Head(rest)
  OBVIOUS
<1>3. t \in Seq(Byte) /\ Len(t) \in Nat /\ Tail(rest) \in Seq(Seq(Byte)) /\ s.len \in Nat
  BY <1>1, <1>2, HeadAndTail DEF Sound, Roomy, Str
<1>4. s.len + Len(t) <= MaxOut
  BY <1>2 DEF FmtItem, Goes
<1>5. PICK one : one = IF Avail(s) = 0 THEN MakeRoomFor(s, 1) ELSE s
  OBVIOUS
<1>6. Sound(one) /\ one.len = s.len /\ Same(s, one)
  <2>1. s.len + 1 + MaxPrealloc <= Cap[4] /\ 1 \in Nat
    <3>1. s.len + 1 \in Nat /\ s.len + 1 <= MaxOut + 1
      BY <1>3, <1>4, Bounds
    <3> QED
      BY <3>1, OutFits
  <2>2. Same(s, s)
    BY DEF Same
  <2> QED
    BY <1>1, <1>5, <2>1, <2>2, MakeRoomForSound
<1>7. PICK room : room = IF Avail(one) < Len(t) THEN MakeRoomFor(one, Len(t)) ELSE one
  OBVIOUS
<1>8. Sound(room) /\ room.len = s.len /\ Holds(room, s.len + Len(t)) /\ Same(one, room)
  <2>1. CASE Avail(one) < Len(t)
    <3>1. one.len + Len(t) + MaxPrealloc <= Cap[4]
      <4>1. s.len + Len(t) \in Nat /\ s.len + Len(t) <= MaxOut + 1
        BY <1>3, <1>4, Bounds
      <4> QED
        BY <1>6, <4>1, OutFits
    <3> QED
      BY <1>3, <1>6, <1>7, <2>1, <3>1, MakeRoomForSound
  <2>2. CASE ~ (Avail(one) < Len(t))
    <3>1. Alloc(one) \in Nat /\ \A n \in Nat : n <= Alloc(one) => Holds(one, n)
      BY <1>6, SoundAlloc
    <3>2. s.len + Len(t) <= Alloc(one) /\ s.len + Len(t) \in Nat
      BY <1>3, <1>6, <2>2, <3>1 DEF Avail
    <3>3. Same(one, one)
      BY DEF Same
    <3> QED
      BY <1>6, <1>7, <2>2, <3>1, <3>2, <3>3
  <2> QED
    BY <2>1, <2>2
<1>9. PICK at, y, z : at = s.len /\ y = SetLen(Put(room, at, t), at + Len(t))
                      /\ z = Terminate(y, at + Len(t))
  OBVIOUS
<1>10. /\ Sound(y) /\ y.len = at + Len(t) /\ EndsIn(room, at, t, y)
       /\ Sound(z) /\ Terminated(z) /\ Same(y, z)
  <2>1. at \in 0 .. room.len /\ Holds(room, at + Len(t))
    BY <1>3, <1>8, <1>9
  <2> QED
    BY <1>3, <1>8, <1>9, <2>1, WriteSetTerminate
<1>11. /\ s' = IF Tail(rest) = <<>> THEN Terminate(y, y.len) ELSE y
       /\ rest' = Tail(rest) /\ call' = call
  BY <1>2, <1>5, <1>7, <1>9, Zenon DEF FmtItem
<1>12. Sound(s') /\ (rest' = <<>> => Terminated(s'))
  BY <1>9, <1>10, <1>11
<1>13. Inv'
  BY <1>1, <1>3, <1>11, <1>12 DEF Inv, Sound, Terminated, Roomy, Str, Holds
<1>14. Text(s') = Text(s) \o t
  <2>1. Text(one) = Text(s)
    BY <1>1, <1>6, SameText
  <2>2. Text(y) = Text(one) \o t
    <3>1. EndsIn(room, one.len, t, y)
      BY <1>6, <1>9, <1>10
    <3> QED
      BY <1>3, <1>6, <1>8, <3>1, BehindText
  <2>3. Text(z) = Text(y)
    BY <1>10, SameText
  <2>4. s' = z \/ s' = y
    BY <1>9, <1>10, <1>11
  <2> QED
    BY <2>1, <2>2, <2>3, <2>4
<1>15. String!Piece
  BY <1>1, <1>2, <1>11, <1>14 DEF String!Piece, Text
<1> QED
  BY <1>13, <1>15 DEF Step, String!Next

LEMMA InvRepr ==
  ASSUME Inv, NEW t \in Texts, CatRepr(t)
  PROVE  Step
<1>1. Sound(s) /\ s.len \in Nat /\ t \in Seq(Byte)
  BY TextsAreBytes DEF Inv, Sound, Roomy, Str
<1>2. Quote \in Seq(Byte) /\ Len(Quote) = 1
  BY DEF Quote, Byte
<1>3. s.len + Len(Quote) + MaxPrealloc <= Cap[4]
  <2>1. s.len + Len(Quote) \in Nat /\ s.len + Len(Quote) <= MaxOut
    BY <1>1, <1>2 DEF CatRepr, Goes
  <2>2. s.len + Len(Quote) <= MaxOut + 1
    BY <2>1, Bounds
  <2> QED
    BY <2>1, <2>2, OutFits
<1>4. Sound(s') /\ Terminated(s') /\ Text(s') = Text(s) \o Quote
  <2>1. s' = CatLen(s, Quote)
    BY DEF CatRepr
  <2> QED
    BY <1>1, <1>2, <1>3, <2>1, CatLenSound
<1>5. rest' \in Seq(Seq(Byte)) /\ rest' # <<>>
  <2>1. PICK u : u = [k \in 1 .. Len(t) |-> Repr(t[k])]
    OBVIOUS
  <2>2. \A k \in 1 .. Len(t) : Repr(t[k]) \in Seq(Byte)
    BY <1>1, ReprInBytes
  <2>3. u \in Seq(Seq(Byte))
    BY <1>1, <2>1, <2>2
  <2>4. <<Quote>> \in Seq(Seq(Byte))
    BY <1>2
  <2>5. rest' = u \o <<Quote>>
    BY <2>1, Zenon DEF CatRepr
  <2>6. Len(u \o <<Quote>>) = Len(u) + 1 /\ Len(u) \in Nat
    BY <2>3, <2>4
  <2>7. rest' # <<>>
    BY <2>5, <2>6
  <2> QED
    BY <2>3, <2>4, <2>5, <2>7
<1>6. Inv'
  BY <1>4, <1>5 DEF Inv, Sound, Terminated, Roomy, Str, Holds
<1>7. Text(s') = Append(Text(s), 34)
  <2>1. PICK u : u = Text(s)
    OBVIOUS
  <2>2. u \in Seq(Byte)
    BY <1>1, <2>1, TextSeq
  <2>3. u \o <<34>> = Append(u, 34)
    BY <2>2 DEF Byte
  <2> QED
    BY <1>4, <2>1, <2>3 DEF Quote
<1>8. rest = <<>> /\ call'.op = "repr"
  BY DEF CatRepr
<1>9. String!Begin
  BY <1>5, <1>7, <1>8 DEF String!Begin, Text
<1> QED
  BY <1>6, <1>9 DEF Step, String!Next

LEMMA InvReprByte ==
  ASSUME Inv, ReprByte
  PROVE  Step
<1>1. rest # <<>> /\ rest \in Seq(Seq(Byte)) /\ Sound(s) /\ s.len \in Nat
  BY DEF ReprByte, Inv, Sound, Roomy, Str
<1>2. PICK t : t = Head(rest)
  OBVIOUS
<1>3. t \in Seq(Byte) /\ Len(t) \in Nat /\ Tail(rest) \in Seq(Seq(Byte))
  BY <1>1, <1>2, HeadAndTail
<1>4. s.len + Len(t) + MaxPrealloc <= Cap[4]
  <2>1. s.len + Len(t) \in Nat /\ s.len + Len(t) <= MaxOut
    BY <1>1, <1>2, <1>3 DEF ReprByte, Goes
  <2>2. s.len + Len(t) <= MaxOut + 1
    BY <2>1, Bounds
  <2> QED
    BY <2>1, <2>2, OutFits
<1>5. s' = CatLen(s, t) /\ rest' = Tail(rest)
  BY <1>2 DEF ReprByte
<1>6. Sound(s') /\ Terminated(s') /\ Text(s') = Text(s) \o t
  BY <1>1, <1>3, <1>4, <1>5, CatLenSound
<1>7. Inv'
  BY <1>3, <1>5, <1>6 DEF Inv, Sound, Terminated, Roomy, Str, Holds
<1>8. call' = call
  BY DEF ReprByte
<1>9. String!Piece
  BY <1>1, <1>2, <1>5, <1>6, <1>8 DEF String!Piece, Text
<1> QED
  BY <1>7, <1>9 DEF Step, String!Next

LEMMA InvStep ==
  ASSUME Inv, [SdsNext]_sdsVars
  PROVE  Step
<1>0. s.len \in Nat /\ Sound(s)
  BY DEF Inv, Sound, Roomy, Str
<1>1. ASSUME NEW t \in Texts, New(t) PROVE Step
  <2>1. t \in Seq(Byte) /\ Len(t) <= Cap[4]
    <3>1. t \in Seq(Byte) /\ Len(t) \in Nat /\ Len(t) <= MaxLen
      BY <1>1, TextsAreBytes DEF New, Fits
    <3> QED
      BY <3>1, LenFits
  <2>2. Sound(NewLen(t)) /\ Terminated(NewLen(t)) /\ Text(NewLen(t)) = String!Effect("new", t)
    BY <2>1, NewLenSound DEF String!Effect
  <2> QED
    BY <1>1, <2>2, CallStep DEF New
<1>2. ASSUME NEW t \in Texts, Cat(t) PROVE Step
  <2>1. t \in Seq(Byte) /\ s.len + Len(t) + MaxPrealloc <= Cap[4]
    <3>1. t \in Seq(Byte) /\ s.len + Len(t) \in Nat /\ s.len + Len(t) <= MaxLen
      BY <1>0, <1>2, TextsAreBytes DEF Cat, Room, Fits
    <3> QED
      BY <3>1, LenFits
  <2>2. /\ Sound(CatLen(s, t)) /\ Terminated(CatLen(s, t))
        /\ Text(CatLen(s, t)) = String!Effect("cat", t)
    BY <1>0, <2>1, CatLenSound DEF String!Effect
  <2> QED
    BY <1>2, <2>2, CallStep DEF Cat
<1>3. ASSUME NEW t \in Texts, Append1(t) PROVE Step
  <2>1. t \in Seq(Byte) /\ s.len + Len(t) + MaxPrealloc <= Cap[4]
    <3>1. t \in Seq(Byte) /\ s.len + Len(t) \in Nat /\ s.len + Len(t) <= MaxLen
      BY <1>0, <1>3, TextsAreBytes DEF Append1, Room, Fits
    <3> QED
      BY <3>1, LenFits
  <2>2. Sound(Fill(s, t)) /\ Terminated(Fill(s, t)) /\ Text(Fill(s, t)) = String!Effect("cat", t)
    BY <1>0, <2>1, FillSound DEF String!Effect
  <2> QED
    BY <1>3, <2>2, CallStep DEF Append1
<1>4. ASSUME NEW t \in Texts, Cpy(t) PROVE Step
  <2>1. t \in Seq(Byte) /\ Len(t) + MaxPrealloc <= Cap[4]
    <3>1. t \in Seq(Byte) /\ Len(t) \in Nat /\ Len(t) <= MaxLen
      BY <1>4, TextsAreBytes DEF Cpy, Fits
    <3> QED
      BY <3>1, LenFits
  <2>2. /\ Sound(CpyLen(s, t)) /\ Terminated(CpyLen(s, t))
        /\ Text(CpyLen(s, t)) = String!Effect("cpy", t)
    BY <1>0, <2>1, CpyLenSound DEF String!Effect
  <2> QED
    BY <1>4, <2>2, CallStep DEF Cpy
<1>5. ASSUME NEW n \in 0 .. MaxLen, Grow(n) PROVE Step
  <2>1. n \in Nat /\ n + MaxPrealloc <= Cap[4]
    BY Bounds, LenFits
  <2>2. Sound(s) /\ Terminated(s) =>
          /\ Sound(GrowZero(s, n)) /\ Terminated(GrowZero(s, n))
          /\ Text(GrowZero(s, n)) = Text(s) \o Zeros(n - s.len)
    BY <2>1, GrowZeroSound
  <2>3. Text(s) \o Zeros(n - s.len) = String!Effect("grow", n)
    <3>1. Zeros(n - s.len) = [k \in 1 .. n - Len(Text(s)) |-> 0]
      BY <1>0, TextSeq DEF Zeros
    <3> QED
      BY <3>1 DEF String!Effect
  <2> QED
    BY <1>5, <2>2, <2>3, CallStep DEF Grow
<1>6. ASSUME NEW n, Drop(n) PROVE Step
  <2>1. s.len - n \in 0 .. s.len
    BY <1>0, <1>6 DEF Drop
  <2>2. PICK m : m = s.len - n
    OBVIOUS
  <2>3. /\ Sound(Cut(s, m)) /\ Terminated(Cut(s, m))
        /\ Text(Cut(s, m)) = String!Effect("cut", m)
    BY <1>0, <2>1, <2>2, CutSound DEF String!Effect
  <2>4. Calls("cut", m, Cut(s, m))
    BY <1>6, <2>2 DEF Drop
  <2> QED
    BY <2>3, <2>4, CallStep
<1>7. ASSUME NEW a \in Ends, NEW b \in Ends, Slice(a, b) PROVE Step
  <2>1. Sound(s) /\ Terminated(s) =>
          /\ Sound(SubRange(s, a, b)) /\ Terminated(SubRange(s, a, b))
          /\ Text(SubRange(s, a, b)) = String!Effect("range", <<a, b>>)
    BY TextsAreBytes, SubRangeSound
  <2> QED
    BY <1>7, <2>1, CallStep DEF Slice
<1>8. ASSUME NEW set, Strip(set) PROVE Step
  <2>1. /\ Sound(Trim(s, set)) /\ Terminated(Trim(s, set))
        /\ Text(Trim(s, set)) = String!Effect("trim", set)
    BY <1>0, TrimSound DEF String!Effect
  <2> QED
    BY <1>8, <2>1, CallStep DEF Strip
<1>9. ASSUME Shrink PROVE Step
  <2>1. Sound(s) /\ Terminated(s) =>
          /\ Sound(RemoveFreeSpace(s)) /\ Terminated(RemoveFreeSpace(s))
          /\ Text(RemoveFreeSpace(s)) = String!Effect("shrink", 0)
    BY RemoveFreeSpaceSound DEF String!Effect
  <2> QED
    BY <1>9, <2>1, CallStep DEF Shrink
<1>10. ASSUME Update PROVE Step
  <2>1. Sound(s) /\ Terminated(s) =>
          /\ Sound(UpdateLen(s)) /\ Terminated(UpdateLen(s))
          /\ Text(UpdateLen(s)) = String!Effect("update", 0)
    BY UpdateLenSound, UpdateLenText DEF String!Effect
  <2> QED
    BY <1>10, <2>1, CallStep DEF Update
<1>11. ASSUME UNCHANGED sdsVars PROVE Step
  <2>1. Inv'
    BY <1>11 DEF sdsVars, Inv, Sound, Terminated, Roomy, Str, Holds
  <2>2. UNCHANGED <<Text(s), call, rest>>
    BY <1>11 DEF sdsVars, Text
  <2> QED
    BY <2>1, <2>2 DEF Step
<1> QED
  BY <1>1, <1>2, <1>3, <1>4, <1>5, <1>6, <1>7, <1>8, <1>9, <1>10, <1>11,
     InvFmt, InvFmtItem, InvRepr, InvReprByte DEF SdsNext

-----------------------------------------------------------------------------
THEOREM Invariance == SdsSpec => []Inv
<1>1. Inv /\ [SdsNext]_sdsVars => Inv'
  BY InvStep DEF Step
<1> QED
  BY InvInit, <1>1, PTL DEF SdsSpec

(* The fields of the header and the block keep their types: the length and *)
(* the room of a string are never negative, and never cut off by the width *)
(* of the header (sds.c, whatever is called in whatever order).            *)
THEOREM SdsTypeCorrect == SdsSpec => []SdsTypeOK
<1>1. Inv => SdsTypeOK
  <2> SUFFICES ASSUME Inv PROVE SdsTypeOK
    OBVIOUS
  <2>1. Str(s) /\ rest \in Seq(Seq(Byte))
    BY DEF Inv, Sound, Roomy
  <2> QED
    BY <2>1 DEF SdsTypeOK, Str, Cell, Byte
<1> QED
  BY Invariance, <1>1, PTL

(* The header never promises more room than the block has, nothing is      *)
(* written outside of the block, and all characters up to the terminator   *)
(* were written (sdsMakeRoomFor and the calls of sds.c that rely on it).   *)
THEOREM BlockIsSound == SdsSpec => []BlockSound
<1>1. Inv => BlockSound
  <2> SUFFICES ASSUME Inv PROVE BlockSound
    OBVIOUS
  <2>1. Sound(s) /\ ((call.op = "fmt" /\ rest # <<>>) \/ Terminated(s))
    BY DEF Inv
  <2>2. s.len <= Alloc(s) /\ Alloc(s) <= s.room
    BY <2>1, SoundAlloc
  <2> QED
    BY <2>1, <2>2 DEF BlockSound, Sound, Roomy, Terminated
<1> QED
  BY Invariance, <1>1, PTL

(* Wherever the block moves and whatever its header, every call of sds.c   *)
(* does to the bytes of the string what it promises: it appends, replaces,  *)
(* cuts, trims or takes a range of them, and the calls that write in pieces *)
(* append one piece a step and nothing else.                               *)
THEOREM SdsIsString == SdsSpec => ImplementsString
<1>1. SdsInit => String!Init
  <2> SUFFICES ASSUME SdsInit PROVE String!Init
    OBVIOUS
  <2>1. Text(s) = <<>>
    <3>1. <<>> \in Seq(Byte) /\ Len(<<>>) <= Cap[4]
      BY Bounds
    <3> QED
      BY <3>1, NewLenSound DEF SdsInit
  <2> QED
    BY <2>1 DEF SdsInit, String!Init
<1>2. Inv /\ [SdsNext]_sdsVars => [String!Next]_<<Text(s), call, rest>>
  BY InvStep DEF Step
<1> QED
  BY <1>1, <1>2, Invariance, PTL DEF SdsSpec, ImplementsString, String!Spec
=============================================================================
