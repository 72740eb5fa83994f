------------------------------- MODULE SdsArgs ------------------------------
(***************************************************************************)
(* sdssplitargs of c/sds.c, which takes a line apart into its arguments,   *)
(* quoted or not.  Only TLC's runs use this module.                        *)
(***************************************************************************)
EXTENDS Integers, Sequences

IsSpace(c) == c \in {32} \cup 9 .. 13

IsHexDigit(c)    == c \in (48 .. 57) \cup (97 .. 102) \cup (65 .. 70)
HexDigitToInt(c) == IF c <= 57 THEN c - 48 ELSE IF c <= 70 THEN c - 55 ELSE c - 87

(* What a letter behind a backslash stands for between double quotes.      *)
ArgEscape(c) ==
  CASE c = 110 -> 10 [] c = 114 -> 13 [] c = 116 -> 9 [] c = 98 -> 8 [] c = 97 -> 7
    [] OTHER -> c

(* From place p on: between arguments, in one, in one between double or    *)
(* between single quotes; current is the argument so far and vector those  *)
(* before it.  The line ends at its terminator.                            *)
RECURSIVE Scan(_, _, _, _, _)
Scan(line, p, within, current, vector) ==
  LET at(k)   == IF k <= Len(line) THEN line[k] ELSE 0
      c       == at(p)
      err     == [ok |-> FALSE, vector |-> <<>>]
      more(w, k, b) == Scan(line, p + k, w, current \o b, vector)
      end     == Scan(line, IF c = 0 THEN p ELSE p + 1, "blanks", <<>>, Append(vector, current))
      closing == IF at(p + 1) # 0 /\ ~ IsSpace(at(p + 1)) THEN err ELSE end
  IN  CASE within = "blanks" ->
             IF c = 0 THEN [ok |-> TRUE, vector |-> vector]
             ELSE IF IsSpace(c) THEN more("blanks", 1, <<>>) ELSE more("bare", 0, <<>>)
        [] within = "bare" ->
             IF c \in {32, 10, 13, 9, 0} THEN end
             ELSE IF c = 34 THEN more("double", 1, <<>>)
             ELSE IF c = 39 THEN more("single", 1, <<>>)
             ELSE more("bare", 1, <<c>>)
        [] within = "double" ->
             IF c = 92 /\ at(p + 1) = 120 /\ IsHexDigit(at(p + 2)) /\ IsHexDigit(at(p + 3))
             THEN more("double", 4, <<HexDigitToInt(at(p + 2)) * 16 + HexDigitToInt(at(p + 3))>>)
             ELSE IF c = 92 /\ at(p + 1) # 0 THEN more("double", 2, <<ArgEscape(at(p + 1))>>)
             ELSE IF c = 34 THEN closing
             ELSE IF c = 0 THEN err
             ELSE more("double", 1, <<c>>)
        [] within = "single" ->
             IF c = 92 /\ at(p + 1) = 39 THEN more("single", 2, <<39>>)
             ELSE IF c = 39 THEN closing
             ELSE IF c = 0 THEN err
             ELSE more("single", 1, <<c>>)

SplitArgs(line) == Scan(line, 1, "blanks", <<>>, <<>>)
=============================================================================
