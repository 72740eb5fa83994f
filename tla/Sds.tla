-------------------------------- MODULE Sds ---------------------------------
(***************************************************************************)
(* The strings of c/sds.c that the serialiser writes into.  A string is a  *)
(* block of memory with a header of one of five types before the           *)
(* characters: the wider the type, the longer the string it can describe.  *)
(* The narrowest has no room for alloc, the length there is room for.      *)
(*                                                                         *)
(* buf is the block behind the header, with a place for a terminator; what *)
(* lies behind the terminator counts as Junk.  room is how long a string   *)
(* the block really holds, whatever the header says, and over is set once  *)
(* something was written outside of it.                                    *)
(***************************************************************************)
EXTENDS Integers, Sequences

CONSTANTS
  Cap,          \* the largest number in a header of each type: 31, 255, ...
  MaxPrealloc,  \* SDS_MAX_PREALLOC
  Texts,        \* the arguments of the calls, sequences of bytes
  Ends,         \* the ends of ranges that are tried
  Formats,      \* formats of sdscatfmt: their length and what each item writes
  MaxLen,       \* bound: how long a call at once, or the format, makes a string
  MaxOut        \* bound: how long the loops make it

Types == 0 .. 4
Type5 == 0
Type8 == 1
Junk  == -1

ASSUME SdsAssumption ==
  /\ Cap \in [Types -> Nat] /\ \A t \in Types \ {4} : Cap[t] < Cap[t + 1]
  /\ MaxPrealloc \in Nat \ {0} /\ MaxLen \in Nat /\ MaxOut \in Nat
  /\ Texts \subseteq Seq(0 .. 255) /\ Ends \subseteq Int
  /\ Formats \subseteq [len : Nat, items : Seq(Seq(0 .. 255)) \ {<<>>}]
  /\ Cap[4] > 2 * (MaxLen + MaxOut) + MaxPrealloc

VARIABLES
  s,      \* the string: [type, len, alloc, room, buf, over]
  call,   \* the call last made, with its arguments
  rest    \* what the loop of that call has still to write

sdsVars == <<s, call, rest>>

-----------------------------------------------------------------------------
(* Mutant: the widest type for one number less.                            *)
ReqType_OffByOne(n) ==
  IF n <= Cap[0] + 1 THEN 0 ELSE IF n <= Cap[1] + 1 THEN 1 ELSE IF n <= Cap[2] + 1 THEN 2
  ELSE IF n <= Cap[3] + 1 THEN 3 ELSE 4

(* sdsReqType.                                                             *)
ReqType(n) ==
  IF n <= Cap[0] THEN 0 ELSE IF n <= Cap[1] THEN 1 ELSE IF n <= Cap[2] THEN 2
  ELSE IF n <= Cap[3] THEN 3 ELSE 4

(* sdsalloc and sdsavail.                                                  *)
Alloc(x) == IF x.type = Type5 THEN x.len ELSE x.alloc
Avail(x) == Alloc(x) - x.len

(* sdssetlen and sdsinclen: a field of the header's width.                 *)
SetLen(x, n) ==
  LET l == n % (Cap[x.type] + 1)
  IN  [x EXCEPT !.len = l,
                !.buf = [k \in 0 .. x.room |-> IF k <= l THEN x.buf[k] ELSE Junk]]
(* Mutant: alloc is read as a signed number.                               *)
SetAlloc_Signed(x, n) ==
  [x EXCEPT !.alloc = IF x.type = Type5 THEN 0
                      ELSE IF n > Cap[x.type] \div 2 THEN n - Cap[x.type] - 1 ELSE n]

(* sdssetalloc: not for the narrowest type, which has no such field.       *)
SetAlloc(x, n) ==
  [x EXCEPT !.alloc = IF x.type = Type5 THEN 0 ELSE n % (Cap[x.type] + 1)]

(* memcpy of t, memset and assignments, at a place of the block.           *)
Put(x, at, t) ==
  [x EXCEPT !.buf  = [k \in 0 .. x.room |-> IF k \in at .. at + Len(t) - 1 THEN t[k - at + 1]
                                           ELSE x.buf[k]],
            !.over = @ \/ at + Len(t) > x.room + 1]
Terminate(x, at) == Put(x, at, <<0>>)

(* A block for room characters and the terminator with a header of that    *)
(* type; the string, with its terminator, is copied when there was one.    *)
Block(x, type, room) ==
  SetLen([x EXCEPT !.type = type, !.room = room,
                   !.buf = [k \in 0 .. room |-> IF k <= x.len THEN x.buf[k] ELSE Junk],
                   !.over = @ \/ x.len > room],
         x.len)

Zeros(n) == [k \in 1 .. n |-> 0]

(* sdsnewlen.                                                              *)
NewLen(t) ==
  LET type == IF t = <<>> THEN Type8 ELSE ReqType(Len(t))
      new  == [type |-> type, len |-> 0, alloc |-> 0, room |-> Len(t),
               buf |-> [k \in 0 .. Len(t) |-> Junk], over |-> FALSE]
  IN  Terminate(SetAlloc(SetLen(Put(new, 0, t), Len(t)), Len(t)), Len(t))

(* sdsMakeRoomFor: twice the room, up to a limit; never type 5, which      *)
(* cannot remember it.                                                     *)
MakeRoomFor(x, more) ==
  IF Avail(x) >= more THEN x
  ELSE LET req  == x.len + more
           new  == IF req < MaxPrealloc THEN req * 2 ELSE req + MaxPrealloc
           type == IF ReqType(new) = Type5 THEN Type8 ELSE ReqType(new)
       IN  SetAlloc(Block(x, type, new), new)

(* sdsRemoveFreeSpace: a narrower header only when it is a narrow one.     *)
RemoveFreeSpace(x) ==
  IF Avail(x) = 0 THEN x
  ELSE LET req  == ReqType(x.len)
           type == IF req > Type8 THEN x.type ELSE req
       IN  SetAlloc(Block(x, type, x.len), x.len)

(* sdscatlen.                                                              *)
CatLen(x, t) ==
  Terminate(SetLen(Put(MakeRoomFor(x, Len(t)), x.len, t), x.len + Len(t)), x.len + Len(t))

(* sdscpylen.                                                              *)
CpyLen(x, t) ==
  LET room == IF Alloc(x) < Len(t) THEN MakeRoomFor(x, Len(t) - x.len) ELSE x
  IN  SetLen(Terminate(Put(room, 0, t), Len(t)), Len(t))

(* sdsgrowzero.                                                            *)
GrowZero(x, n) ==
  IF n <= x.len THEN x
  ELSE SetLen(Put(MakeRoomFor(x, n - x.len), x.len, Zeros(n - x.len + 1)), n)

(* sdsMakeRoomFor, as many bytes written by the caller, and sdsIncrLen.     *)
Fill(x, t) ==
  LET room == MakeRoomFor(x, Len(t))
      more == SetLen(Put(room, room.len, t), room.len + Len(t))
  IN  Terminate(more, more.len)

(* The first n characters: sdsIncrLen with a negative number, sdsclear.    *)
Cut(x, n) == Terminate(SetLen(x, n), n)

(* sdsupdatelen: the length up to the first zero.                          *)
UpdateLen(x) ==
  SetLen(x, CHOOSE n \in 0 .. x.room : x.buf[n] = 0 /\ \A k \in 0 .. n - 1 : x.buf[k] # 0)

(* memmove of n characters from a place to the front, and the new length.  *)
Keep(x, from, n) ==
  SetLen(Terminate(Put(x, 0, [k \in 1 .. n |-> x.buf[from + k - 1]]), n), n)

(* Mutant: the end does not count.                                         *)
SubRange_Exclusive(x, from, to) ==
  LET fromEnd(k) == IF k >= 0 THEN k ELSE IF x.len + k < 0 THEN 0 ELSE x.len + k
      a == fromEnd(from)
      b == fromEnd(to)
      n == IF a > b \/ a >= x.len THEN 0
           ELSE IF b >= x.len THEN x.len - a ELSE b - a
  IN  IF x.len = 0 THEN x ELSE Keep(x, a, n)

(* sdsrange: both ends count, negative ones from the end of the string.    *)
SubRange(x, from, to) ==
  LET fromEnd(k) == IF k >= 0 THEN k ELSE IF x.len + k < 0 THEN 0 ELSE x.len + k
      a == fromEnd(from)
      b == fromEnd(to)
      n == IF a > b \/ a >= x.len THEN 0
           ELSE IF b >= x.len THEN x.len - a ELSE b - a + 1
  IN  IF x.len = 0 THEN x ELSE Keep(x, a, n)

(* sdstrim.  strchr finds a zero byte in every set: its terminator.        *)
Trim(x, set) ==
  LET inner == {k \in 0 .. x.len - 1 : x.buf[k] \notin set \cup {0}}
      sp == CHOOSE k \in inner : \A j \in inner : k <= j
      ep == CHOOSE k \in inner : \A j \in inner : k >= j
  IN  IF inner = {} THEN Keep(x, 0, 0) ELSE Keep(x, sp, ep - sp + 1)

(* Digits of a number, and the bytes with an escape of one letter.         *)
HexDigit(d) == IF d < 10 THEN 48 + d ELSE 87 + d
Escapes == [b \in {92, 34, 10, 13, 9, 12, 8} |->
              <<92, CASE b = 92 -> 92 [] b = 34 -> 34 [] b = 10 -> 110 [] b = 13 -> 114
                      [] b = 9 -> 116 [] b = 12 -> 102 [] b = 8 -> 98>>]
(* Mutant: the digits in the other order.                                  *)
Repr_Swapped(b) ==
  IF b \in DOMAIN Escapes THEN Escapes[b]
  ELSE IF b \in 32 .. 126 THEN <<b>>
  ELSE <<92, 117, 48, 48, HexDigit(b % 16), HexDigit(b \div 16)>>

(* What sdscatrepr writes for a byte: its escape, or the byte when it can  *)
(* be printed, or a number.                                                *)
Repr(b) ==
  IF b \in DOMAIN Escapes THEN Escapes[b]
  ELSE IF b \in 32 .. 126 THEN <<b>>
  ELSE <<92, 117, 48, 48, HexDigit(b \div 16), HexDigit(b % 16)>>

Quote == <<34>>

-----------------------------------------------------------------------------
SdsInit == s = NewLen(<<>>) /\ call = [op |-> "new", arg |-> <<>>] /\ rest = <<>>

(* One call, made when no other is running, and all it does at once.        *)
Calls(op, arg, x) ==
  /\ rest = <<>>
  /\ s' = x /\ call' = [op |-> op, arg |-> arg]
  /\ UNCHANGED rest

Fits(n) == n <= MaxLen
Room(t) == Fits(s.len + Len(t))
Goes(t) == s.len + Len(t) <= MaxOut

New(t)      == Fits(Len(t)) /\ Calls("new", t, NewLen(t))
Cat(t)      == Room(t) /\ Calls("cat", t, CatLen(s, t))
Append1(t)  == Room(t) /\ t # <<>> /\ Calls("cat", t, Fill(s, t))
Cpy(t)      == Fits(Len(t)) /\ Calls("cpy", t, CpyLen(s, t))
Grow(n)     == Fits(n) /\ Calls("grow", n, GrowZero(s, n))
Shrink      == Calls("shrink", 0, RemoveFreeSpace(s))
Drop(n)     == n \in 1 .. s.len /\ Calls("cut", s.len - n, Cut(s, s.len - n))
Update      == Calls("update", 0, UpdateLen(s))
Slice(a, b) == Calls("range", <<a, b>>, SubRange(s, a, b))
Strip(set)  == Calls("trim", set, Trim(s, set))

(* sdscatfmt: room for the format twice over, and one item a step; for     *)
(* every item room for one character, then for the item.                   *)
CatFmt(f) ==
  /\ rest = <<>> /\ Fits(s.len + f.len)
  /\ s' = MakeRoomFor(s, s.len + 2 * f.len)
  /\ call' = [op |-> "fmt", arg |-> f] /\ rest' = f.items

(* Mutant: an item longer than a character finds no room of its own.       *)
FmtItem_OneChar ==
  /\ rest # <<>> /\ call.op = "fmt" /\ Goes(Head(rest))
  /\ LET t    == Head(rest)
         room == IF Avail(s) = 0 THEN MakeRoomFor(s, 1) ELSE s
         more == SetLen(Put(room, s.len, t), s.len + Len(t))
     IN  s' = IF Tail(rest) = <<>> THEN Terminate(more, more.len) ELSE more
  /\ rest' = Tail(rest) /\ UNCHANGED call

FmtItem ==
  /\ rest # <<>> /\ call.op = "fmt" /\ Goes(Head(rest))
  /\ LET t    == Head(rest)
         one  == IF Avail(s) = 0 THEN MakeRoomFor(s, 1) ELSE s
         room == IF Avail(one) < Len(t) THEN MakeRoomFor(one, Len(t)) ELSE one
         more == SetLen(Put(room, s.len, t), s.len + Len(t))
     IN  s' = IF Tail(rest) = <<>> THEN Terminate(more, more.len) ELSE more
  /\ rest' = Tail(rest) /\ UNCHANGED call

(* sdscatrepr: a quote, every byte, a quote.                               *)
CatRepr(t) ==
  /\ rest = <<>> /\ Room(t) /\ Goes(Quote)
  /\ s' = CatLen(s, Quote)
  /\ call' = [op |-> "repr", arg |-> t]
  /\ rest' = [k \in 1 .. Len(t) |-> Repr(t[k])] \o <<Quote>>

ReprByte ==
  /\ rest # <<>> /\ call.op = "repr" /\ Goes(Head(rest))
  /\ s' = CatLen(s, Head(rest))
  /\ rest' = Tail(rest) /\ UNCHANGED call

SdsNext ==
  \/ \E t \in Texts : New(t) \/ Cat(t) \/ Append1(t) \/ Cpy(t) \/ CatRepr(t)
  \/ \E n \in 0 .. MaxLen : Grow(n) \/ Drop(n)
  \/ \E a, b \in Ends : Slice(a, b)
  \/ \E t \in Texts : Strip({t[k] : k \in 1 .. Len(t)})
  \/ \E f \in Formats : CatFmt(f)
  \/ FmtItem \/ ReprByte \/ Shrink \/ Update

SdsSpec == SdsInit /\ [][SdsNext]_sdsVars

-----------------------------------------------------------------------------
(* The characters of the string.                                           *)
Text(x) == [k \in 1 .. x.len |-> x.buf[k - 1]]

(* The type invariant.                                                     *)
SdsTypeOK ==
  /\ s.type \in Types /\ s.len \in Nat /\ s.alloc \in Nat /\ s.room \in Nat
  /\ s.buf \in [0 .. s.room -> 0 .. 255 \cup {Junk}]
  /\ s.over \in BOOLEAN
  /\ rest \in Seq(Seq(0 .. 255))

(* After any sequence of calls, in whatever order strings grow, shrink and *)
(* change their header, and also between two steps of a loop: the length   *)
(* in the header has not been cut off by its width, there is really as     *)
(* much room as the header says, nothing was written outside of the block, *)
(* no character is one nobody wrote, and the terminator is where strlen    *)
(* and printf will look for it (sdscatfmt puts it there at its end).       *)
BlockSound ==
  /\ s.len <= Alloc(s) /\ Alloc(s) <= s.room
  /\ ~ s.over
  /\ \A k \in 0 .. s.len - 1 : s.buf[k] # Junk
  /\ (call.op = "fmt" /\ rest # <<>>) \/ s.buf[s.len] = 0

String == INSTANCE ByteString WITH text <- Text(s)

(* The blocks and headers implement strings of bytes: every call does to    *)
(* the characters what it promises, wherever the block moves.              *)
ImplementsString == String!Spec
=============================================================================
