------------------------------ MODULE UjParse -------------------------------
(***************************************************************************)
(* uj_parse of c/ujson.c: the goto machine that turns a buffer into a tree *)
(* of nodes.  pc is the label control is at; every action is the code from *)
(* one label to the next goto, so a step reads at most one character       *)
(* (plus the one that the comment tests look ahead to).                    *)
(*                                                                         *)
(* The buffer is a sequence of characters.  A character class the code     *)
(* tests with a range is a constant set holding a few representatives;     *)
(* the words bound in handlers are sequences of such letters.  pos counts  *)
(* from 0, as in C, so data[pos] is written data[pos + 1].                 *)
(***************************************************************************)
EXTENDS UjNode

CONSTANTS
  Inputs,         \* the buffers a caller may pass
  Lower,          \* representatives of 'a'..'z'
  Digit,          \* representatives of '0'..'9'
  Hex,            \* representatives of the hexadecimal digits
  Eol,            \* carriage return and line feed
  Handlers,       \* the table uj_init fills: word -> node type
  ArrayStackMax,  \* the length of arrayParentStack
  BeginStates     \* beginState->state, 0 standing for a NULL beginState

ASSUME ParseAssumption ==
  /\ \A d \in Inputs : d \in Seq(STRING)
  /\ ArrayStackMax \in Nat \ {0}
  /\ \A w \in DOMAIN Handlers : Handlers[w] \in {"true", "false", "null"}

VARIABLES
  data, pc, pos,
  keyStart, keyLen,                                 \* the key being filled
  typeStart, strStart, neg, slashCnt, stringType,   \* the value being read
  stack,                                            \* arrayParentStack
  cur, heap                                         \* the tree being built

keyVars  == <<keyStart, keyLen>>
valVars  == <<typeStart, strStart, neg, slashCnt, stringType>>
treeVars == <<stack, cur, heap>>
vars     == <<data, pc, pos, keyVars, valVars, treeVars>>

Uninit == -1     \* a C local no statement has assigned yet
Root   == 1

(* Done: root was returned.  Exit: the process ended in exit(1).           *)
(* Undefined: arrayParentStack was indexed outside its bounds.             *)
Terminal == {"Done", "Exit", "Undefined"}

KeyScan   == {"QQKeyName1", "QQKeyNameX", "QKeyName1", "QKeyNameX", "KeyName1", "KeyNameX"}
HexScan   == {"SlashHex1", "SlashHex2", "SlashHex3", "SlashHex4"}
ValueScan == {"Colon", "AfterColon", "TypeX", "AC_Comment", "AC_Comment2", "Number1", "NumberX",
              "AfterDot", "String1", "StringX", "StrSlash1", "AfterVal"} \cup HexScan
HashScan  == {"Hash", "HashComment", "HashComment2"}
Reading   == KeyScan \cup ValueScan \cup HashScan

(* The labels the switch on beginState->state jumps to.                    *)
ResumeLabel ==
  <<"HashComment", "HashComment2", "QQKeyName1", "QQKeyNameX", "QKeyName1", "QKeyNameX",
    "KeyName1", "KeyNameX", "Colon", "AfterColon", "TypeX", "Hash", "AC_Comment",
    "AC_Comment2", "Number1", "NumberX", "String1", "StringX", "AfterVal">>

Init ==
  /\ data \in Inputs
  /\ \E b \in BeginStates : pc = IF b \in 1 .. 19 THEN ResumeLabel[b] ELSE "Hash"
  /\ pos = 1
  /\ keyStart = Uninit /\ keyLen = Uninit
  /\ typeStart = Uninit /\ strStart = Uninit
  /\ neg = FALSE /\ slashCnt = 0 /\ stringType = 0
  /\ stack = <<>>
  /\ cur = Root
  /\ heap = <<NewHash(NULL)>>

-----------------------------------------------------------------------------
(* The SAFE and SAFEGET macros: at the end of the buffer every label ends  *)
(* the parse; elsewhere the character at pos is available.                 *)
Safe ==
  /\ pc \in Reading
  /\ pos >= Len(data)
  /\ pc' = "Done"
  /\ UNCHANGED <<data, pos, keyVars, valVars, treeVars>>

At(label) == pc = label /\ pos < Len(data) /\ UNCHANGED data

Let == data[pos + 1]

(* `pos < (len-1) && data[pos] == c`, tested after pos++.                  *)
NextIs(c) == pos + 1 < Len(data) - 1 /\ data[pos + 2] = c

(* Consume n characters and go to a label.                                 *)
Goto(label, n) == pc' = label /\ pos' = pos + n

CommentOpens == Let = "/" /\ (NextIs("/") \/ NextIs("*"))

-----------------------------------------------------------------------------
(* Between the entries of a hash.                                          *)
Hash ==
  /\ At("Hash")
  /\ UNCHANGED <<keyVars, valVars, stack, heap>>
  /\ \/ Let = "\"" /\ Goto("QQKeyName1", 1) /\ UNCHANGED cur
     \/ Let = "'" /\ Goto("QKeyName1", 1) /\ UNCHANGED cur
     \/ Let \in Lower /\ Goto("KeyName1", 0) /\ UNCHANGED cur
     \/ /\ Let = "}" /\ heap[cur].parent # NULL
        /\ cur' = heap[cur].parent
        /\ Goto(IF heap[cur'].type = "arr" THEN "AfterColon" ELSE "Hash", 1)
     \/ Let = "/" /\ NextIs("/") /\ Goto("HashComment", 2) /\ UNCHANGED cur
     \/ Let = "/" /\ NextIs("*") /\ Goto("HashComment2", 2) /\ UNCHANGED cur
     \/ /\ Let \notin Lower \cup {"\"", "'"} /\ ~ CommentOpens
        /\ Let = "}" => heap[cur].parent = NULL
        /\ Goto("Hash", 1) /\ UNCHANGED cur

EolComment(label, back) ==
  /\ At(label)
  /\ Goto(IF Let \in Eol THEN back ELSE label, 1)
  /\ UNCHANGED <<keyVars, valVars, treeVars>>

StarComment(label, back) ==
  /\ At(label)
  /\ IF Let = "*" /\ NextIs("/") THEN Goto(back, 2) ELSE Goto(label, 1)
  /\ UNCHANGED <<keyVars, valVars, treeVars>>

HashComment  == EolComment("HashComment", "Hash")
HashComment2 == StarComment("HashComment2", "Hash")

(* The first character of a quoted key; an escape takes two.               *)
QuotedKey1(label, next) ==
  /\ At(label)
  /\ keyStart' = pos
  /\ Goto(next, IF Let = "\\" THEN 2 ELSE 1)
  /\ UNCHANGED <<keyLen, valVars, treeVars>>

(* Mutant: the closing quote is counted as part of the key.                *)
QuotedKeyX_WithQuote(label, quote) ==
  /\ At(label)
  /\ \/ Let = "\\" /\ Goto(label, 2) /\ UNCHANGED keyLen
     \/ Let = quote /\ keyLen' = pos - keyStart + 1 /\ Goto("Colon", 1)
     \/ Let \notin {"\\", quote} /\ Goto(label, 1) /\ UNCHANGED keyLen
  /\ UNCHANGED <<keyStart, valVars, treeVars>>

QuotedKeyX(label, quote) ==
  /\ At(label)
  /\ \/ Let = "\\" /\ Goto(label, 2) /\ UNCHANGED keyLen
     \/ Let = quote /\ keyLen' = pos - keyStart /\ Goto("Colon", 1)
     \/ Let \notin {"\\", quote} /\ Goto(label, 1) /\ UNCHANGED keyLen
  /\ UNCHANGED <<keyStart, valVars, treeVars>>

QQKeyName1 == QuotedKey1("QQKeyName1", "QQKeyNameX")
QQKeyNameX == QuotedKeyX("QQKeyNameX", "\"")
QKeyName1  == QuotedKey1("QKeyName1", "QKeyNameX")
QKeyNameX  == QuotedKeyX("QKeyNameX", "'")

(* Mutant: the start of the key is not noted.                              *)
KeyName1_NoStart ==
  /\ At("KeyName1")
  /\ Goto("KeyNameX", 1)
  /\ UNCHANGED <<keyVars, valVars, treeVars>>

KeyName1 ==
  /\ At("KeyName1")
  /\ keyStart' = pos
  /\ Goto("KeyNameX", 1)
  /\ UNCHANGED <<keyLen, valVars, treeVars>>

KeyNameX ==
  /\ At("KeyNameX")
  /\ \/ Let = ":" /\ keyLen' = pos - keyStart /\ Goto("AfterColon", 1)
     \/ Let \in {" ", "\t"} /\ keyLen' = pos - keyStart /\ Goto("Colon", 1)
     \/ Let \notin {":", " ", "\t"} /\ Goto("KeyNameX", 1) /\ UNCHANGED keyLen
  /\ UNCHANGED <<keyStart, valVars, treeVars>>

(* Mutant: a character that is not the colon is looked at again.           *)
Colon_Stuck ==
  /\ At("Colon")
  /\ IF Let = ":" THEN Goto("AfterColon", 1) ELSE Goto("Colon", 0)
  /\ UNCHANGED <<keyVars, valVars, treeVars>>

Colon ==
  /\ At("Colon")
  /\ Goto(IF Let = ":" THEN "AfterColon" ELSE "Colon", 1)
  /\ UNCHANGED <<keyVars, valVars, treeVars>>

-----------------------------------------------------------------------------
(* A finished node goes under cur, by key or at the end of an array.       *)
Attached(node) ==
  LET grown == Append(heap, node)
      el    == Len(heap) + 1
  IN  IF heap[cur].type = "hash"
      THEN HashStore(grown, cur, [start |-> keyStart, len |-> keyLen], el)
      ELSE ArrAdd(grown, cur, el)

AfterAttach == IF heap[cur].type = "hash" THEN "AfterVal" ELSE "AfterColon"

(* A value that opens no container, ended by the current character.        *)
Scalar(node, eaten) ==
  /\ heap' = Attached(node)
  /\ Goto(AfterAttach, eaten)
  /\ UNCHANGED <<cur, stack>>

(* `{` and `[` attach an empty container and descend into it.              *)
OpenHash ==
  /\ Let = "{"
  /\ heap' = Attached(NewHash(cur))
  /\ cur' = Len(heap) + 1
  /\ Goto("Hash", 1)
  /\ UNCHANGED <<valVars, stack>>

(* Mutant: the bound of the stack is off by one.                           *)
OpenArr_OneMore ==
  /\ Let = "["
  /\ IF Len(stack) <= ArrayStackMax
     THEN /\ stack' = Append(stack, cur)
          /\ heap' = Attached(NewArr)
          /\ cur' = Len(heap) + 1
          /\ Goto("AfterColon", 1)
     ELSE pc' = "Undefined" /\ UNCHANGED <<pos, treeVars>>
  /\ UNCHANGED valVars

OpenArr ==
  /\ Let = "["
  /\ IF Len(stack) < ArrayStackMax
     THEN /\ stack' = Append(stack, cur)
          /\ heap' = Attached(NewArr)
          /\ cur' = Len(heap) + 1
          /\ Goto("AfterColon", 1)
     ELSE pc' = "Undefined" /\ UNCHANGED <<pos, treeVars>>
  /\ UNCHANGED valVars

(* Mutant: `]` returns to the outermost container on the stack.            *)
CloseArr_Outermost ==
  /\ Let = "]"
  /\ IF stack # <<>>
     THEN /\ cur' = stack[1]
          /\ stack' = SubSeq(stack, 1, Len(stack) - 1)
          /\ Goto(IF heap[cur'].type = "arr" THEN "AfterColon" ELSE "Hash", 1)
     ELSE pc' = "Undefined" /\ UNCHANGED <<pos, stack, cur>>
  /\ UNCHANGED <<valVars, heap>>

CloseArr ==
  /\ Let = "]"
  /\ IF stack # <<>>
     THEN /\ cur' = stack[Len(stack)]
          /\ stack' = SubSeq(stack, 1, Len(stack) - 1)
          /\ Goto(IF heap[cur'].type = "arr" THEN "AfterColon" ELSE "Hash", 1)
     ELSE pc' = "Undefined" /\ UNCHANGED <<pos, stack, cur>>
  /\ UNCHANGED <<valVars, heap>>

(* The first character of a string, a word, a comment or a number.         *)
StartValue ==
  /\ \/ Let = "\"" /\ stringType' = 0 /\ Goto("String1", 1) /\ UNCHANGED <<typeStart, neg>>
     \/ Let = "'" /\ stringType' = 1 /\ Goto("String1", 1) /\ UNCHANGED <<typeStart, neg>>
     \/ Let \in Lower /\ typeStart' = pos /\ Goto("TypeX", 1) /\ UNCHANGED <<stringType, neg>>
     \/ Let \in Digit /\ neg' = FALSE /\ Goto("Number1", 1) /\ UNCHANGED <<stringType, typeStart>>
     \/ Let = "-" /\ neg' = TRUE /\ Goto("Number1", 2) /\ UNCHANGED <<stringType, typeStart>>
     \/ /\ UNCHANGED <<stringType, typeStart, neg>>
        /\ \/ Let = "/" /\ NextIs("/") /\ Goto("AC_Comment", 2)
           \/ Let = "/" /\ NextIs("*") /\ Goto("AC_Comment2", 2)
           \/ /\ Let \notin Lower \cup Digit \cup {"\"", "'", "{", "-", "[", "]"}
              /\ ~ CommentOpens
              /\ Goto("AfterColon", 1)
  /\ UNCHANGED <<strStart, slashCnt, treeVars>>

AfterColon ==
  /\ At("AfterColon")
  /\ OpenHash \/ OpenArr \/ CloseArr \/ StartValue
  /\ UNCHANGED keyVars

(* A comment after the colon ends in AfterColon if it is a // one, but in  *)
(* Hash if it is a slash-star one.                                         *)
AC_Comment  == EolComment("AC_Comment", "AfterColon")
AC_Comment2 == StarComment("AC_Comment2", "Hash")

(* The digit test of the source compares with the number 9, not with '9',  *)
(* so only letters continue a word.                                        *)
TypeX ==
  /\ At("TypeX")
  /\ LET word == SubSeq(data, (IF typeStart = Uninit THEN 0 ELSE typeStart) + 1, pos)
     IN  \/ Let \in Lower /\ Goto("TypeX", 1) /\ UNCHANGED treeVars
         \/ /\ Let \notin Lower /\ word \in DOMAIN Handlers
            /\ Scalar(NewNode(Handlers[word]), 0)
         \/ /\ Let \notin Lower /\ word \notin DOMAIN Handlers
            /\ Goto("Exit", 0) /\ UNCHANGED treeVars
  /\ UNCHANGED <<keyVars, valVars>>

Number1 ==
  /\ At("Number1")
  /\ strStart' = pos - 1
  /\ Goto("NumberX", 0)
  /\ UNCHANGED <<keyVars, typeStart, neg, slashCnt, stringType, treeVars>>

NumberNode == NewStr(IF neg THEN "neg" ELSE "pos", strStart, pos - strStart, FALSE)

(* Mutant: the character that ends a number is consumed with it.           *)
NumberX_Eats ==
  /\ At("NumberX")
  /\ \/ Let = "." /\ Goto("AfterDot", 1) /\ UNCHANGED treeVars
     \/ Let \in Digit /\ Goto("NumberX", 1) /\ UNCHANGED treeVars
     \/ Let \notin Digit \cup {"."} /\ Scalar(NumberNode, 1)
  /\ UNCHANGED <<keyVars, valVars>>

NumberX ==
  /\ At("NumberX")
  /\ \/ Let = "." /\ Goto("AfterDot", 1) /\ UNCHANGED treeVars
     \/ Let \in Digit /\ Goto("NumberX", 1) /\ UNCHANGED treeVars
     \/ Let \notin Digit \cup {"."} /\ Scalar(NumberNode, 0)
  /\ UNCHANGED <<keyVars, valVars>>

(* Unlike NumberX, the character that ends a fraction is consumed.         *)
AfterDot ==
  /\ At("AfterDot")
  /\ \/ Let \in Digit /\ Goto("AfterDot", 1) /\ UNCHANGED treeVars
     \/ Let \notin Digit /\ Scalar(NumberNode, 1)
  /\ UNCHANGED <<keyVars, valVars>>

(* Mutant: the start of the string is not noted.                           *)
String1_NoStart ==
  /\ At("String1")
  /\ slashCnt' = 0
  /\ \/ Let \in {"\"", "'"} /\ Scalar(NewStr("str", Uninit, 0, FALSE), 1)
     \/ Let \notin {"\"", "'"} /\ Goto("StringX", 1) /\ UNCHANGED treeVars
  /\ UNCHANGED <<keyVars, typeStart, strStart, neg, stringType>>

(* Either quote ends an empty string, whichever one opened it.             *)
String1 ==
  /\ At("String1")
  /\ slashCnt' = 0
  /\ \/ Let \in {"\"", "'"} /\ Scalar(NewStr("str", Uninit, 0, FALSE), 1) /\ UNCHANGED strStart
     \/ /\ Let \notin {"\"", "'"}
        /\ strStart' = pos
        /\ Goto("StringX", 1) /\ UNCHANGED treeVars
  /\ UNCHANGED <<keyVars, typeStart, neg, stringType>>

Quote == IF stringType = 0 THEN "\"" ELSE "'"

(* The code at StringX2, entered with the character already read.          *)
StringX2 ==
  \/ /\ Let = Quote
     /\ Scalar(NewStr("str", strStart, pos - strStart, slashCnt > 0), 1)
     /\ UNCHANGED slashCnt
  \/ /\ Let = "\\" /\ slashCnt' = slashCnt + 1
     /\ Goto("StrSlash1", 1) /\ UNCHANGED treeVars
  \/ Let \notin {Quote, "\\"} /\ Goto("StringX", 1) /\ UNCHANGED <<slashCnt, treeVars>>

StringFrame == UNCHANGED <<keyVars, typeStart, strStart, neg, stringType>>

StringX == At("StringX") /\ StringX2 /\ StringFrame

(* Mutant: the escaped character is given back.                            *)
StrSlash1_GivesBack ==
  /\ At("StrSlash1")
  /\ \/ Let \in {Quote, "\\"} /\ Goto("StringX", 0) /\ UNCHANGED <<slashCnt, treeVars>>
     \/ Let = "u" /\ Goto("SlashHex1", 1) /\ UNCHANGED <<slashCnt, treeVars>>
     \/ Let \notin {Quote, "\\", "u"} /\ StringX2
  /\ StringFrame

StrSlash1 ==
  /\ At("StrSlash1")
  /\ \/ Let \in {Quote, "\\"} /\ Goto("StringX", 1) /\ UNCHANGED <<slashCnt, treeVars>>
     \/ Let = "u" /\ Goto("SlashHex1", 1) /\ UNCHANGED <<slashCnt, treeVars>>
     \/ Let \notin {Quote, "\\", "u"} /\ StringX2
  /\ StringFrame

(* Three hexadecimal digits are checked, the fourth is taken as it comes.  *)
SlashHex(label, next) ==
  /\ At(label)
  /\ \/ Let \in Hex /\ Goto(next, 1) /\ UNCHANGED <<slashCnt, treeVars>>
     \/ Let \notin Hex /\ StringX2
  /\ StringFrame

SlashHex4 == At("SlashHex4") /\ StringX2 /\ StringFrame

SlashHexN ==
  \/ SlashHex("SlashHex1", "SlashHex2")
  \/ SlashHex("SlashHex2", "SlashHex3")
  \/ SlashHex("SlashHex3", "SlashHex4")
  \/ SlashHex4

AfterVal ==
  /\ At("AfterVal")
  /\ Goto("Hash", 0)
  /\ UNCHANGED <<keyVars, valVars, treeVars>>

-----------------------------------------------------------------------------
Step ==
  \/ Safe \/ Hash \/ HashComment \/ HashComment2
  \/ QQKeyName1 \/ QQKeyNameX \/ QKeyName1 \/ QKeyNameX \/ KeyName1 \/ KeyNameX \/ Colon
  \/ AfterColon \/ AC_Comment \/ AC_Comment2 \/ TypeX \/ Number1 \/ NumberX \/ AfterDot
  \/ String1 \/ StringX \/ StrSlash1 \/ SlashHexN \/ AfterVal

Stopped == pc \in Terminal /\ UNCHANGED vars

Next == Step \/ Stopped

(* uj_parse is an ordinary function: once called it keeps running.         *)
Spec == Init /\ [][Next]_vars /\ WF_vars(Step)

-----------------------------------------------------------------------------
(* The links of a node lead to nodes allocated so far, or nowhere.         *)
Linked(node, allocated) ==
  /\ node.parent \in 0 .. allocated
  /\ node.head \in 0 .. allocated /\ node.tail \in 0 .. allocated
  /\ \A i \in 1 .. Len(node.tree) : node.tree[i].val \in 1 .. allocated

(* The type invariant.                                                     *)
TypeOK ==
  /\ data \in Seq(STRING)
  /\ pc \in Reading \cup Terminal
  /\ pos \in Nat \ {0}
  /\ keyStart \in Int /\ keyLen \in Int
  /\ typeStart \in Int /\ strStart \in Int
  /\ neg \in BOOLEAN /\ slashCnt \in Nat /\ stringType \in {0, 1}
  /\ heap \in Seq(Node)
  /\ \A n \in 1 .. Len(heap) : Linked(heap[n], Len(heap))
  /\ cur \in 1 .. Len(heap)
  /\ stack \in Seq(1 .. Len(heap)) /\ Len(stack) <= ArrayStackMax

(* A slice the parser cut: at least one character, after the first one of  *)
(* the buffer (which is skipped) and inside it.                            *)
InData(s) == s.start >= 1 /\ s.len >= 1 /\ s.start + s.len <= Len(data)

(* Every key and every string kept in the tree points into the buffer, or  *)
(* is the empty string: no run of characters the machine cuts reaches past *)
(* the end, has a negative length or starts at a pointer never assigned.   *)
SlicesInBounds ==
  \A n \in 1 .. Len(heap) :
    /\ heap[n].str = NullStr \/ InData(heap[n].str)
    /\ \A i \in 1 .. Len(heap[n].tree) : InData(heap[n].tree[i].key)

(* Where a value is about to be stored in a hash, keyStart and keyLen have *)
(* been assigned: they are C locals without initialisers.                  *)
KeyAssigned ==
  pc \in ValueScan \ {"Colon"} /\ heap[cur].type = "hash" => keyStart # Uninit /\ keyLen # Uninit

(* The inductive form of SlicesInBounds: what each label knows of the two   *)
(* pointers into data that are still to become a slice.                    *)
KeySet == InData([start |-> keyStart, len |-> keyLen])

SliceInv ==
  /\ SlicesInBounds
  /\ pc \in {"QQKeyNameX", "QKeyNameX", "KeyNameX"} => keyStart >= 1 /\ keyStart < pos
  /\ pc \in ValueScan => KeySet
  /\ pc \in HashScan => KeySet \/ Len(heap) = 1
  /\ Len(heap) = 1 => heap[1].parent = NULL
  /\ pc = "Number1" => pos >= 2
  /\ pc \in {"NumberX", "AfterDot", "StringX", "StrSlash1"} \cup HexScan =>
       strStart >= 1 /\ strStart < pos

(* No value is stored, and nothing returned, after a read outside          *)
(* arrayParentStack or an exit: the parser always hands back a tree.       *)
AlwaysReturns == pc \notin {"Exit", "Undefined"}

(* The labels in the order in which they can be entered without consuming  *)
(* a character.                                                            *)
Rank(label) ==
  CASE label \in Terminal                     -> 5
    [] label \in {"TypeX", "Number1"}         -> 0
    [] label = "NumberX"                      -> 1
    [] label = "AfterVal"                     -> 2
    [] label = "Hash"                         -> 3
    [] OTHER                                  -> 4

(* Every step either consumes input or moves up in Rank, although five     *)
(* labels give the character they read back (pos--): so uj_parse takes at  *)
(* most six steps per character whatever the buffer holds.                 *)
Advance == [][pos' > pos \/ (pos' = pos /\ Rank(pc') > Rank(pc))]_vars

(* uj_parse returns, exits or runs outside arrayParentStack on every       *)
(* buffer: it does not loop.                                               *)
Termination == <>(pc \in Terminal)

-----------------------------------------------------------------------------
(* What the tree promises: UjDocument.  The containers still open are those *)
(* that the up links reach from cur, base.parent for a hash and the stack   *)
(* for an array; fuel bounds the walk, as ids only grow downwards.          *)
OpenPath ==
  LET walk[e \in (1 .. Len(heap)) \X (0 .. Len(stack)) \X (0 .. Len(heap))] ==
        LET n     == e[1]
            depth == e[2]
            fuel  == e[3]
            up    == IF heap[n].type # "arr" THEN heap[n].parent
                     ELSE IF depth = 0 THEN NULL ELSE stack[depth]
            d     == IF heap[n].type = "arr" /\ depth > 0 THEN depth - 1 ELSE depth
        IN  IF up = NULL \/ fuel = 0 THEN <<n>> ELSE Append(walk[<<up, d, fuel - 1>>], n)
  IN  walk[<<cur, Len(stack), Len(heap)>>]

Kids(n) ==
  CASE heap[n].type = "arr"  -> Elements(heap, n)
    [] heap[n].type = "hash" -> [i \in 1 .. Len(heap[n].tree) |-> heap[n].tree[i].val]
    [] OTHER                 -> <<>>

Document == INSTANCE UjDocument WITH
  kind <- [n \in 1 .. Len(heap) |-> heap[n].type],
  kids <- [n \in 1 .. Len(heap) |-> Kids(n)],
  path <- OpenPath

(* The two uses of base.parent never collide and the array stack stays in   *)
(* step with the tree: every closer returns to the container that really    *)
(* holds the one closed, every value goes last into the innermost open      *)
(* container, and nothing stored is ever lost or moved.                     *)
BuildsDocument == Document!Spec
=============================================================================
