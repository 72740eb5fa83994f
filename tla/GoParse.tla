------------------------------ MODULE GoParse -------------------------------
(***************************************************************************)
(* ParseFull of go/ujsonin.go: the Go port of the goto machine.  pc is the *)
(* label control is at and an action is the code from one label to the     *)
(* next goto.  It differs from uj_parse in what this module is about: a    *)
(* root may be an array or a hash without braces, several roots may follow *)
(* one another and be handed to a callback, a container knows its parent,  *)
(* the end of the data is an error, and a panic caused by reading past the *)
(* end of the data is recovered.                                           *)
(*                                                                         *)
(* pos counts from 0, so data[pos] is data[pos + 1] here; the Go slice     *)
(* data[a:b] is SubSeq(data, a + 1, b).                                    *)
(***************************************************************************)
EXTENDS Integers, Sequences

CONSTANTS
  Calls,      \* what ParseFull is called with: the bytes, and whether
              \* opts.OnRootChunk is set
  Lower,      \* representatives of 'a'..'z'
  Upper,      \* representatives of 'A'..'Z' and '_'
  Digit,      \* representatives of '0'..'9'
  Eol,        \* carriage return and line feed
  Handlers    \* the handlers table: word -> node type

ASSUME GoAssumption ==
  /\ \A c \in Calls : c.data \in Seq(STRING) /\ c.chunked \in BOOLEAN
  /\ \A w \in DOMAIN Handlers : Handlers[w] \in {"true", "false", "null"}

(* A literal is a string: true of TLA+, but not known to the provers.      *)
ASSUME Literals == {"\"", "\\"} \subseteq STRING

VARIABLES
  data, onRootChunk,                    \* the arguments
  pc, pos,
  keyStart, key,                        \* the key being read
  typeStart, strStart, neg,             \* the word or number being read
  endc, str, substrStart,               \* the string being read
  cur, nodeType, root, heap,            \* the tree being built
  chunks,                               \* the roots handed to the callback
  remainder, err                        \* with root, what is returned

args    == <<data, onRootChunk>>
keyVars == <<keyStart, key>>
numVars == <<typeStart, strStart, neg>>
strVars == <<str, substrStart>>
outVars == <<chunks, remainder, err>>
tree    == <<cur, nodeType, heap>>
vars    == <<args, pc, pos, keyVars, numVars, endc, strVars, tree, root, outVars>>

nil  == 0
Tick == "tick"     \* the back quote, which TLA+ strings cannot hold

size == Len(data)

Containers == {"hash", "arr"}
NodeTypes  == Containers \cup {"str", "pos", "neg", "float_pos", "float_neg",
                               "true", "false", "null"}

RootScan == {"UnknownRoot", "RootHashComment", "RootHashComment2"}
KeyScan  == {"Hash", "HashComment", "HashComment2", "QKeyName1", "QKeyNameX",
             "KeyName1", "KeyNameX", "Colon"}
ValScan  == {"AfterColon", "TypeX", "AC_Comment", "AC_Comment2", "Number1", "NumberX",
             "AfterDot", "String1", "StringX", "Escape"}
InRoot   == KeyScan \cup ValScan

(* The labels that begin with `if pos > endi { goto OverEnd }`.            *)
Checked == (RootScan \cup InRoot) \ {"QKeyName1", "KeyName1", "Number1"}

(* JHash, JArr and JVal in one record; a hash is a function from keys.     *)
NewNode(t, parent, text) ==
  [type |-> t, parent |-> parent, hash |-> <<>>, arr |-> <<>>, str |-> text]

NewJHash(parent) == NewNode("hash", parent, <<>>)
NewJArr(parent)  == NewNode("arr", parent, <<>>)
NewJVal(t, text) == NewNode(t, nil, text)

(* Add of JHash, which replaces what the key had, and of JArr.             *)
Add(h, n, k, el) ==
  IF h[n].type = "hash"
  THEN [h EXCEPT ![n].hash = [x \in DOMAIN @ \cup {k} |-> IF x = k THEN el ELSE @[x]]]
  ELSE [h EXCEPT ![n].arr = Append(@, el)]

Init ==
  /\ \E c \in Calls : data = c.data /\ onRootChunk = c.chunked
  /\ pc = "UnknownRoot" /\ pos = 0
  /\ keyStart = 0 /\ key = <<>>
  /\ typeStart = 0 /\ strStart = 0 /\ neg = FALSE
  /\ endc = "\"" /\ str = <<>> /\ substrStart = 0
  /\ cur = nil /\ nodeType = "none" /\ root = nil /\ heap = <<>>
  /\ chunks = <<>> /\ remainder = <<>> /\ err = "none"

-----------------------------------------------------------------------------
(* Control is at a label and there is a byte to read.                      *)
At(label) == pc = label /\ pos < size /\ UNCHANGED args

Let == data[pos + 1]

(* `pos < (size-1) && data[pos] == c`, tested after pos++.                 *)
NextIs(c) == pos + 1 < size - 1 /\ data[pos + 2] = c

CommentOpens == Let = "/" /\ (NextIs("/") \/ NextIs("*"))

(* Read n bytes and go to a label.                                         *)
Goto(label, n) == pc' = label /\ pos' = pos + n

(* The text from start up to the byte being read.                          *)
Since(start) == SubSeq(data, start + 1, pos)

Rest(from) == SubSeq(data, from + 1, size)

HashOrAfterColon(type) == IF type = "hash" THEN "Hash" ELSE "AfterColon"

(* Mutant: the end of the data ends the parse as the end of a root does.   *)
OverrunAt_Done ==
  /\ pc \in Checked /\ pos >= size
  /\ Goto("Returned", 0)
  /\ UNCHANGED <<args, keyVars, numVars, endc, strVars, tree, root, outVars>>

OverrunAt ==
  /\ pc \in Checked /\ pos >= size
  /\ Goto("OverEnd", 0)
  /\ UNCHANGED <<args, keyVars, numVars, endc, strVars, tree, root, outVars>>

(* GetPosInfo reads every byte before pos to count lines: with pos past the *)
(* end of the data it panics.                                              *)
GetPosInfoPanics == pos > size

(* The deferred function recovers the panic and assigns err, but err is not *)
(* a named result: the caller gets nil, nil, nil.                          *)
Recovered == root' = nil /\ remainder' = <<>> /\ err' = "none"

OverEnd ==
  /\ pc = "OverEnd"
  /\ Goto("Returned", 0)
  /\ IF GetPosInfoPanics
     THEN Recovered
     ELSE err' = "JSON Incomplete" /\ UNCHANGED <<root, remainder>>
  /\ UNCHANGED <<args, keyVars, numVars, endc, strVars, tree, chunks>>

Done(n) == Goto("Returned", n)

-----------------------------------------------------------------------------
(* Before and between roots.  A root whose opening byte is the last one is *)
(* not looked at.                                                          *)
NewRoot(node) ==
  /\ heap' = Append(heap, node)
  /\ cur' = Len(heap) + 1
  /\ root' = cur'
  /\ nodeType' = node.type

UnknownRoot ==
  /\ At("UnknownRoot")
  /\ UNCHANGED <<keyVars, numVars, strVars, outVars>>
  /\ \/ pos + 1 >= size /\ Done(1) /\ UNCHANGED <<endc, tree, root>>
     \/ /\ pos + 1 < size
        /\ \/ Let = "{" /\ NewRoot(NewJHash(nil)) /\ Goto("Hash", 1) /\ UNCHANGED endc
           \/ Let = "[" /\ NewRoot(NewJArr(nil)) /\ Goto("AfterColon", 1) /\ UNCHANGED endc
           \/ /\ Let \in {"'", "\""} /\ endc' = Let
              /\ NewRoot(NewJHash(nil)) /\ Goto("QKeyName1", 1)
           \/ /\ Let \in Lower \cup Upper
              /\ NewRoot(NewJHash(nil)) /\ Goto("KeyName1", 0) /\ UNCHANGED endc
           \/ /\ Let \notin Lower \cup Upper \cup {"{", "[", "'", "\""}
              /\ \/ Let = "/" /\ NextIs("/") /\ Goto("RootHashComment", 2)
                 \/ Let = "/" /\ NextIs("*") /\ Goto("RootHashComment2", 2)
                 \/ ~ CommentOpens /\ Goto("UnknownRoot", 1)
              /\ UNCHANGED <<endc, tree, root>>

EolComment(label, back) ==
  /\ At(label)
  /\ Goto(IF Let \in Eol THEN back ELSE label, 1)
  /\ UNCHANGED <<keyVars, numVars, endc, strVars, tree, root, outVars>>

(* The last byte of the data cannot end a comment of this kind.            *)
StarComment(label, back) ==
  /\ At(label)
  /\ \/ pos + 1 >= size /\ Goto("OverEnd", 1)
     \/ pos + 1 < size /\ Let = "*" /\ NextIs("/") /\ Goto(back, 2)
     \/ pos + 1 < size /\ ~(Let = "*" /\ NextIs("/")) /\ Goto(label, 1)
  /\ UNCHANGED <<keyVars, numVars, endc, strVars, tree, root, outVars>>

RootHashComment  == EolComment("RootHashComment", "UnknownRoot")
RootHashComment2 == StarComment("RootHashComment2", "UnknownRoot")
HashComment      == EolComment("HashComment", "Hash")
HashComment2     == StarComment("HashComment2", "Hash")
AC_Comment       == EolComment("AC_Comment", "AfterColon")
AC_Comment2      == StarComment("AC_Comment2", "Hash")

-----------------------------------------------------------------------------
(* Mutant: the type of the container left is kept.                         *)
Ascend_KeepsType ==
  /\ heap[cur].parent # nil
  /\ cur' = heap[cur].parent
  /\ UNCHANGED nodeType
  /\ Goto(HashOrAfterColon(nodeType'), 1)
  /\ UNCHANGED <<heap, outVars>>

(* Between the entries of a hash.                                          *)
Ascend ==
  /\ heap[cur].parent # nil
  /\ cur' = heap[cur].parent
  /\ nodeType' = heap[cur'].type
  /\ Goto(HashOrAfterColon(nodeType'), 1)
  /\ UNCHANGED <<heap, outVars>>

(* Mutant: the callback gets the last root in place of the one closed.     *)
EndRoot_Drops ==
  /\ heap[cur].parent = nil
  /\ IF onRootChunk
     THEN chunks' = <<cur>> /\ Goto("UnknownRoot", 1) /\ UNCHANGED remainder
     ELSE remainder' = Rest(pos + 1) /\ Done(1) /\ UNCHANGED chunks
  /\ UNCHANGED <<tree, err>>

(* Mutant: the callback gets the parent of the root.                       *)
EndRoot_Parent ==
  /\ heap[cur].parent = nil
  /\ IF onRootChunk
     THEN chunks' = Append(chunks, heap[cur].parent) /\ Goto("UnknownRoot", 1) /\ UNCHANGED remainder
     ELSE remainder' = Rest(pos + 1) /\ Done(1) /\ UNCHANGED chunks
  /\ UNCHANGED <<tree, err>>

(* A root that is closed goes to the callback, if there is one.            *)
EndRoot ==
  /\ heap[cur].parent = nil
  /\ IF onRootChunk
     THEN chunks' = Append(chunks, cur) /\ Goto("UnknownRoot", 1) /\ UNCHANGED remainder
     ELSE remainder' = Rest(pos + 1) /\ Done(1) /\ UNCHANGED chunks
  /\ UNCHANGED <<tree, err>>

Hash ==
  /\ At("Hash")
  /\ \/ Let = "}" /\ (Ascend \/ EndRoot) /\ UNCHANGED endc
     \/ /\ Let # "}" /\ UNCHANGED <<tree, outVars>>
        /\ \/ Let \in {"'", "\""} /\ endc' = Let /\ Goto("QKeyName1", 1)
           \/ Let \in Lower \cup Upper /\ Goto("KeyName1", 0) /\ UNCHANGED endc
           \/ /\ Let \notin Lower \cup Upper \cup {"'", "\""} /\ UNCHANGED endc
              /\ \/ Let = "/" /\ NextIs("/") /\ Goto("HashComment", 2)
                 \/ Let = "/" /\ NextIs("*") /\ Goto("HashComment2", 2)
                 \/ ~ CommentOpens /\ Goto("Hash", 1)
  /\ UNCHANGED <<keyVars, numVars, strVars, root>>

(* The first byte of a key is taken without being looked at, and without   *)
(* checking that there is one.                                             *)
FirstOfKey(label, next) ==
  /\ pc = label
  /\ keyStart' = pos
  /\ Goto(next, 1)
  /\ UNCHANGED <<args, key, numVars, endc, strVars, tree, root, outVars>>

QKeyName1 == FirstOfKey("QKeyName1", "QKeyNameX")
KeyName1  == FirstOfKey("KeyName1", "KeyNameX")

QKeyNameX ==
  /\ At("QKeyNameX")
  /\ IF Let = endc THEN key' = Since(keyStart) /\ Goto("Colon", 1)
                   ELSE Goto("QKeyNameX", 1) /\ UNCHANGED key
  /\ UNCHANGED <<keyStart, numVars, endc, strVars, tree, root, outVars>>

KeyNameX ==
  /\ At("KeyNameX")
  /\ \/ Let = ":" /\ key' = Since(keyStart) /\ Goto("AfterColon", 1)
     \/ Let \in {" ", "\t"} /\ key' = Since(keyStart) /\ Goto("Colon", 1)
     \/ Let \notin {":", " ", "\t"} /\ Goto("KeyNameX", 1) /\ UNCHANGED key
  /\ UNCHANGED <<keyStart, numVars, endc, strVars, tree, root, outVars>>

(* Mutant: a byte that is not the colon is looked at again.                *)
Colon_Stuck ==
  /\ At("Colon")
  /\ IF Let = ":" THEN Goto("AfterColon", 1) ELSE Goto("Colon", 0)
  /\ UNCHANGED <<keyVars, numVars, endc, strVars, tree, root, outVars>>

Colon ==
  /\ At("Colon")
  /\ Goto(IF Let = ":" THEN "AfterColon" ELSE "Colon", 1)
  /\ UNCHANGED <<keyVars, numVars, endc, strVars, tree, root, outVars>>

-----------------------------------------------------------------------------
(* A finished value goes into cur.                                         *)
Store(node, n) ==
  /\ heap' = Add(Append(heap, node), cur, key, Len(heap) + 1)
  /\ Goto(HashOrAfterColon(nodeType), n)
  /\ UNCHANGED <<cur, nodeType>>

(* Mutant: the container is entered before it is added.                    *)
Descend_First(node, label) ==
  /\ heap' = Add(Append(heap, node), Len(heap) + 1, key, Len(heap) + 1)
  /\ cur' = Len(heap) + 1
  /\ nodeType' = node.type
  /\ Goto(label, 1)

Descend(node, label) ==
  /\ heap' = Add(Append(heap, node), cur, key, Len(heap) + 1)
  /\ cur' = Len(heap) + 1
  /\ nodeType' = node.type
  /\ Goto(label, 1)

(* `]` leaves the innermost container, whatever it is.                     *)
CloseBracket ==
  LET up == heap[cur].parent
  IN  /\ cur' = up
      /\ IF up = nil
         THEN nodeType' = "none" /\ remainder' = Rest(pos + 1) /\ Done(1)
         ELSE /\ nodeType' = heap[up].type
              /\ Goto(HashOrAfterColon(nodeType'), 1) /\ UNCHANGED remainder
      /\ UNCHANGED <<heap, chunks, err>>

(* What follows the colon, or precedes an element of an array.             *)
StartValue ==
  \/ /\ Let \in {"\"", "'", Tick} /\ endc' = Let /\ Goto("String1", 1)
     /\ UNCHANGED <<typeStart, neg>>
  \/ /\ UNCHANGED endc
     /\ \/ Let \in Lower /\ typeStart' = pos /\ Goto("TypeX", 1) /\ UNCHANGED neg
        \/ Let \in Digit /\ neg' = FALSE /\ Goto("Number1", 1) /\ UNCHANGED typeStart
        \/ Let = "-" /\ neg' = TRUE /\ Goto("Number1", 2) /\ UNCHANGED typeStart
        \/ /\ UNCHANGED <<typeStart, neg>>
           /\ \/ Let = "/" /\ NextIs("/") /\ Goto("AC_Comment", 2)
              \/ Let = "/" /\ NextIs("*") /\ Goto("AC_Comment2", 2)
              \/ /\ Let \notin Lower \cup Digit \cup {"\"", "'", Tick, "{", "-", "[", "]"}
                 /\ ~ CommentOpens
                 /\ Goto("AfterColon", 1)

AfterColon ==
  /\ At("AfterColon")
  /\ \/ Let = "{" /\ Descend(NewJHash(cur), "Hash") /\ UNCHANGED <<numVars, endc, outVars>>
     \/ Let = "[" /\ Descend(NewJArr(cur), "AfterColon") /\ UNCHANGED <<numVars, endc, outVars>>
     \/ Let = "]" /\ CloseBracket /\ UNCHANGED <<numVars, endc>>
     \/ StartValue /\ UNCHANGED <<strStart, tree, outVars>>
  /\ UNCHANGED <<keyVars, strVars, root>>

(* Every handler returns dest = 0: the node is stored.  A word without a   *)
(* handler ends the parse with an error and the tree built so far.         *)
TypeX ==
  /\ At("TypeX")
  /\ \/ Let \in Lower \cup Digit /\ Goto("TypeX", 1) /\ UNCHANGED <<tree, err>>
     \/ /\ Let \notin Lower \cup Digit
        /\ IF Since(typeStart) \in DOMAIN Handlers
           THEN Store(NewJVal(Handlers[Since(typeStart)], <<>>), 0) /\ UNCHANGED err
           ELSE err' = "unknown type" /\ Goto("Returned", 0) /\ UNCHANGED tree
  /\ UNCHANGED <<keyVars, numVars, endc, strVars, root, chunks, remainder>>

Number1 ==
  /\ pc = "Number1"
  /\ strStart' = pos - 1
  /\ Goto("NumberX", 0)
  /\ UNCHANGED <<args, keyVars, typeStart, neg, endc, strVars, tree, root, outVars>>

NumberX ==
  /\ At("NumberX")
  /\ \/ Let = "." /\ Goto("AfterDot", 1) /\ UNCHANGED tree
     \/ Let \in Digit /\ Goto("NumberX", 1) /\ UNCHANGED tree
     \/ Let \notin Digit \cup {"."} /\ Store(NewJVal(IF neg THEN "neg" ELSE "pos", Since(strStart)), 0)
  /\ UNCHANGED <<keyVars, numVars, endc, strVars, root, outVars>>

(* Mutant: the byte that ends a fraction is consumed with it, as in C.     *)
AfterDot_Eats ==
  /\ At("AfterDot")
  /\ \/ Let \in Digit /\ Goto("AfterDot", 1) /\ UNCHANGED tree
     \/ Let \notin Digit /\ Store(NewJVal(IF neg THEN "float_neg" ELSE "float_pos", Since(strStart)), 1)
  /\ UNCHANGED <<keyVars, numVars, endc, strVars, root, outVars>>

AfterDot ==
  /\ At("AfterDot")
  /\ \/ Let \in Digit /\ Goto("AfterDot", 1) /\ UNCHANGED tree
     \/ Let \notin Digit /\ Store(NewJVal(IF neg THEN "float_neg" ELSE "float_pos", Since(strStart)), 0)
  /\ UNCHANGED <<keyVars, numVars, endc, strVars, root, outVars>>

-----------------------------------------------------------------------------
(* Strings are copied piece by piece: str is what has been copied, and     *)
(* substrStart is where the piece not copied yet begins.                   *)
String1 ==
  /\ At("String1")
  /\ str' = <<>> /\ substrStart' = pos
  /\ \/ Let = endc /\ Store(NewJVal("str", <<>>), 1) /\ UNCHANGED strStart
     \/ Let # endc /\ Let = "\\" /\ Goto("Escape", 1) /\ UNCHANGED <<strStart, tree>>
     \/ Let \notin {endc, "\\"} /\ strStart' = pos /\ Goto("StringX", 1) /\ UNCHANGED tree
  /\ UNCHANGED <<keyVars, typeStart, neg, endc, root, outVars>>

StringX ==
  /\ At("StringX")
  /\ \/ /\ Let = endc
        /\ str' = str \o Since(substrStart)
        /\ Store(NewJVal("str", str'), 1)
     \/ Let # endc /\ Goto(IF Let = "\\" THEN "Escape" ELSE "StringX", 1) /\ UNCHANGED <<str, tree>>
  /\ UNCHANGED <<keyVars, numVars, endc, substrStart, root, outVars>>

(* Mutant: the piece after an escaped quote starts one byte too late.      *)
Escape_Skips ==
  /\ At("Escape")
  /\ Goto("StringX", 1)
  /\ \/ /\ Let = endc
        /\ str' = str \o SubSeq(data, substrStart + 1, pos - 1) \o <<endc>>
        /\ substrStart' = pos + 2
     \/ Let = "\\" /\ str' = str \o Since(substrStart) \o <<"\\">> /\ substrStart' = pos + 1
     \/ Let \notin {endc, "\\"} /\ UNCHANGED <<str, substrStart>>
  /\ UNCHANGED <<keyVars, numVars, endc, tree, root, outVars>>

(* An escaped closing quote is decoded; every other escape is kept as it   *)
(* is written.                                                             *)
Escape ==
  /\ At("Escape")
  /\ Goto("StringX", 1)
  /\ \/ /\ Let = endc
        /\ str' = str \o SubSeq(data, substrStart + 1, pos - 1) \o <<endc>>
        /\ substrStart' = pos + 1
     \/ Let = "\\" /\ str' = str \o Since(substrStart) \o <<"\\">> /\ substrStart' = pos + 1
     \/ Let \notin {endc, "\\"} /\ UNCHANGED <<str, substrStart>>
  /\ UNCHANGED <<keyVars, numVars, endc, tree, root, outVars>>

-----------------------------------------------------------------------------
Step ==
  \/ OverrunAt \/ OverEnd
  \/ UnknownRoot \/ RootHashComment \/ RootHashComment2
  \/ Hash \/ HashComment \/ HashComment2
  \/ QKeyName1 \/ QKeyNameX \/ KeyName1 \/ KeyNameX \/ Colon
  \/ AfterColon \/ TypeX \/ AC_Comment \/ AC_Comment2
  \/ Number1 \/ NumberX \/ AfterDot \/ String1 \/ StringX \/ Escape

Stopped == pc = "Returned" /\ UNCHANGED vars

Next == Step \/ Stopped

(* ParseFull is an ordinary function: once called it keeps running.        *)
Spec == Init /\ [][Next]_vars /\ WF_vars(Step)

-----------------------------------------------------------------------------
Nodes == 1 .. Len(heap)

(* The type invariant.                                                     *)
TypeOK ==
  /\ data \in Seq(STRING) /\ onRootChunk \in BOOLEAN
  /\ pc \in RootScan \cup InRoot \cup {"OverEnd", "Returned"}
  /\ pos \in Nat
  /\ keyStart \in Nat /\ key \in Seq(STRING)
  /\ typeStart \in Nat /\ strStart \in Int /\ neg \in BOOLEAN
  /\ endc \in STRING /\ str \in Seq(STRING) /\ substrStart \in Nat
  /\ \A n \in Nodes :
       /\ heap[n].type \in NodeTypes
       /\ heap[n].parent \in 0 .. n - 1
       /\ heap[n].arr \in Seq(Nodes)
       /\ \A k \in DOMAIN heap[n].hash : heap[n].hash[k] \in Nodes
  /\ cur \in Nodes \cup {nil} /\ root \in Nodes \cup {nil}
  /\ nodeType \in Containers \cup {"none"}
  /\ chunks \in Seq(Nodes)
  /\ remainder \in Seq(STRING)
  /\ err \in {"none", "JSON Incomplete", "unknown type"}

(* nodeType is a copy of cur's type, kept by every statement that changes  *)
(* cur; HashOrAfterColon relies on the copy.  Inside a root cur is always a *)
(* container and the copy is never stale.                                  *)
NodeTypeIsCurs == pc \in InRoot => cur # nil /\ nodeType = heap[cur].type

(* Slices are cut with a start noted at an earlier label.  Where a label   *)
(* will cut one, the start is not behind the byte to be read: of all reads  *)
(* of data only those of GetPosInfo can panic.                             *)
SlicesInBounds ==
  /\ pc \in {"QKeyNameX", "KeyNameX"} => keyStart <= pos
  /\ pc = "TypeX" => typeStart <= pos
  /\ pc \in {"NumberX", "AfterDot"} => 0 <= strStart /\ strStart <= pos
  /\ pc = "StringX" => substrStart <= pos
  /\ pc = "Escape" => substrStart <= pos - 1

IsChild(h, n, p) ==
  \/ h[p].type = "hash" /\ \E k \in DOMAIN h[p].hash : h[p].hash[k] = n
  \/ h[p].type = "arr" /\ \E i \in 1 .. Len(h[p].arr) : h[p].arr[i] = n

(* The containers still open, from cur up.                                 *)
OpenPath ==
  LET up[n \in Nodes \cup {nil}] == IF n = nil THEN {} ELSE {n} \cup up[heap[n].parent]
  IN  up[cur]

(* A container is put into its parent when it is opened and nothing takes   *)
(* it out, by storing the same key again, while it is open: what is being   *)
(* filled is always part of the tree that root will return.                *)
OpenAreInTree ==
  pc \in InRoot =>
    /\ root \in OpenPath
    /\ \A n \in OpenPath \ {root} : IsChild(heap, n, heap[n].parent)

(* ParseFull returns, whatever the data: no label gives back for ever what *)
(* another has read.                                                       *)
Termination == <>(pc = "Returned")
=============================================================================
